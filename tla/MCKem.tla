------------------------------- MODULE MCKem -------------------------------
(* Ciphertexts that arrive untouched, slightly changed in either field, or  *)
(* far enough off to decrypt to the other message.                          *)
EXTENDS Kem

MCNoise == {-2, 1}
MCFlips == {<<0, 0>>, <<1, 0>>, <<0, 1>>, <<512, 0>>, <<0, 8>>, <<1023, 15>>}
=============================================================================
