-------------------------- MODULE MCThresholdShamir --------------------------
(* Constants for TLC: a small field tried exhaustively, and Kyber's field  *)
(* with its 3-of-5 sharing on representative coefficients.                 *)
EXTENDS ThresholdShamir

SmallSecrets == -3..3
SmallCoeffs  == 0..6
KyberSecrets == {-1664, -1, 0, 1, 1664}
KyberCoeffs  == {0, 1, 1665, 3328}
=============================================================================
