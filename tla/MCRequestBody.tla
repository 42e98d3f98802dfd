---------------------------- MODULE MCRequestBody ----------------------------
(* One-byte ciphertexts and two-byte shares; a buffer that holds a good    *)
(* body and cuts one with a longer share, which the parser then cuts again.*)
EXTENDS RequestRefinement

Post(route, i, n, hex) ==
  [method |-> "POST", url |-> route, party |-> i, x |-> n, hex |-> hex]
Store(i, n, hex) == Post("store_share", i, n, hex)
Decrypt(hex)     == Post("partial_decrypt", Missing, Missing, hex)
Probe(m) == [method |-> m, url |-> "health", party |-> Missing, x |-> Missing, hex |-> << >>]

(* Good shares, one of them for x = 0; one too short, one too long, one    *)
(* with a bad digit, one without x, one without party_index; ciphertexts   *)
(* good, bad and missing; both kinds of probe.                             *)
MCRequests ==
  {Store(1, 1, <<1, 2, 3, 4>>), Store(2, 0, <<5, 6, 7, 8>>), Store(2, 2, <<5, 6>>),
   Store(3, 3, <<9, 10, 11, 12, 13, 14>>), Store(2, 2, <<5, -1, 7, 8>>),
   Store(2, Missing, <<5, 6, 7, 8>>), Store(Missing, 2, <<5, 6, 7, 8>>),
   Decrypt(<<15, 0>>), Decrypt(<<15, -1>>), Decrypt(<< >>),
   Probe("GET"), Probe("HEAD")}
=============================================================================
