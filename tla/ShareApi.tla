------------------------------- MODULE ShareApi -------------------------------
(***************************************************************************)
(* Digits and answers of a shareholder's HTTP interface, whether a request *)
(* is looked at whole (ShareServer) or arrives in pieces (RequestBody).    *)
(***************************************************************************)
EXTENDS Integers, Sequences

CONSTANT Missing  \* in place of a number that a body has no field for

ASSUME MissingAssumption == Missing \notin Int

(* hex_val: a digit's value, -1 for any other character.                   *)
HexVal == -1..15

(* hex_decode, of at least 2 * n good digits.                              *)
Decode(hex, n) == [i \in 1..n |-> 16 * hex[2 * i - 1] + hex[2 * i]]

(* The first n bytes of a hex string, if it has that many.                 *)
StartsWith(hex, n) ==
  Len(hex) >= 2 * n /\ \A i \in 1..(2 * n) : hex[i] # -1

(* The numbers that /store_share asks for are there; any value will do.    *)
Numbered(r) == r.party # Missing /\ r.x # Missing

(* send_json, of a body without a partial.                                 *)
Answer(code) == [code |-> code, x |-> 0, share |-> << >>, ct |-> << >>]
=============================================================================
