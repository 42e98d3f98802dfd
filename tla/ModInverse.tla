----------------------------- MODULE ModInverse -----------------------------
(***************************************************************************)
(* mod_inverse_q of src/kyber/threshold.c as the loop it is: one action    *)
(* per round.                                                              *)
(***************************************************************************)
EXTENDS FieldArith

CONSTANT Inputs  \* the arguments to try

ASSUME InputsAssumption == Inputs \subseteq Int

VARIABLES
  a,  \* the argument
  s   \* t, newt, r, newr

vars == <<a, s>>

Init == a \in Inputs /\ s = EuclidInit(a)

Round == s.newr # 0 /\ s' = EuclidStep(s) /\ UNCHANGED a

Spec == Init /\ [][Round]_vars

Done == s.newr = 0

Divides(d, x) == x = d * (x \div d)

(* The loop invariant: t and newt stay coefficients of a for the two       *)
(* remainders, modulo Q (threshold.c:36-47).                               *)
Bezout ==
  /\ s \in Euclid
  /\ Divides(Q, s.t * a - s.r)
  /\ Divides(Q, s.newt * a - s.newr)

(* Every argument that is not a multiple of Q gets its inverse, zero gets  *)
(* zero, and the coefficients never leave [-Q, Q], so no product leaves an *)
(* int32 (threshold.c:30-50).                                              *)
InverseFound ==
  /\ s.t \in -Q..Q /\ s.newt \in -Q..Q
  /\ (Done /\ a % Q # 0) => (mod_q(s.t) * a) % Q = 1
  /\ (Done /\ a % Q = 0) => mod_q(s.t) = 0

(* The loop ends: the remainder shrinks in every round (threshold.c:36).   *)
Shrinks == [][s'.newr < s.newr /\ s'.r > s'.newr]_vars
=============================================================================
