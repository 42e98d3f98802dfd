----------------------------- MODULE FieldArith -----------------------------
(***************************************************************************)
(* The integer helpers of src/kyber/threshold.c: reduction to [0, q), to   *)
(* the centred range, and the extended-Euclid inverse, loop round by loop  *)
(* round.                                                                  *)
(***************************************************************************)
EXTENDS Integers

CONSTANT Q  \* KYBER_Q

ASSUME QAssumption == Q \in Nat \ {0, 1}

(* C's a % Q takes the sign of a.                                          *)
CRem(a) == IF a >= 0 THEN a % Q ELSE -((-a) % Q)

mod_q(a) == LET r == CRem(a) IN IF r < 0 THEN r + Q ELSE r

(* Mutant of center_q: the middle value is taken for a negative one.       *)
CenterQOffByOne(a) == LET r == mod_q(a) IN IF r >= Q \div 2 THEN r - Q ELSE r

center_q(a) == LET r == mod_q(a) IN IF r > Q \div 2 THEN r - Q ELSE r

Euclid == [t : Int, newt : Int, r : Nat, newr : Nat]

EuclidInit(a) == [t |-> 0, newt |-> 1, r |-> Q, newr |-> mod_q(a)]

(* Mutants of EuclidStep: the quotient one too small when the division is  *)
(* exact; newt is updated from the t it has just replaced.                 *)
EuclidStepShort(s) ==
  LET quot == (s.r - 1) \div s.newr IN
  [t |-> s.newt, newt |-> s.t - quot * s.newt,
   r |-> s.newr, newr |-> s.r - quot * s.newr]

EuclidStepSwapped(s) ==
  LET quot == s.r \div s.newr IN
  [t |-> s.newt, newt |-> s.newt - quot * s.newt,
   r |-> s.newr, newr |-> s.r - quot * s.newr]

(* One round of the loop in mod_inverse_q.                                 *)
EuclidStep(s) ==
  LET quot == s.r \div s.newr IN
  [t |-> s.newt, newt |-> s.t - quot * s.newt,
   r |-> s.newr, newr |-> s.r - quot * s.newr]

EuclidLoop[s \in Euclid] ==
  IF s.newr = 0 THEN s ELSE EuclidLoop[EuclidStep(s)]

mod_inverse_q(a) == mod_q(EuclidLoop[EuclidInit(a)].t)
=============================================================================
