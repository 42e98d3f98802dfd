------------------------------- MODULE MCRing -------------------------------
(* The transforms or the codecs.  Operands: monomials that wrap around     *)
(* X^256 + 1 or not, in each component, and dense elements at the largest  *)
(* coefficients the code multiplies.  Groups: every coefficient in every   *)
(* position beside extreme neighbours, and messages under extreme noise.   *)
EXTENDS Ntt, Serialize

Monomial(d, c) == [i \in Index |-> IF i = d THEN c ELSE 0]
Dense(c, s) == [i \in Index |-> IF i % 3 = 0 THEN s * c ELSE c]

Degrees == {0, 1, 127, 128, 254, 255}

MCOperands ==
  {<< <<Monomial(d, 1), Monomial(255 - d, -1664), Zero>>,
      <<Monomial(e, 3328), Monomial(d, 1), Monomial(e, 5)>> >> : d \in Degrees, e \in Degrees}
  \cup {<< <<Zero, Zero, Monomial(d, 7)>>,
           <<Zero, Monomial(3, 1), Dense(3328, s)>> >> : d \in Degrees, s \in {1, -1}}
  \cup {<< <<Dense(3328, -1), Dense(3328, 1), Dense(-3328, 1)>>,
           <<Dense(-3328, 1), Dense(3328, 1), Dense(-3328, -1)>> >>}

Edges  == {-1664, -1, 1664}

Pairs == {<<c, d>> : c \in Coefficient, d \in Edges} \cup {<<d, c>> : c \in Coefficient, d \in Edges}
Quads == {[i \in 1..4 |-> IF i = j THEN c ELSE d] : c \in Coefficient, d \in Edges, j \in 1..4}

MCGroups == [bytes |-> Pairs, dv |-> Pairs, du |-> Quads]
MCMessages == {0, 1, 85, 128, 170, 254, 255}
MCNoises ==
  {[i \in 1..8 |-> IF i = j THEN c ELSE d] :
     j \in {1, 4, 8}, c \in {-833, -832, -1, 0, 831, 832}, d \in {-832, 0, 831}}

(* The one that is not checked has nothing to do.                          *)
WireIdle ==
  /\ kind = "none" /\ stage = "idle"
  /\ coeffs = << >> /\ noise = << >> /\ wire = << >> /\ out = << >>

NttIdle ==
  /\ pc = "idle" /\ len = 0 /\ k = 0
  /\ tmp = << >> /\ zetas = << >> /\ pair = << >> /\ f = << >> /\ g = << >> /\ prod = << >>

RingInit == (Init /\ WireIdle) \/ (WireInit /\ NttIdle)

RingNext == (Next /\ UNCHANGED wireVars) \/ (WireNext /\ UNCHANGED vars)

RingSpec == RingInit /\ [][RingNext]_<<vars, wireVars>>
=============================================================================
