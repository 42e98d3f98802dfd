---------------------------- MODULE ShamirArith ----------------------------
(***************************************************************************)
(* threshold_split_secret and threshold_combine of src/kyber/threshold.c   *)
(* for one coefficient; the C code does the same for each of the 768,      *)
(* independently.                                                          *)
(***************************************************************************)
EXTENDS FieldArith, Sequences

(* The inner loop of threshold_split_secret: y and the running power.      *)
EvalPoly(poly, x) ==
  LET loop[j \in 0..Len(poly)] ==
        IF j = 0 THEN [y |-> 0, power |-> 1]
        ELSE [y |-> mod_q(loop[j - 1].y + poly[j] * loop[j - 1].power),
              power |-> mod_q(loop[j - 1].power * x)]
  IN loop[Len(poly)].y

SplitShares(n, poly) == [i \in 1..n |-> center_q(EvalPoly(poly, i))]

(* Mutant of Deal: one random coefficient too few.                         *)
DealShort(k, sec, r) ==
  [j \in 1..k |-> IF j = 1 THEN mod_q(sec) ELSE IF j = k THEN 0 ELSE r[j]]

(* coeffs[]: the secret, and k - 1 random values.                          *)
Deal(k, sec, r) == [j \in 1..k |-> IF j = 1 THEN mod_q(sec) ELSE r[j]]

(* The products over j # i of threshold_combine.                           *)
Product(factors, i) ==
  LET loop[j \in 0..Len(factors)] ==
        IF j = 0 THEN 1
        ELSE IF j = i THEN loop[j - 1]
        ELSE mod_q(loop[j - 1] * factors[j])
  IN loop[Len(factors)]

(* Mutant of Lagrange: the numerator loses its sign.                       *)
LagrangeUnsigned(points, i) ==
  LET num == Product([j \in 1..Len(points) |-> points[j]], i)
      den == Product([j \in 1..Len(points) |-> points[i] - points[j]], i)
  IN <<num, mod_inverse_q(den)>>

(* num and the inverse of den for the i-th partial.                        *)
Lagrange(points, i) ==
  LET num == Product([j \in 1..Len(points) |-> -points[j]], i)
      den == Product([j \in 1..Len(points) |-> points[i] - points[j]], i)
  IN <<num, mod_inverse_q(den)>>

CombineAt(points, values) ==
  LET loop[i \in 0..Len(points)] ==
        IF i = 0 THEN 0
        ELSE LET l == Lagrange(points, i)
                 term == mod_q(mod_q(values[i] * l[1]) * l[2])
             IN mod_q(loop[i - 1] + term)
  IN center_q(loop[Len(points)])
=============================================================================
