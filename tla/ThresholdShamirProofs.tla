----------------------- MODULE ThresholdShamirProofs -----------------------
(***************************************************************************)
(* The sharing and its combination, for every prime modulus, number of     *)
(* parties and threshold: enough partials recover the product, one too few *)
(* say nothing of the secret.                                              *)
(***************************************************************************)
EXTENDS ThresholdShamir, ArithmeticProofs, FiniteSetTheorems

(* What the split leaves behind.                                           *)
Dealt ==
  /\ secret \in Secrets
  /\ coeffs \in [1..Threshold -> Int] /\ coeffs[1] = mod_q(secret)
  /\ shares = SplitShares(N, coeffs)

(* What the coordinator has been sent.                                     *)
Answered ==
  /\ factor \in Factors
  /\ \E k \in Ks : /\ xs \in [1..k -> Points]
                   /\ partials = [i \in 1..k |-> mod_q(shares[xs[i]] * factor)]

ShamirInv ==
  /\ pc \in {"split", "ask", "combine", "done"}
  /\ pc # "split" => Dealt
  /\ pc \in {"combine", "done"} => Answered
  /\ pc = "done" => out = CombineAt(xs, partials)

LEMMA DealType ==
  ASSUME NEW sec \in Int, NEW r \in [2..Threshold -> 0..(Q - 1)]
  PROVE  /\ Deal(Threshold, sec, r) \in [1..Threshold -> 0..(Q - 1)]
         /\ Deal(Threshold, sec, r)[1] = mod_q(sec)
<1>1. mod_q(sec) \in 0..(Q - 1)
  BY ModQRange
<1>2. Threshold \in Nat \ {0} /\ 1 \in 1..Threshold
  BY ShamirAssumption
<1>3. \A j \in 1..Threshold : j # 1 => r[j] \in 0..(Q - 1)
  BY <1>2
<1> QED BY <1>1, <1>2, <1>3 DEF Deal

LEMMA SplitInv ==
  ASSUME ShamirInv, Split
  PROVE  ShamirInv'
<1>1. PICK sec \in Secrets, r \in [2..Threshold -> Coeffs] :
        secret' = sec /\ coeffs' = Deal(Threshold, sec, r)
  BY DEF Split
<1>2. sec \in Int /\ r \in [2..Threshold -> 0..(Q - 1)]
  BY <1>1, ShamirAssumption
<1>3. coeffs' \in [1..Threshold -> 0..(Q - 1)] /\ coeffs'[1] = mod_q(sec)
  BY <1>1, <1>2, DealType
<1>4. coeffs' \in [1..Threshold -> Int]
  BY <1>3, QAssumption
<1>5. Dealt'
  BY <1>1, <1>3, <1>4 DEF Dealt, Split
<1> QED BY <1>5 DEF ShamirInv, Split

LEMMA PartialDecryptInv ==
  ASSUME ShamirInv, PartialDecrypt
  PROVE  ShamirInv'
<1>1. PICK k \in Ks : \E list \in [1..k -> Points], f \in Factors :
        /\ xs' = list /\ factor' = f
        /\ partials' = [i \in 1..k |-> mod_q(shares[list[i]] * f)]
  BY DEF PartialDecrypt
<1>2. PICK list \in [1..k -> Points], f \in Factors :
        /\ xs' = list /\ factor' = f
        /\ partials' = [i \in 1..k |-> mod_q(shares[list[i]] * f)]
  BY <1>1
<1>3. shares' = shares /\ pc' = "combine" /\ pc = "ask"
      /\ secret' = secret /\ coeffs' = coeffs
  BY DEF PartialDecrypt
<1>4. Answered'
  BY <1>2, <1>3 DEF Answered
<1>5. Dealt'
  BY <1>3 DEF ShamirInv, Dealt
<1> QED BY <1>3, <1>4, <1>5 DEF ShamirInv

(* The dealt coefficients, the answers and the combination hang together   *)
(* in every state.                                                         *)
LEMMA ShamirInvariant == Spec => []ShamirInv
<1>1. Init => ShamirInv
  BY DEF Init, ShamirInv
<1>2. ShamirInv /\ [Next]_vars => ShamirInv'
  <2> SUFFICES ASSUME ShamirInv, [Next]_vars PROVE ShamirInv'
    OBVIOUS
  <2>1. CASE Split
    BY <2>1, SplitInv
  <2>2. CASE PartialDecrypt
    BY <2>2, PartialDecryptInv
  <2>3. CASE Combine
    BY <2>3 DEF Combine, ShamirInv, Dealt, Answered
  <2>4. CASE UNCHANGED vars
    BY <2>4 DEF vars, ShamirInv, Dealt, Answered
  <2> QED BY <2>1, <2>2, <2>3, <2>4 DEF Next
<1> QED BY <1>1, <1>2, PTL DEF Spec

(* Any k >= Threshold different holders' partials combine to the product.  *)
LEMMA InvRecovers ==
  ASSUME QIsPrime, ShamirInv
  PROVE  CombineRecovers
<1> SUFFICES ASSUME pc = "done", DistinctPoints(xs), Len(xs) >= Threshold
             PROVE  /\ out \in -(Q \div 2)..(Q \div 2)
                    /\ (out - secret * factor) % Q = 0
  BY DEF CombineRecovers
<1>1. Dealt /\ Answered /\ out = CombineAt(xs, partials)
  BY DEF ShamirInv
<1>2. PICK k \in Ks : /\ xs \in [1..k -> Points]
                      /\ partials = [i \in 1..k |-> mod_q(shares[xs[i]] * factor)]
  BY <1>1 DEF Answered
<1>3. k \in Nat /\ Len(xs) = k /\ Threshold \in Nat \ {0} /\ Threshold <= k
  <2>1. k \in Nat /\ Threshold \in Nat \ {0}
    BY ShamirAssumption
  <2>2. Len(xs) = k
    BY <1>2, <2>1, LenIs
  <2> QED BY <2>1, <2>2
<1>4. xs \in [1..k -> 1..N] /\ \A i, j \in 1..k : i # j => xs[i] # xs[j]
  BY <1>2, <1>3 DEF DistinctPoints, Points
<1>5. factor \in Int /\ secret \in Int /\ N \in 0..(Q - 1)
  BY <1>1, ShamirAssumption, QAssumption DEF Dealt, Answered
<1>6. /\ coeffs \in [1..Threshold -> Int] /\ coeffs[1] = mod_q(secret)
      /\ partials = Answers(N, coeffs, xs, factor)
  <2>1. DOMAIN xs = 1..k
    BY <1>2
  <2>2. shares = SplitShares(N, coeffs)
    BY <1>1 DEF Dealt
  <2> QED BY <1>1, <1>2, <2>1, <2>2 DEF Answers, Dealt
<1>7. /\ out \in -(Q \div 2)..(Q \div 2) /\ out \in Int
      /\ Cong(out, coeffs[1] * factor)
  BY <1>1, <1>3, <1>4, <1>5, <1>6, SharedProduct
<1>8. (out - secret * factor) % Q = 0
  <2> DEFINE p == secret * factor
             c == coeffs[1]
             cf == c * factor
  <2>1. c \in Int /\ Cong(c, secret)
    BY <1>5, <1>6, ModQCong
  <2> HIDE DEF c
  <2>2. Cong(factor * c, factor * secret)
    BY <1>5, <2>1, CongScale
  <2>3. factor * c = cf /\ factor * secret = p
    BY <1>5, <2>1
  <2>4. cf \in Int
    BY ONLY <1>5, <2>1
  <2>5. p \in Int
    BY ONLY <1>5
  <2>6. Cong(out, cf) /\ Cong(cf, p)
    BY <1>7, <2>2, <2>3 DEF c
  <2> HIDE DEF p, cf
  <2>7. Cong(out, p)
    BY <1>7, <2>4, <2>5, <2>6, CongTrans
  <2>8. (out - p) % Q = 0
    BY <1>7, <2>5, <2>7, CongRem
  <2> QED BY <2>8 DEF p
<1> QED BY <1>7, <1>8

(* From every sharing over a prime field, whatever the secret, its random  *)
(* coefficients, the public factor, and which holders answer in whatever   *)
(* order, k >= Threshold different ones are combined to the product of the *)
(* secret and the factor, centred (threshold.c:75-144).                    *)
THEOREM CombineAlwaysRecovers ==
  ASSUME QIsPrime
  PROVE  Spec => []CombineRecovers
<1>1. ShamirInv => CombineRecovers
  BY InvRecovers
<1> QED BY <1>1, ShamirInvariant, PTL

(* A set of points is finite and can be written as a list.                 *)
LEMMA PointsListed ==
  ASSUME NEW P \in SUBSET Points
  PROVE  \E list \in [1..Cardinality(P) -> P] :
           /\ Cardinality(P) \in Nat
           /\ \A i \in P : \E m \in 1..Cardinality(P) : list[m] = i
           /\ \A m, l \in 1..Cardinality(P) : m # l => list[m] # list[l]
<1>1. N \in Int
  BY ShamirAssumption, QAssumption
<1>2. IsFiniteSet(Points)
  BY <1>1, FS_Interval DEF Points
<1>3. IsFiniteSet(P)
  BY <1>2, FS_Subset
<1>4. Cardinality(P) \in Nat /\ ExistsBijection(1..Cardinality(P), P)
  BY <1>3, FS_CardinalityType
<1>5. PICK list : list \in Bijection(1..Cardinality(P), P)
  BY <1>4 DEF ExistsBijection
<1>6. /\ list \in [1..Cardinality(P) -> P]
      /\ \A m, l \in 1..Cardinality(P) : m # l => list[m] # list[l]
  BY <1>5 DEF Bijection, Injection, IsInjective
<1>7. \A i \in P : \E m \in 1..Cardinality(P) : list[m] = i
  BY <1>5 DEF Bijection, Surjection
<1> QED BY <1>4, <1>6, <1>7

(* Two integers that agree modulo Q have the same centred residue.         *)
LEMMA CenterOfCong ==
  ASSUME NEW x \in 0..(Q - 1), NEW y \in 0..(Q - 1), Cong(x, y)
  PROVE  x = y
<1>1. PICK k \in Int : x - y = k * Q
  BY DEF Cong
<1> QED BY <1>1, ResidueUnique

(* With one holder too few, any secret fits the shares held: the point 0   *)
(* and the holders' points determine a polynomial with any value at 0.     *)
LEMMA OtherPolynomial ==
  ASSUME QIsPrime, Dealt, NEW P \in SUBSET Points, Cardinality(P) = Threshold - 1,
         NEW sec \in Int
  PROVE  \E poly \in [1..Threshold -> 0..(Q - 1)] :
           /\ poly[1] = mod_q(sec)
           /\ \A i \in P : EvalPoly(poly, i) = EvalPoly(coeffs, i)
<1>0. Threshold \in Nat \ {0} /\ Threshold \in Nat
  BY ShamirAssumption
<1>1. PICK list \in [1..(Threshold - 1) -> P] :
        /\ \A i \in P : \E m \in 1..(Threshold - 1) : list[m] = i
        /\ \A m, l \in 1..(Threshold - 1) : m # l => list[m] # list[l]
  BY PointsListed
<1>2. \A m \in 1..(Threshold - 1) : list[m] \in 1..N
  BY <1>1 DEF Points
<1> DEFINE points == [m \in 1..Threshold |-> IF m = 1 THEN 0 ELSE list[m - 1]]
           values == [m \in 1..Threshold |->
                        IF m = 1 THEN sec ELSE EvalPoly(coeffs, list[m - 1])]
<1>3. ASSUME NEW m \in 1..Threshold, m # 1
      PROVE  /\ m - 1 \in 1..(Threshold - 1)
             /\ list[m - 1] \in 1..N /\ list[m - 1] \in Int
             /\ EvalPoly(coeffs, list[m - 1]) \in Int
  <2>1. m - 1 \in 1..(Threshold - 1)
    BY <1>0, <1>3
  <2>2. list[m - 1] \in 1..N
    BY <1>2, <2>1
  <2>3. list[m - 1] \in Int
    BY <2>2, ShamirAssumption
  <2>4. coeffs \in [1..Threshold -> Int]
    BY DEF Dealt
  <2>5. EvalPoly(coeffs, list[m - 1]) \in 0..(Q - 1)
    BY <1>0, <2>3, <2>4, EvalPolyRange
  <2>6. \A e \in 0..(Q - 1) : e \in Int
    BY QAssumption
  <2> QED BY <2>1, <2>2, <2>3, <2>5, <2>6
<1>4. points \in [1..Threshold -> 0..N]
  <2>1. \A m \in 1..Threshold : m # 1 => list[m - 1] \in 0..N
    BY <1>3, ShamirAssumption, QAssumption
  <2>2. 0 \in 0..N
    BY ShamirAssumption, QAssumption
  <2> QED BY <2>1, <2>2
<1>5. values \in [1..Threshold -> Int]
  BY <1>3
<1>6. \A m, l \in 1..Threshold : m # l => points[m] # points[l]
  <2> SUFFICES ASSUME NEW m \in 1..Threshold, NEW l \in 1..Threshold, m # l
               PROVE  points[m] # points[l]
    OBVIOUS
  <2>1. CASE m = 1
    <3>1. l # 1
      BY <2>1
    <3>2. points[m] = 0 /\ points[l] = list[l - 1]
      BY <2>1, <3>1
    <3>3. list[l - 1] \in 1..N
      BY <1>3, <3>1
    <3> QED BY <3>2, <3>3, ShamirAssumption
  <2>2. CASE l = 1
    <3>1. m # 1
      BY <2>2
    <3>2. points[l] = 0 /\ points[m] = list[m - 1]
      BY <2>2, <3>1
    <3>3. list[m - 1] \in 1..N
      BY <1>3, <3>1
    <3> QED BY <3>2, <3>3, ShamirAssumption
  <2>3. CASE m # 1 /\ l # 1
    <3>1. m - 1 # l - 1
      BY <1>0
    <3>2. m - 1 \in 1..(Threshold - 1) /\ l - 1 \in 1..(Threshold - 1)
      BY <1>3, <2>3
    <3>3. list[m - 1] # list[l - 1]
      BY <1>1, <3>1, <3>2
    <3> QED BY <2>3, <3>3
  <2> QED BY <2>1, <2>2, <2>3
<1>7. Apart(points, Threshold) /\ points \in [1..Threshold -> Int]
  <2>1. N \in 0..(Q - 1)
    BY ShamirAssumption, QAssumption
  <2> HIDE DEF points
  <2> QED BY <1>0, <1>4, <1>6, <2>1, PointsApart
<1>8. /\ 1 \in 1..Threshold /\ points[1] = 0 /\ values[1] = sec
      /\ \A m \in 1..Threshold : m # 1 =>
           points[m] = list[m - 1] /\ values[m] = EvalPoly(coeffs, list[m - 1])
  BY <1>0
<1> HIDE DEF points, values
<1>9. PICK poly \in [1..Threshold -> 0..(Q - 1)] :
        \A m \in 1..Threshold : Cong(EvalPoly(poly, points[m]), values[m])
  BY <1>0, <1>5, <1>7, Interpolation
<1>10. poly \in [1..Threshold -> Int] /\ poly[1] \in 0..(Q - 1) /\ poly[1] \in Int
  BY <1>8, QAssumption
<1>11. poly[1] = mod_q(sec)
  <2> DEFINE e == EvalPoly(poly, 0)
             c == poly[1]
             r == mod_q(sec)
  <2>1. Cong(e, c) /\ Cong(e, sec)
    BY <1>0, <1>8, <1>9, <1>10, EvalAtZero
  <2>2. e \in Int /\ c \in Int
    BY <1>0, <1>10, EvalPolyRange, QAssumption
  <2>3. r \in 0..(Q - 1)
    BY ModQRange
  <2>4. c \in 0..(Q - 1)
    BY <1>10
  <2>5. r \in Int /\ Cong(r, sec)
    BY ModQCong
  <2> HIDE DEF e, c, r
  <2>6. Cong(c, e)
    BY <2>1, <2>2, CongSym
  <2>7. Cong(c, sec)
    BY <2>1, <2>2, <2>6, CongTrans
  <2>8. Cong(sec, r)
    BY <2>5, CongSym
  <2>9. Cong(c, r)
    BY <2>2, <2>5, <2>7, <2>8, CongTrans
  <2>10. c = r
    BY <2>3, <2>4, <2>9, CenterOfCong
  <2> QED BY <2>10 DEF c, r
<1>12. ASSUME NEW i \in P PROVE EvalPoly(poly, i) = EvalPoly(coeffs, i)
  <2>1. PICK l \in 1..(Threshold - 1) : list[l] = i
    BY <1>1
  <2>2. l + 1 \in 1..Threshold /\ l + 1 # 1 /\ (l + 1) - 1 = l
    BY <1>0, <2>1
  <2>3. points[l + 1] = i /\ values[l + 1] = EvalPoly(coeffs, i)
    BY <1>8, <2>1, <2>2
  <2>4. i \in Int
    BY <1>2, <2>1, ShamirAssumption
  <2>5. EvalPoly(poly, i) \in 0..(Q - 1) /\ EvalPoly(coeffs, i) \in 0..(Q - 1)
    BY <1>0, <1>10, <2>4, EvalPolyRange DEF Dealt
  <2>6. Cong(EvalPoly(poly, i), EvalPoly(coeffs, i))
    BY <1>9, <2>2, <2>3
  <2> QED BY <2>5, <2>6, CenterOfCong
<1> QED BY <1>11, <1>12

LEMMA InvHides ==
  ASSUME QIsPrime, Coeffs = 0..(Q - 1), ShamirInv
  PROVE  BelowThresholdHides
<1> SUFFICES ASSUME pc = "ask", NEW P \in SUBSET Points, Cardinality(P) = Threshold - 1,
                    NEW sec \in Secrets
             PROVE  \E r \in [2..Threshold -> Coeffs] :
                      \A i \in P : SplitShares(N, Deal(Threshold, sec, r))[i] = shares[i]
  BY DEF BelowThresholdHides
<1>1. Dealt /\ sec \in Int /\ Threshold \in Nat \ {0}
  BY ShamirAssumption DEF ShamirInv
<1>2. PICK poly \in [1..Threshold -> 0..(Q - 1)] :
        /\ poly[1] = mod_q(sec)
        /\ \A i \in P : EvalPoly(poly, i) = EvalPoly(coeffs, i)
  BY <1>1, OtherPolynomial
<1> DEFINE r == [j \in 2..Threshold |-> poly[j]]
<1>3. \A j \in 2..Threshold : j \in 1..Threshold
  BY <1>1
<1>4. r \in [2..Threshold -> Coeffs]
  BY <1>3
<1>5. Deal(Threshold, sec, r) = poly
  <2>1. \A j \in 1..Threshold : (IF j = 1 THEN mod_q(sec) ELSE r[j]) = poly[j]
    <3>1. \A j \in 1..Threshold : j # 1 => j \in 2..Threshold
      BY <1>1
    <3> QED BY <1>2, <3>1
  <2>2. poly = [j \in 1..Threshold |-> poly[j]]
    OBVIOUS
  <2>3. Deal(Threshold, sec, r) = [j \in 1..Threshold |-> IF j = 1 THEN mod_q(sec) ELSE r[j]]
    BY DEF Deal
  <2> HIDE DEF r
  <2> QED BY <2>1, <2>2, <2>3
<1>6. ASSUME NEW i \in P PROVE SplitShares(N, poly)[i] = shares[i]
  <2>1. i \in 1..N
    BY DEF Points
  <2>2. SplitShares(N, poly)[i] = center_q(EvalPoly(poly, i))
    BY <2>1 DEF SplitShares
  <2>3. shares[i] = center_q(EvalPoly(coeffs, i))
    BY <1>1, <2>1 DEF Dealt, SplitShares
  <2> QED BY <1>2, <2>2, <2>3
<1> HIDE DEF r
<1> QED BY <1>4, <1>5, <1>6

(* When rand_mod_q can return every residue of a prime field, the shares   *)
(* of any Threshold - 1 holders fit every secret (threshold.c:52-54,       *)
(* 84-88).                                                                 *)
THEOREM BelowThresholdAlwaysHides ==
  ASSUME QIsPrime, Coeffs = 0..(Q - 1)
  PROVE  Spec => []BelowThresholdHides
<1>1. ShamirInv => BelowThresholdHides
  BY InvHides
<1> QED BY <1>1, ShamirInvariant, PTL
=============================================================================
