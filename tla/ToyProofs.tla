----------------------------- MODULE ToyProofs -----------------------------
(***************************************************************************)
(* The scalar prototype, for every prime modulus, dimension, number of     *)
(* parties, threshold and noise bound.  The products of the shares with a  *)
(* ciphertext vector are the values of one polynomial, whose value at zero *)
(* is the product of the secret: the interpolation finds it, so a trial of *)
(* one dealing holds the message, its noise and what the ciphertext has of *)
(* another secret.  Around that, what each container holds and every trial *)
(* leaves behind.                                                          *)
(***************************************************************************)
EXTENDS ToyExperiment, ToyDeployment, ArithmeticProofs, FiniteSetTheorems, SequenceTheorems

-----------------------------------------------------------------------------
(* The inner product of two vectors.                                       *)

(* mod is mod_q of FieldArith; what the constants allow.                    *)
LEMMA ModIs == ASSUME NEW x \in Int PROVE mod[x] = mod_q(x)
<1>1. mod = [n \in Int |-> mod_q(n)]
  BY DEF mod
<1> QED BY <1>1

LEMMA ToySizes ==
  /\ VectorDim \in Nat /\ VectorDim > 0 /\ NParties \in Nat /\ Threshold \in Nat \ {0}
  /\ Threshold \in Nat /\ Threshold <= NParties /\ NParties \in 0..(Q - 1)
  /\ 0..(Q - 1) \subseteq Int
BY ToyAssumption, QAssumption

(* What the loop of an inner product goes through.                         *)
DotLoop(v, w, f) ==
  /\ f \in [0..VectorDim -> 0..(Q - 1)] /\ f[0] = 0
  /\ \A i \in 1..VectorDim : f[i] = mod_q(f[i - 1] + v[i] * w[i])

LEMMA DotLoopRuns ==
  ASSUME NEW v \in [1..VectorDim -> Int], NEW w \in [1..VectorDim -> Int]
  PROVE  \E f : DotLoop(v, w, f) /\ Dot(v, w) = f[VectorDim]
<1> DEFINE n == VectorDim
           V == 0..(Q - 1)
           term(i) == v[i] * w[i]
           step == [i \in 1..n |-> [x \in V |-> mod_q(x + term(i))]]
           dot[i \in 0..VectorDim] ==
             IF i = 0 THEN 0 ELSE mod[dot[i - 1] + v[i] * w[i]]
<1>1. n \in Nat /\ 0 \in V /\ V \subseteq Int
  BY ToySizes, QAssumption
<1>2. ASSUME NEW i \in 1..n PROVE term(i) \in Int
  <2>1. v[i] \in Int /\ w[i] \in Int
    OBVIOUS
  <2> QED BY ONLY <2>1
<1>3. ASSUME NEW i \in 1..n, NEW x \in V
      PROVE  x + term(i) \in Int /\ mod_q(x + term(i)) \in V /\ mod[x + term(i)] = mod_q(x + term(i))
  <2>1. x \in Int /\ term(i) \in Int
    BY <1>1, <1>2
  <2> HIDE DEF term
  <2>2. x + term(i) \in Int
    BY <2>1
  <2> QED BY <2>2, ModQRange, ModIs
<1>4. step \in [1..n -> [V -> V]]
  <2> HIDE DEF term, V
  <2> QED BY <1>3
<1>5. PICK f : f \in LoopRuns(V, 0, n, step)
  <2> HIDE DEF step, V
  <2> QED BY <1>1, <1>4, LoopExists
<1>6. f \in [0..n -> V] /\ f[0] = 0
  BY <1>5 DEF LoopRuns
<1>7. ASSUME NEW i \in 1..n
      PROVE  i - 1 \in 0..n /\ f[i - 1] \in V /\ f[i] = mod_q(f[i - 1] + term(i))
  <2>1. f[i] = step[i][f[i - 1]]
    <3> HIDE DEF step
    <3> QED BY <1>5 DEF LoopRuns
  <2>2. i - 1 \in 0..n
    BY <1>1
  <2>3. f[i - 1] \in V
    BY <1>6, <2>2
  <2> QED BY <2>1, <2>2, <2>3
<1>8. DotLoop(v, w, f)
  BY <1>6, <1>7 DEF DotLoop
<1>9. f = [i \in 0..VectorDim |-> IF i = 0 THEN 0 ELSE mod[f[i - 1] + v[i] * w[i]]]
  <2> SUFFICES ASSUME NEW i \in 0..n
               PROVE  f[i] = IF i = 0 THEN 0 ELSE mod[f[i - 1] + v[i] * w[i]]
    BY <1>6, Zenon
  <2>1. CASE i = 0
    BY <1>6, <2>1
  <2>2. CASE i # 0
    <3>1. i \in 1..n
      BY <2>2
    <3>2. f[i] = mod_q(f[i - 1] + term(i)) /\ f[i - 1] \in V
      BY <1>7, <3>1
    <3>3. f[i] = mod[f[i - 1] + term(i)]
      <4> HIDE DEF term
      <4> QED BY <1>3, <3>1, <3>2
    <3> QED BY <2>2, <3>3
  <2> QED BY <2>1, <2>2
<1>10. dot = [i \in 0..VectorDim |-> IF i = 0 THEN 0 ELSE mod[dot[i - 1] + v[i] * w[i]]]
  <2> HIDE DEF step, term, V
  <2>1. \E g : g = [i \in 0..VectorDim |-> IF i = 0 THEN 0 ELSE mod[g[i - 1] + v[i] * w[i]]]
    BY <1>9, Zenon
  <2> QED BY <2>1, Zenon
<1>11. Dot(v, w) = dot[VectorDim]
  BY DEF Dot
<1> HIDE DEF dot, step
<1> DEFINE S == {i \in 0..n : dot[i] = f[i]}
<1>12. 0 \in S
  <2>1. 0 \in 0..n
    BY <1>1
  <2> QED BY <1>6, <1>10, <2>1
<1>13. ASSUME NEW i \in 1..n, i - 1 \in S PROVE i \in S
  <2>1. i \in 0..n /\ i # 0 /\ dot[i - 1] = f[i - 1]
    BY <1>13
  <2>2. dot[i] = mod[dot[i - 1] + v[i] * w[i]]
    BY <1>10, <2>1, Zenon
  <2>3. f[i] = mod[f[i - 1] + v[i] * w[i]]
    BY <1>9, <2>1, Zenon
  <2> QED BY <2>1, <2>2, <2>3
<1>14. \A i \in 0..n : i \in S
  <2> HIDE DEF S
  <2> QED BY <1>1, <1>12, <1>13, LoopInduction
<1>15. n \in 0..n
  BY <1>1
<1>16. dot[n] = f[n]
  BY <1>14, <1>15
<1> QED BY <1>8, <1>11, <1>16

(* An inner product is a residue.                                          *)
LEMMA DotRange ==
  ASSUME NEW v \in [1..VectorDim -> Int], NEW w \in [1..VectorDim -> Int]
  PROVE  Dot(v, w) \in 0..(Q - 1) /\ Dot(v, w) \in Int
<1>1. PICK f : DotLoop(v, w, f) /\ Dot(v, w) = f[VectorDim]
  BY DotLoopRuns
<1>2. VectorDim \in 0..VectorDim
  BY ToySizes
<1>3. f[VectorDim] \in 0..(Q - 1)
  BY <1>1, <1>2 DEF DotLoop
<1> QED BY <1>1, <1>3, ToySizes

(* A vector of zeros has no product.                                       *)
LEMMA DotZero ==
  ASSUME NEW w \in [1..VectorDim -> Int]
  PROVE  Dot([d \in 1..VectorDim |-> 0], w) = 0
<1> DEFINE v == [d \in 1..VectorDim |-> 0]
<1>1. v \in [1..VectorDim -> Int]
  OBVIOUS
<1>2. PICK f : DotLoop(v, w, f) /\ Dot(v, w) = f[VectorDim]
  BY <1>1, DotLoopRuns
<1> DEFINE S == {i \in 0..VectorDim : f[i] = 0}
<1>3. 0 \in S
  BY <1>2, ToySizes DEF DotLoop
<1>4. ASSUME NEW i \in 1..VectorDim, i - 1 \in S PROVE i \in S
  <2>1. f[i] = mod_q(f[i - 1] + v[i] * w[i]) /\ f[i - 1] = 0
    BY <1>2, <1>4 DEF DotLoop
  <2>2. v[i] = 0 /\ w[i] \in Int
    OBVIOUS
  <2>3. f[i - 1] + v[i] * w[i] = 0
    BY <2>1, <2>2
  <2>4. mod_q(0) = 0
    BY QAssumption, ModQOfResidue
  <2>5. i \in 0..VectorDim
    BY ToySizes
  <2> QED BY <2>1, <2>3, <2>4, <2>5
<1>5. \A i \in 0..VectorDim : i \in S
  <2> HIDE DEF S
  <2> QED BY <1>3, <1>4, LoopInduction, ToySizes
<1>6. VectorDim \in S
  BY <1>5, ToySizes
<1> QED BY <1>2, <1>6

-----------------------------------------------------------------------------
(* Parties hold the values of one polynomial in every dimension, so their  *)
(* products with u are the values of a polynomial too.                     *)

PolyOf(s, r, d) == [j \in 1..Threshold |-> IF j = 1 THEN mod[s[d]] ELSE r[j][d]]

LEMMA PolyOfType ==
  ASSUME NEW s \in Vector, NEW r \in Sharings, NEW d \in 1..VectorDim
  PROVE  /\ PolyOf(s, r, d) \in [1..Threshold -> Int]
         /\ PolyOf(s, r, d)[1] = s[d] /\ s[d] \in Int
<1>1. s[d] \in 0..(Q - 1)
  BY DEF Vector
<1>2. s[d] \in Int
  BY <1>1, ToySizes
<1>3. mod[s[d]] = s[d]
  BY <1>1, <1>2, ModIs, ModQOfResidue
<1>4. ASSUME NEW j \in 1..Threshold, j # 1 PROVE r[j][d] \in Int
  <2>1. j \in 2..Threshold
    BY <1>4, ToySizes
  <2>2. r[j] \in Vector
    BY <2>1, ToyAssumption DEF Sharings
  <2>3. r[j][d] \in 0..(Q - 1)
    BY <2>2 DEF Vector
  <2> QED BY <2>3, ToySizes
<1>5. 1 \in 1..Threshold
  BY ToySizes
<1> QED BY <1>2, <1>3, <1>4, <1>5 DEF PolyOf

LEMMA ShareIs ==
  ASSUME NEW s \in Vector, NEW r \in Sharings, NEW x \in 1..NParties
  PROVE  /\ SplitVector(s, r)[x] \in [1..VectorDim -> Int]
         /\ \A d \in 1..VectorDim : SplitVector(s, r)[x][d] = EvalPoly(PolyOf(s, r, d), x)
<1>1. SplitVector(s, r)[x] = [d \in 1..VectorDim |-> EvalPoly(PolyOf(s, r, d), x)]
  BY DEF SplitVector, PolyOf
<1>2. ASSUME NEW d \in 1..VectorDim PROVE EvalPoly(PolyOf(s, r, d), x) \in Int
  <2>1. PolyOf(s, r, d) \in [1..Threshold -> Int] /\ x \in Int
    BY PolyOfType, ToySizes
  <2>2. EvalPoly(PolyOf(s, r, d), x) \in 0..(Q - 1)
    BY <2>1, EvalPolyRange, ToySizes
  <2> QED BY <2>2, ToySizes
<1> QED BY <1>1, <1>2

(* One round of the inner product's loop.                                  *)
LEMMA AddTerm ==
  ASSUME NEW a \in Int, NEW b \in Int, Cong(a, b),
         NEW c \in Int, NEW d \in Int, Cong(c, d), NEW w \in Int
  PROVE  Cong(a + w * c, mod_q(b + d * w))
<1> DEFINE wc == w * c
           wd == d * w
<1>1. wc \in Int /\ wd \in Int /\ wd = w * d
  OBVIOUS
<1>2. Cong(wc, wd)
  BY <1>1, CongScale
<1> HIDE DEF wc, wd
<1>3. Cong(a + wc, b + wd)
  BY <1>1, <1>2, CongAdd
<1>4. a + wc \in Int /\ b + wd \in Int
  BY <1>1
<1>5. mod_q(b + wd) \in Int /\ Cong(b + wd, mod_q(b + wd))
  BY <1>4, ModQCong
<1>6. Cong(a + wc, mod_q(b + wd))
  BY <1>3, <1>4, <1>5, CongTrans
<1> QED BY <1>6 DEF wc, wd

LEMMA ProductsArePoly ==
  ASSUME NEW s \in Vector, NEW r \in Sharings, NEW u \in Vector
  PROVE  \E h \in Polys[Threshold] :
           /\ Cong(h[0], Dot(s, u))
           /\ \A x \in 1..NParties : Cong(h[x], Dot(SplitVector(s, r)[x], u))
<1> DEFINE n == VectorDim
           T == Threshold
           share(x) == SplitVector(s, r)[x]
           F(x) == CHOOSE f : DotLoop(share(x), u, f) /\ Dot(share(x), u) = f[n]
           E(d) == [z \in Int |-> EvalPoly(PolyOf(s, r, d), z)]
<1>1. /\ n \in Nat /\ T \in Nat /\ T \in Nat \ {0} /\ NParties \in Nat
      /\ u \in [1..n -> Int] /\ s \in [1..n -> Int]
  BY ToySizes DEF Vector
<1>2. PICK g : DotLoop(s, u, g) /\ Dot(s, u) = g[n]
  BY <1>1, DotLoopRuns
<1>3. ASSUME NEW x \in 1..NParties
      PROVE  DotLoop(share(x), u, F(x)) /\ Dot(share(x), u) = F(x)[n]
  <2> HIDE DEF share
  <2>1. share(x) \in [1..n -> Int]
    BY ShareIs DEF share
  <2>2. \E f : DotLoop(share(x), u, f) /\ Dot(share(x), u) = f[n]
    BY <1>1, <2>1, DotLoopRuns
  <2> QED BY <2>2, Zenon
<1>4. ASSUME NEW d \in 1..n
      PROVE  /\ E(d) \in Polys[T] /\ Cong(E(d)[0], s[d])
             /\ \A x \in 1..NParties : E(d)[x] = share(x)[d] /\ share(x)[d] \in Int
             /\ \A z \in Int : E(d)[z] \in Int
  <2> DEFINE p == PolyOf(s, r, d)
  <2>1. p \in [1..T -> Int] /\ p[1] = s[d]
    BY PolyOfType
  <2>2. \A z \in Int : E(d)[z] = EvalPoly(p, z)
    OBVIOUS
  <2>3. \A x \in 1..NParties : x \in Int /\ share(x)[d] = EvalPoly(p, x)
    BY ShareIs
  <2> HIDE DEF p, share
  <2>4. ASSUME NEW z \in Int PROVE EvalPoly(p, z) \in Int
    <3>1. EvalPoly(p, z) \in 0..(Q - 1)
      BY <1>1, <2>1, EvalPolyRange
    <3> QED BY <3>1, ToySizes
  <2>5. E(d) \in IntFcn
    <3>1. E(d) = [z \in Int |-> EvalPoly(p, z)]
      BY DEF p
    <3> QED BY <2>4, <3>1 DEF IntFcn
  <2> HIDE DEF E
  <2>6. \A z \in Int : Cong(E(d)[z], EvalPoly(p, z))
    BY <2>2, <2>4, CongRefl
  <2>7. E(d) \in Polys[T]
    BY <1>1, <2>1, <2>5, <2>6, EvalIsPoly
  <2>8. Cong(E(d)[0], s[d])
    <3>1. Cong(EvalPoly(p, 0), p[1])
      BY <1>1, <2>1, EvalAtZero
    <3>2. E(d)[0] = EvalPoly(p, 0)
      BY <2>2
    <3> QED BY <2>1, <3>1, <3>2
  <2> QED BY <2>2, <2>3, <2>4, <2>7, <2>8
<1> HIDE DEF F, E, share
<1> DEFINE Fits(h, i) == Cong(h[0], g[i]) /\ \A x \in 1..NParties : Cong(h[x], F(x)[i])
           S == {i \in 0..n : \E h \in Polys[T] : Fits(h, i)}
<1>5. 0 \in S
  <2> DEFINE zero == [z \in Int |-> 0]
  <2>1. zero \in Zeros
    BY CongRefl DEF Zeros, IntFcn
  <2>2. zero \in Polys[T]
    <3> HIDE DEF zero
    <3> QED BY <1>1, <2>1, ZerosInPolys
  <2>3. g[0] = 0 /\ \A x \in 1..NParties : F(x)[0] = 0
    BY <1>2, <1>3 DEF DotLoop
  <2>4. Cong(0, 0)
    BY CongRefl
  <2>5. Fits(zero, 0)
    BY <2>3, <2>4
  <2>6. 0 \in 0..n
    BY <1>1
  <2> HIDE DEF zero, Fits
  <2> QED BY <2>2, <2>5, <2>6
<1>6. ASSUME NEW i \in 1..n, i - 1 \in S PROVE i \in S
  <2>1. i \in 0..n /\ i - 1 \in 0..n
    BY <1>1
  <2>2. PICK h \in Polys[T] : Fits(h, i - 1)
    BY <1>6
  <2> DEFINE c == u[i]
             e == E(i)
  <2>3. c \in Int /\ s[i] \in Int
    BY <1>1
  <2>4. e \in Polys[T]
    BY <1>4
  <2> HIDE DEF c, e
  <2>5. PICK kk \in Polys[T] : \A z \in Int : kk[z] = h[z] + c * e[z]
    BY <1>1, <2>3, <2>4, AddMultiple
  <2>6. \A z \in Int : h[z] \in Int /\ e[z] \in Int
    <3>1. h \in IntFcn /\ e \in IntFcn
      BY <1>1, <2>4, PolysDef
    <3> QED BY <3>1, IntFcnValue
  <2>7. Cong(kk[0], g[i])
    <3>1. g[i] = mod_q(g[i - 1] + s[i] * c) /\ g[i - 1] \in 0..(Q - 1)
      BY <1>2, <2>1 DEF DotLoop, c
    <3>2. g[i - 1] \in Int /\ h[0] \in Int /\ e[0] \in Int /\ kk[0] = h[0] + c * e[0]
      BY <2>5, <2>6, <3>1, ToySizes
    <3>3. Cong(h[0], g[i - 1]) /\ Cong(e[0], s[i])
      BY <1>4, <2>2 DEF e
    <3>4. Cong(h[0] + c * e[0], mod_q(g[i - 1] + s[i] * c))
      BY <2>3, <3>2, <3>3, AddTerm
    <3> QED BY <3>1, <3>2, <3>4
  <2>8. ASSUME NEW x \in 1..NParties PROVE Cong(kk[x], F(x)[i])
    <3> DEFINE f == F(x)
               y == share(x)[i]
    <3>1. f[i] = mod_q(f[i - 1] + y * c) /\ f[i - 1] \in 0..(Q - 1)
      BY <1>3, <2>1 DEF DotLoop, c
    <3>2. e[x] = y /\ y \in Int
      BY <1>4 DEF e
    <3>3. Cong(h[x], f[i - 1])
      BY <2>2
    <3> HIDE DEF f, y
    <3>4. f[i - 1] \in Int /\ h[x] \in Int /\ kk[x] = h[x] + c * e[x]
      BY <1>1, <2>5, <2>6, <3>1, ToySizes
    <3>5. Cong(y, y)
      BY <3>2, CongRefl
    <3>6. Cong(h[x] + c * y, mod_q(f[i - 1] + y * c))
      BY <2>3, <3>2, <3>3, <3>4, <3>5, AddTerm
    <3> QED BY <3>1, <3>2, <3>4, <3>6 DEF f
  <2>9. Fits(kk, i)
    BY <2>7, <2>8
  <2> HIDE DEF Fits
  <2> QED BY <2>1, <2>9
<1>7. \A i \in 0..n : i \in S
  <2> HIDE DEF S
  <2> QED BY <1>1, <1>5, <1>6, LoopInduction
<1>8. n \in 0..n
  BY <1>1
<1>9. PICK h \in Polys[T] : Fits(h, n)
  BY <1>7, <1>8
<1>10. Cong(h[0], Dot(s, u))
  BY <1>2, <1>9
<1>11. \A x \in 1..NParties : Cong(h[x], Dot(share(x), u))
  BY <1>3, <1>9
<1> QED BY <1>10, <1>11 DEF share

-----------------------------------------------------------------------------
(* lagrange_interpolate_zero against threshold_combine.                    *)

(* What the interpolation adds for one share.                              *)
ToyTerm(shares, i) ==
  LET n   == Len(shares)
      num == Product([j \in 1..n |-> -shares[j].x], i)
      den == Product([j \in 1..n |-> shares[i].x - shares[j].x], i)
  IN  mod[mod[shares[i].y * num] * mod_inverse(den)]

(* Over a prime field mod_inverse finds the inverse of what is no multiple *)
(* of the modulus.                                                         *)
LEMMA ToyInverse ==
  ASSUME QIsPrime, NEW a \in Int, ~Cong(a, 0)
  PROVE  mod_inverse(a) = mod_inverse_q(a) /\ mod_inverse_q(a) \in Int
<1> DEFINE e == EuclidLoop[EuclidInit(a)]
<1>1. EuclidInv(a, e) /\ e.newr = 0
  BY EuclidStarts, EuclidLoopEnds
<1>2. mod_q(a) # 0
  <2> SUFFICES ASSUME mod_q(a) = 0 PROVE FALSE
    OBVIOUS
  <2>1. Cong(a, mod_q(a))
    BY ModQCong
  <2> QED BY <2>1
<1>3. e.r = 1
  BY <1>1, <1>2, LastIsOne
<1>4. e.t \in Int
  <2> HIDE DEF e
  <2> QED BY <1>1 DEF EuclidInv, Euclid
<1>5. mod_inverse(a) = mod[e.t] /\ mod_inverse_q(a) = mod_q(e.t)
  <2>1. ~(e.r > 1)
    BY <1>3
  <2> QED BY <2>1 DEF mod_inverse, mod_inverse_q
<1> HIDE DEF e
<1> QED BY <1>4, <1>5, ModIs, ModQCong

(* Its terms are those of threshold_combine.                               *)
LEMMA SameTerm ==
  ASSUME QIsPrime, NEW n \in Nat, NEW shares, Len(shares) = n,
         NEW points \in [1..n -> Int], Apart(points, n), NEW values \in [1..n -> Int],
         \A j \in 1..n : shares[j].x = points[j] /\ shares[j].y = values[j],
         NEW i \in 1..n
  PROVE  ToyTerm(shares, i) = CombineTerm(points, values, i) /\ ToyTerm(shares, i) \in Int
<1> DEFINE num == Product(LinearFactors(points, n, 0), i)
           den == Product(LinearFactors(points, n, points[i]), i)
<1>1. i \in Int /\ 0 \in Int /\ points[i] \in Int /\ values[i] \in Int
  OBVIOUS
<1>2. num \in Int /\ den \in Int /\ ~Cong(den, 0)
  BY <1>1, LinearFactorsType, ProductInt, BasisValues
<1>3. [j \in 1..n |-> -shares[j].x] = LinearFactors(points, n, 0)
  <2>1. \A j \in 1..n : -shares[j].x = 0 - points[j]
    OBVIOUS
  <2> QED BY <2>1 DEF LinearFactors
<1>4. [j \in 1..n |-> shares[i].x - shares[j].x] = LinearFactors(points, n, points[i])
  <2>1. \A j \in 1..n : shares[i].x - shares[j].x = points[i] - points[j]
    OBVIOUS
  <2> QED BY <2>1 DEF LinearFactors
<1>5. ToyTerm(shares, i) = mod[mod[values[i] * num] * mod_inverse(den)]
  BY <1>3, <1>4 DEF ToyTerm
<1>6. CombineTerm(points, values, i) = mod_q(mod_q(values[i] * num) * mod_inverse_q(den))
  BY LagrangeIs DEF CombineTerm
<1>7. mod_inverse(den) = mod_inverse_q(den) /\ mod_inverse_q(den) \in Int
  BY <1>2, ToyInverse
<1> DEFINE v == values[i]
           inv == mod_inverse_q(den)
           vn == v * num
           m == mod_q(vn)
           mi == m * inv
<1> HIDE DEF num, den, v, inv
<1>8. vn \in Int
  BY <1>1, <1>2 DEF v
<1>9. mod[vn] = m /\ m \in Int
  <2> HIDE DEF vn
  <2> QED BY <1>8, ModIs, ModQCong
<1>10. mi \in Int
  <2> HIDE DEF m
  <2>1. inv \in Int
    BY <1>7 DEF inv
  <2> QED BY <1>9, <2>1
<1>11. mod[mi] = mod_q(mi) /\ mod_q(mi) \in Int
  <2> HIDE DEF mi
  <2> QED BY <1>10, ModIs, ModQCong
<1> QED BY <1>5, <1>6, <1>7, <1>9, <1>11 DEF v, inv

(* Centred, it returns what threshold_combine does.                        *)
LEMMA SameInterpolation ==
  ASSUME QIsPrime, NEW n \in Nat, NEW shares, Len(shares) = n,
         NEW points \in [1..n -> Int], Apart(points, n), NEW values \in [1..n -> Int],
         \A j \in 1..n : shares[j].x = points[j] /\ shares[j].y = values[j]
  PROVE  /\ lagrange_interpolate_zero(shares) \in Int
         /\ CombineAt(points, values) = center_q(lagrange_interpolate_zero(shares))
<1> DEFINE term(i) == CombineTerm(points, values, i)
           sum[i \in 0..Len(shares)] ==
             IF i = 0 THEN 0
             ELSE LET num == Product([j \in 1..Len(shares) |-> -shares[j].x], i)
                      den == Product([j \in 1..Len(shares) |-> shares[i].x - shares[j].x], i)
                  IN  mod[sum[i - 1] + mod[mod[shares[i].y * num] * mod_inverse(den)]]
<1>1. \A i \in 1..n : ToyTerm(shares, i) = term(i) /\ term(i) \in Int
  <2>1. ASSUME NEW i \in 1..n
        PROVE  ToyTerm(shares, i) = CombineTerm(points, values, i) /\ ToyTerm(shares, i) \in Int
    BY SameTerm, Zenon
  <2> QED BY <2>1
<1>2. PICK f : CombineLoop(points, values, n, f) /\ CombineAt(points, values) = center_q(f[n])
  BY <1>1, CombineLoopRuns
<1>3. f \in [0..n -> Int] /\ f[0] = 0 /\ \A i \in 1..n : f[i] = mod_q(f[i - 1] + term(i))
  BY <1>2 DEF CombineLoop
<1>4. ASSUME NEW i \in 1..n PROVE f[i] = mod[f[i - 1] + ToyTerm(shares, i)]
  <2>1. i - 1 \in 0..n
    OBVIOUS
  <2>2. f[i - 1] \in Int /\ term(i) \in Int
    BY <1>1, <1>3, <2>1
  <2> HIDE DEF term
  <2>3. f[i - 1] + term(i) \in Int
    BY <2>2
  <2>4. mod[f[i - 1] + term(i)] = mod_q(f[i - 1] + term(i))
    BY <2>3, ModIs
  <2> QED BY <1>1, <1>3, <2>4
<1>5. f = [i \in 0..Len(shares) |-> IF i = 0 THEN 0 ELSE mod[f[i - 1] + ToyTerm(shares, i)]]
  <2> SUFFICES ASSUME NEW i \in 0..n
               PROVE  f[i] = IF i = 0 THEN 0 ELSE mod[f[i - 1] + ToyTerm(shares, i)]
    BY <1>3, Zenon
  <2>1. CASE i = 0
    BY <1>3, <2>1
  <2>2. CASE i # 0
    <3>1. i \in 1..n
      BY <2>2
    <3> QED BY <1>4, <2>2, <3>1, Zenon
  <2> QED BY <2>1, <2>2
<1>6. sum = [i \in 0..Len(shares) |-> IF i = 0 THEN 0 ELSE mod[sum[i - 1] + ToyTerm(shares, i)]]
  <2> HIDE DEF term
  <2>1. \E g : g = [i \in 0..Len(shares) |-> IF i = 0 THEN 0 ELSE mod[g[i - 1] + ToyTerm(shares, i)]]
    BY <1>5, Zenon
  <2> QED BY <2>1, Zenon DEF ToyTerm
<1>7. lagrange_interpolate_zero(shares) = sum[n]
  BY DEF lagrange_interpolate_zero
<1> HIDE DEF sum, term
<1> DEFINE S == {i \in 0..n : sum[i] = f[i]}
<1>8. ASSUME NEW i \in 0..n
      PROVE  sum[i] = IF i = 0 THEN 0 ELSE mod[sum[i - 1] + ToyTerm(shares, i)]
  BY <1>6, Zenon
<1>9. 0 \in S
  <2>1. 0 \in 0..n
    OBVIOUS
  <2> QED BY <1>3, <1>8, <2>1
<1>10. ASSUME NEW i \in 1..n, i - 1 \in S PROVE i \in S
  <2>1. i \in 0..n /\ i # 0 /\ sum[i - 1] = f[i - 1]
    BY <1>10
  <2>2. sum[i] = f[i]
    BY <1>4, <1>8, <2>1, Zenon
  <2> QED BY <2>1, <2>2
<1>11. \A i \in 0..n : i \in S
  <2> HIDE DEF S
  <2> QED BY <1>9, <1>10, LoopInduction
<1>12. n \in 0..n
  OBVIOUS
<1>13. sum[n] = f[n] /\ f[n] \in Int
  BY <1>3, <1>11, <1>12
<1> QED BY <1>2, <1>7, <1>13

-----------------------------------------------------------------------------
(* A trial.                                                                *)

(* The partials of Threshold parties take the product of the dealt secret  *)
(* and u off what they are combined with.                                  *)
LEMMA CombinedPartials ==
  ASSUME QIsPrime, NEW s \in Vector, NEW r \in Sharings, NEW u \in Vector,
         NEW shares, Len(shares) = Threshold,
         NEW list \in [1..Threshold -> 1..NParties],
         \A i, j \in 1..Threshold : i # j => list[i] # list[j],
         \A j \in 1..Threshold :
           /\ shares[j].x = list[j]
           /\ shares[j].y = PartialDot(SplitVector(s, r)[list[j]], u)
  PROVE  /\ lagrange_interpolate_zero(shares) \in Int
         /\ Cong(lagrange_interpolate_zero(shares), -Dot(s, u))
<1> DEFINE T == Threshold
           P(x) == Dot(SplitVector(s, r)[x], u)
           values == [j \in 1..T |-> mod_q(-P(list[j]))]
           l == lagrange_interpolate_zero(shares)
<1>1. T \in Nat /\ u \in [1..VectorDim -> Int] /\ s \in [1..VectorDim -> Int]
  BY ToySizes DEF Vector
<1>2. \A x \in 1..NParties : P(x) \in Int
  BY <1>1, ShareIs, DotRange
<1>3. Dot(s, u) \in Int
  BY <1>1, DotRange
<1>4. ASSUME NEW j \in 1..T
      PROVE  /\ list[j] \in 1..NParties /\ list[j] \in Int /\ P(list[j]) \in Int
             /\ shares[j].x = list[j] /\ shares[j].y = values[j]
             /\ values[j] \in Int /\ Cong(-P(list[j]), values[j])
  <2>1. list[j] \in 1..NParties /\ list[j] \in Int
    BY <1>1, ToySizes
  <2>2. P(list[j]) \in Int
    BY <1>2, <2>1
  <2>3. shares[j].y = mod[-P(list[j])] /\ values[j] = mod_q(-P(list[j]))
    BY DEF PartialDot
  <2> HIDE DEF P, values
  <2>4. -P(list[j]) \in Int
    BY <2>2
  <2> QED BY <2>1, <2>2, <2>3, <2>4, ModIs, ModQCong
<1>5. values \in [1..T -> Int]
  <2>1. \A j \in 1..T : mod_q(-P(list[j])) \in Int
    BY <1>4
  <2> HIDE DEF P
  <2> QED BY <2>1
<1>6. list \in [1..T -> Int] /\ Apart(list, T)
  <2>1. list \in [1..T -> 0..NParties]
    BY <1>4, ToySizes
  <2> QED BY <1>1, <2>1, ToySizes, PointsApart
<1> HIDE DEF values
<1>7. l \in Int /\ CombineAt(list, values) = center_q(l)
  <2> HIDE DEF P
  <2>1. \A j \in 1..T : shares[j].x = list[j] /\ shares[j].y = values[j]
    BY <1>4
  <2>2. /\ lagrange_interpolate_zero(shares) \in Int
        /\ CombineAt(list, values) = center_q(lagrange_interpolate_zero(shares))
    BY <1>1, <1>5, <1>6, <2>1, SameInterpolation, Zenon
  <2> QED BY <2>2
<1>8. PICK h \in Polys[T] : Cong(h[0], Dot(s, u)) /\ \A x \in 1..NParties : Cong(h[x], P(x))
  BY ProductsArePoly
<1> HIDE DEF P
<1> DEFINE g == [z \in Int |-> (-1) * h[z]]
<1>9. h \in IntFcn /\ \A z \in Int : h[z] \in Int
  BY <1>1, PolysDef, IntFcnValue
<1>10. \A z \in Int : g[z] = (-1) * h[z] /\ g[z] \in Int /\ g[z] = -h[z]
  BY <1>9
<1>11. g \in Polys[T]
  <2>1. g \in IntFcn
    <3>1. \A z \in Int : (-1) * h[z] \in Int
      BY <1>9
    <3> QED BY <3>1 DEF IntFcn
  <2> HIDE DEF g
  <2>2. \A z \in Int : Cong(g[z], (-1) * h[z])
    BY <1>10, CongRefl
  <2>3. -1 \in Int
    OBVIOUS
  <2> QED BY <1>1, <2>1, <2>2, <2>3, ScalePoly
<1> HIDE DEF g
<1>12. ASSUME NEW j \in 1..T PROVE Cong(g[list[j]], values[j])
  <2> DEFINE x == list[j]
             y == values[j]
             p == P(x)
  <2>1. x \in Int /\ y \in Int /\ p \in Int /\ Cong(-p, y) /\ Cong(h[x], p)
    BY <1>4, <1>8
  <2> HIDE DEF x, y, p
  <2>2. g[x] = -h[x] /\ h[x] \in Int
    BY <1>9, <1>10, <2>1
  <2>3. Cong(-h[x], -p)
    BY <2>1, <2>2, CongNeg
  <2>4. -h[x] \in Int /\ -p \in Int
    BY <2>1, <2>2
  <2>5. Cong(g[x], y)
    BY <2>1, <2>2, <2>3, <2>4, CongTrans
  <2> QED BY <2>5 DEF x, y
<1>13. CombineAt(list, values) \in Int /\ Cong(CombineAt(list, values), g[0])
  BY <1>1, <1>5, <1>6, <1>11, <1>12, CombineIsValueAtZero
<1> HIDE DEF l
<1>14. Cong(l, -Dot(s, u))
  <2> DEFINE c == center_q(l)
             d == Dot(s, u)
  <2>1. c \in Int /\ Cong(l, c)
    BY <1>7, CenterQCong
  <2>2. Cong(c, g[0])
    BY <1>7, <1>13
  <2> HIDE DEF c, d
  <2>3. g[0] = -h[0] /\ h[0] \in Int /\ d \in Int /\ Cong(h[0], d)
    BY <1>3, <1>8, <1>9, <1>10 DEF d
  <2>4. Cong(-h[0], -d) /\ -h[0] \in Int /\ -d \in Int
    BY <2>3, CongNeg
  <2>5. Cong(l, -h[0])
    BY <1>7, <2>1, <2>2, <2>3, <2>4, CongTrans
  <2>6. Cong(l, -d)
    BY <1>7, <2>4, <2>5, CongTrans
  <2> QED BY <2>6 DEF d
<1> QED BY <1>7, <1>14 DEF l

(* What a trial recovers from an encryption under any vector.              *)
LEMMA TrialRecovers ==
  ASSUME QIsPrime, NEW s \in Vector, NEW r \in Sharings, NEW u \in Vector,
         NEW shares, Len(shares) = Threshold,
         NEW list \in [1..Threshold -> 1..NParties],
         \A i, j \in 1..Threshold : i # j => list[i] # list[j],
         \A j \in 1..Threshold :
           /\ shares[j].x = list[j]
           /\ shares[j].y = PartialDot(SplitVector(s, r)[list[j]], u),
         NEW key \in [1..VectorDim -> Int], NEW noise \in Int
  PROVE  Recovered(EncryptV(key, u, noise), shares)
           = (Dot(key, u) + noise + message - Dot(s, u)) % Q
<1> DEFINE l == lagrange_interpolate_zero(shares)
           p == Dot(s, u)
           m == Dot(key, u) + noise + message
           v == EncryptV(key, u, noise)
<1>1. l \in Int /\ Cong(l, -p)
  BY CombinedPartials
<1>2. p \in Int /\ Dot(key, u) \in Int /\ message \in Int
  <2>1. s \in [1..VectorDim -> Int] /\ u \in [1..VectorDim -> Int]
    BY ToySizes DEF Vector
  <2>2. Dot(s, u) \in Int /\ Dot(key, u) \in Int
    BY <2>1, DotRange
  <2>3. message \in Int
    BY DEF message
  <2> QED BY <2>2, <2>3
<1>3. m \in Int
  BY <1>2
<1>4. v = mod[m]
  BY DEF EncryptV
<1>5. Recovered(v, shares) = mod[v + l]
  BY DEF Recovered
<1> HIDE DEF l, p, m, v
<1>6. v = mod_q(m) /\ v \in Int /\ Cong(v, m)
  BY <1>3, <1>4, ModIs, ModQCong
<1>7. v + l \in Int /\ m + (-p) \in Int /\ -p \in Int /\ m + (-p) = m - p
  BY <1>1, <1>2, <1>3, <1>6
<1>8. Cong(v + l, m + (-p))
  BY <1>1, <1>3, <1>6, <1>7, CongAdd
<1>9. mod[v + l] = mod_q(v + l) /\ mod_q(v + l) = mod_q(m + (-p))
  BY <1>7, <1>8, ModIs, CongModQ
<1>10. (m - p) % Q = mod_q(m - p)
  BY <1>7, RemIsModQ
<1>11. Recovered(v, shares) = (m - p) % Q
  BY <1>5, <1>7, <1>9, <1>10
<1>12. m - p = Dot(key, u) + noise + message - Dot(s, u)
  BY <1>2 DEF m, p
<1> QED BY <1>11, <1>12 DEF v

(* A trial of main.c: the product is gone, and the noise decides.          *)
LEMMA NoiseDecides ==
  ASSUME NEW noise \in NoiseValues
  PROVE  (message + noise) % Q = message <=> noise = 0
<1>1. noise \in Int /\ noise >= -NoiseBound /\ noise < NoiseBound
      /\ NoiseBound \in Int /\ NoiseBound < Q /\ Q \in Int /\ Q > 1
  BY ToyAssumption, QAssumption DEF NoiseValues
<1>2. message = 1 /\ 1 \in 0..(Q - 1)
  BY QAssumption DEF message
<1>3. 1 + noise \in Int
  BY <1>1
<1>4. ASSUME (1 + noise) % Q = 1 PROVE noise = 0
  <2>1. Cong(1 + noise, mod_q(1 + noise)) /\ mod_q(1 + noise) = 1
    BY <1>3, <1>4, RemIsModQ, ModQCong
  <2>2. PICK times \in Int : (1 + noise) - 1 = times * Q
    BY <2>1 DEF Cong
  <2>3. noise = times * Q
    BY <1>1, <2>2
  <2>4. times < 1 /\ times > -1
    <3>1. CASE times >= 1
      <4>1. times * Q >= Q
        BY <1>1, <3>1
      <4> QED BY <1>1, <2>3, <4>1
    <3>2. CASE times <= -1
      <4>1. times * Q <= -Q
        BY <1>1, <3>2
      <4> QED BY <1>1, <2>3, <4>1
    <3> QED BY <3>1, <3>2
  <2>5. times = 0
    BY <2>4
  <2> QED BY <1>1, <2>3, <2>5
<1>5. ASSUME noise = 0 PROVE (1 + noise) % Q = 1
  <2>1. 1 + noise = 1 /\ 1 - 1 = 0 * Q
    BY <1>1, <1>5
  <2> QED BY <1>2, <2>1, ResidueOf
<1> QED BY <1>2, <1>4, <1>5

-----------------------------------------------------------------------------
(* main.c.                                                                 *)

(* The modulus of params.h.                                                *)
LEMMA PrototypePrime == ASSUME Q = 97 PROVE QIsPrime
<1> SUFFICES ASSUME NEW x \in Nat, NEW y \in Nat, x * y = 97
             PROVE  x = 1 \/ y = 1
  BY DEF QIsPrime
<1>1. x >= 1 /\ y >= 1
  BY SMT
<1>2. ASSUME NEW a \in 2..9, NEW b \in Nat PROVE a * b # 97
  BY SMT
<1>3. CASE x \in 2..9 \/ y \in 2..9
  <2>1. y * x = 97
    OBVIOUS
  <2> QED BY <1>2, <1>3, <2>1
<1>4. CASE x >= 10 /\ y >= 10
  <2>1. x * y >= 10 * y
    BY <1>4
  <2> QED BY <1>4, <2>1
<1> QED BY <1>1, <1>3, <1>4

(* While trials run the shares are a split of the secret; the rows are the *)
(* property itself.                                                        *)
XShared ==
  xpc = "trials" =>
    xsecret \in Vector /\ \E r \in Sharings : xshares = SplitVector(xsecret, r)

XGoodRows ==
  {row \in [noise : NoiseValues, recovered : Int, success : BOOLEAN] :
     row.recovered = (message + row.noise) % Q /\ (row.success <=> row.noise = 0)}

XInv == XShared /\ xrows \in Seq(XGoodRows)

(* A trial with a share of every one of the first parties.                 *)
LEMMA TrialRow ==
  ASSUME QIsPrime, XShared, xpc = "trials", NEW u \in Us, NEW noise \in NoiseValues
  PROVE  Recovered(EncryptV(xsecret, u, noise),
                   [i \in 1..Threshold |-> [x |-> i, y |-> PartialDot(xshares[i], u)]])
           = (message + noise) % Q
<1> DEFINE shares == [i \in 1..Threshold |-> [x |-> i, y |-> PartialDot(xshares[i], u)]]
           list == [i \in 1..Threshold |-> i]
<1>1. xsecret \in Vector /\ u \in Vector /\ noise \in Int
  BY ToyAssumption DEF XShared, NoiseValues
<1>2. PICK r \in Sharings : xshares = SplitVector(xsecret, r)
  BY DEF XShared
<1>3. Len(shares) = Threshold
  BY ToySizes
<1>4. list \in [1..Threshold -> 1..NParties]
  BY ToySizes
<1>5. \A i, j \in 1..Threshold : i # j => list[i] # list[j]
  OBVIOUS
<1>6. \A j \in 1..Threshold :
        /\ shares[j].x = list[j]
        /\ shares[j].y = PartialDot(SplitVector(xsecret, r)[list[j]], u)
  BY <1>2
<1>7. xsecret \in [1..VectorDim -> Int] /\ u \in [1..VectorDim -> Int]
  BY <1>1, ToySizes DEF Vector
<1> HIDE DEF shares, list
<1>8. Recovered(EncryptV(xsecret, u, noise), shares)
        = (Dot(xsecret, u) + noise + message - Dot(xsecret, u)) % Q
  BY <1>1, <1>3, <1>4, <1>5, <1>6, <1>7, TrialRecovers
<1>9. Dot(xsecret, u) + noise + message - Dot(xsecret, u) = message + noise
  <2>1. Dot(xsecret, u) \in Int
    BY <1>7, DotRange
  <2>2. message \in Int
    BY DEF message
  <2> QED BY <1>1, <2>1, <2>2
<1> QED BY <1>8, <1>9 DEF shares

(* The invariant holds and stays.                                          *)
LEMMA XInitInv == XInit => XInv
  BY DEF XInit, XIdle, XInv, XShared

LEMMA XNextInv ==
  ASSUME QIsPrime, XInv, [XNext]_xVars
  PROVE  XInv'
<1> USE DEF XInv
<1>1. CASE XKeygen
  <2>1. xrows' = xrows
    BY <1>1 DEF XKeygen
  <2>2. XShared'
    <3> SUFFICES ASSUME xpc' = "trials"
                 PROVE  xsecret' \in Vector /\ \E r \in Sharings : xshares' = SplitVector(xsecret', r)
      BY DEF XShared
    <3> QED BY <1>1, ToyAssumption DEF XKeygen
  <2> QED BY <2>1, <2>2
<1>2. CASE XTrial
  <2>1. xpc = "trials" /\ UNCHANGED <<xpc, xsecret, xshares>>
    BY <1>2 DEF XTrial
  <2>2. XShared'
    BY <2>1 DEF XShared
  <2>3. PICK u \in Us, noise \in NoiseValues :
          LET answers == [i \in 1..Threshold |-> [x |-> i, y |-> PartialDot(xshares[i], u)]]
              recovered == Recovered(EncryptV(xsecret, u, noise), answers)
          IN  xrows' = Append(xrows, [noise |-> noise, recovered |-> recovered,
                                      success |-> recovered = message])
    BY <1>2 DEF XTrial
  <2> DEFINE good == (message + noise) % Q
             row == [noise |-> noise, recovered |-> good, success |-> good = message]
  <2>4. Recovered(EncryptV(xsecret, u, noise),
                  [i \in 1..Threshold |-> [x |-> i, y |-> PartialDot(xshares[i], u)]]) = good
    BY <2>1, TrialRow
  <2>5. xrows' = Append(xrows, row)
    BY <2>3, <2>4
  <2>6. good \in Int /\ (good = message <=> noise = 0)
    <3>1. message + noise \in Int
      BY DEF message, NoiseValues
    <3> QED BY <3>1, NoiseDecides, RemIsModQ, ModQCong
  <2> HIDE DEF good
  <2>7. row \in XGoodRows
    BY <2>6 DEF XGoodRows, good
  <2> HIDE DEF row
  <2> QED BY <2>2, <2>5, <2>7
<1>3. CASE XDone
  BY <1>3 DEF XDone, XShared
<1>4. CASE UNCHANGED xVars
  BY <1>4 DEF xVars, XShared
<1> QED BY <1>1, <1>2, <1>3, <1>4 DEF XNext

(* main.c's shares cancel the product of secret and ciphertext, for every  *)
(* prime modulus, dimension, threshold, number of parties, noise bound and *)
(* number of trials: a trial writes the message with its noise, and        *)
(* succeeds exactly when that was zero (main.c:55-63).                     *)
THEOREM ExperimentAlwaysRecovers == ASSUME QIsPrime PROVE XSpec => []ExperimentRecovers
<1>1. XInit => XInv
  BY XInitInv
<1>2. XInv /\ [XNext]_xVars => XInv'
  BY XNextInv
<1>3. XInv => ExperimentRecovers
  <2> SUFFICES ASSUME XInv, NEW i \in 1..Len(xrows)
               PROVE  /\ xrows[i].recovered = (message + xrows[i].noise) % Q
                      /\ xrows[i].success <=> xrows[i].noise = 0
    BY DEF ExperimentRecovers
  <2>1. xrows[i] \in XGoodRows
    BY DEF XInv
  <2> QED BY <2>1 DEF XGoodRows
<1> QED BY <1>1, <1>2, <1>3, PTL DEF XSpec

-----------------------------------------------------------------------------
(* What the containers hold and send: shares of dealings, each at the host *)
(* of its party.                                                           *)

Dealing(s, r) == [secret |-> s, shares |-> SplitVector(s, r)]

DealtInv ==
  /\ dealings \in Seq({Dealing(s, r) : s \in Secrets, r \in Sharings})
  /\ di \in 1..NParties
  /\ dpc \in {"probe", "post"} => Len(dealings) > 0

Held(m, h) ==
  /\ m.of \in 1..Len(dealings) /\ m.x \in 1..NParties
  /\ HostList[m.x] = h /\ m.ys = dealings[m.of].shares[m.x]

HeldInv ==
  /\ \A m \in posts : Held(m, m.to)
  /\ DOMAIN stored = Hosts
  /\ \A h \in Hosts : \A m \in stored[h] : Held(m, h)

Answer(e, x, u, n) ==
  [x |-> x, y |-> PartialDot(dealings[e].shares[x], u), of |-> e, at |-> n]

ToyAnswers(u) ==
  {Answer(e, x, u, n) : e \in 1..Len(dealings), x \in 1..NParties, n \in Nat}

Needed == IF k > 0 THEN k ELSE 0

ZeroSecret == [d \in 1..VectorDim |-> 0]

AskedInv ==
  /\ partials \in Seq(ToyAnswers(ct.u)) /\ ci \in Nat \ {0}
  /\ k \in Int /\ Len(hosts) \in Nat /\ Len(partials) <= Needed
  /\ cpc = "collect" =>
       ct.u \in Us /\ ct.noise \in NoiseValues /\ ct.v = EncryptV(ZeroSecret, ct.u, ct.noise)
  /\ FromPlaces(partials) /\ \A j \in 1..Len(partials) : partials[j].at < ci

Row(u, noise, ps) ==
  [noise |-> noise, recovered |-> Recovered(EncryptV(ZeroSecret, u, noise), ps),
   u |-> u, used |-> ps]

GoodRows ==
  UNION {{Row(u, noise, ps) : noise \in NoiseValues, ps \in Seq(ToyAnswers(u))} : u \in Us}

ToyRowsInv == rows \in Seq(GoodRows)

-----------------------------------------------------------------------------
(* Each part of the invariant is kept by every step.                       *)
LEMMA DealtNext ==
  ASSUME DealtInv, [ToyNext]_toyVars
  PROVE  DealtInv'
<1>1. CASE ToyDealerStart
  <2>1. PICK s \in Secrets, r \in Sharings : dealings' = Append(dealings, Dealing(s, r))
    BY <1>1 DEF ToyDealerStart, Dealing
  <2> DEFINE Deals == {Dealing(a, b) : a \in Secrets, b \in Sharings}
             d == Dealing(s, r)
  <2>2. d \in Deals /\ dealings \in Seq(Deals)
    BY DEF DealtInv
  <2> HIDE DEF d, Deals
  <2>3. Append(dealings, d) \in Seq(Deals) /\ Len(Append(dealings, d)) > 0
    BY <2>2
  <2>4. di' = 1 /\ 1 \in 1..NParties
    BY <1>1, ToySizes DEF ToyDealerStart
  <2> QED BY <2>1, <2>3, <2>4 DEF DealtInv, d, Deals
<1>2. CASE ToyDealerProbe
  BY <1>2 DEF ToyDealerProbe, DealtInv
<1>3. CASE ToyDealerPost
  <2>1. di' \in 1..NParties
    BY <1>3, ToySizes DEF ToyDealerPost, DealtInv
  <2>2. dealings' = dealings /\ dpc = "post"
    BY <1>3 DEF ToyDealerPost
  <2> QED BY <2>1, <2>2 DEF DealtInv
<1>4. CASE UNCHANGED dealerVars
  BY <1>4 DEF dealerVars, DealtInv
<1>5. ToyDealerStart \/ ToyDealerProbe \/ ToyDealerPost \/ UNCHANGED dealerVars
  BY DEF ToyNext, toyVars, ToyListen, ToyStore, ToyDie, ToyCoordStart, ToyCoordProbe,
         ToyCoordOpen, ToyEncrypt, ToyTake, ToyOverrun, ToyPass, ToySkip, ToyRow
<1> QED BY <1>1, <1>2, <1>3, <1>4, <1>5

(* Dealings are only added, so what was a share of one remains so.         *)
LEMMA DealingsStay ==
  ASSUME DealtInv, [ToyNext]_toyVars
  PROVE  /\ Len(dealings) \in Nat /\ Len(dealings') \in Nat /\ Len(dealings) <= Len(dealings')
         /\ \A e \in 1..Len(dealings) : e \in 1..Len(dealings') /\ dealings'[e] = dealings[e]
<1>1. CASE ToyDealerStart
  <2>1. PICK s \in Secrets, r \in Sharings : dealings' = Append(dealings, Dealing(s, r))
    BY <1>1 DEF ToyDealerStart, Dealing
  <2> DEFINE Deals == {Dealing(a, b) : a \in Secrets, b \in Sharings}
             d == Dealing(s, r)
  <2>2. d \in Deals /\ dealings \in Seq(Deals)
    BY DEF DealtInv
  <2> HIDE DEF d, Deals
  <2> QED BY <2>1, <2>2 DEF d
<1>2. CASE dealings' = dealings
  BY <1>2 DEF DealtInv
<1>3. ToyDealerStart \/ dealings' = dealings
  BY DEF ToyNext, toyVars, dealerVars, ToyListen, ToyStore, ToyDie, ToyCoordStart, ToyCoordProbe,
         ToyCoordOpen, ToyEncrypt, ToyTake, ToyOverrun, ToyPass, ToySkip, ToyRow, ToyDealerProbe, ToyDealerPost
<1> QED BY <1>1, <1>2, <1>3

LEMMA HeldStays ==
  ASSUME DealtInv, [ToyNext]_toyVars, NEW m, NEW h, Held(m, h)
  PROVE  Held(m, h)'
  BY DealingsStay DEF Held

LEMMA AnswersStay ==
  ASSUME DealtInv, [ToyNext]_toyVars, NEW u
  PROVE  ToyAnswers(u) \subseteq ToyAnswers(u)'
<1> SUFFICES ASSUME NEW p \in ToyAnswers(u) PROVE p \in ToyAnswers(u)'
  OBVIOUS
<1>1. PICK e \in 1..Len(dealings), x \in 1..NParties, n \in Nat : p = Answer(e, x, u, n)
  BY DEF ToyAnswers
<1>2. e \in 1..Len(dealings') /\ dealings'[e] = dealings[e]
  BY DealingsStay
<1>3. Answer(e, x, u, n)' = Answer(e, x, u, n)
  BY <1>2 DEF Answer
<1> QED BY <1>1, <1>2, <1>3 DEF ToyAnswers

(* Whatever arrives at a host is the share of its party.                   *)
LEMMA HeldNext ==
  ASSUME DealtInv, HeldInv, [ToyNext]_toyVars
  PROVE  HeldInv'
<1>1. \A m, h : Held(m, h) => Held(m, h)'
  BY HeldStays
<1>2. CASE ToyDealerPost
  <2> DEFINE e == Len(dealings)
             m == [to |-> HostList[di], x |-> di, of |-> e, ys |-> dealings[e].shares[di]]
  <2>1. posts' \subseteq posts \cup {m} /\ stored' = stored
    BY <1>2 DEF ToyDealerPost, hostVars
  <2>2. Held(m, m.to)
    <3>1. e \in 1..Len(dealings) /\ di \in 1..NParties
      BY <1>2 DEF ToyDealerPost, DealtInv
    <3> QED BY <3>1 DEF Held
  <2> HIDE DEF m, e
  <2>3. \A n \in posts' : Held(n, n.to)'
    BY <1>1, <2>1, <2>2 DEF HeldInv
  <2> QED BY <1>1, <2>1, <2>3 DEF HeldInv
<1>3. ASSUME NEW h \in Hosts, ToyStore(h) PROVE HeldInv'
  <2>1. PICK m \in posts :
          /\ m.to = h
          /\ stored' = [stored EXCEPT ![h] = {[x |-> m.x, ys |-> m.ys, of |-> m.of]}]
          /\ posts' = posts \ {m}
    BY <1>3 DEF ToyStore
  <2>2. Held([x |-> m.x, ys |-> m.ys, of |-> m.of], h)
    BY <2>1 DEF HeldInv, Held
  <2>3. DOMAIN stored' = Hosts /\ \A n \in posts' : Held(n, n.to)'
    BY <1>1, <2>1 DEF HeldInv
  <2>4. ASSUME NEW g \in Hosts, NEW n \in stored'[g] PROVE Held(n, g)'
    <3>1. CASE g = h
      BY <1>1, <2>1, <2>2, <3>1 DEF HeldInv
    <3>2. CASE g # h
      BY <1>1, <2>1, <3>2 DEF HeldInv
    <3> QED BY <3>1, <3>2
  <2> QED BY <2>3, <2>4 DEF HeldInv
<1>4. ASSUME NEW h \in Hosts, ToyDie(h) PROVE HeldInv'
  <2>1. posts' \subseteq posts /\ stored' = [stored EXCEPT ![h] = {}]
    BY <1>4 DEF ToyDie
  <2> QED BY <1>1, <2>1 DEF HeldInv
<1>5. CASE UNCHANGED <<posts, stored>>
  BY <1>1, <1>5 DEF HeldInv
<1>6. \/ ToyDealerPost \/ UNCHANGED <<posts, stored>>
      \/ \E h \in Hosts : ToyStore(h) \/ ToyDie(h)
  BY DEF ToyNext, toyVars, hostVars, ToyDealerStart, ToyDealerProbe, ToyListen, ToyCoordStart,
         ToyCoordProbe, ToyCoordOpen, ToyEncrypt, ToyTake, ToyOverrun, ToyPass, ToySkip, ToyRow
<1> QED BY <1>2, <1>3, <1>4, <1>5, <1>6

(* The places of the list are gone through once, in order.                 *)
LEMMA AskedNext ==
  ASSUME DealtInv, HeldInv, AskedInv, [ToyNext]_toyVars
  PROVE  AskedInv'
<1>1. \A u : ToyAnswers(u) \subseteq ToyAnswers(u)'
  BY AnswersStay
<1>2. partials \in Seq(ToyAnswers(ct.u)) /\ k \in Int /\ Len(hosts) \in Nat /\ ci \in Nat \ {0}
  BY DEF AskedInv
<1>3. ASSUME partials' = << >>, ci' = 1, k' \in Int, Len(hosts') \in Nat,
             cpc' = "collect" => /\ ct'.u \in Us /\ ct'.noise \in NoiseValues
                                 /\ ct'.v = EncryptV(ZeroSecret, ct'.u, ct'.noise)
      PROVE  AskedInv'
  <2>1. Len(partials') = 0 /\ 1..Len(partials') = {} /\ partials' \in Seq(ToyAnswers(ct.u)')
    BY <1>3
  <2>2. FromPlaces(partials)'
    BY <2>1 DEF FromPlaces
  <2>3. Len(partials') <= Needed'
    BY <1>3, <2>1 DEF Needed
  <2> QED BY <1>3, <2>1, <2>2, <2>3 DEF AskedInv
<1>4. CASE ToyCoordStart
  <2>1. /\ partials' = << >> /\ ci' = 1 /\ cpc' # "collect"
        /\ k' \in Ks /\ hosts' \in UseLists
    BY <1>4 DEF ToyCoordStart
  <2>2. k' \in Int /\ Len(hosts') \in Nat
    BY <2>1, ToyDeploymentAssumption
  <2> QED BY <1>3, <2>1, <2>2
<1>5. CASE ToyEncrypt
  <2>1. partials' = << >> /\ ci' = 1 /\ k' = k /\ hosts' = hosts
    BY <1>5 DEF ToyEncrypt
  <2>2. ASSUME cpc' = "collect"
        PROVE  /\ ct'.u \in Us /\ ct'.noise \in NoiseValues
               /\ ct'.v = EncryptV(ZeroSecret, ct'.u, ct'.noise)
    <3>1. PICK u \in Us, noise \in NoiseValues :
            ct' = [u |-> u, noise |-> noise, v |-> EncryptV(ZeroSecret, u, noise)]
      BY <1>5, <2>2 DEF ToyEncrypt, ZeroSecret
    <3> QED BY <3>1
  <2> QED BY <1>2, <1>3, <2>1, <2>2
<1>6. CASE ToyTake
  <2>1. cpc = "collect" /\ ci <= Len(hosts) /\ ci' = ci + 1 /\ Len(partials) < k
        /\ UNCHANGED <<cpc, ct, k, hosts, dealings>>
    BY <1>6 DEF ToyTake, ToyCollecting, dealerVars
  <2> DEFINE h == hosts[ci]
  <2>2. PICK share \in Answering :
          partials' = Append(partials, [x |-> share.x, y |-> PartialDot(share.ys, ct.u),
                                        of |-> share.of, at |-> ci])
    BY <1>6 DEF ToyTake
  <2>3. h \in Hosts /\ share \in stored[h]
    BY <2>2 DEF Answering
  <2>4. Held(share, h)
    BY <2>3 DEF HeldInv
  <2> DEFINE p == Answer(share.of, share.x, ct.u, ci)
  <2>5. p \in ToyAnswers(ct.u) /\ p.at = ci /\ HostList[p.x] = h
    BY <1>2, <2>4 DEF Held, ToyAnswers, Answer
  <2>6. partials' = Append(partials, p)
    BY <2>2, <2>4 DEF Held, Answer
  <2> HIDE DEF p, h
  <2>7. Append(partials, p) \in Seq(ToyAnswers(ct.u)) /\ ToyAnswers(ct.u)' = ToyAnswers(ct.u)
    BY <1>2, <2>1, <2>5 DEF ToyAnswers, Answer
  <2>8. /\ Len(partials) \in Nat /\ Len(partials') = Len(partials) + 1
        /\ \A i \in 1..Len(partials) : partials'[i] = partials[i]
        /\ partials'[Len(partials) + 1] = p
    BY <1>2, <2>5, <2>6
  <2>9. /\ \A j \in 1..Len(partials) :
             /\ partials[j].at \in 1..Len(hosts) /\ partials[j].at < ci
             /\ hosts[partials[j].at] = HostList[partials[j].x]
        /\ \A i, j \in 1..Len(partials) : i < j => partials[i].at < partials[j].at
    BY DEF AskedInv, FromPlaces
  <2>10. ci \in 1..Len(hosts) /\ hosts[p.at] = HostList[p.x]
    BY <1>2, <2>1, <2>5 DEF h
  <2>11. ASSUME NEW j \in 1..Len(partials')
         PROVE  /\ partials'[j].at \in 1..Len(hosts) /\ partials'[j].at < ci + 1
                /\ hosts[partials'[j].at] = HostList[partials'[j].x]
    <3>1. CASE j = Len(partials) + 1
      BY <1>2, <2>5, <2>8, <2>10, <3>1
    <3>2. CASE j # Len(partials) + 1
      <4>1. j \in 1..Len(partials) /\ partials'[j] = partials[j]
        BY <2>8, <3>2
      <4>2. partials[j].at \in 1..Len(hosts) /\ partials[j].at < ci
            /\ hosts[partials[j].at] = HostList[partials[j].x]
        BY <2>9, <4>1
      <4>3. partials[j].at < ci + 1
        BY <1>2, <4>2
      <4> QED BY <4>1, <4>2, <4>3
    <3> QED BY <3>1, <3>2
  <2>12. ASSUME NEW i \in 1..Len(partials'), NEW j \in 1..Len(partials'), i < j
         PROVE  partials'[i].at < partials'[j].at
    <3>1. i \in 1..Len(partials) /\ partials'[i] = partials[i]
      BY <2>8, <2>12
    <3>2. CASE j = Len(partials) + 1
      BY <2>5, <2>8, <2>9, <3>1, <3>2
    <3>3. CASE j # Len(partials) + 1
      <4>1. j \in 1..Len(partials) /\ partials'[j] = partials[j]
        BY <2>8, <3>3
      <4> QED BY <2>9, <2>12, <3>1, <4>1
    <3> QED BY <3>2, <3>3
  <2>13. FromPlaces(partials)'
    BY <2>1, <2>11, <2>12 DEF FromPlaces
  <2>14. \A j \in 1..Len(partials') : partials'[j].at < ci'
    BY <2>1, <2>11
  <2>15. Len(partials') <= Needed' /\ k' \in Int /\ Len(hosts') \in Nat
    BY <1>2, <2>1, <2>8 DEF Needed
  <2>16. partials' \in Seq(ToyAnswers(ct.u)') /\ ci' \in Nat \ {0}
    BY <1>2, <2>1, <2>6, <2>7
  <2>17. ct'.u \in Us /\ ct'.noise \in NoiseValues /\ ct'.v = EncryptV(ZeroSecret, ct'.u, ct'.noise)
    BY <2>1 DEF AskedInv
  <2> QED BY <2>13, <2>14, <2>15, <2>16, <2>17 DEF AskedInv
<1>7. CASE UNCHANGED <<ct, k, hosts, partials>> /\ ci' \in {ci, ci + 1}
           /\ (cpc' = "collect" => cpc = "collect")
  <2>1. partials \in Seq(ToyAnswers(ct.u)')
    <3>1. ASSUME NEW p \in ToyAnswers(ct.u) PROVE p \in ToyAnswers(ct.u)'
      <4>1. PICK e \in 1..Len(dealings), x \in 1..NParties, n \in Nat : p = Answer(e, x, ct.u, n)
        BY DEF ToyAnswers
      <4>2. e \in 1..Len(dealings') /\ dealings'[e] = dealings[e]
        BY DealingsStay
      <4>3. Answer(e, x, ct.u, n)' = Answer(e, x, ct.u, n)
        BY <1>7, <4>2 DEF Answer
      <4> QED BY <4>1, <4>2, <4>3 DEF ToyAnswers
    <3>2. ToyAnswers(ct.u) \subseteq ToyAnswers(ct.u)'
      BY <3>1
    <3> QED BY <1>2, <3>2, SeqMonotonic
  <2>2. FromPlaces(partials)' /\ Needed' = Needed
    BY <1>7 DEF AskedInv, FromPlaces, Needed
  <2>3. \A j \in 1..Len(partials) : partials[j].at < ci'
    <3> SUFFICES ASSUME NEW j \in 1..Len(partials) PROVE partials[j].at < ci'
      OBVIOUS
    <3>1. partials[j].at \in 1..Len(hosts) /\ partials[j].at < ci
      BY DEF AskedInv, FromPlaces
    <3> QED BY <1>2, <1>7, <3>1
  <2>4. ci' \in Nat \ {0}
    BY <1>2, <1>7
  <2> QED BY <1>7, <2>1, <2>2, <2>3, <2>4 DEF AskedInv
<1>8. \/ ToyCoordStart \/ ToyEncrypt \/ ToyTake
      \/ UNCHANGED <<ct, k, hosts, partials>> /\ ci' \in {ci, ci + 1}
         /\ (cpc' = "collect" => cpc = "collect")
  BY DEF ToyNext, toyVars, coordVars, ToyDealerStart, ToyDealerProbe, ToyDealerPost, ToyListen,
         ToyStore, ToyDie, ToyCoordProbe, ToyCoordOpen, ToyOverrun, ToyPass, ToySkip, ToyRow
<1> QED BY <1>4, <1>5, <1>6, <1>7, <1>8

(* A row remains what it was when dealings are added.                      *)
LEMMA RowsStay ==
  ASSUME DealtInv, [ToyNext]_toyVars
  PROVE  GoodRows \subseteq GoodRows'
<1> SUFFICES ASSUME NEW u \in Us, NEW noise \in NoiseValues, NEW ps \in Seq(ToyAnswers(u))
             PROVE  Row(u, noise, ps) \in GoodRows'
  BY DEF GoodRows
<1>1. ToyAnswers(u) \subseteq ToyAnswers(u)'
  BY AnswersStay
<1>2. ps \in Seq(ToyAnswers(u)')
  BY <1>1, SeqMonotonic
<1> QED BY <1>2 DEF GoodRows, Row

LEMMA ToyRowsNext ==
  ASSUME DealtInv, AskedInv, ToyRowsInv, [ToyNext]_toyVars
  PROVE  ToyRowsInv'
<1>1. rows \in Seq(GoodRows) /\ rows \in Seq(GoodRows')
  BY RowsStay, SeqMonotonic DEF ToyRowsInv
<1>2. CASE rows' = rows
  BY <1>1, <1>2 DEF ToyRowsInv
<1>3. CASE rows' = << >>
  BY <1>3 DEF ToyRowsInv
<1>4. CASE ToyRow
  <2>1. cpc = "collect"
    BY <1>4 DEF ToyRow
  <2>2. partials \in Seq(ToyAnswers(ct.u))
    BY DEF AskedInv
  <2>3. ct.u \in Us /\ ct.noise \in NoiseValues /\ ct.v = EncryptV(ZeroSecret, ct.u, ct.noise)
    BY <2>1 DEF AskedInv
  <2> DEFINE row == Row(ct.u, ct.noise, partials)
  <2>4. row \in GoodRows
    BY <2>2, <2>3 DEF GoodRows
  <2>5. rows' = Append(rows, row)
    BY <1>4, <2>3 DEF ToyRow, Row
  <2> HIDE DEF row
  <2> QED BY <1>1, <2>4, <2>5, RowsStay DEF ToyRowsInv
<1>5. ToyRow \/ rows' = rows \/ rows' = << >>
  BY DEF ToyNext, toyVars, coordVars, ToyDealerStart, ToyDealerProbe, ToyDealerPost, ToyListen,
         ToyStore, ToyDie, ToyCoordStart, ToyCoordProbe, ToyCoordOpen, ToyEncrypt, ToyTake,
         ToyOverrun, ToyPass, ToySkip
<1> QED BY <1>2, <1>3, <1>4, <1>5

DeployInv == DealtInv /\ HeldInv /\ AskedInv /\ ToyRowsInv

LEMMA DeployInit == ToyInit => DeployInv
<1> SUFFICES ASSUME ToyInit PROVE DeployInv
  OBVIOUS
<1> USE DEF ToyInit, ToyIdle
<1>1. DealtInv
  BY ToySizes DEF DealtInv
<1>2. HeldInv
  BY DEF HeldInv
<1>3. AskedInv
  BY DEF AskedInv, FromPlaces, Needed
<1>4. ToyRowsInv
  BY DEF ToyRowsInv
<1> QED BY <1>1, <1>2, <1>3, <1>4 DEF DeployInv

LEMMA DeployNext == DeployInv /\ [ToyNext]_toyVars => DeployInv'
BY DealtNext, HeldNext, AskedNext, ToyRowsNext DEF DeployInv

(* The row of a trial whose partials are all of one dealing.               *)
LEMMA RowProduct ==
  ASSUME QIsPrime, DealtInv, NEW row \in GoodRows, Complete(row.used), NEW e,
         \A j \in 1..Threshold : row.used[j].of = e
  PROVE  row.recovered = (message + row.noise - Dot(dealings[e].secret, row.u)) % Q
<1>1. PICK u \in Us : \E noise \in NoiseValues, ps \in Seq(ToyAnswers(u)) : row = Row(u, noise, ps)
  BY DEF GoodRows
<1>2. PICK noise \in NoiseValues, ps \in Seq(ToyAnswers(u)) : row = Row(u, noise, ps)
  BY <1>1
<1>3. row.used = ps /\ row.noise = noise /\ row.u = u
      /\ row.recovered = Recovered(EncryptV(ZeroSecret, u, noise), ps)
  BY <1>2 DEF Row
<1>4. ps \in Seq(ToyAnswers(u)) /\ Len(ps) = Threshold /\ 1 \in 1..Threshold
      /\ \A i, j \in 1..Len(ps) : i # j => ps[i].x # ps[j].x
  BY <1>3, ToySizes DEF Complete
<1>5. ASSUME NEW j \in 1..Threshold
      PROVE  /\ e \in 1..Len(dealings) /\ ps[j].x \in 1..NParties
             /\ ps[j].y = PartialDot(dealings[e].shares[ps[j].x], u)
  <2>1. ps[j] \in ToyAnswers(u) /\ ps[j].of = e
    BY <1>3, <1>4
  <2> QED BY <2>1 DEF ToyAnswers, Answer
<1>6. PICK s \in Secrets, r \in Sharings : dealings[e] = Dealing(s, r)
  BY <1>4, <1>5 DEF DealtInv
<1>7. dealings[e].shares = SplitVector(s, r) /\ dealings[e].secret = s
  BY <1>6 DEF Dealing
<1> DEFINE list == [j \in 1..Threshold |-> ps[j].x]
<1>8. list \in [1..Threshold -> 1..NParties]
  BY <1>5
<1>9. \A i, j \in 1..Threshold : i # j => list[i] # list[j]
  BY <1>4
<1>10. \A j \in 1..Threshold :
        ps[j].x = list[j] /\ ps[j].y = PartialDot(SplitVector(s, r)[list[j]], u)
  BY <1>5, <1>7
<1>11. s \in Vector /\ u \in Vector /\ noise \in Int
  BY ToyAssumption DEF NoiseValues
<1>12. s \in [1..VectorDim -> Int] /\ u \in [1..VectorDim -> Int]
       /\ ZeroSecret \in [1..VectorDim -> Int]
  BY <1>11, ToySizes DEF Vector, ZeroSecret
<1> HIDE DEF list
<1>13. Recovered(EncryptV(ZeroSecret, u, noise), ps)
         = (Dot(ZeroSecret, u) + noise + message - Dot(s, u)) % Q
  <2>1. Len(ps) = Threshold
    BY <1>4
  <2>2. r \in Sharings
    OBVIOUS
  <2> QED BY ONLY QIsPrime, <1>8, <1>9, <1>10, <1>11, <1>12, <2>1, <2>2, TrialRecovers, SMT
<1>14. Dot(ZeroSecret, u) + noise + message - Dot(s, u) = message + noise - Dot(s, u)
  <2>1. Dot(ZeroSecret, u) = 0 /\ Dot(s, u) \in Int
    BY <1>12, DotZero, DotRange DEF ZeroSecret
  <2>2. message \in Int
    BY DEF message
  <2> QED BY <1>11, <2>1, <2>2
<1> QED BY <1>3, <1>7, <1>13, <1>14

(* In the containers a row of Threshold partials of one dealing, at        *)
(* different points, holds the message with its noise less the product of  *)
(* that dealing's secret and u, whichever hosts were named and answered    *)
(* and whatever died or arrived late, for all lists, dealings, runs and    *)
(* deaths (coordinator.c:160-166, 206).                                    *)
THEOREM RowsAlwaysHoldProduct == ASSUME QIsPrime PROVE ToySpec => []RowHoldsProduct
<1>1. DeployInv => RowHoldsProduct
  <2> SUFFICES ASSUME DeployInv, NEW i \in 1..Len(rows), Complete(rows[i].used), NEW e,
                      \A j \in 1..Threshold : rows[i].used[j].of = e
               PROVE  rows[i].recovered
                        = (message + rows[i].noise - Dot(dealings[e].secret, rows[i].u)) % Q
    BY DEF RowHoldsProduct
  <2>1. rows[i] \in GoodRows /\ DealtInv
    BY DEF DeployInv, ToyRowsInv
  <2> QED BY <2>1, RowProduct
<1> QED BY <1>1, DeployInit, DeployNext, PTL DEF ToySpec

(* Whatever the coordinator's state, the trials behind it are the rows and *)
(* the ones skipped, and the successes counted are in the rows.            *)
Successes(rs) == {i \in 1..Len(rs) : rs[i].recovered = message}

Placed(row) == FromPlaces(row.used) /\ Len(row.used) = Needed

TrialsBehind ==
  /\ trial = Len(rows) + Len(skipped)
  /\ total_success = Cardinality(Successes(rows))

AccountInv ==
  /\ trial \in Nat /\ skipped \in Seq(Int)
  /\ \A i \in 1..Len(skipped) : skipped[i] > Len(hosts) - k
  /\ \A i \in 1..Len(rows) : Placed(rows[i])
  /\ cpc \in {"probe", "open"} =>
       trial = 0 /\ total_success = 0 /\ skipped = << >> /\ rows = << >>
  /\ cpc \in {"trial", "collect", "exit0"} => TrialsBehind /\ trial <= NTrials
  /\ cpc = "collect" => trial < NTrials
  /\ cpc = "exit0" => trial = NTrials

LEMMA SuccessesFinite ==
  ASSUME NEW S, NEW rs \in Seq(S)
  PROVE  IsFiniteSet(Successes(rs)) /\ Cardinality(Successes(rs)) \in Nat
<1>1. IsFiniteSet(1..Len(rs))
  BY FS_Interval
<1>2. Successes(rs) \in SUBSET (1..Len(rs))
  BY DEF Successes
<1> QED BY <1>1, <1>2, FS_Subset, FS_CardinalityType

LEMMA OneMoreRow ==
  ASSUME NEW S, NEW rs \in Seq(S), NEW row \in S
  PROVE  Cardinality(Successes(Append(rs, row)))
           = Cardinality(Successes(rs)) + (IF row.recovered = message THEN 1 ELSE 0)
<1> DEFINE n == Len(rs)
           more == Append(rs, row)
<1>1. n \in Nat /\ Len(more) = n + 1 /\ more[n + 1] = row
      /\ \A i \in 1..n : more[i] = rs[i]
  OBVIOUS
<1> HIDE DEF more
<1>2. CASE row.recovered = message
  <2>1. Successes(more) = Successes(rs) \cup {n + 1}
    BY <1>1, <1>2 DEF Successes
  <2>2. ~(n + 1 \in Successes(rs))
    BY <1>1 DEF Successes
  <2> QED BY <1>2, <2>1, <2>2, SuccessesFinite, FS_AddElement DEF more
<1>3. CASE row.recovered # message
  <2>1. Successes(more) = Successes(rs)
    BY <1>1, <1>3 DEF Successes
  <2> QED BY <1>3, <2>1, SuccessesFinite DEF more
<1> QED BY <1>2, <1>3

LEMMA AccountNext ==
  ASSUME DeployInv, AccountInv, [ToyNext]_toyVars
  PROVE  AccountInv'
<1>0. /\ k \in Int /\ Len(hosts) \in Nat /\ NTrials \in Nat
      /\ rows \in Seq(GoodRows) /\ Len(rows) \in Nat /\ Len(skipped) \in Nat
      /\ partials \in Seq(ToyAnswers(ct.u)) /\ Len(partials) \in Nat /\ ci \in Nat
  BY ToyDeploymentAssumption, ToySizes DEF DeployInv, ToyRowsInv, AskedInv, AccountInv
<1>P. ASSUME UNCHANGED <<k, hosts, rows>> PROVE \A i \in 1..Len(rows') : Placed(rows[i])'
  BY <1>P DEF AccountInv, Placed, FromPlaces, Needed
<1>1. CASE ToyCoordStart
  <2>1. rows' = << >> /\ 1..Len(rows') = {} /\ skipped' = << >> /\ 1..Len(skipped') = {}
        /\ trial' = 0 /\ total_success' = 0 /\ cpc' \in {"exit1", "probe"}
    BY <1>1 DEF ToyCoordStart
  <2> QED BY <2>1 DEF AccountInv
<1>2. CASE ToyCoordProbe
  <2>1. UNCHANGED <<k, hosts, rows, trial, total_success, skipped>>
        /\ cpc = "probe" /\ cpc' = "open"
    BY <1>2 DEF ToyCoordProbe
  <2> QED BY <1>P, <2>1 DEF AccountInv
<1>3. CASE ToyCoordOpen
  <2>1. cpc = "open" /\ UNCHANGED <<trial, total_success, skipped, rows, k, hosts>>
        /\ cpc' \in {"trial", "exit1"}
    BY <1>3 DEF ToyCoordOpen
  <2>2. trial = 0 /\ total_success = 0 /\ skipped = << >> /\ rows = << >>
    BY <2>1 DEF AccountInv
  <2>3. Successes(rows') = {}
    BY <2>1, <2>2 DEF Successes
  <2>4. TrialsBehind'
    BY <2>1, <2>2, <2>3, FS_EmptySet DEF TrialsBehind
  <2> QED BY <1>0, <1>P, <2>1, <2>2, <2>4 DEF AccountInv
<1>4. CASE ToyEncrypt
  <2>1. cpc = "trial" /\ UNCHANGED <<trial, total_success, skipped, rows, k, hosts>>
        /\ (cpc' = "collect" => trial < NTrials)
        /\ (cpc' = "exit0" => ~(trial < NTrials)) /\ cpc' \in {"collect", "exit0"}
    BY <1>4 DEF ToyEncrypt
  <2>2. TrialsBehind' /\ trial <= NTrials
    BY <2>1 DEF AccountInv, TrialsBehind
  <2> QED BY <1>0, <1>P, <2>1, <2>2 DEF AccountInv
<1>5. CASE ToySkip
  <2>1. cpc = "collect" /\ cpc' = "trial" /\ trial' = trial + 1
        /\ UNCHANGED <<total_success, rows, k, hosts>>
        /\ ~(ci <= Len(hosts)) /\ Len(partials) < k
        /\ skipped' = Append(skipped, ci - 1 - Len(partials))
    BY <1>0, <1>5 DEF ToySkip, ToyCollecting
  <2> DEFINE n == ci - 1 - Len(partials)
  <2>2. n \in Int /\ n > Len(hosts) - k
    BY <1>0, <2>1
  <2>3. trial \in Nat /\ trial < NTrials /\ TrialsBehind /\ skipped \in Seq(Int)
        /\ \A i \in 1..Len(skipped) : skipped[i] > Len(hosts) - k
    BY <2>1 DEF AccountInv
  <2> HIDE DEF n
  <2>4. skipped' = Append(skipped, n)
    BY <2>1 DEF n
  <2>5. skipped' \in Seq(Int) /\ Len(skipped') = Len(skipped) + 1
        /\ \A i \in 1..Len(skipped') : skipped'[i] > Len(hosts) - k
    BY <1>0, <2>2, <2>3, <2>4
  <2>6. TrialsBehind'
    BY <1>0, <2>1, <2>3, <2>5 DEF TrialsBehind
  <2> QED BY <1>0, <1>P, <2>1, <2>3, <2>5, <2>6 DEF AccountInv
<1>6. CASE ToyRow
  <2> DEFINE row == Row(ct.u, ct.noise, partials)
  <2>1. cpc = "collect" /\ cpc' = "trial" /\ trial' = trial + 1 /\ skipped' = skipped
        /\ Len(partials) >= k /\ k' = k /\ hosts' = hosts
    BY <1>6 DEF ToyRow
  <2>2. ct.u \in Us /\ ct.noise \in NoiseValues /\ ct.v = EncryptV(ZeroSecret, ct.u, ct.noise)
        /\ FromPlaces(partials) /\ Len(partials) <= Needed
    BY <2>1 DEF DeployInv, AskedInv
  <2>3. row \in GoodRows /\ Placed(row)
    <3>1. row \in GoodRows
      BY <1>0, <2>2 DEF GoodRows
    <3>2. row.used = partials
      BY DEF Row
    <3>3. Len(partials) = Needed
      BY <1>0, <2>1, <2>2 DEF Needed
    <3> QED BY <2>2, <3>1, <3>2, <3>3 DEF Placed
  <2>4. rows' = Append(rows, row)
        /\ total_success' = total_success + (IF row.recovered = message THEN 1 ELSE 0)
    BY <1>6, <2>2 DEF ToyRow, Row
  <2>5. trial \in Nat /\ trial < NTrials /\ TrialsBehind
    BY <2>1 DEF AccountInv
  <2> HIDE DEF row
  <2>6. Len(rows') = Len(rows) + 1
    BY <1>0, <2>3, <2>4
  <2>7. total_success' = Cardinality(Successes(rows'))
    BY <1>0, <2>3, <2>4, <2>5, OneMoreRow DEF TrialsBehind
  <2>8. TrialsBehind'
    <3>1. trial' = Len(rows') + Len(skipped')
      BY <1>0, <2>1, <2>5, <2>6 DEF TrialsBehind
    <3> QED BY <2>7, <3>1 DEF TrialsBehind, Successes
  <2>9. \A i \in 1..Len(rows') : Placed(rows'[i])
    <3>1. ASSUME NEW i \in 1..Len(rows') PROVE Placed(rows'[i])
      <4>1. CASE i = Len(rows) + 1
        BY <1>0, <2>3, <2>4, <4>1
      <4>2. CASE i # Len(rows) + 1
        <5>1. i \in 1..Len(rows) /\ rows'[i] = rows[i]
          BY <1>0, <2>3, <2>4, <2>6, <4>2
        <5> QED BY <5>1 DEF AccountInv
      <4> QED BY <4>1, <4>2
    <3> QED BY <3>1
  <2>10. \A i \in 1..Len(rows') : Placed(rows[i])'
    BY <2>1, <2>9 DEF Placed, FromPlaces, Needed
  <2>11. \A i \in 1..Len(skipped) : skipped[i] > Len(hosts) - k
    BY DEF AccountInv
  <2> QED BY <1>0, <2>1, <2>5, <2>8, <2>10, <2>11 DEF AccountInv
<1>7. CASE UNCHANGED <<trial, total_success, rows, skipped, k, hosts>>
           /\ (cpc' = cpc \/ cpc' = "overrun")
  BY <1>7, <1>P DEF AccountInv, TrialsBehind
<1>8. \/ ToyCoordStart \/ ToyCoordProbe \/ ToyCoordOpen \/ ToyEncrypt \/ ToySkip \/ ToyRow
      \/ UNCHANGED <<trial, total_success, rows, skipped, k, hosts>>
         /\ (cpc' = cpc \/ cpc' = "overrun")
  BY DEF ToyNext, toyVars, coordVars, ToyDealerStart, ToyDealerProbe, ToyDealerPost, ToyListen,
         ToyStore, ToyDie, ToyTake, ToyOverrun, ToyPass
<1> QED BY <1>1, <1>2, <1>3, <1>4, <1>5, <1>6, <1>7, <1>8

(* Every trial is a row or was skipped for lack of answers, a row used the *)
(* answers of k places of the list, each at the point dealt to the host    *)
(* named there, and total_success counts the rows with the message: for    *)
(* every modulus, every list of names, repeated and unknown ones included, *)
(* and every k, negative ones included (coordinator.c:124-217).            *)
THEOREM TrialsAlwaysAccounted == ToySpec => []TrialsAccounted
<1> DEFINE Inv == DeployInv /\ AccountInv
<1>1. ToyInit => Inv
  <2>1. ToyInit => AccountInv
    BY ToyDeploymentAssumption DEF ToyInit, ToyIdle, AccountInv
  <2> QED BY <2>1, DeployInit
<1>2. Inv /\ [ToyNext]_toyVars => Inv'
  BY DeployNext, AccountNext
<1>3. Inv => TrialsAccounted
  <2> SUFFICES ASSUME Inv, cpc \in {"trial", "collect", "exit0"} PROVE TrialsAccounted
    BY DEF TrialsAccounted
  <2>1. TrialsBehind /\ (cpc = "exit0" => trial = NTrials)
        /\ \A i \in 1..Len(skipped) : skipped[i] > Len(hosts) - k
    BY DEF AccountInv
  <2>2. \A i \in 1..Len(rows) :
          FromPlaces(rows[i].used) /\ Len(rows[i].used) = IF k > 0 THEN k ELSE 0
    BY DEF AccountInv, Placed, Needed
  <2> QED BY <2>1, <2>2 DEF TrialsAccounted, TrialsBehind, Successes
<1> QED BY <1>1, <1>2, <1>3, PTL DEF ToySpec
=============================================================================
