-------------------------- MODULE ArithmeticProofs --------------------------
(***************************************************************************)
(* The arithmetic of the threshold scheme for every modulus, number of     *)
(* points and polynomial: induction along the code's loops, residues, the  *)
(* extended Euclid loop of mod_inverse_q, and, for a prime modulus,        *)
(* Lagrange interpolation as threshold_combine computes it; and, for the   *)
(* code's own modulus, the error of its compressions and decodings.        *)
(***************************************************************************)
EXTENDS ShamirArith, Codec, WellFoundedInduction, TLAPS

-----------------------------------------------------------------------------
(* Induction.  The library's least-number principle takes an operator as a *)
(* parameter; this one is about a set, and follows from WFMin.             *)

LEMMA LeastElement ==
  ASSUME NEW T, T \subseteq Nat, T # {}
  PROVE  \E m \in T : \A n \in T : m <= n
<1>1. IsWellFoundedOn(OpToRel(<, Nat), Nat)
  BY NatLessThanWellFounded
<1>2. \A x, y \in Nat : x < y => <<x, y>> \in OpToRel(<, Nat)
  BY DEF OpToRel
<1>3. PICK R : IsWellFoundedOn(R, Nat) /\ \A x, y \in Nat : x < y => <<x, y>> \in R
  BY <1>1, <1>2
<1>4. IsWellFoundedOn(R, Nat)
  BY <1>3
<1>5. PICK x \in T : \A y \in T : <<y, x>> \notin R
  BY ONLY <1>4, T \subseteq Nat, T # {}, WFMin, Zenon
<1>6. \A y \in T : x <= y
  <2> SUFFICES ASSUME NEW y \in T, y < x PROVE FALSE
    OBVIOUS
  <2>1. x \in Nat /\ y \in Nat
    OBVIOUS
  <2>2. <<y, x>> \in R
    BY <1>3, <2>1
  <2> QED BY <1>5, <2>2
<1> QED BY <1>6

LEMMA Induction ==
  ASSUME NEW S, 0 \in S, \A n \in Nat : n \in S => n + 1 \in S
  PROVE  \A n \in Nat : n \in S
<1> DEFINE T == {n \in Nat : n \notin S}
<1> SUFFICES ASSUME T # {} PROVE FALSE
  OBVIOUS
<1>1. PICK m \in T : \A n \in T : m <= n
  <2>1. T \subseteq Nat
    OBVIOUS
  <2> HIDE DEF T
  <2> QED BY <2>1, LeastElement
<1>2. m \in Nat /\ m # 0
  OBVIOUS
<1>3. m - 1 \in Nat /\ m - 1 \notin T
  BY <1>1, <1>2
<1>4. m - 1 \in S /\ (m - 1) + 1 = m
  BY <1>3
<1> QED BY <1>1, <1>3, <1>4

(* The hypothesis may be used for all smaller numbers.                     *)
LEMMA StrongInduction ==
  ASSUME NEW S, \A n \in Nat : (\A m \in Nat : m < n => m \in S) => n \in S
  PROVE  \A n \in Nat : n \in S
<1> DEFINE T == {n \in Nat : n \notin S}
<1> SUFFICES ASSUME T # {} PROVE FALSE
  OBVIOUS
<1>1. PICK m \in T : \A n \in T : m <= n
  <2>1. T \subseteq Nat
    OBVIOUS
  <2> HIDE DEF T
  <2> QED BY <2>1, LeastElement
<1>2. \A n \in Nat : n < m => n \in S
  BY <1>1
<1> QED BY <1>1, <1>2

(* Induction along a loop that runs from 0 to n.                           *)
LEMMA LoopInduction ==
  ASSUME NEW n \in Nat, NEW S, 0 \in S, \A i \in 1..n : i - 1 \in S => i \in S
  PROVE  \A i \in 0..n : i \in S
<1> DEFINE T == {i \in Nat : i <= n => i \in S}
<1>1. 0 \in T
  OBVIOUS
<1>2. \A i \in Nat : i \in T => i + 1 \in T
  <2> SUFFICES ASSUME NEW i \in Nat, i \in T, i + 1 <= n PROVE i + 1 \in S
    OBVIOUS
  <2>1. i \in S /\ i + 1 \in 1..n /\ (i + 1) - 1 = i
    OBVIOUS
  <2> QED BY <2>1
<1>3. \A i \in Nat : i \in T
  <2> HIDE DEF T
  <2> QED BY <1>1, <1>2, Induction
<1> QED BY <1>3

(* The values a recursion takes that starts from v0.                       *)
Runs(V, v0, step) ==
  {f \in [Nat -> V] : f[0] = v0 /\ \A i \in Nat : f[i + 1] = step[i][f[i]]}

(* A recursive definition over Nat has a solution.                         *)
LEMMA RunExists ==
  ASSUME NEW V, NEW v0 \in V, NEW step \in [Nat -> [V -> V]]
  PROVE  \E f : f \in Runs(V, v0, step)
<1> DEFINE Good(m, f) == /\ f \in [0..m -> V] /\ f[0] = v0
                         /\ \A i \in Nat : i < m => f[i + 1] = step[i][f[i]]
           S == {m \in Nat : \E f : Good(m, f)}
<1>1. 0 \in S
  <2> DEFINE f == [i \in 0..0 |-> v0]
  <2>1. Good(0, f)
    OBVIOUS
  <2> QED BY <2>1
<1>2. ASSUME NEW m \in Nat, m \in S PROVE m + 1 \in S
  <2>1. PICK g : Good(m, g)
    BY <1>2
  <2> DEFINE last == step[m][g[m]]
             f == [i \in 0..(m + 1) |-> IF i <= m THEN g[i] ELSE last]
  <2>2. g[m] \in V
    BY <2>1
  <2>3. last \in V
    BY <2>2
  <2>4. f \in [0..(m + 1) -> V] /\ f[0] = v0
    BY <2>1, <2>3
  <2>5. \A i \in Nat : i < m + 1 => f[i + 1] = step[i][f[i]]
    <3> SUFFICES ASSUME NEW i \in Nat, i < m + 1 PROVE f[i + 1] = step[i][f[i]]
      OBVIOUS
    <3>1. f[i] = g[i]
      OBVIOUS
    <3>2. CASE i < m
      <4>1. f[i + 1] = g[i + 1]
        BY <3>2
      <4> QED BY <2>1, <3>1, <3>2, <4>1
    <3>3. CASE i = m
      <4>1. f[i + 1] = last
        BY <3>3
      <4> QED BY <3>1, <3>3, <4>1
    <3> QED BY <3>2, <3>3
  <2>6. Good(m + 1, f)
    BY <2>4, <2>5
  <2> HIDE DEF Good, f
  <2> QED BY <2>6
<1>3. \A m \in Nat : \E f : Good(m, f)
  <2>1. \A m \in Nat : m \in S
    <3> HIDE DEF S
    <3> QED BY <1>1, <1>2, Induction
  <2> QED BY <2>1
<1>4. ASSUME NEW m \in Nat, NEW n \in Nat, NEW f, NEW g, Good(m, f), Good(n, g)
      PROVE  \A i \in Nat : i <= m /\ i <= n => f[i] = g[i]
  <2> DEFINE U == {i \in Nat : i <= m /\ i <= n => f[i] = g[i]}
  <2>1. 0 \in U
    BY <1>4
  <2>2. ASSUME NEW i \in Nat, i \in U PROVE i + 1 \in U
    <3> SUFFICES ASSUME i + 1 <= m, i + 1 <= n PROVE f[i + 1] = g[i + 1]
      OBVIOUS
    <3>1. f[i] = g[i] /\ i < m /\ i < n
      BY <2>2
    <3> QED BY <1>4, <3>1
  <2>3. \A i \in Nat : i \in U
    <3> HIDE DEF U
    <3> QED BY <2>1, <2>2, Induction
  <2> QED BY <2>3
<1> DEFINE run(m) == CHOOSE f : Good(m, f)
           h == [m \in Nat |-> run(m)[m]]
<1>5. \A m \in Nat : Good(m, run(m))
  <2> HIDE DEF Good
  <2> QED BY <1>3
<1>6. h \in [Nat -> V] /\ h[0] = v0
  <2>1. \A m \in Nat : run(m)[m] \in V
    <3> SUFFICES ASSUME NEW m \in Nat PROVE run(m)[m] \in V
      OBVIOUS
    <3>1. Good(m, run(m))
      <4> HIDE DEF Good, run
      <4> QED BY <1>5
    <3> HIDE DEF run
    <3> QED BY <3>1
  <2>2. run(0)[0] = v0
    BY <1>5
  <2> HIDE DEF run
  <2> QED BY <2>1, <2>2
<1>7. ASSUME NEW i \in Nat PROVE h[i + 1] = step[i][h[i]]
  <2>1. Good(i, run(i)) /\ Good(i + 1, run(i + 1))
    <3> HIDE DEF Good, run
    <3> QED BY <1>5
  <2>2. run(i + 1)[i] = run(i)[i]
    <3> HIDE DEF Good, run
    <3> QED BY <1>4, <2>1
  <2>3. run(i + 1)[i + 1] = step[i][run(i + 1)[i]]
    <3> HIDE DEF run
    <3> QED BY <2>1
  <2> HIDE DEF run, Good
  <2> QED BY <2>2, <2>3
<1>8. h \in Runs(V, v0, step)
  <2> HIDE DEF h
  <2> QED BY <1>6, <1>7 DEF Runs
<1> QED BY <1>8

LoopRuns(V, v0, n, step) ==
  {f \in [0..n -> V] : f[0] = v0 /\ \A i \in 1..n : f[i] = step[i][f[i - 1]]}

(* A loop has a run.                                                       *)
LEMMA LoopExists ==
  ASSUME NEW V, NEW v0 \in V, NEW n \in Nat, NEW step \in [1..n -> [V -> V]]
  PROVE  \E f : f \in LoopRuns(V, v0, n, step)
<1> DEFINE total == [i \in Nat |-> IF i < n THEN step[i + 1] ELSE [v \in V |-> v]]
<1>1. total \in [Nat -> [V -> V]]
  OBVIOUS
<1>2. PICK g : g \in Runs(V, v0, total)
  <2> HIDE DEF total
  <2> QED BY <1>1, RunExists
<1> HIDE DEF total
<1> DEFINE f == [i \in 0..n |-> g[i]]
<1>3. f \in [0..n -> V] /\ f[0] = v0
  BY <1>2 DEF Runs
<1>4. ASSUME NEW i \in 1..n PROVE f[i] = step[i][f[i - 1]]
  <2> DEFINE j == i - 1
  <2>1. j \in Nat /\ j + 1 = i /\ j < n
    OBVIOUS
  <2>2. g[j + 1] = total[j][g[j]]
    <3> HIDE DEF j
    <3> QED BY <1>2, <2>1 DEF Runs
  <2>3. total[j] = step[i]
    <3> HIDE DEF j
    <3> QED BY <2>1 DEF total
  <2>4. f[i] = g[i] /\ f[j] = g[j]
    OBVIOUS
  <2> HIDE DEF j, f
  <2>5. f[i] = step[i][f[j]]
    BY <2>1, <2>2, <2>3, <2>4
  <2> QED BY <2>5 DEF j
<1>5. f \in LoopRuns(V, v0, n, step)
  BY <1>3, <1>4 DEF LoopRuns
<1> QED BY <1>5

(* A loop that adds up terms.                                              *)
LEMMA SumExists ==
  ASSUME NEW n \in Nat, NEW term \in [1..n -> Int]
  PROVE  \E f \in [0..n -> Int] :
           f = [i \in 0..n |-> IF i = 0 THEN 0 ELSE f[i - 1] + term[i]]
<1> DEFINE step == [i \in 1..n |-> [v \in Int |-> v + term[i]]]
<1>1. step \in [1..n -> [Int -> Int]]
  <2>1. \A i \in 1..n : term[i] \in Int
    OBVIOUS
  <2>2. \A i \in 1..n : \A v \in Int : v + term[i] \in Int
    BY <2>1
  <2> QED BY <2>2
<1>2. 0 \in Int
  OBVIOUS
<1>3. PICK f : f \in LoopRuns(Int, 0, n, step)
  <2> HIDE DEF step
  <2> QED BY <1>1, <1>2, LoopExists
<1>4. f \in [0..n -> Int] /\ f[0] = 0
  BY <1>3 DEF LoopRuns
<1>5. ASSUME NEW i \in 1..n PROVE f[i] = f[i - 1] + term[i]
  <2>1. f[i] = step[i][f[i - 1]]
    BY <1>3 DEF LoopRuns
  <2>2. i - 1 \in 0..n
    OBVIOUS
  <2>3. f[i - 1] \in Int
    BY <1>4, <2>2
  <2> QED BY <2>1, <2>3
<1>6. ASSUME NEW i \in 0..n PROVE f[i] = IF i = 0 THEN 0 ELSE f[i - 1] + term[i]
  <2>1. CASE i = 0
    BY <1>4, <2>1
  <2>2. CASE i # 0
    <3>1. i \in 1..n
      BY <2>2
    <3> QED BY <1>5, <2>2, <3>1, Zenon
  <2> QED BY <2>1, <2>2
<1>7. f = [i \in 0..n |-> IF i = 0 THEN 0 ELSE f[i - 1] + term[i]]
  BY <1>4, <1>6, Zenon
<1> QED BY <1>4, <1>7

(* A loop of eight rounds that adds.                                       *)
LEMMA SumOfEight ==
  ASSUME NEW f, NEW term \in [1..8 -> Int],
         f = [i \in 0..8 |-> IF i = 0 THEN 0 ELSE f[i - 1] + term[i]]
  PROVE  f[8] = term[1] + term[2] + term[3] + term[4] + term[5] + term[6] + term[7] + term[8]
<1>1. f[0] = 0
  <2>1. 0 \in 0..8
    OBVIOUS
  <2> QED BY <2>1, Zenon
<1>2. ASSUME NEW i \in 1..8 PROVE f[i] = f[i - 1] + term[i]
  <2>1. i \in 0..8 /\ i # 0
    OBVIOUS
  <2> QED BY <2>1, Zenon
<1>3. /\ term[1] \in Int /\ term[2] \in Int /\ term[3] \in Int /\ term[4] \in Int
      /\ term[5] \in Int /\ term[6] \in Int /\ term[7] \in Int /\ term[8] \in Int
  OBVIOUS
<1>4. /\ f[1] = f[1 - 1] + term[1] /\ f[2] = f[2 - 1] + term[2]
      /\ f[3] = f[3 - 1] + term[3] /\ f[4] = f[4 - 1] + term[4]
      /\ f[5] = f[5 - 1] + term[5] /\ f[6] = f[6 - 1] + term[6]
      /\ f[7] = f[7 - 1] + term[7] /\ f[8] = f[8 - 1] + term[8]
  BY ONLY <1>2
<1>5. /\ f[1] = f[0] + term[1] /\ f[2] = f[1] + term[2] /\ f[3] = f[2] + term[3]
      /\ f[4] = f[3] + term[4] /\ f[5] = f[4] + term[5] /\ f[6] = f[5] + term[6]
      /\ f[7] = f[6] + term[7] /\ f[8] = f[7] + term[8]
  BY ONLY <1>4
<1> QED BY ONLY <1>1, <1>3, <1>5

-----------------------------------------------------------------------------
(* Arithmetic modulo Q.                                                    *)

(* C's remainder differs from its argument by a multiple of Q.             *)
LEMMA CRemRange ==
  ASSUME NEW x \in Int
  PROVE  CRem(x) \in (-Q + 1)..(Q - 1) /\ \E k \in Int : x - CRem(x) = k * Q
<1>1. ASSUME NEW y \in Nat
      PROVE  y % Q \in 0..(Q - 1) /\ y - (y % Q) = (y \div Q) * Q /\ y \div Q \in Int
  BY QAssumption
<1>2. CASE x >= 0
  <2>1. CRem(x) = x % Q
    BY <1>2 DEF CRem
  <2>2. x \in Nat
    BY <1>2
  <2>3. (x % Q) \in 0..(Q - 1) /\ x - (x % Q) = (x \div Q) * Q /\ (x \div Q) \in Int
    BY <1>1, <2>2
  <2>4. CRem(x) \in (-Q + 1)..(Q - 1)
    BY <2>1, <2>3, QAssumption
  <2>5. x - CRem(x) = (x \div Q) * Q
    BY <2>1, <2>3
  <2> QED BY <2>3, <2>4, <2>5
<1>3. CASE x < 0
  <2>1. -x \in Nat
    BY <1>3
  <2>2. CRem(x) = -((-x) % Q)
    BY <1>3 DEF CRem
  <2> DEFINE y == -x
  <2>3. y % Q \in 0..(Q - 1) /\ y - (y % Q) = (y \div Q) * Q /\ y \div Q \in Int
    BY <1>1, <2>1
  <2>4. CRem(x) \in (-Q + 1)..(Q - 1)
    BY <2>2, <2>3, QAssumption
  <2>5. x - CRem(x) = (-(y \div Q)) * Q
    <3>1. x - CRem(x) = -(y - (y % Q))
      BY <2>2, <2>3, QAssumption
    <3>2. -((y \div Q) * Q) = (-(y \div Q)) * Q
      BY <2>3, QAssumption
    <3> QED BY <2>3, <3>1, <3>2
  <2>6. -(y \div Q) \in Int
    BY <2>3
  <2> HIDE DEF y
  <2> QED BY <2>4, <2>5, <2>6
<1> QED BY <1>2, <1>3

(* mod_q returns the canonical residue of its argument (threshold.c:9-14). *)
LEMMA ModQRange ==
  ASSUME NEW x \in Int
  PROVE  mod_q(x) \in 0..(Q - 1) /\ \E k \in Int : x - mod_q(x) = k * Q
<1>1. PICK k \in Int : x - CRem(x) = k * Q
  BY CRemRange
<1>2. CRem(x) \in (-Q + 1)..(Q - 1)
  BY CRemRange
<1>3. CASE CRem(x) < 0
  <2>1. mod_q(x) = CRem(x) + Q
    BY <1>3 DEF mod_q
  <2>2. x - mod_q(x) = (k - 1) * Q
    BY <1>1, <1>2, <2>1, QAssumption
  <2>3. k - 1 \in Int
    OBVIOUS
  <2>4. mod_q(x) \in 0..(Q - 1)
    BY <1>2, <1>3, <2>1, QAssumption
  <2> QED BY <2>2, <2>3, <2>4
<1>4. CASE ~(CRem(x) < 0)
  <2>1. mod_q(x) = CRem(x)
    BY <1>4 DEF mod_q
  <2>2. mod_q(x) \in 0..(Q - 1)
    BY <1>2, <1>4, <2>1, QAssumption
  <2>3. x - mod_q(x) = k * Q
    BY <1>1, <2>1
  <2> QED BY <2>2, <2>3
<1> QED BY <1>3, <1>4

(* center_q returns the residue of least absolute value                    *)
(* (threshold.c:16-25), so it fits the int16 it is cast to for q = 3329.   *)
THEOREM CenterQRange ==
  ASSUME NEW x \in Int
  PROVE  /\ 2 * center_q(x) <= Q /\ -Q <= 2 * center_q(x)
         /\ \E k \in Int : x - center_q(x) = k * Q
<1>1. PICK k \in Int : x - mod_q(x) = k * Q
  BY ModQRange
<1>2. mod_q(x) \in 0..(Q - 1)
  BY ModQRange
<1>3. Q \div 2 \in Int /\ 2 * (Q \div 2) <= Q /\ Q <= 2 * (Q \div 2) + 1
  BY QAssumption
<1>4. CASE mod_q(x) > Q \div 2
  <2>1. center_q(x) = mod_q(x) - Q
    BY <1>4 DEF center_q
  <2>2. x - center_q(x) = (k + 1) * Q
    BY <1>1, <1>2, <2>1, QAssumption
  <2>3. k + 1 \in Int
    OBVIOUS
  <2>4. 2 * center_q(x) <= Q /\ -Q <= 2 * center_q(x)
    BY <1>2, <1>3, <1>4, <2>1, QAssumption
  <2> QED BY <2>2, <2>3, <2>4
<1>5. CASE ~(mod_q(x) > Q \div 2)
  <2>1. center_q(x) = mod_q(x)
    BY <1>5 DEF center_q
  <2> QED BY <1>1, <1>2, <1>3, <1>5, <2>1, QAssumption
<1> QED BY <1>4, <1>5

(* Division with remainder, as the loop uses it.                           *)
LEMMA Remainder ==
  ASSUME NEW r \in Nat, NEW d \in Nat, d # 0
  PROVE  /\ r \div d \in Nat
         /\ r - (r \div d) * d \in Nat /\ r - (r \div d) * d < d
<1>1. r \div d \in Nat
  BY SMT
<1>2. (r % d) \in 0..(d - 1)
  BY SMT
<1>3. r = d * (r \div d) + (r % d)
  BY SMT
<1>4. d * (r \div d) = (r \div d) * d
  BY <1>1
<1> QED BY <1>1, <1>2, <1>3, <1>4

(* Two residues that differ by a multiple of Q are the same.               *)
LEMMA ResidueUnique ==
  ASSUME NEW x \in 0..(Q - 1), NEW y \in 0..(Q - 1), NEW k \in Int, x - y = k * Q
  PROVE  x = y
<1>1. CASE k >= 1
  <2>1. k * Q >= Q
    BY <1>1, QAssumption
  <2> QED BY <2>1, QAssumption
<1>2. CASE k <= -1
  <2>1. k * Q <= -Q
    BY <1>2, QAssumption
  <2> QED BY <2>1, QAssumption
<1>3. CASE k = 0
  BY <1>3, QAssumption
<1> QED BY <1>1, <1>2, <1>3

LEMMA ResidueOf ==
  ASSUME NEW x \in Int, NEW y \in 0..(Q - 1), NEW k \in Int, x - y = k * Q
  PROVE  x % Q = y
<1>1. x % Q \in 0..(Q - 1) /\ x \div Q \in Int /\ x = Q * (x \div Q) + (x % Q)
  BY QAssumption
<1> DEFINE d == x \div Q
           m == x % Q
<1>2. d \in Int /\ m \in 0..(Q - 1) /\ x = Q * d + m
  BY <1>1
<1> HIDE DEF d, m
<1>3. m - y = (k - d) * Q
  <2>1. m - y = k * Q - Q * d
    BY <1>2, QAssumption
  <2>2. k * Q - Q * d = (k - d) * Q
    BY <1>2, QAssumption
  <2> QED BY <2>1, <2>2
<1>4. k - d \in Int
  BY <1>2
<1>5. m = y
  BY <1>2, <1>3, <1>4, ResidueUnique
<1> QED BY <1>5 DEF m

(* x and y have the same residue.                                          *)
Cong(x, y) == \E k \in Int : x - y = k * Q

LEMMA CongRefl == ASSUME NEW x \in Int PROVE Cong(x, x)
<1>1. x - x = 0 * Q
  BY QAssumption
<1> QED BY <1>1 DEF Cong

LEMMA CongSym ==
  ASSUME NEW x \in Int, NEW y \in Int, Cong(x, y)
  PROVE  Cong(y, x)
<1>1. PICK k \in Int : x - y = k * Q
  BY DEF Cong
<1>2. y - x = -(x - y)
  OBVIOUS
<1>3. -(k * Q) = (-k) * Q
  BY QAssumption
<1>4. -k \in Int
  OBVIOUS
<1> QED BY <1>1, <1>2, <1>3, <1>4 DEF Cong

LEMMA CongTrans ==
  ASSUME NEW x \in Int, NEW y \in Int, NEW z \in Int, Cong(x, y), Cong(y, z)
  PROVE  Cong(x, z)
<1>1. PICK k \in Int : x - y = k * Q
  BY DEF Cong
<1>2. PICK l \in Int : y - z = l * Q
  BY DEF Cong
<1>3. x - z = (k + l) * Q
  BY <1>1, <1>2, QAssumption
<1> QED BY <1>3 DEF Cong

LEMMA CongAdd ==
  ASSUME NEW x \in Int, NEW y \in Int, NEW u \in Int, NEW v \in Int, Cong(x, y), Cong(u, v)
  PROVE  Cong(x + u, y + v)
<1>1. PICK k \in Int : x - y = k * Q
  BY DEF Cong
<1>2. PICK l \in Int : u - v = l * Q
  BY DEF Cong
<1>3. (x + u) - (y + v) = (k + l) * Q
  BY <1>1, <1>2, QAssumption
<1> QED BY <1>3 DEF Cong

LEMMA CongNeg ==
  ASSUME NEW x \in Int, NEW y \in Int, Cong(x, y)
  PROVE  Cong(-x, -y)
<1>1. PICK k \in Int : x - y = k * Q
  BY DEF Cong
<1>2. (-x) - (-y) = -(x - y)
  OBVIOUS
<1>3. -(k * Q) = (-k) * Q
  BY QAssumption
<1>4. -k \in Int
  OBVIOUS
<1> QED BY <1>1, <1>2, <1>3, <1>4 DEF Cong

LEMMA CongScale ==
  ASSUME NEW x \in Int, NEW y \in Int, NEW u \in Int, Cong(x, y)
  PROVE  Cong(u * x, u * y) /\ Cong(x * u, y * u)
<1>1. PICK k \in Int : x - y = k * Q
  BY DEF Cong
<1>2. u * x - u * y = u * (x - y)
  OBVIOUS
<1>3. u * (k * Q) = (u * k) * Q
  BY QAssumption
<1>4. u * k \in Int /\ u * x - u * y = (u * k) * Q
  BY <1>1, <1>2, <1>3
<1>5. u * x = x * u /\ u * y = y * u
  OBVIOUS
<1>6. Cong(u * x, u * y)
  BY <1>4 DEF Cong
<1> QED BY <1>5, <1>6

LEMMA CongMul ==
  ASSUME NEW x \in Int, NEW y \in Int, NEW u \in Int, NEW v \in Int, Cong(x, y), Cong(u, v)
  PROVE  Cong(x * u, y * v)
<1>1. Cong(x * u, y * u)
  BY CongScale
<1>2. Cong(y * u, y * v)
  BY CongScale
<1>3. x * u \in Int /\ y * u \in Int /\ y * v \in Int
  OBVIOUS
<1> QED BY <1>1, <1>2, <1>3, CongTrans

LEMMA CongScaleZero ==
  ASSUME NEW x \in Int, NEW u \in Int, Cong(x, 0)
  PROVE  Cong(u * x, 0) /\ Cong(x * u, 0)
<1>1. PICK k \in Int : x - 0 = k * Q
  BY DEF Cong
<1>2. u * (k * Q) = (u * k) * Q
  BY QAssumption
<1>3. u * x - 0 = (u * k) * Q /\ u * k \in Int
  BY <1>1, <1>2
<1>4. Cong(u * x, 0)
  BY <1>3 DEF Cong
<1> QED BY <1>4

LEMMA CongShift ==
  ASSUME NEW x \in Int, NEW y \in Int, NEW u \in Int, Cong(x, y)
  PROVE  Cong(x + u, y + u) /\ Cong(u + x, u + y)
BY CongRefl, CongAdd

LEMMA CongZeroShift ==
  ASSUME NEW x \in Int, NEW u \in Int, Cong(x, 0)
  PROVE  Cong(x + u, u) /\ Cong(u + x, u)
<1>1. PICK k \in Int : x - 0 = k * Q
  BY DEF Cong
<1>2. k * Q \in Int
  BY QAssumption
<1>3. (x + u) - u = k * Q /\ (u + x) - u = k * Q
  BY <1>1, <1>2
<1> QED BY <1>3 DEF Cong

LEMMA CongScaleOne ==
  ASSUME NEW x \in Int, NEW u \in Int, Cong(x, 1)
  PROVE  Cong(u * x, u) /\ Cong(x * u, u)
<1>1. PICK k \in Int : x - 1 = k * Q
  BY DEF Cong
<1>2. u * (k * Q) = (u * k) * Q
  BY QAssumption
<1>3. u * x - u = u * (x - 1)
  OBVIOUS
<1>4. u * x - u = (u * k) * Q /\ u * k \in Int
  BY <1>1, <1>2, <1>3
<1>5. Cong(u * x, u)
  BY <1>4 DEF Cong
<1> QED BY <1>5

LEMMA ModQCong ==
  ASSUME NEW x \in Int
  PROVE  mod_q(x) \in Int /\ Cong(x, mod_q(x)) /\ Cong(mod_q(x), x)
<1>1. mod_q(x) \in Int
  BY ModQRange, QAssumption
<1>2. Cong(x, mod_q(x))
  BY ModQRange DEF Cong
<1> QED BY <1>1, <1>2, CongSym

LEMMA CenterQCong ==
  ASSUME NEW x \in Int
  PROVE  center_q(x) \in Int /\ Cong(x, center_q(x)) /\ Cong(center_q(x), x)
<1>1. center_q(x) \in Int
  BY ModQRange, QAssumption DEF center_q
<1>2. Cong(x, center_q(x))
  BY CenterQRange DEF Cong
<1> QED BY <1>1, <1>2, CongSym

LEMMA CenterQHalf ==
  ASSUME NEW x \in Int
  PROVE  center_q(x) \in -(Q \div 2)..(Q \div 2)
<1>1. 2 * center_q(x) <= Q /\ -Q <= 2 * center_q(x) /\ center_q(x) \in Int
  BY CenterQRange, CenterQCong
<1> DEFINE c == center_q(x)
           d == Q \div 2
<1>2. d \in Int /\ 2 * d <= Q /\ Q <= 2 * d + 1
  BY QAssumption
<1> HIDE DEF d
<1>3. c \in -d..d
  BY <1>1, <1>2, QAssumption
<1> QED BY <1>3 DEF d

(* Congruent arguments have the same residues.                             *)
LEMMA CongModQ ==
  ASSUME NEW x \in Int, NEW y \in Int, Cong(x, y)
  PROVE  mod_q(x) = mod_q(y) /\ center_q(x) = center_q(y)
<1>1. mod_q(x) \in Int /\ mod_q(y) \in Int
  BY ModQCong
<1>2. Cong(mod_q(x), x) /\ Cong(y, mod_q(y))
  BY ModQCong
<1>3. Cong(mod_q(x), y)
  BY <1>1, <1>2, CongTrans
<1>4. Cong(mod_q(x), mod_q(y))
  BY <1>1, <1>2, <1>3, CongTrans
<1>5. mod_q(x) = mod_q(y)
  BY <1>4, ModQRange, ResidueUnique DEF Cong
<1> QED BY <1>5 DEF center_q

LEMMA CongResidues ==
  ASSUME NEW x \in 0..(Q - 1), NEW y \in 0..(Q - 1), Cong(x, y)
  PROVE  x = y
BY ResidueUnique DEF Cong

LEMMA ModQOfResidue ==
  ASSUME NEW x \in 0..(Q - 1)
  PROVE  mod_q(x) = x
<1>1. x \in Int
  BY QAssumption
<1> QED BY <1>1, ModQCong, ModQRange, CongResidues

(* x % Q is the residue too.                                               *)
LEMMA RemIsModQ ==
  ASSUME NEW x \in Int
  PROVE  x % Q = mod_q(x)
<1>1. PICK k \in Int : x - mod_q(x) = k * Q
  BY ModQRange
<1> QED BY <1>1, ModQRange, ResidueOf

LEMMA CongRem ==
  ASSUME NEW x \in Int, NEW y \in Int
  PROVE  Cong(x, y) <=> (x - y) % Q = 0
<1>1. ASSUME Cong(x, y) PROVE (x - y) % Q = 0
  <2>1. PICK k \in Int : x - y = k * Q
    BY <1>1 DEF Cong
  <2>2. (x - y) - 0 = k * Q /\ 0 \in 0..(Q - 1) /\ x - y \in Int
    BY <2>1, QAssumption
  <2> QED BY <2>2, ResidueOf
<1>2. ASSUME (x - y) % Q = 0 PROVE Cong(x, y)
  <2>1. x - y \in Int
    OBVIOUS
  <2>2. mod_q(x - y) = 0
    BY <1>2, <2>1, RemIsModQ
  <2>3. PICK k \in Int : (x - y) - mod_q(x - y) = k * Q
    BY <2>1, ModQRange
  <2>4. x - y = k * Q
    BY <2>1, <2>2, <2>3
  <2> QED BY <2>4 DEF Cong
<1> QED BY <1>1, <1>2

-----------------------------------------------------------------------------
(* mod_inverse_q.                                                          *)

(* t and newt are Bezout coefficients of a for the two remainders, modulo  *)
(* Q.                                                                      *)
Coefficients(a, e) == Cong(e.t * a, e.r) /\ Cong(e.newt * a, e.newr)

(* The residue of the argument is a combination of the two remainders, so  *)
(* whatever divides both divides it.                                       *)
Combines(a, e) == \E z, w \in Nat : mod_q(a) = e.r * z + e.newr * w

(* t and newt have opposite signs, and weigh the remainders to exactly Q:  *)
(* this is what keeps them within [-Q, Q].                                 *)
Weighs(e, p, n) ==
  /\ p * e.newr + n * e.r = Q
  /\ (e.t = p /\ e.newt + n = 0) \/ (e.t + p = 0 /\ e.newt = n)
  /\ p <= Q

(* A multiple of Q stops the loop before its first round.                  *)
ZeroStops(a, e) == mod_q(a) = 0 => e.t = 0 /\ e.newr = 0

(* The invariant of the loop.                                              *)
EuclidInv(a, e) ==
  /\ a \in Int /\ e \in Euclid /\ e.r > e.newr
  /\ Coefficients(a, e)
  /\ Combines(a, e)
  /\ \E p, n \in Nat : Weighs(e, p, n)
  /\ ZeroStops(a, e)

LEMMA EuclidStarts ==
  ASSUME NEW a \in Int
  PROVE  EuclidInv(a, EuclidInit(a))
<1> DEFINE e == EuclidInit(a)
<1>1. e = [t |-> 0, newt |-> 1, r |-> Q, newr |-> mod_q(a)]
  BY DEF EuclidInit
<1>2. mod_q(a) \in 0..(Q - 1)
  BY ModQRange
<1> HIDE DEF e
<1>3. e \in Euclid /\ e.r > e.newr
  BY <1>1, <1>2, QAssumption DEF Euclid
<1>4. e.t = 0 /\ e.newt = 1 /\ e.r = Q /\ e.newr = mod_q(a)
  BY <1>1
<1>5. Coefficients(a, e)
  <2>1. e.t * a - e.r = (-1) * Q
    BY <1>4, QAssumption
  <2>2. Cong(e.t * a, e.r)
    BY <2>1 DEF Cong
  <2>3. e.newt * a = a
    BY <1>4
  <2> QED BY <1>4, <2>2, <2>3, ModQCong DEF Coefficients
<1>6. Combines(a, e)
  <2>1. mod_q(a) = e.r * 0 + e.newr * 1
    BY <1>2, <1>4, QAssumption
  <2> QED BY <2>1 DEF Combines
<1>7. Weighs(e, 0, 1)
  <2>1. e.newr \in Int
    BY <1>2, <1>4
  <2>2. 0 * e.newr + 1 * e.r = Q
    BY <1>4, <2>1, QAssumption
  <2>3. e.t + 0 = 0 /\ e.newt = 1 /\ 0 <= Q
    BY <1>4, QAssumption
  <2> QED BY <2>2, <2>3 DEF Weighs
<1>8. ZeroStops(a, e)
  BY <1>4 DEF ZeroStops
<1>9. \E p, n \in Nat : Weighs(e, p, n)
  BY <1>7
<1> QED BY <1>3, <1>5, <1>6, <1>8, <1>9 DEF EuclidInv, e

LEMMA CombineAlgebra ==
  ASSUME NEW r \in Int, NEW v \in Int, NEW q \in Int, NEW z \in Int, NEW w \in Int
  PROVE  r * z + v * w = v * (q * z + w) + (r - q * v) * z
<1>1. v * (q * z + w) = v * (q * z) + v * w
  OBVIOUS
<1>2. (r - q * v) * z = r * z - (q * v) * z
  OBVIOUS
<1>3. v * (q * z) = (q * v) * z
  OBVIOUS
<1> QED BY <1>1, <1>2, <1>3

LEMMA WeighAlgebra ==
  ASSUME NEW r \in Int, NEW v \in Int, NEW q \in Int, NEW p \in Int, NEW n \in Int
  PROVE  n * (r - q * v) + (p + q * n) * v = p * v + n * r
<1>1. n * (r - q * v) = n * r - n * (q * v)
  OBVIOUS
<1>2. (p + q * n) * v = p * v + (q * n) * v
  OBVIOUS
<1>3. n * (q * v) = (q * n) * v
  OBVIOUS
<1> QED BY <1>1, <1>2, <1>3

(* A combination of two congruences, as one round makes it.                *)
LEMMA CongCombine ==
  ASSUME NEW x \in Int, NEW y \in Int, NEW u \in Int, NEW v \in Int, NEW q \in Int,
         Cong(x, y), Cong(u, v)
  PROVE  Cong(x - q * u, y - q * v)
<1>1. Cong(q * u, q * v)
  BY CongScale
<1>2. q * u \in Int /\ q * v \in Int
  OBVIOUS
<1>3. Cong(-(q * u), -(q * v))
  BY <1>1, <1>2, CongNeg
<1>4. -(q * u) \in Int /\ -(q * v) \in Int
  BY <1>2
<1>5. Cong(x + -(q * u), y + -(q * v))
  BY <1>3, <1>4, CongAdd
<1>6. x + -(q * u) = x - q * u /\ y + -(q * v) = y - q * v
  BY <1>2
<1> QED BY <1>5, <1>6

(* A round keeps it, and leaves a smaller remainder.                       *)
LEMMA EuclidContinues ==
  ASSUME NEW a, NEW e, EuclidInv(a, e), e.newr # 0
  PROVE  EuclidInv(a, EuclidStep(e)) /\ EuclidStep(e).newr < e.newr
<1> DEFINE d == EuclidStep(e)
<1>1. /\ e.t \in Int /\ e.newt \in Int /\ e.r \in Nat /\ e.newr \in Nat
      /\ e.r > e.newr /\ a \in Int
  BY DEF EuclidInv, Euclid
<1>2. PICK q \in Nat : /\ d = [t |-> e.newt, newt |-> e.t - q * e.newt,
                               r |-> e.newr, newr |-> e.r - q * e.newr]
                       /\ e.r - q * e.newr \in Nat /\ e.r - q * e.newr < e.newr
  <2> DEFINE quot == e.r \div e.newr
  <2>1. d = [t |-> e.newt, newt |-> e.t - quot * e.newt,
             r |-> e.newr, newr |-> e.r - quot * e.newr]
    BY DEF EuclidStep
  <2>2. quot \in Nat /\ e.r - quot * e.newr \in Nat /\ e.r - quot * e.newr < e.newr
    BY <1>1, Remainder
  <2> HIDE DEF quot, d
  <2> QED BY <2>1, <2>2
<1> HIDE DEF d
<1>3. e.r - q * e.newr \in Nat /\ e.r - q * e.newr < e.newr
  BY <1>2
<1>4. d.r = e.newr /\ d.newr = e.r - q * e.newr /\ d.t = e.newt /\ d.newt = e.t - q * e.newt
  BY <1>2
<1>5. d \in Euclid /\ d.r > d.newr /\ d.newr < e.newr
  <2>1. e.t - q * e.newt \in Int
    BY <1>1
  <2> QED BY <1>1, <1>2, <1>3, <2>1 DEF Euclid
<1>6. Coefficients(a, d)
  <2>1. Cong(e.t * a, e.r) /\ Cong(e.newt * a, e.newr)
    BY DEF EuclidInv, Coefficients
  <2>2. e.t * a \in Int /\ e.newt * a \in Int
    BY <1>1
  <2>3. Cong(e.t * a - q * (e.newt * a), e.r - q * e.newr)
    <3> DEFINE x == e.t * a
               u == e.newt * a
    <3>1. x \in Int /\ u \in Int /\ Cong(x, e.r) /\ Cong(u, e.newr)
      BY <2>1, <2>2
    <3>2. e.r \in Int /\ e.newr \in Int /\ q \in Int
      BY <1>1
    <3> HIDE DEF x, u
    <3> SUFFICES Cong(x - q * u, e.r - q * e.newr)
      BY DEF x, u
    <3> QED BY <3>1, <3>2, CongCombine
  <2>4. (e.t - q * e.newt) * a = e.t * a - q * (e.newt * a)
    <3>1. (e.t - q * e.newt) * a = e.t * a - (q * e.newt) * a
      BY <1>1
    <3>2. (q * e.newt) * a = q * (e.newt * a)
      BY <1>1
    <3> QED BY <3>1, <3>2
  <2> QED BY <1>4, <2>1, <2>3, <2>4 DEF Coefficients
<1>7. Combines(a, d)
  <2>1. PICK z \in Nat, w \in Nat : mod_q(a) = e.r * z + e.newr * w
    BY DEF EuclidInv, Combines
  <2>2. mod_q(a) = d.r * (q * z + w) + d.newr * z
    BY <1>1, <1>4, <1>3, <2>1, CombineAlgebra
  <2>3. q * z + w \in Nat
    BY <1>1
  <2> QED BY <2>2, <2>3 DEF Combines
<1>8. \E p, n \in Nat : Weighs(d, p, n)
  <2>1. PICK p \in Nat, n \in Nat : Weighs(e, p, n)
    BY DEF EuclidInv
  <2>2. n * d.newr + (p + q * n) * d.r = Q
    BY <1>1, <1>4, <1>3, <2>1, WeighAlgebra DEF Weighs
  <2>3. p + q * n \in Nat
    BY <1>3
  <2>4. \/ d.t = n /\ d.newt + (p + q * n) = 0
        \/ d.t + n = 0 /\ d.newt = p + q * n
    <3>1. CASE e.t = p /\ e.newt + n = 0
      <4>1. e.newt = -n
        BY <1>1, <3>1
      <4>2. e.t - q * e.newt = p + q * n
        BY <3>1, <4>1
      <4> QED BY <1>1, <1>4, <3>1, <4>2
    <3>2. CASE e.t + p = 0 /\ e.newt = n
      <4>1. e.t = -p
        BY <1>1, <3>2
      <4>2. (e.t - q * e.newt) + (p + q * n) = 0
        BY <3>2, <4>1
      <4> QED BY <1>1, <1>4, <3>2, <4>2
    <3> QED BY <2>1, <3>1, <3>2 DEF Weighs
  <2>5. n <= Q
    <3>1. n * e.r >= n /\ p * e.newr >= 0
      BY <1>1
    <3> QED BY <1>1, <2>1, <3>1, QAssumption DEF Weighs
  <2>6. Weighs(d, n, p + q * n)
    BY <2>2, <2>4, <2>5 DEF Weighs
  <2> QED BY <2>3, <2>6
<1>9. ZeroStops(a, d)
  BY DEF EuclidInv, ZeroStops
<1>10. EuclidInv(a, d)
  BY <1>1, <1>5, <1>6, <1>7, <1>8, <1>9 DEF EuclidInv
<1> QED BY <1>5, <1>10 DEF d

(* The coefficients stay within the modulus.                               *)
LEMMA EuclidBounds ==
  ASSUME NEW a, NEW e, EuclidInv(a, e)
  PROVE  e.t \in -Q..Q /\ e.newt \in -Q..Q
<1>1. /\ e.t \in Int /\ e.newt \in Int /\ e.r \in Nat /\ e.newr \in Nat /\ e.r > e.newr
  BY DEF EuclidInv, Euclid
<1>2. PICK p \in Nat, n \in Nat : Weighs(e, p, n)
  BY DEF EuclidInv
<1>3. n * e.r >= n /\ p * e.newr >= 0
  BY <1>1
<1>4. n <= Q
  BY <1>1, <1>2, <1>3, QAssumption DEF Weighs
<1> QED BY <1>1, <1>2, <1>4, QAssumption DEF Weighs

QIsPrime == \A x, y \in Nat : x * y = Q => x = 1 \/ y = 1

(* A prime modulus leaves 1 at the end of every other argument's loop.     *)
LEMMA LastIsOne ==
  ASSUME QIsPrime, NEW a, NEW e, EuclidInv(a, e), e.newr = 0, mod_q(a) # 0
  PROVE  e.r = 1
<1>1. e.r \in Nat /\ a \in Int
  BY DEF EuclidInv, Euclid
<1>2. PICK p \in Nat, n \in Nat : Weighs(e, p, n)
  BY DEF EuclidInv
<1>3. n * e.r = Q
  <2>1. p * e.newr = 0
    OBVIOUS
  <2> QED BY <1>1, <1>2, <2>1, QAssumption DEF Weighs
<1>4. PICK z \in Nat, w \in Nat : mod_q(a) = e.r * z + e.newr * w
  BY DEF EuclidInv, Combines
<1>5. mod_q(a) = e.r * z
  <2>1. e.newr * w = 0
    OBVIOUS
  <2> QED BY <1>1, <1>4, <2>1
<1>6. mod_q(a) \in 0..(Q - 1)
  BY <1>1, ModQRange
<1>7. n # 1
  <2> SUFFICES ASSUME n = 1 PROVE FALSE
    OBVIOUS
  <2>1. mod_q(a) = Q * z
    BY <1>1, <1>3, <1>5
  <2>2. z >= 1
    BY <2>1, QAssumption
  <2>3. Q * z >= Q
    BY <2>2, QAssumption
  <2> QED BY <1>6, <2>1, <2>3, QAssumption
<1> QED BY <1>1, <1>3, <1>7 DEF QIsPrime

(* What the end of the loop returns.                                       *)
LEMMA EuclidResult ==
  ASSUME QIsPrime, NEW a, NEW e, EuclidInv(a, e), e.newr = 0
  PROVE  /\ mod_q(a) # 0 => Cong(mod_q(e.t) * a, 1)
         /\ mod_q(a) = 0 => mod_q(e.t) = 0
<1>1. e.t \in Int /\ a \in Int
  BY DEF EuclidInv, Euclid
<1>2. ASSUME mod_q(a) # 0 PROVE Cong(mod_q(e.t) * a, 1)
  <2>1. Cong(e.t * a, 1)
    BY <1>2, LastIsOne DEF EuclidInv, Coefficients
  <2>2. mod_q(e.t) \in Int /\ Cong(mod_q(e.t), e.t)
    BY <1>1, ModQCong
  <2>3. Cong(mod_q(e.t) * a, e.t * a)
    BY <1>1, <2>2, CongScale
  <2>4. mod_q(e.t) * a \in Int /\ e.t * a \in Int
    BY <1>1, <2>2
  <2> QED BY <2>1, <2>3, <2>4, CongTrans
<1>3. ASSUME mod_q(a) = 0 PROVE mod_q(e.t) = 0
  <2>1. e.t = 0 /\ 0 \in 0..(Q - 1)
    BY <1>3, QAssumption DEF EuclidInv, ZeroStops
  <2> QED BY <2>1, ModQOfResidue
<1> QED BY <1>2, <1>3

LEMMA EuclidStepType ==
  ASSUME NEW e \in Euclid, e.newr # 0
  PROVE  EuclidStep(e) \in Euclid /\ EuclidStep(e).newr < e.newr
<1> DEFINE q == e.r \div e.newr
<1>1. e.t \in Int /\ e.newt \in Int /\ e.r \in Nat /\ e.newr \in Nat
  BY DEF Euclid
<1>2. q \in Nat /\ e.r - q * e.newr \in Nat /\ e.r - q * e.newr < e.newr
  BY <1>1, Remainder
<1>3. EuclidStep(e) = [t |-> e.newt, newt |-> e.t - q * e.newt,
                       r |-> e.newr, newr |-> e.r - q * e.newr]
  BY DEF EuclidStep
<1> HIDE DEF q
<1>4. e.t - q * e.newt \in Int
  BY <1>1, <1>2
<1> QED BY <1>1, <1>2, <1>3, <1>4 DEF Euclid

(* One more round, when there is one to run.                               *)
OneMore(f) == [e \in Euclid |-> IF e.newr = 0 THEN e ELSE f[EuclidStep(e)]]

(* The loop of mod_inverse_q ends, so the recursion that models it has a   *)
(* solution: f[m] runs at most m rounds, and no argument needs more than   *)
(* its newr.                                                               *)
LEMMA EuclidLoopRuns ==
  EuclidLoop = [e \in Euclid |-> IF e.newr = 0 THEN e ELSE EuclidLoop[EuclidStep(e)]]
<1> DEFINE V == [Euclid -> Euclid]
           start == [e \in Euclid |-> e]
           step == [i \in Nat |-> [f \in V |-> OneMore(f)]]
<1>1. \A f \in V : OneMore(f) \in V
  BY EuclidStepType DEF OneMore
<1>2. start \in V /\ step \in [Nat -> [V -> V]]
  <2> HIDE DEF V
  <2> QED BY <1>1 DEF V
<1>3. PICK f : f \in Runs(V, start, step)
  <2> HIDE DEF V, start, step
  <2> QED BY <1>2, RunExists
<1>4. f \in [Nat -> V] /\ f[0] = start
  <2> HIDE DEF V, start
  <2> QED BY <1>3 DEF Runs
<1>5. \A i \in Nat : f[i] \in V /\ f[i + 1] = OneMore(f[i])
  <2> SUFFICES ASSUME NEW i \in Nat PROVE f[i] \in V /\ f[i + 1] = OneMore(f[i])
    OBVIOUS
  <2> HIDE DEF V
  <2>1. f[i] \in V
    BY <1>4
  <2>2. f[i + 1] = step[i][f[i]]
    <3> HIDE DEF step, start
    <3> QED BY <1>3 DEF Runs
  <2> QED BY <2>1, <2>2
<1>6. ASSUME NEW i \in Nat, NEW e \in Euclid
      PROVE  f[i + 1][e] = IF e.newr = 0 THEN e ELSE f[i][EuclidStep(e)]
  BY <1>5 DEF OneMore
<1>7. \A e \in Euclid : e.newr \in Nat
  BY DEF Euclid
<1>8. \A i \in Nat, e \in Euclid : e.newr = 0 => f[i][e] = e
  <2> SUFFICES ASSUME NEW i \in Nat, NEW e \in Euclid, e.newr = 0 PROVE f[i][e] = e
    OBVIOUS
  <2>1. CASE i = 0
    BY <1>4, <2>1
  <2>2. CASE i # 0
    <3>1. i - 1 \in Nat /\ (i - 1) + 1 = i
      BY <2>2
    <3>2. f[(i - 1) + 1][e] = e
      BY <1>6, <3>1
    <3> QED BY <3>1, <3>2
  <2> QED BY <2>1, <2>2
<1> HIDE DEF V, start, step
<1> DEFINE S == {m \in Nat : \A e \in Euclid : e.newr <= m => f[m + 1][e] = f[m][e]}
<1>9. 0 \in S
  BY <1>7, <1>8
<1>10. ASSUME NEW m \in Nat, m \in S PROVE m + 1 \in S
  <2> SUFFICES ASSUME NEW e \in Euclid, e.newr <= m + 1
               PROVE  f[(m + 1) + 1][e] = f[m + 1][e]
    OBVIOUS
  <2>1. CASE e.newr = 0
    BY <1>8, <2>1
  <2>2. CASE e.newr # 0
    <3>1. EuclidStep(e) \in Euclid /\ EuclidStep(e).newr <= m
      BY <1>7, <2>2, EuclidStepType
    <3>2. f[m + 1][EuclidStep(e)] = f[m][EuclidStep(e)]
      BY <1>10, <3>1
    <3>3. f[m + 1][e] = f[m][EuclidStep(e)]
      BY <1>6, <2>2
    <3>4. f[(m + 1) + 1][e] = f[m + 1][EuclidStep(e)]
      BY <1>6, <2>2
    <3> QED BY <3>2, <3>3, <3>4
  <2> QED BY <2>1, <2>2
<1>11. \A m \in Nat : m \in S
  <2> HIDE DEF S
  <2> QED BY <1>9, <1>10, Induction
<1>12. ASSUME NEW e \in Euclid
       PROVE  \A m \in Nat : e.newr <= m => f[m][e] = f[e.newr][e]
  <2> DEFINE T == {m \in Nat : e.newr <= m => f[m][e] = f[e.newr][e]}
  <2>1. 0 \in T
    BY <1>7
  <2>2. ASSUME NEW m \in Nat, m \in T PROVE m + 1 \in T
    <3> SUFFICES ASSUME e.newr <= m + 1 PROVE f[m + 1][e] = f[e.newr][e]
      OBVIOUS
    <3>1. CASE e.newr = m + 1
      BY <3>1
    <3>2. CASE e.newr <= m
      <4>1. f[m + 1][e] = f[m][e]
        BY <1>11, <3>2
      <4> QED BY <2>2, <3>2, <4>1
    <3> QED BY <1>7, <3>1, <3>2
  <2>3. \A m \in Nat : m \in T
    <3> HIDE DEF T
    <3> QED BY <2>1, <2>2, Induction
  <2> QED BY <2>3
<1> DEFINE g == [e \in Euclid |-> f[e.newr][e]]
<1>13. g = [e \in Euclid |-> IF e.newr = 0 THEN e ELSE g[EuclidStep(e)]]
  <2> SUFFICES ASSUME NEW e \in Euclid
               PROVE  f[e.newr][e] = IF e.newr = 0 THEN e ELSE g[EuclidStep(e)]
    OBVIOUS
  <2>1. CASE e.newr = 0
    BY <1>8, <2>1
  <2>2. CASE e.newr # 0
    <3> DEFINE m == e.newr - 1
               d == EuclidStep(e)
    <3>1. m \in Nat /\ m + 1 = e.newr
      BY <1>7, <2>2
    <3>2. d \in Euclid /\ d.newr <= m
      BY <1>7, <2>2, EuclidStepType
    <3>3. f[m + 1][e] = f[m][d]
      BY <1>6, <2>2, <3>1
    <3>4. f[m][d] = f[d.newr][d]
      <4> HIDE DEF m, d
      <4> QED BY <1>12, <3>1, <3>2
    <3>5. g[d] = f[d.newr][d]
      BY <3>2
    <3> QED BY <2>2, <3>1, <3>3, <3>4, <3>5
  <2> QED BY <2>1, <2>2
<1>14. \E h : h = [e \in Euclid |-> IF e.newr = 0 THEN e ELSE h[EuclidStep(e)]]
  <2> HIDE DEF g
  <2> QED BY <1>13
<1> QED BY <1>14, Zenon DEF EuclidLoop

LEMMA EuclidLoopEnds ==
  ASSUME NEW a, NEW e, EuclidInv(a, e)
  PROVE  EuclidInv(a, EuclidLoop[e]) /\ EuclidLoop[e].newr = 0
<1> DEFINE Good(d) == EuclidInv(a, EuclidLoop[d]) /\ EuclidLoop[d].newr = 0
           S == {n \in Nat : \A d \in Euclid : EuclidInv(a, d) /\ d.newr = n => Good(d)}
<1>1. ASSUME NEW n \in Nat, \A m \in Nat : m < n => m \in S PROVE n \in S
  <2> SUFFICES ASSUME NEW d \in Euclid, EuclidInv(a, d), d.newr = n PROVE Good(d)
    OBVIOUS
  <2>1. EuclidLoop[d] = IF d.newr = 0 THEN d ELSE EuclidLoop[EuclidStep(d)]
    BY EuclidLoopRuns
  <2>2. CASE d.newr = 0
    BY <2>1, <2>2
  <2>3. CASE d.newr # 0
    <3> DEFINE c == EuclidStep(d)
    <3>1. EuclidInv(a, c) /\ c.newr < n
      BY <2>3, EuclidContinues
    <3>2. c \in Euclid /\ c.newr \in Nat
      BY <2>3, EuclidStepType DEF Euclid
    <3>3. c.newr \in S
      BY <1>1, <3>1, <3>2
    <3>4. Good(c)
      <4> HIDE DEF c
      <4> QED BY <3>1, <3>2, <3>3
    <3>5. EuclidLoop[d] = EuclidLoop[c]
      BY <2>1, <2>3
    <3> HIDE DEF c
    <3> QED BY <3>4, <3>5
  <2> QED BY <2>2, <2>3
<1>2. \A n \in Nat : n \in S
  <2> HIDE DEF S
  <2> QED BY <1>1, StrongInduction
<1>3. e \in Euclid /\ e.newr \in Nat
  BY DEF EuclidInv, Euclid
<1> QED BY <1>2, <1>3

(* For a prime modulus mod_inverse_q returns the inverse of every argument *)
(* that has one, and 0 for the others (threshold.c:27-50).                 *)
THEOREM ModInverseCorrect ==
  ASSUME QIsPrime, NEW a \in Int
  PROVE  /\ mod_inverse_q(a) \in 0..(Q - 1)
         /\ ~Cong(a, 0) => Cong(mod_inverse_q(a) * a, 1)
         /\ Cong(a, 0) => mod_inverse_q(a) = 0
<1> DEFINE e == EuclidLoop[EuclidInit(a)]
<1>1. EuclidInv(a, e) /\ e.newr = 0
  BY EuclidStarts, EuclidLoopEnds
<1>2. mod_inverse_q(a) = mod_q(e.t)
  BY DEF mod_inverse_q
<1> HIDE DEF e
<1>3. mod_q(e.t) \in 0..(Q - 1)
  BY <1>1, ModQRange DEF EuclidInv, Euclid
<1>4. Cong(a, 0) <=> mod_q(a) = 0
  <2>1. Cong(a, mod_q(a)) /\ mod_q(a) \in Int
    BY ModQCong
  <2>2. mod_q(0) = 0
    <3>1. 0 \in 0..(Q - 1)
      BY QAssumption
    <3> QED BY <3>1, ModQOfResidue
  <2> QED BY <2>1, <2>2, CongModQ
<1> QED BY <1>1, <1>2, <1>3, <1>4, EuclidResult

-----------------------------------------------------------------------------
(* Polynomials, as functions.                                              *)

IntFcn == [Int -> Int]

LEMMA IntFcnValue ==
  ASSUME NEW h \in IntFcn, NEW z \in Int
  PROVE  h[z] \in Int
BY DEF IntFcn

Zeros == {h \in IntFcn : \A z \in Int : Cong(h[z], 0)}

(* The functions whose difference with any of their values divides by z - a. *)
Extend(X) ==
  {h \in IntFcn : \A a \in Int : \E g \in X : \A z \in Int : Cong(h[z], h[a] + (z - a) * g[z])}

(* Polys[n] are the polynomials of degree less than n, modulo Q.           *)
Polys[n \in Nat] == IF n = 0 THEN Zeros ELSE Extend(Polys[n - 1])

LEMMA PolysDef ==
  /\ Polys[0] = Zeros
  /\ \A n \in Nat : Polys[n + 1] = Extend(Polys[n]) /\ Polys[n] \subseteq IntFcn
<1> DEFINE V == SUBSET IntFcn
           step == [i \in Nat |-> [X \in V |-> Extend(X)]]
<1>1. Zeros \in V /\ \A X \in V : Extend(X) \in V
  BY DEF Zeros, Extend
<1>2. step \in [Nat -> [V -> V]]
  <2> HIDE DEF V
  <2> QED BY <1>1
<1>3. PICK f : f \in Runs(V, Zeros, step)
  <2> HIDE DEF V, step
  <2> QED BY <1>1, <1>2, RunExists
<1>4. f \in [Nat -> V] /\ f[0] = Zeros
  <2> HIDE DEF V
  <2> QED BY <1>3 DEF Runs
<1>5. \A i \in Nat : f[i + 1] = Extend(f[i])
  <2> SUFFICES ASSUME NEW i \in Nat PROVE f[i + 1] = Extend(f[i])
    OBVIOUS
  <2> HIDE DEF V
  <2>1. f[i] \in V
    BY <1>4
  <2>2. f[i + 1] = step[i][f[i]]
    <3> HIDE DEF step
    <3> QED BY <1>3 DEF Runs
  <2> QED BY <2>1, <2>2
<1> HIDE DEF V, step
<1>6. f = [n \in Nat |-> IF n = 0 THEN Zeros ELSE Extend(f[n - 1])]
  <2>1. ASSUME NEW n \in Nat, n # 0 PROVE f[n] = Extend(f[n - 1])
    <3>1. n - 1 \in Nat /\ (n - 1) + 1 = n
      BY <2>1
    <3>2. f[(n - 1) + 1] = Extend(f[n - 1])
      BY <1>5, <3>1
    <3> QED BY <3>1, <3>2
  <2> QED BY <1>4, <2>1
<1>7. \E h : h = [n \in Nat |-> IF n = 0 THEN Zeros ELSE Extend(h[n - 1])]
  BY <1>6
<1>8. Polys = [n \in Nat |-> IF n = 0 THEN Zeros ELSE Extend(Polys[n - 1])]
  BY <1>7, Zenon DEF Polys
<1>9. Polys[0] = Zeros
  BY <1>8
<1>10. ASSUME NEW n \in Nat PROVE Polys[n + 1] = Extend(Polys[n])
  <2>1. Polys[n + 1] = Extend(Polys[(n + 1) - 1])
    BY <1>8
  <2> QED BY <2>1
<1>11. ASSUME NEW n \in Nat PROVE Polys[n] \subseteq IntFcn
  <2>1. Polys[n] = Zeros \/ \E X : Polys[n] = Extend(X)
    BY <1>8
  <2> QED BY <2>1 DEF Zeros, Extend
<1> QED BY <1>9, <1>10, <1>11

LEMMA PolysMember ==
  ASSUME NEW n \in Nat, NEW h
  PROVE  h \in Polys[n + 1] <=>
           /\ h \in IntFcn
           /\ \A a \in Int : \E g \in Polys[n] :
                \A z \in Int : Cong(h[z], h[a] + (z - a) * g[z])
BY PolysDef DEF Extend

LEMMA ZerosInPolys == \A n \in Nat : Zeros \subseteq Polys[n]
<1> DEFINE S == {n \in Nat : Zeros \subseteq Polys[n]}
<1>1. 0 \in S
  BY PolysDef
<1>2. ASSUME NEW n \in Nat, n \in S PROVE n + 1 \in S
  <2> SUFFICES ASSUME NEW h \in Zeros PROVE h \in Polys[n + 1]
    OBVIOUS
  <2>1. h \in IntFcn
    BY DEF Zeros
  <2>2. ASSUME NEW a \in Int, NEW z \in Int PROVE Cong(h[z], h[a] + (z - a) * h[z])
    <3>1. h[z] \in Int /\ h[a] \in Int /\ (z - a) * h[z] \in Int
      BY <2>1 DEF IntFcn
    <3>2. Cong(h[z], 0) /\ Cong(h[a], 0)
      BY DEF Zeros
    <3>3. Cong((z - a) * h[z], 0)
      <4> DEFINE u == z - a
                 y == h[z]
      <4>1. u \in Int /\ y \in Int /\ Cong(y, 0)
        BY <3>1, <3>2
      <4> HIDE DEF u, y
      <4> SUFFICES Cong(u * y, 0)
        BY DEF u, y
      <4> QED BY <4>1, CongScaleZero
    <3>5. Cong(h[a] + (z - a) * h[z], 0 + 0)
      BY <3>1, <3>2, <3>3, CongAdd
    <3>6. Cong(0, h[a] + (z - a) * h[z])
      BY <3>1, <3>5, CongSym
    <3> QED BY <3>1, <3>2, <3>6, CongTrans
  <2>3. h \in Polys[n]
    BY <1>2
  <2> QED BY <2>1, <2>2, <2>3, PolysMember
<1> HIDE DEF S
<1>3. \A n \in Nat : n \in S
  BY <1>1, <1>2, Induction
<1> QED BY <1>3 DEF S

LEMMA PolysGrow == \A n \in Nat : Polys[n] \subseteq Polys[n + 1]
<1> DEFINE S == {n \in Nat : Polys[n] \subseteq Polys[n + 1]}
<1>1. 0 \in S
  BY PolysDef, ZerosInPolys
<1>2. ASSUME NEW n \in Nat, n \in S PROVE n + 1 \in S
  <2>1. Polys[n] \subseteq Polys[n + 1]
    BY <1>2
  <2> SUFFICES ASSUME NEW h \in Polys[n + 1] PROVE h \in Polys[(n + 1) + 1]
    OBVIOUS
  <2>2. h \in IntFcn /\ \A a \in Int : \E g \in Polys[n] :
                \A z \in Int : Cong(h[z], h[a] + (z - a) * g[z])
    BY PolysMember
  <2>3. \A a \in Int : \E g \in Polys[n + 1] :
                \A z \in Int : Cong(h[z], h[a] + (z - a) * g[z])
    BY <2>1, <2>2
  <2>4. n + 1 \in Nat
    OBVIOUS
  <2> QED BY <2>2, <2>3, <2>4, PolysMember
<1> HIDE DEF S
<1>3. \A n \in Nat : n \in S
  BY <1>1, <1>2, Induction
<1> QED BY <1>3 DEF S

LEMMA PolysMonotone ==
  ASSUME NEW m \in Nat, NEW n \in Nat, m <= n
  PROVE  Polys[m] \subseteq Polys[n]
<1> DEFINE S == {i \in Nat : Polys[m] \subseteq Polys[m + i]}
<1>1. 0 \in S
  OBVIOUS
<1>2. ASSUME NEW i \in Nat, i \in S PROVE i + 1 \in S
  <2>1. Polys[m + i] \subseteq Polys[(m + i) + 1] /\ (m + i) + 1 = m + (i + 1)
    BY PolysGrow
  <2> QED BY <1>2, <2>1
<1> HIDE DEF S
<1>3. \A i \in Nat : i \in S
  BY <1>1, <1>2, Induction
<1>4. n - m \in Nat /\ m + (n - m) = n
  OBVIOUS
<1>5. n - m \in S
  BY <1>3, <1>4
<1> QED BY <1>4, <1>5 DEF S

LEMMA ConstantPoly ==
  ASSUME NEW c \in Int, NEW h \in IntFcn, \A z \in Int : Cong(h[z], c), NEW n \in Nat \ {0}
  PROVE  h \in Polys[n]
<1> DEFINE zero == [z \in Int |-> 0]
<1>1. zero \in Zeros
  BY CongRefl DEF Zeros, IntFcn
<1>2. zero \in Polys[0]
  BY <1>1, PolysDef
<1>3. ASSUME NEW a \in Int, NEW z \in Int PROVE Cong(h[z], h[a] + (z - a) * zero[z])
  <2>1. h[z] \in Int /\ h[a] \in Int
    BY DEF IntFcn
  <2>2. h[a] + (z - a) * zero[z] = h[a]
    BY <2>1
  <2>3. Cong(h[z], c) /\ Cong(c, h[a])
    BY <2>1, CongSym
  <2> QED BY <2>1, <2>2, <2>3, CongTrans
<1> HIDE DEF zero
<1>4. h \in Polys[0 + 1]
  BY <1>2, <1>3, PolysMember
<1>5. Polys[1] \subseteq Polys[n]
  BY PolysMonotone
<1> QED BY <1>4, <1>5

LEMMA SumAlgebra ==
  ASSUME NEW f \in Int, NEW fa \in Int, NEW g \in Int, NEW ga \in Int,
         NEW u \in Int, NEW d \in Int, NEW e \in Int,
         Cong(f, fa + u * d), Cong(g, ga + u * e)
  PROVE  Cong(f + g, (fa + ga) + u * (d + e))
<1> DEFINE ud == u * d
           ue == u * e
<1>1. ud \in Int /\ ue \in Int
  OBVIOUS
<1>2. u * (d + e) = ud + ue
  OBVIOUS
<1>3. Cong(f, fa + ud) /\ Cong(g, ga + ue)
  OBVIOUS
<1> HIDE DEF ud, ue
<1>4. Cong(f + g, (fa + ud) + (ga + ue))
  BY <1>1, <1>3, CongAdd
<1>5. (fa + ud) + (ga + ue) = (fa + ga) + (ud + ue)
  BY <1>1
<1> QED BY <1>2, <1>4, <1>5

(* Both sides of a division may be replaced by congruent values.           *)
LEMMA ReplaceBoth ==
  ASSUME NEW h \in Int, NEW s \in Int, NEW ha \in Int, NEW sa \in Int, NEW d \in Int,
         Cong(h, s), Cong(ha, sa), Cong(s, sa + d)
  PROVE  Cong(h, ha + d)
<1>1. Cong(h, sa + d)
  BY CongTrans
<1>2. Cong(sa, ha)
  BY CongSym
<1>3. Cong(sa + d, ha + d)
  BY <1>2, CongShift
<1> QED BY <1>1, <1>3, CongTrans

(* A sum of polynomials.                                                   *)
LEMMA SumPoly ==
  \A n \in Nat : \A f, g \in Polys[n], h \in IntFcn :
    (\A z \in Int : Cong(h[z], f[z] + g[z])) => h \in Polys[n]
<1> DEFINE S == {n \in Nat : \A f, g \in Polys[n], h \in IntFcn :
                   (\A z \in Int : Cong(h[z], f[z] + g[z])) => h \in Polys[n]}
<1>1. 0 \in S
  <2> SUFFICES ASSUME NEW f \in Zeros, NEW g \in Zeros, NEW h \in IntFcn,
                      \A z \in Int : Cong(h[z], f[z] + g[z])
               PROVE  h \in Zeros
    BY PolysDef
  <2> SUFFICES ASSUME NEW z \in Int PROVE Cong(h[z], 0)
    BY DEF Zeros
  <2>1. f[z] \in Int /\ g[z] \in Int /\ h[z] \in Int /\ Cong(f[z], 0) /\ Cong(g[z], 0)
    BY DEF Zeros, IntFcn
  <2>2. Cong(f[z] + g[z], 0 + 0)
    BY <2>1, CongAdd
  <2> QED BY <2>1, <2>2, CongTrans
<1>2. ASSUME NEW n \in Nat, n \in S PROVE n + 1 \in S
  <2> SUFFICES ASSUME NEW f \in Polys[n + 1], NEW g \in Polys[n + 1], NEW h \in IntFcn,
                      \A z \in Int : Cong(h[z], f[z] + g[z])
               PROVE  h \in Polys[n + 1]
    OBVIOUS
  <2>1. f \in IntFcn /\ g \in IntFcn
    BY PolysMember
  <2>2. ASSUME NEW a \in Int
        PROVE  \E e \in Polys[n] : \A z \in Int : Cong(h[z], h[a] + (z - a) * e[z])
    <3>1. PICK p \in Polys[n] : \A z \in Int : Cong(f[z], f[a] + (z - a) * p[z])
      BY PolysMember
    <3>2. PICK q \in Polys[n] : \A z \in Int : Cong(g[z], g[a] + (z - a) * q[z])
      BY PolysMember
    <3> DEFINE e == [z \in Int |-> p[z] + q[z]]
    <3>3. p \in IntFcn /\ q \in IntFcn
      BY PolysDef
    <3>4. e \in IntFcn
      BY <3>3 DEF IntFcn
    <3>5. \A z \in Int : Cong(e[z], p[z] + q[z])
      BY <3>3, CongRefl DEF IntFcn
    <3>6. e \in Polys[n]
      <4> HIDE DEF e
      <4> QED BY <1>2, <3>4, <3>5
    <3>7. ASSUME NEW z \in Int PROVE Cong(h[z], h[a] + (z - a) * e[z])
      <4> DEFINE u == z - a
      <4>1. u \in Int /\ p[z] \in Int /\ q[z] \in Int /\ f[z] \in Int /\ f[a] \in Int
            /\ g[z] \in Int /\ g[a] \in Int /\ h[z] \in Int /\ h[a] \in Int
        BY <2>1, <3>3 DEF IntFcn
      <4>2. Cong(f[z], f[a] + u * p[z]) /\ Cong(g[z], g[a] + u * q[z])
        BY <3>1, <3>2
      <4>3. Cong(h[z], f[z] + g[z]) /\ Cong(h[a], f[a] + g[a])
        OBVIOUS
      <4>4. e[z] = p[z] + q[z]
        OBVIOUS
      <4> HIDE DEF u, e
      <4>5. Cong(f[z] + g[z], (f[a] + g[a]) + u * (p[z] + q[z]))
        BY <4>1, <4>2, SumAlgebra
      <4> DEFINE s == f[z] + g[z]
                 sa == f[a] + g[a]
                 d == u * (p[z] + q[z])
      <4>6. s \in Int /\ sa \in Int /\ d \in Int
            /\ Cong(h[z], s) /\ Cong(h[a], sa) /\ Cong(s, sa + d)
        BY <4>1, <4>3, <4>5
      <4> HIDE DEF s, sa, d
      <4>7. Cong(h[z], h[a] + d)
        BY <4>1, <4>6, ReplaceBoth
      <4> QED BY <4>4, <4>7 DEF u, d
    <3> HIDE DEF e
    <3> QED BY <3>6, <3>7
  <2> QED BY <2>2, PolysMember
<1> HIDE DEF S
<1>3. \A n \in Nat : n \in S
  BY <1>1, <1>2, Induction
<1> QED BY <1>3 DEF S

LEMMA ScaleAlgebra ==
  ASSUME NEW c \in Int, NEW f \in Int, NEW fa \in Int, NEW h \in Int, NEW ha \in Int,
         NEW u \in Int, NEW d \in Int,
         Cong(h, c * f), Cong(ha, c * fa), Cong(f, fa + u * d)
  PROVE  Cong(h, ha + u * (c * d))
<1> DEFINE ud == u * d
           cf == c * f
           cfa == c * fa
           cud == c * ud
<1>1. ud \in Int /\ cf \in Int /\ cfa \in Int /\ cud \in Int
  OBVIOUS
<1>2. u * (c * d) = cud
  OBVIOUS
<1>3. Cong(h, cf) /\ Cong(ha, cfa)
  OBVIOUS
<1>4. Cong(f, fa + ud)
  OBVIOUS
<1> HIDE DEF ud
<1>5. Cong(cf, c * (fa + ud))
  BY <1>1, <1>4, CongScale
<1>6. c * (fa + ud) = cfa + cud
  BY <1>1
<1> HIDE DEF cf, cfa, cud
<1>7. Cong(h, cfa + cud)
  BY <1>1, <1>3, <1>5, <1>6, CongTrans
<1>8. Cong(cfa, ha)
  BY <1>1, <1>3, CongSym
<1>9. Cong(cfa + cud, ha + cud)
  BY <1>1, <1>8, CongRefl, CongAdd
<1>10. Cong(h, ha + cud)
  BY <1>1, <1>7, <1>9, CongTrans
<1> QED BY <1>2, <1>10

(* A multiple of a polynomial.                                             *)
LEMMA ScalePoly ==
  \A n \in Nat : \A c \in Int, f \in Polys[n], h \in IntFcn :
    (\A z \in Int : Cong(h[z], c * f[z])) => h \in Polys[n]
<1> DEFINE S == {n \in Nat : \A c \in Int, f \in Polys[n], h \in IntFcn :
                   (\A z \in Int : Cong(h[z], c * f[z])) => h \in Polys[n]}
<1>1. 0 \in S
  <2> SUFFICES ASSUME NEW c \in Int, NEW f \in Zeros, NEW h \in IntFcn,
                      \A z \in Int : Cong(h[z], c * f[z])
               PROVE  h \in Zeros
    BY PolysDef
  <2> SUFFICES ASSUME NEW z \in Int PROVE Cong(h[z], 0)
    BY DEF Zeros
  <2> DEFINE y == f[z]
  <2>1. y \in Int /\ h[z] \in Int /\ Cong(y, 0) /\ Cong(h[z], c * y)
    BY DEF Zeros, IntFcn
  <2> HIDE DEF y
  <2>2. Cong(c * y, 0)
    BY <2>1, CongScaleZero
  <2>3. c * y \in Int
    BY <2>1
  <2> QED BY <2>1, <2>2, <2>3, CongTrans
<1>2. ASSUME NEW n \in Nat, n \in S PROVE n + 1 \in S
  <2> SUFFICES ASSUME NEW c \in Int, NEW f \in Polys[n + 1], NEW h \in IntFcn,
                      \A z \in Int : Cong(h[z], c * f[z])
               PROVE  h \in Polys[n + 1]
    OBVIOUS
  <2>1. f \in IntFcn
    BY PolysMember
  <2>2. ASSUME NEW a \in Int
        PROVE  \E e \in Polys[n] : \A z \in Int : Cong(h[z], h[a] + (z - a) * e[z])
    <3>1. PICK p \in Polys[n] : \A z \in Int : Cong(f[z], f[a] + (z - a) * p[z])
      BY PolysMember
    <3> DEFINE e == [z \in Int |-> c * p[z]]
    <3>3. p \in IntFcn
      BY PolysDef
    <3>4. e \in IntFcn
      BY <3>3 DEF IntFcn
    <3>5. \A z \in Int : Cong(e[z], c * p[z])
      BY <3>3, <3>4, CongRefl DEF IntFcn
    <3>6. e \in Polys[n]
      <4> HIDE DEF e
      <4> QED BY <1>2, <3>4, <3>5
    <3>7. ASSUME NEW z \in Int PROVE Cong(h[z], h[a] + (z - a) * e[z])
      <4> DEFINE u == z - a
      <4>1. u \in Int /\ p[z] \in Int /\ f[z] \in Int /\ f[a] \in Int
            /\ h[z] \in Int /\ h[a] \in Int
        BY <2>1, <3>3 DEF IntFcn
      <4>2. Cong(f[z], f[a] + u * p[z])
        BY <3>1
      <4>3. Cong(h[z], c * f[z]) /\ Cong(h[a], c * f[a])
        OBVIOUS
      <4>4. e[z] = c * p[z]
        OBVIOUS
      <4> HIDE DEF u, e
      <4>5. Cong(h[z], h[a] + u * (c * p[z]))
        BY <4>1, <4>2, <4>3, ScaleAlgebra
      <4> QED BY <4>4, <4>5 DEF u
    <3> HIDE DEF e
    <3> QED BY <3>6, <3>7
  <2> QED BY <2>2, PolysMember
<1> HIDE DEF S
<1>3. \A n \in Nat : n \in S
  BY <1>1, <1>2, Induction
<1> QED BY <1>3 DEF S

LEMMA TimesAlgebra ==
  ASSUME NEW f \in Int, NEW fa \in Int, NEW h \in Int, NEW ha \in Int,
         NEW u \in Int, NEW v \in Int, NEW d \in Int,
         Cong(f, fa + u * d), Cong(h, v * f), Cong(ha, (v - u) * fa)
  PROVE  Cong(h, ha + u * (v * d + fa))
<1> DEFINE ud == u * d
           vf == v * f
           vfa == v * fa
           ufa == u * fa
           w == v * ud
           r == (v - u) * fa
<1>1. ud \in Int /\ vf \in Int /\ vfa \in Int /\ ufa \in Int /\ w \in Int /\ r \in Int
  OBVIOUS
<1>2. u * (v * d + fa) = w + ufa
  <2>1. u * (v * d + fa) = u * (v * d) + u * fa
    OBVIOUS
  <2>2. u * (v * d) = v * (u * d)
    OBVIOUS
  <2> QED BY <2>1, <2>2
<1>3. r = vfa - ufa
  OBVIOUS
<1>4. Cong(f, fa + ud) /\ Cong(h, vf) /\ Cong(ha, r)
  OBVIOUS
<1> HIDE DEF ud
<1>5. Cong(vf, v * (fa + ud))
  BY <1>1, <1>4, CongScale
<1>6. v * (fa + ud) = vfa + w
  BY <1>1
<1> HIDE DEF vf, vfa, ufa, w, r
<1>7. Cong(h, vfa + w)
  BY <1>1, <1>4, <1>5, <1>6, CongTrans
<1>8. vfa + w = r + (w + ufa)
  BY <1>1, <1>3
<1>9. Cong(r, ha)
  BY <1>1, <1>4, CongSym
<1>10. Cong(r + (w + ufa), ha + (w + ufa))
  <2>1. w + ufa \in Int
    BY <1>1
  <2> QED BY <1>1, <1>9, <2>1, CongShift
<1>11. Cong(h, r + (w + ufa))
  BY <1>7, <1>8
<1>12. Cong(h, ha + (w + ufa))
  BY <1>1, <1>10, <1>11, CongTrans
<1> QED BY <1>2, <1>12

(* A polynomial times a linear factor.                                     *)
LEMMA TimesLinearPoly ==
  \A n \in Nat : \A b \in Int, f \in Polys[n], h \in IntFcn :
    (\A z \in Int : Cong(h[z], (z - b) * f[z])) => h \in Polys[n + 1]
<1> DEFINE S == {n \in Nat : \A b \in Int, f \in Polys[n], h \in IntFcn :
                   (\A z \in Int : Cong(h[z], (z - b) * f[z])) => h \in Polys[n + 1]}
<1>1. 0 \in S
  <2> SUFFICES ASSUME NEW b \in Int, NEW f \in Zeros, NEW h \in IntFcn,
                      \A z \in Int : Cong(h[z], (z - b) * f[z])
               PROVE  h \in Zeros
    BY PolysDef, ZerosInPolys
  <2> SUFFICES ASSUME NEW z \in Int PROVE Cong(h[z], 0)
    BY DEF Zeros
  <2> DEFINE y == f[z]
             c == z - b
  <2>1. c \in Int /\ y \in Int /\ h[z] \in Int /\ Cong(y, 0) /\ Cong(h[z], c * y)
    BY DEF Zeros, IntFcn
  <2> HIDE DEF y, c
  <2>2. Cong(c * y, 0)
    BY <2>1, CongScaleZero
  <2>3. c * y \in Int
    BY <2>1
  <2> QED BY <2>1, <2>2, <2>3, CongTrans
<1>2. ASSUME NEW n \in Nat, n \in S PROVE n + 1 \in S
  <2> SUFFICES ASSUME NEW b \in Int, NEW f \in Polys[n + 1], NEW h \in IntFcn,
                      \A z \in Int : Cong(h[z], (z - b) * f[z])
               PROVE  h \in Polys[(n + 1) + 1]
    OBVIOUS
  <2>1. f \in IntFcn
    BY PolysMember
  <2>2. ASSUME NEW a \in Int
        PROVE  \E e \in Polys[n + 1] : \A z \in Int : Cong(h[z], h[a] + (z - a) * e[z])
    <3>1. PICK p \in Polys[n] : \A z \in Int : Cong(f[z], f[a] + (z - a) * p[z])
      BY PolysMember
    <3> DEFINE c == f[a]
               times == [z \in Int |-> (z - b) * p[z]]
               const == [z \in Int |-> c]
               e == [z \in Int |-> times[z] + const[z]]
    <3>3. p \in IntFcn /\ c \in Int
      BY <2>1, PolysDef DEF IntFcn
    <3>4. times \in IntFcn /\ const \in IntFcn /\ e \in IntFcn
      BY <3>3 DEF IntFcn
    <3>5. times \in Polys[n + 1]
      <4>1. \A z \in Int : Cong(times[z], (z - b) * p[z])
        BY <3>4, CongRefl DEF IntFcn
      <4> HIDE DEF times
      <4> QED BY <1>2, <3>4, <4>1
    <3>6. const \in Polys[n + 1]
      <4>1. \A z \in Int : Cong(const[z], c)
        BY <3>3, CongRefl
      <4>2. n + 1 \in Nat \ {0}
        OBVIOUS
      <4> HIDE DEF const, c
      <4> QED BY <3>3, <3>4, <4>1, <4>2, ConstantPoly
    <3>7. e \in Polys[n + 1]
      <4>1. \A z \in Int : Cong(e[z], times[z] + const[z])
        BY <3>4, CongRefl DEF IntFcn
      <4>2. n + 1 \in Nat
        OBVIOUS
      <4> HIDE DEF e, times, const
      <4> QED BY <3>4, <3>5, <3>6, <4>1, <4>2, SumPoly
    <3>8. ASSUME NEW z \in Int PROVE Cong(h[z], h[a] + (z - a) * e[z])
      <4> DEFINE u == z - a
                 v == z - b
      <4>1. u \in Int /\ v \in Int /\ p[z] \in Int /\ f[z] \in Int
            /\ h[z] \in Int /\ h[a] \in Int /\ v - u = a - b
        BY <2>1, <3>3 DEF IntFcn
      <4>2. Cong(f[z], c + u * p[z])
        BY <3>1
      <4>3. Cong(h[z], v * f[z]) /\ Cong(h[a], (a - b) * c)
        OBVIOUS
      <4>4. e[z] = v * p[z] + c
        OBVIOUS
      <4> HIDE DEF u, v, e, c
      <4>5. Cong(h[a], (v - u) * c)
        BY <4>1, <4>3
      <4>6. Cong(h[z], h[a] + u * (v * p[z] + c))
        BY <3>3, <4>1, <4>2, <4>3, <4>5, TimesAlgebra
      <4> QED BY <4>4, <4>6 DEF u
    <3> HIDE DEF e
    <3> QED BY <3>7, <3>8
  <2>3. n + 1 \in Nat
    OBVIOUS
  <2> QED BY <2>2, <2>3, PolysMember
<1> HIDE DEF S
<1>3. \A n \in Nat : n \in S
  BY <1>1, <1>2, Induction
<1> QED BY <1>3 DEF S

(* A prime modulus has no zero divisors.                                   *)
LEMMA NoZeroDivisors ==
  ASSUME QIsPrime, NEW x \in Int, NEW y \in Int, Cong(x * y, 0), ~Cong(x, 0)
  PROVE  Cong(y, 0)
<1> DEFINE i == mod_inverse_q(x)
           xy == x * y
           ix == i * x
           ixy == ix * y
<1>1. i \in Int /\ Cong(ix, 1)
  BY ModInverseCorrect, QAssumption
<1>2. xy \in Int /\ Cong(xy, 0)
  OBVIOUS
<1> HIDE DEF i
<1>3. ix \in Int /\ ixy \in Int /\ ixy = i * xy
  BY <1>1
<1>4. Cong(ixy, 0)
  <2> HIDE DEF xy, ix, ixy
  <2> QED BY <1>1, <1>2, <1>3, CongScaleZero
<1>5. Cong(ixy, y)
  <2> HIDE DEF xy, ix
  <2> QED BY <1>1, <1>3, CongScaleOne
<1> HIDE DEF ixy
<1>6. Cong(y, ixy)
  BY <1>3, <1>5, CongSym
<1> QED BY <1>3, <1>4, <1>6, CongTrans

(* Any two of the points differ modulo Q.                                  *)
Apart(pts, n) == \A i, j \in 1..n : i # j => ~Cong(pts[i] - pts[j], 0)

(* A polynomial of degree less than n that is zero at n points is zero     *)
(* everywhere.                                                             *)
LEMMA RootsDecide ==
  ASSUME QIsPrime
  PROVE  \A n \in Nat : \A h \in Polys[n], pts \in [1..n -> Int] :
           Apart(pts, n) /\ (\A i \in 1..n : Cong(h[pts[i]], 0)) => h \in Zeros
<1> DEFINE S == {n \in Nat : \A h \in Polys[n], pts \in [1..n -> Int] :
                   Apart(pts, n) /\ (\A i \in 1..n : Cong(h[pts[i]], 0)) => h \in Zeros}
<1>1. 0 \in S
  BY PolysDef
<1>2. ASSUME NEW n \in Nat, n \in S PROVE n + 1 \in S
  <2> SUFFICES ASSUME NEW h \in Polys[n + 1], NEW pts \in [1..(n + 1) -> Int],
                      Apart(pts, n + 1), \A i \in 1..(n + 1) : Cong(h[pts[i]], 0)
               PROVE  h \in Zeros
    OBVIOUS
  <2> DEFINE a == pts[n + 1]
             some == [i \in 1..n |-> pts[i]]
  <2>1. h \in IntFcn /\ a \in Int /\ some \in [1..n -> Int]
    <3>1. n + 1 \in 1..(n + 1) /\ 1..n \subseteq 1..(n + 1)
      OBVIOUS
    <3> QED BY <3>1, PolysMember
  <2>2. PICK g \in Polys[n] : \A z \in Int : Cong(h[z], h[a] + (z - a) * g[z])
    BY <2>1, PolysMember
  <2>3. g \in IntFcn
    BY PolysDef
  <2>4. Cong(h[a], 0) /\ h[a] \in Int
    BY <2>1, IntFcnValue
  <2>5. ASSUME NEW z \in Int PROVE /\ Cong((z - a) * g[z], h[z])
                                   /\ (z - a) * g[z] \in Int
    <3> DEFINE d == (z - a) * g[z]
               c == h[a]
    <3>1. d \in Int /\ h[z] \in Int /\ Cong(h[z], c + d) /\ c \in Int /\ Cong(c, 0)
      <4>1. g[z] \in Int /\ h[z] \in Int /\ z - a \in Int
        BY <2>1, <2>3, IntFcnValue
      <4> HIDE DEF a
      <4> QED BY <2>2, <2>4, <4>1
    <3> HIDE DEF d, c
    <3>2. Cong(c + d, d)
      BY <3>1, CongZeroShift
    <3>3. Cong(h[z], d)
      BY <3>1, <3>2, CongTrans
    <3>4. Cong(d, h[z])
      BY <3>1, <3>3, CongSym
    <3> QED BY <3>1, <3>4 DEF d
  <2>6. ASSUME NEW i \in 1..n PROVE Cong(g[some[i]], 0)
    <3> DEFINE z == pts[i]
               u == z - a
               y == g[z]
    <3>1. i \in 1..(n + 1) /\ n + 1 \in 1..(n + 1) /\ i # n + 1
      OBVIOUS
    <3>2. z \in Int /\ some[i] = z /\ u \in Int /\ y \in Int
      <4>1. z \in Int /\ some[i] = z
        BY <3>1
      <4>2. y \in Int
        BY <2>3, <4>1, IntFcnValue
      <4> QED BY <2>1, <4>1, <4>2
    <3>3. ~Cong(u, 0)
      BY <3>1 DEF Apart
    <3>4. Cong(h[z], 0) /\ h[z] \in Int
      BY <2>1, <3>1, <3>2, IntFcnValue
    <3>5. Cong(u * y, h[z]) /\ u * y \in Int
      <4> HIDE DEF a, z
      <4> QED BY <2>5, <3>2
    <3> HIDE DEF u, y, some, z
    <3>6. Cong(u * y, 0)
      BY <3>4, <3>5, CongTrans
    <3>7. Cong(y, 0)
      BY <3>2, <3>3, <3>6, NoZeroDivisors
    <3> QED BY <3>2, <3>7 DEF y
  <2>7. Apart(some, n)
    BY DEF Apart
  <2>8. g \in Zeros
    <3> HIDE DEF some
    <3> QED BY <1>2, <2>1, <2>6, <2>7
  <2> HIDE DEF a
  <2> SUFFICES ASSUME NEW z \in Int PROVE Cong(h[z], 0)
    BY <2>1 DEF Zeros
  <2> DEFINE u == z - a
             y == g[z]
  <2>9. u \in Int /\ y \in Int /\ Cong(y, 0) /\ h[z] \in Int
    BY <2>1, <2>3, <2>8, IntFcnValue DEF Zeros
  <2>10. Cong(u * y, h[z]) /\ u * y \in Int
    BY <2>5
  <2> HIDE DEF u, y
  <2>11. Cong(u * y, 0)
    BY <2>9, CongScaleZero
  <2>12. Cong(h[z], u * y)
    BY <2>9, <2>10, CongSym
  <2> QED BY <2>9, <2>10, <2>11, <2>12, CongTrans
<1> HIDE DEF S
<1>3. \A n \in Nat : n \in S
  BY <1>1, <1>2, Induction
<1> QED BY <1>3 DEF S

LEMMA LenIs ==
  ASSUME NEW n \in Nat, NEW p, DOMAIN p = 1..n
  PROVE  Len(p) = n
BY SMT

-----------------------------------------------------------------------------
(* EvalPoly.                                                               *)

EvalStates == [y : Int, power : Int]

(* What the inner loop of threshold_split_secret goes through.             *)
EvalLoop(poly, n, x, f) ==
  /\ f \in [0..n -> EvalStates]
  /\ f[0] = [y |-> 0, power |-> 1]
  /\ \A j \in 1..n : f[j] = [y |-> mod_q(f[j - 1].y + poly[j] * f[j - 1].power),
                             power |-> mod_q(f[j - 1].power * x)]

LEMMA EvalLoopRuns ==
  ASSUME NEW n \in Nat, NEW poly \in [1..n -> Int], NEW x \in Int
  PROVE  \E f : EvalLoop(poly, n, x, f) /\ EvalPoly(poly, x) = f[n].y
<1> DEFINE start == [y |-> 0, power |-> 1]
           step == [j \in 1..n |-> [v \in EvalStates |->
                      [y |-> mod_q(v.y + poly[j] * v.power), power |-> mod_q(v.power * x)]]]
           loop[j \in 0..Len(poly)] ==
             IF j = 0 THEN [y |-> 0, power |-> 1]
             ELSE [y |-> mod_q(loop[j - 1].y + poly[j] * loop[j - 1].power),
                   power |-> mod_q(loop[j - 1].power * x)]
<1>1. Len(poly) = n
  BY LenIs
<1>2. start \in EvalStates
  BY DEF EvalStates
<1>3. step \in [1..n -> [EvalStates -> EvalStates]]
  <2> SUFFICES ASSUME NEW j \in 1..n, NEW v \in EvalStates
               PROVE  [y |-> mod_q(v.y + poly[j] * v.power), power |-> mod_q(v.power * x)]
                        \in EvalStates
    OBVIOUS
  <2>1. v.y + poly[j] * v.power \in Int /\ v.power * x \in Int
    BY DEF EvalStates
  <2>2. mod_q(v.y + poly[j] * v.power) \in Int /\ mod_q(v.power * x) \in Int
    BY <2>1, ModQCong
  <2> QED BY <2>2 DEF EvalStates
<1>4. PICK f : f \in LoopRuns(EvalStates, start, n, step)
  <2> HIDE DEF start, step
  <2> QED BY <1>2, <1>3, LoopExists
<1>5. f \in [0..n -> EvalStates] /\ f[0] = start
  <2> HIDE DEF start
  <2> QED BY <1>4 DEF LoopRuns
<1>6. ASSUME NEW j \in 1..n
      PROVE  f[j] = [y |-> mod_q(f[j - 1].y + poly[j] * f[j - 1].power),
                     power |-> mod_q(f[j - 1].power * x)]
  <2>1. f[j] = step[j][f[j - 1]]
    <3> HIDE DEF start, step
    <3> QED BY <1>4 DEF LoopRuns
  <2>2. j - 1 \in 0..n
    OBVIOUS
  <2>3. f[j - 1] \in EvalStates
    BY <1>5, <2>2
  <2> QED BY <2>1, <2>3
<1>7. EvalLoop(poly, n, x, f)
  BY <1>5, <1>6 DEF EvalLoop
<1>8. f = [j \in 0..Len(poly) |->
             IF j = 0 THEN [y |-> 0, power |-> 1]
             ELSE [y |-> mod_q(f[j - 1].y + poly[j] * f[j - 1].power),
                   power |-> mod_q(f[j - 1].power * x)]]
  <2> SUFFICES ASSUME NEW j \in 0..n
               PROVE  f[j] = IF j = 0 THEN [y |-> 0, power |-> 1]
                             ELSE [y |-> mod_q(f[j - 1].y + poly[j] * f[j - 1].power),
                                   power |-> mod_q(f[j - 1].power * x)]
    BY <1>1, <1>5, Zenon
  <2>1. CASE j = 0
    BY <1>5, <2>1
  <2>2. CASE j # 0
    <3>1. j \in 1..n
      BY <2>2
    <3> QED BY <1>6, <2>2, <3>1, Zenon
  <2> QED BY <2>1, <2>2
<1>9. loop = [j \in 0..Len(poly) |->
             IF j = 0 THEN [y |-> 0, power |-> 1]
             ELSE [y |-> mod_q(loop[j - 1].y + poly[j] * loop[j - 1].power),
                   power |-> mod_q(loop[j - 1].power * x)]]
  <2> HIDE DEF start, step
  <2>1. \E g : g = [j \in 0..Len(poly) |->
             IF j = 0 THEN [y |-> 0, power |-> 1]
             ELSE [y |-> mod_q(g[j - 1].y + poly[j] * g[j - 1].power),
                   power |-> mod_q(g[j - 1].power * x)]]
    BY <1>8, Zenon
  <2> QED BY <2>1, Zenon
<1>10. EvalPoly(poly, x) = loop[n].y
  BY <1>1 DEF EvalPoly
<1> HIDE DEF loop, start, step
<1> DEFINE S == {j \in 0..n : loop[j] = f[j]}
<1>11. ASSUME NEW j \in 0..n
       PROVE  loop[j] = IF j = 0 THEN [y |-> 0, power |-> 1]
                        ELSE [y |-> mod_q(loop[j - 1].y + poly[j] * loop[j - 1].power),
                              power |-> mod_q(loop[j - 1].power * x)]
  BY <1>1, <1>9, Zenon
<1>12. 0 \in S
  <2>1. 0 \in 0..n
    OBVIOUS
  <2> QED BY <1>5, <1>11, <2>1 DEF start
<1>13. ASSUME NEW i \in 1..n, i - 1 \in S PROVE i \in S
  <2>1. i \in 0..n /\ i # 0 /\ loop[i - 1] = f[i - 1]
    BY <1>13
  <2>2. loop[i] = f[i]
    BY <1>6, <1>11, <2>1, Zenon
  <2> QED BY <2>1, <2>2
<1>14. \A i \in 0..n : i \in S
  <2> HIDE DEF S
  <2> QED BY <1>12, <1>13, LoopInduction
<1>15. loop[n] = f[n]
  BY <1>14
<1> QED BY <1>7, <1>10, <1>15

LEMMA EvalLoopStep ==
  ASSUME NEW n \in Nat, NEW poly \in [1..n -> Int], NEW x \in Int, NEW f,
         EvalLoop(poly, n, x, f), NEW j \in 1..n
  PROVE  /\ f[j].y \in 0..(Q - 1) /\ f[j].power \in Int
         /\ f[j - 1].y \in Int /\ f[j - 1].power \in Int /\ poly[j] \in Int
         /\ Cong(f[j].y, f[j - 1].y + poly[j] * f[j - 1].power)
         /\ Cong(f[j].power, f[j - 1].power * x)
<1> DEFINE y == f[j - 1].y
           w == f[j - 1].power
<1>1. j - 1 \in 0..n
  OBVIOUS
<1>2. y \in Int /\ w \in Int /\ poly[j] \in Int
  <2>1. f[j - 1] \in EvalStates
    BY <1>1 DEF EvalLoop
  <2> QED BY <2>1 DEF EvalStates
<1>3. f[j] = [y |-> mod_q(y + poly[j] * w), power |-> mod_q(w * x)]
  BY DEF EvalLoop
<1>4. f[j].y = mod_q(y + poly[j] * w) /\ f[j].power = mod_q(w * x)
  BY <1>3
<1> HIDE DEF y, w
<1>5. y + poly[j] * w \in Int /\ w * x \in Int
  BY <1>2
<1>6. f[j].y \in 0..(Q - 1) /\ Cong(f[j].y, y + poly[j] * w)
  BY <1>4, <1>5, ModQRange, ModQCong
<1>7. f[j].power \in Int /\ Cong(f[j].power, w * x)
  BY <1>4, <1>5, ModQCong
<1> QED BY <1>2, <1>6, <1>7 DEF y, w

LEMMA EvalPolyRange ==
  ASSUME NEW n \in Nat, NEW poly \in [1..n -> Int], NEW x \in Int
  PROVE  EvalPoly(poly, x) \in 0..(Q - 1)
<1>1. PICK f : EvalLoop(poly, n, x, f) /\ EvalPoly(poly, x) = f[n].y
  BY EvalLoopRuns
<1>2. CASE n = 0
  <2>1. f[0] = [y |-> 0, power |-> 1]
    BY <1>1 DEF EvalLoop
  <2> QED BY <1>1, <1>2, <2>1, QAssumption
<1>3. CASE n # 0
  <2>1. n \in 1..n
    BY <1>3
  <2> QED BY <1>1, <2>1, EvalLoopStep
<1> QED BY <1>2, <1>3

(* Every coefficient list evaluates to a polynomial.                       *)
LEMMA EvalIsPoly ==
  ASSUME NEW n \in Nat, NEW poly \in [1..n -> Int], NEW h \in IntFcn,
         \A z \in Int : Cong(h[z], EvalPoly(poly, z))
  PROVE  h \in Polys[n]
<1> DEFINE F(z) == CHOOSE f : EvalLoop(poly, n, z, f) /\ EvalPoly(poly, z) = f[n].y
<1>1. ASSUME NEW z \in Int
      PROVE  EvalLoop(poly, n, z, F(z)) /\ EvalPoly(poly, z) = F(z)[n].y
  BY EvalLoopRuns
<1> HIDE DEF F
<1>2. ASSUME NEW z \in Int, NEW j \in 0..n
      PROVE  F(z)[j].y \in Int /\ F(z)[j].power \in Int
  <2>1. F(z)[j] \in EvalStates
    BY <1>1 DEF EvalLoop
  <2> QED BY <2>1 DEF EvalStates
<1> DEFINE Y(j) == [z \in Int |-> F(z)[j].y]
           W(j) == [z \in Int |-> F(z)[j].power]
           S == {j \in 0..n : Y(j) \in Polys[j] /\ W(j) \in Polys[j + 1]}
<1>3. \A j \in 0..n : Y(j) \in IntFcn /\ W(j) \in IntFcn
  BY <1>2 DEF IntFcn
<1>4. 0 \in S
  <2>1. 0 \in 0..n
    OBVIOUS
  <2>2. \A z \in Int : F(z)[0].y = 0 /\ F(z)[0].power = 1
    BY <1>1 DEF EvalLoop
  <2>3. \A z \in Int : Y(0)[z] = 0 /\ W(0)[z] = 1
    BY <2>2
  <2>4. Y(0) \in Zeros
    <3>1. \A z \in Int : Cong(Y(0)[z], 0)
      BY <2>3, CongRefl
    <3> HIDE DEF Y
    <3> QED BY <1>3, <2>1, <3>1 DEF Zeros
  <2>5. W(0) \in Polys[1]
    <3>1. \A z \in Int : Cong(W(0)[z], 1)
      BY <2>3, CongRefl
    <3>2. 1 \in Nat \ {0} /\ 1 \in Int
      OBVIOUS
    <3> HIDE DEF W
    <3> QED BY <1>3, <2>1, <3>1, <3>2, ConstantPoly
  <2> HIDE DEF Y, W
  <2> QED BY <2>1, <2>4, <2>5, PolysDef
<1>5. ASSUME NEW i \in 1..n, i - 1 \in S PROVE i \in S
  <2> DEFINE p == Y(i - 1)
             w == W(i - 1)
             c == poly[i]
             cw == [z \in Int |-> c * w[z]]
  <2>1. i \in 0..n /\ i - 1 \in 0..n /\ i - 1 \in Nat /\ i \in Nat /\ i + 1 \in Nat
        /\ (i - 1) + 1 = i /\ c \in Int
    OBVIOUS
  <2>2. p \in IntFcn /\ w \in IntFcn
    BY <1>3, <2>1
  <2>3. p \in Polys[i] /\ w \in Polys[i]
    <3>1. p \in Polys[i - 1] /\ w \in Polys[(i - 1) + 1]
      BY <1>5
    <3>2. Polys[i - 1] \subseteq Polys[(i - 1) + 1]
      BY <2>1, PolysGrow
    <3> HIDE DEF p, w
    <3> QED BY <2>1, <3>1, <3>2
  <2>4. \A z \in Int : Cong(Y(i)[z], p[z] + c * w[z]) /\ Cong(W(i)[z], (z - 0) * w[z])
    <3> SUFFICES ASSUME NEW z \in Int
                 PROVE  Cong(Y(i)[z], p[z] + c * w[z]) /\ Cong(W(i)[z], (z - 0) * w[z])
      OBVIOUS
    <3> DEFINE f == F(z)
               v == f[i - 1].power
    <3>1. EvalLoop(poly, n, z, f)
      BY <1>1
    <3>2. Cong(f[i].y, f[i - 1].y + poly[i] * v) /\ Cong(f[i].power, v * z) /\ v \in Int
      <4> HIDE DEF f
      <4> QED BY <3>1, EvalLoopStep
    <3>3. Y(i)[z] = f[i].y /\ W(i)[z] = f[i].power /\ p[z] = f[i - 1].y /\ w[z] = v
      OBVIOUS
    <3> HIDE DEF v, f, p, w, Y, W
    <3>4. v * z = (z - 0) * v
      BY <3>2
    <3> QED BY <3>2, <3>3, <3>4
  <2>5. cw \in IntFcn /\ \A z \in Int : Cong(cw[z], c * w[z])
    <3>1. \A z \in Int : c * w[z] \in Int
      <4> SUFFICES ASSUME NEW z \in Int PROVE c * w[z] \in Int
        OBVIOUS
      <4> HIDE DEF w, c
      <4>1. w[z] \in Int
        BY <2>2, IntFcnValue
      <4> QED BY <2>1, <4>1
    <3> HIDE DEF w, c
    <3> QED BY <3>1, CongRefl DEF IntFcn
  <2>6. cw \in Polys[i]
    <3> HIDE DEF cw, w, c
    <3> QED BY <2>1, <2>3, <2>5, ScalePoly
  <2>7. \A z \in Int : Cong(Y(i)[z], p[z] + cw[z])
    BY <2>4
  <2>8. Y(i) \in Polys[i]
    <3> HIDE DEF cw, p, Y
    <3> QED BY <1>3, <2>1, <2>3, <2>6, <2>7, SumPoly
  <2>9. W(i) \in Polys[i + 1]
    <3>1. 0 \in Int
      OBVIOUS
    <3> HIDE DEF w, W
    <3> QED BY <1>3, <2>1, <2>3, <2>4, <3>1, TimesLinearPoly
  <2> HIDE DEF Y, W
  <2> QED BY <2>1, <2>8, <2>9
<1>6. n \in S
  <2>1. \A i \in 0..n : i \in S
    <3> HIDE DEF S
    <3> QED BY <1>4, <1>5, LoopInduction
  <2>2. n \in 0..n
    OBVIOUS
  <2> HIDE DEF S
  <2> QED BY <2>1, <2>2
<1>7. Y(n) \in Polys[n]
  BY <1>6
<1>8. \A z \in Int : Cong(h[z], 1 * Y(n)[z])
  <2> SUFFICES ASSUME NEW z \in Int PROVE Cong(h[z], 1 * Y(n)[z])
    OBVIOUS
  <2>1. Y(n)[z] = EvalPoly(poly, z) /\ EvalPoly(poly, z) \in Int
    BY <1>1, EvalPolyRange, QAssumption
  <2> QED BY <2>1
<1> HIDE DEF Y, S, W
<1> QED BY <1>7, <1>8, ScalePoly

LEMMA HornerAlgebra ==
  ASSUME NEW x \in Int, NEW y \in Int, NEW k \in Int, NEW w \in Int
  PROVE  x * (y + k * w) = x * y + k * (x * w) /\ x * (w * x) = (x * w) * x
<1>1. x * (y + k * w) = x * y + x * (k * w)
  OBVIOUS
<1>2. x * (k * w) = k * (x * w) /\ x * (w * x) = (x * w) * x
  OBVIOUS
<1> QED BY <1>1, <1>2

(* The value of a coefficient list at x, in terms of that of its tail.     *)
LEMMA Horner ==
  ASSUME NEW n \in Nat, NEW poly \in [1..(n + 1) -> Int], NEW x \in Int,
         NEW tail \in [1..n -> Int], \A j \in 1..n : tail[j] = poly[j + 1]
  PROVE  Cong(EvalPoly(poly, x), poly[1] + x * EvalPoly(tail, x))
<1> DEFINE c == poly[1]
<1>1. c \in Int /\ n + 1 \in Nat
  <2>1. 1 \in 1..(n + 1)
    OBVIOUS
  <2> QED BY <2>1
<1>2. PICK f : EvalLoop(poly, n + 1, x, f) /\ EvalPoly(poly, x) = f[n + 1].y
  BY <1>1, EvalLoopRuns
<1>3. PICK g : EvalLoop(tail, n, x, g) /\ EvalPoly(tail, x) = g[n].y
  BY EvalLoopRuns
<1> DEFINE S == {j \in 0..n : /\ Cong(f[j + 1].y, c + x * g[j].y)
                              /\ Cong(f[j + 1].power, x * g[j].power)}
<1>4. \A j \in 0..n : g[j].y \in Int /\ g[j].power \in Int
  BY <1>3 DEF EvalLoop, EvalStates
<1>5. \A j \in 0..(n + 1) : f[j].y \in Int /\ f[j].power \in Int
  BY <1>2 DEF EvalLoop, EvalStates
<1>6. 0 \in S
  <2>1. f[0].y = 0 /\ f[0].power = 1
    BY <1>2 DEF EvalLoop
  <2>2. g[0].y = 0 /\ g[0].power = 1
    BY <1>3 DEF EvalLoop
  <2>3. 1 \in 1..(n + 1) /\ 1 - 1 = 0 /\ 0 + 1 = 1
    OBVIOUS
  <2>4. Cong(f[1].y, f[0].y + c * f[0].power) /\ Cong(f[1].power, f[0].power * x)
    BY <1>1, <1>2, <2>3, EvalLoopStep
  <2>5. f[0].y + c * f[0].power = c + x * g[0].y /\ f[0].power * x = x * g[0].power
    BY <1>1, <2>1, <2>2
  <2> QED BY <2>3, <2>4, <2>5
<1>7. ASSUME NEW i \in 1..n, i - 1 \in S PROVE i \in S
  <2> DEFINE k == poly[i + 1]
             gy == g[i - 1].y
             gp == g[i - 1].power
             fy == f[i].y
             fp == f[i].power
             xgy == x * gy
             xgp == x * gp
  <2>1. i + 1 \in 1..(n + 1) /\ (i + 1) - 1 = i /\ (i - 1) + 1 = i /\ i \in 0..n
        /\ i - 1 \in 0..n /\ i \in 0..(n + 1) /\ i + 1 \in 0..(n + 1)
    OBVIOUS
  <2>2. k \in Int /\ tail[i] = k
    BY <2>1
  <2>3. gy \in Int /\ gp \in Int /\ fy \in Int /\ fp \in Int
    BY <1>4, <1>5, <2>1
  <2>4. Cong(fy, c + xgy) /\ Cong(fp, xgp) /\ xgy \in Int /\ xgp \in Int
    <3>1. Cong(f[(i - 1) + 1].y, c + xgy) /\ Cong(f[(i - 1) + 1].power, xgp)
      BY <1>7
    <3>2. xgy \in Int /\ xgp \in Int
      <4> HIDE DEF gy, gp
      <4> QED BY <2>3
    <3> HIDE DEF xgy, xgp, c
    <3> QED BY <2>1, <3>1, <3>2
  <2>5. Cong(f[i + 1].y, fy + k * fp) /\ Cong(f[i + 1].power, fp * x)
    BY <1>1, <1>2, <2>1, EvalLoopStep
  <2>6. Cong(g[i].y, gy + k * gp) /\ Cong(g[i].power, gp * x)
    BY <1>3, <2>2, EvalLoopStep
  <2>7. f[i + 1].y \in Int /\ f[i + 1].power \in Int /\ g[i].y \in Int /\ g[i].power \in Int
    BY <1>4, <1>5, <2>1
  <2>8. x * (gy + k * gp) = xgy + k * xgp /\ x * (gp * x) = xgp * x
    <3> HIDE DEF gy, gp, k
    <3> QED BY <2>2, <2>3, HornerAlgebra
  <2> HIDE DEF k, gy, gp, fy, fp, c
  <2> DEFINE kgp == k * gp
             kfp == k * fp
             kxgp == k * xgp
             gpx == gp * x
             fpx == fp * x
             s == gy + kgp
             t == xgp * x
  <2>9. kgp \in Int /\ kfp \in Int /\ kxgp \in Int /\ gpx \in Int /\ fpx \in Int
        /\ s \in Int /\ t \in Int
    BY <2>2, <2>3
  <2> HIDE DEF xgy, xgp
  <2>10. Cong(kfp, kxgp) /\ Cong(fpx, t)
    BY <2>2, <2>3, <2>4, CongScale
  <2>11. Cong(x * g[i].y, x * s) /\ Cong(x * g[i].power, x * gpx)
    BY <2>6, <2>7, <2>9, CongScale
  <2>12. x * s = xgy + kxgp /\ x * gpx = t
    BY <2>8
  <2> HIDE DEF kgp, kfp, kxgp, gpx, fpx, s, t
  <2>13. Cong(f[i + 1].power, t)
    BY <2>5, <2>7, <2>9, <2>10, CongTrans DEF fpx
  <2>14. x * g[i].power \in Int /\ x * g[i].y \in Int
    <3> DEFINE p == g[i].power
               y == g[i].y
    <3>1. p \in Int /\ y \in Int
      BY <2>7
    <3> HIDE DEF p, y
    <3>2. x * p \in Int /\ x * y \in Int
      BY <3>1
    <3> QED BY <3>2 DEF p, y
  <2>15. Cong(f[i + 1].power, x * g[i].power)
    <3> DEFINE u == x * g[i].power
    <3>1. u \in Int /\ Cong(u, t)
      BY <2>11, <2>12, <2>14
    <3> HIDE DEF u
    <3>2. Cong(t, u)
      BY <2>9, <3>1, CongSym
    <3>3. Cong(f[i + 1].power, u)
      BY <2>7, <2>9, <2>13, <3>1, <3>2, CongTrans
    <3> QED BY <3>3 DEF u
  <2>16. Cong(f[i + 1].y, c + x * g[i].y)
    <3> DEFINE u == x * g[i].y
    <3>1. u \in Int /\ Cong(u, xgy + kxgp)
      BY <2>11, <2>12, <2>14
    <3> HIDE DEF u
    <3>2. Cong(fy + kfp, (c + xgy) + kxgp)
      BY <1>1, <2>3, <2>4, <2>9, <2>10, CongAdd
    <3>3. (c + xgy) + kxgp = c + (xgy + kxgp)
      BY <1>1, <2>4, <2>9
    <3> DEFINE w == xgy + kxgp
               v == fy + kfp
    <3>4. w \in Int /\ v \in Int /\ Cong(u, w) /\ Cong(v, c + w) /\ Cong(f[i + 1].y, v)
      BY <2>3, <2>4, <2>5, <2>9, <3>1, <3>2, <3>3 DEF kfp
    <3> HIDE DEF w, v
    <3>5. Cong(f[i + 1].y, c + w)
      <4> DEFINE fi == f[i + 1].y
                 cw == c + w
      <4>1. cw \in Int
        BY <1>1, <3>4
      <4>2. fi \in Int /\ v \in Int /\ Cong(fi, v) /\ Cong(v, cw)
        BY <2>7, <3>4
      <4> HIDE DEF fi, cw
      <4>3. Cong(fi, cw)
        BY <4>1, <4>2, CongTrans
      <4> QED BY <4>3 DEF fi, cw
    <3>6. Cong(w, u)
      BY <3>1, <3>4, CongSym
    <3>7. Cong(c + w, c + u)
      BY <1>1, <3>1, <3>4, <3>6, CongShift
    <3>8. Cong(f[i + 1].y, c + u)
      <4> DEFINE p == c + w
                 r == c + u
      <4>1. p \in Int /\ r \in Int /\ Cong(f[i + 1].y, p) /\ Cong(p, r)
        BY <1>1, <3>1, <3>4, <3>5, <3>7
      <4> HIDE DEF p, r
      <4>2. Cong(f[i + 1].y, r)
        BY <2>7, <4>1, CongTrans
      <4> QED BY <4>2 DEF r
    <3> QED BY <3>8 DEF u
  <2> QED BY <2>1, <2>15, <2>16
<1>8. \A i \in 0..n : i \in S
  <2> HIDE DEF S
  <2> QED BY <1>6, <1>7, LoopInduction
<1>9. n \in 0..n
  OBVIOUS
<1>10. Cong(f[n + 1].y, c + x * g[n].y)
  BY <1>8, <1>9
<1> QED BY <1>2, <1>3, <1>10

(* The first coefficient is the value at 0.                                *)
LEMMA EvalAtZero ==
  ASSUME NEW n \in Nat \ {0}, NEW poly \in [1..n -> Int]
  PROVE  Cong(EvalPoly(poly, 0), poly[1])
<1> DEFINE m == n - 1
           tail == [j \in 1..m |-> poly[j + 1]]
<1>1. m \in Nat /\ m + 1 = n /\ poly[1] \in Int
  OBVIOUS
<1>2. tail \in [1..m -> Int]
  OBVIOUS
<1>3. \A j \in 1..m : tail[j] = poly[j + 1]
  OBVIOUS
<1> HIDE DEF m, tail
<1>4. poly \in [1..(m + 1) -> Int] /\ 0 \in Int
  BY <1>1
<1>5. Cong(EvalPoly(poly, 0), poly[1] + 0 * EvalPoly(tail, 0))
  BY <1>1, <1>2, <1>3, <1>4, Horner
<1>6. EvalPoly(tail, 0) \in Int
  <2>1. EvalPoly(tail, 0) \in 0..(Q - 1)
    BY <1>1, <1>2, <1>4, EvalPolyRange
  <2> QED BY <2>1, QAssumption
<1>7. poly[1] + 0 * EvalPoly(tail, 0) = poly[1]
  BY <1>1, <1>6
<1> QED BY <1>5, <1>7

(* Every polynomial is the value of a coefficient list.                    *)
LEMMA CoefficientsExist ==
  \A n \in Nat : \A h \in Polys[n] :
    \E poly \in [1..n -> 0..(Q - 1)] : \A z \in Int : Cong(EvalPoly(poly, z), h[z])
<1> DEFINE Fits(poly, h) == \A z \in Int : Cong(EvalPoly(poly, z), h[z])
           S == {n \in Nat : \A h \in Polys[n] : \E poly \in [1..n -> 0..(Q - 1)] : Fits(poly, h)}
<1>1. 0 \in S
  <2> SUFFICES ASSUME NEW h \in Zeros
               PROVE  \E poly \in [1..0 -> 0..(Q - 1)] : Fits(poly, h)
    BY PolysDef
  <2> DEFINE poly == [i \in 1..0 |-> 0]
  <2>1. poly \in [1..0 -> 0..(Q - 1)] /\ poly \in [1..0 -> Int]
    OBVIOUS
  <2>2. ASSUME NEW z \in Int PROVE Cong(EvalPoly(poly, z), h[z])
    <3>1. PICK f : EvalLoop(poly, 0, z, f) /\ EvalPoly(poly, z) = f[0].y
      <4> HIDE DEF poly
      <4> QED BY <2>1, EvalLoopRuns
    <3>2. EvalPoly(poly, z) = 0
      BY <3>1 DEF EvalLoop
    <3>3. h[z] \in Int /\ Cong(h[z], 0)
      BY IntFcnValue DEF Zeros
    <3> QED BY <3>2, <3>3, CongSym
  <2> HIDE DEF poly
  <2> QED BY <2>1, <2>2
<1>2. ASSUME NEW n \in Nat, n \in S PROVE n + 1 \in S
  <2> SUFFICES ASSUME NEW h \in Polys[n + 1]
               PROVE  \E poly \in [1..(n + 1) -> 0..(Q - 1)] : Fits(poly, h)
    OBVIOUS
  <2>1. h \in IntFcn /\ 0 \in Int
    <3>1. n + 1 \in Nat
      OBVIOUS
    <3> QED BY <3>1, PolysDef
  <2>2. PICK g \in Polys[n] : \A z \in Int : Cong(h[z], h[0] + (z - 0) * g[z])
    BY <2>1, PolysMember
  <2>3. g \in IntFcn
    BY PolysDef
  <2>4. PICK tail \in [1..n -> 0..(Q - 1)] : Fits(tail, g)
    BY <1>2
  <2> DEFINE c == mod_q(h[0])
             poly == [j \in 1..(n + 1) |-> IF j = 1 THEN c ELSE tail[j - 1]]
  <2>5. h[0] \in Int /\ c \in 0..(Q - 1) /\ Cong(c, h[0])
    BY <2>1, IntFcnValue, ModQRange, ModQCong
  <2>6. poly \in [1..(n + 1) -> 0..(Q - 1)]
    <3> HIDE DEF c
    <3> QED BY <2>5
  <2>7. poly \in [1..(n + 1) -> Int] /\ tail \in [1..n -> Int] /\ c \in Int
    <3> HIDE DEF poly, c
    <3> QED BY <2>5, <2>6, QAssumption
  <2>8. poly[1] = c /\ \A j \in 1..n : tail[j] = poly[j + 1]
    OBVIOUS
  <2> HIDE DEF poly, c
  <2>9. ASSUME NEW z \in Int PROVE Cong(EvalPoly(poly, z), h[z])
    <3> DEFINE t == EvalPoly(tail, z)
               e == EvalPoly(poly, z)
               y == g[z]
    <3>1. Cong(e, c + z * t)
      BY <2>7, <2>8, Horner
    <3>2. t \in Int /\ e \in Int /\ y \in Int /\ h[z] \in Int
      <4>1. n + 1 \in Nat
        OBVIOUS
      <4>2. t \in 0..(Q - 1) /\ e \in 0..(Q - 1)
        BY <2>7, <4>1, EvalPolyRange
      <4> HIDE DEF t, e
      <4> QED BY <2>1, <2>3, <4>2, IntFcnValue, QAssumption
    <3>3. Cong(t, y)
      BY <2>4
    <3>4. Cong(h[z], h[0] + z * y)
      <4>1. z - 0 = z
        OBVIOUS
      <4> QED BY <2>2, <4>1
    <3> HIDE DEF t, e, y
    <3> DEFINE zt == z * t
               zy == z * y
    <3>5. Cong(zt, zy)
      BY <3>2, <3>3, CongScale
    <3>6. zt \in Int /\ zy \in Int /\ Cong(e, c + zt) /\ Cong(h[z], h[0] + zy)
      BY <3>1, <3>2, <3>4
    <3> HIDE DEF zt, zy
    <3>7. Cong(c + zt, h[0] + zy)
      BY <2>5, <2>7, <3>5, <3>6, CongAdd
    <3>8. Cong(e, h[0] + zy)
      BY <2>5, <2>7, <3>2, <3>6, <3>7, CongTrans
    <3>9. Cong(h[0] + zy, h[z])
      BY <2>5, <3>2, <3>6, CongSym
    <3>10. Cong(e, h[z])
      BY <2>5, <3>2, <3>6, <3>8, <3>9, CongTrans
    <3> QED BY <3>10 DEF e
  <2> QED BY <2>6, <2>9
<1> HIDE DEF S
<1>3. \A n \in Nat : n \in S
  BY <1>1, <1>2, Induction
<1> QED BY <1>3 DEF S

-----------------------------------------------------------------------------
(* Product, Lagrange and CombineAt.                                        *)

(* What the loop over j # i of threshold_combine goes through.             *)
ProductLoop(factors, n, i, f) ==
  /\ f \in [0..n -> Int]
  /\ f[0] = 1
  /\ \A j \in 1..n : f[j] = IF j = i THEN f[j - 1] ELSE mod_q(f[j - 1] * factors[j])

LEMMA ProductLoopRuns ==
  ASSUME NEW n \in Nat, NEW factors \in [1..n -> Int], NEW i \in Int
  PROVE  \E f : ProductLoop(factors, n, i, f) /\ Product(factors, i) = f[n]
<1> DEFINE step == [j \in 1..n |-> [v \in Int |-> IF j = i THEN v ELSE mod_q(v * factors[j])]]
           loop[j \in 0..Len(factors)] ==
             IF j = 0 THEN 1
             ELSE IF j = i THEN loop[j - 1]
             ELSE mod_q(loop[j - 1] * factors[j])
<1>1. Len(factors) = n
  BY LenIs
<1>2. step \in [1..n -> [Int -> Int]]
  <2> SUFFICES ASSUME NEW j \in 1..n, NEW v \in Int PROVE mod_q(v * factors[j]) \in Int
    OBVIOUS
  <2>1. v * factors[j] \in Int
    OBVIOUS
  <2> QED BY <2>1, ModQCong
<1>3. PICK f : f \in LoopRuns(Int, 1, n, step)
  <2>1. 1 \in Int
    OBVIOUS
  <2> HIDE DEF step
  <2> QED BY <1>2, <2>1, LoopExists
<1>4. f \in [0..n -> Int] /\ f[0] = 1
  BY <1>3 DEF LoopRuns
<1>5. ASSUME NEW j \in 1..n
      PROVE  f[j] = IF j = i THEN f[j - 1] ELSE mod_q(f[j - 1] * factors[j])
  <2>1. f[j] = step[j][f[j - 1]]
    <3> HIDE DEF step
    <3> QED BY <1>3 DEF LoopRuns
  <2>2. j - 1 \in 0..n
    OBVIOUS
  <2>3. f[j - 1] \in Int
    BY <1>4, <2>2
  <2> QED BY <2>1, <2>3
<1>6. ProductLoop(factors, n, i, f)
  BY <1>4, <1>5 DEF ProductLoop
<1>7. f = [j \in 0..Len(factors) |->
             IF j = 0 THEN 1
             ELSE IF j = i THEN f[j - 1]
             ELSE mod_q(f[j - 1] * factors[j])]
  <2> SUFFICES ASSUME NEW j \in 0..n
               PROVE  f[j] = IF j = 0 THEN 1
                             ELSE IF j = i THEN f[j - 1]
                             ELSE mod_q(f[j - 1] * factors[j])
    BY <1>1, <1>4, Zenon
  <2>1. CASE j = 0
    BY <1>4, <2>1
  <2>2. CASE j # 0
    <3>1. j \in 1..n
      BY <2>2
    <3> QED BY <1>5, <2>2, <3>1, Zenon
  <2> QED BY <2>1, <2>2
<1>8. loop = [j \in 0..Len(factors) |->
             IF j = 0 THEN 1
             ELSE IF j = i THEN loop[j - 1]
             ELSE mod_q(loop[j - 1] * factors[j])]
  <2> HIDE DEF step
  <2>1. \E g : g = [j \in 0..Len(factors) |->
             IF j = 0 THEN 1
             ELSE IF j = i THEN g[j - 1]
             ELSE mod_q(g[j - 1] * factors[j])]
    BY <1>7, Zenon
  <2> QED BY <2>1, Zenon
<1>9. Product(factors, i) = loop[n]
  BY <1>1 DEF Product
<1> HIDE DEF loop, step
<1> DEFINE S == {j \in 0..n : loop[j] = f[j]}
<1>10. ASSUME NEW j \in 0..n
       PROVE  loop[j] = IF j = 0 THEN 1
                        ELSE IF j = i THEN loop[j - 1]
                        ELSE mod_q(loop[j - 1] * factors[j])
  BY <1>1, <1>8, Zenon
<1>11. 0 \in S
  <2>1. 0 \in 0..n
    OBVIOUS
  <2> QED BY <1>4, <1>10, <2>1
<1>12. ASSUME NEW j \in 1..n, j - 1 \in S PROVE j \in S
  <2>1. j \in 0..n /\ j # 0 /\ loop[j - 1] = f[j - 1]
    BY <1>12
  <2>2. loop[j] = f[j]
    BY <1>5, <1>10, <2>1, Zenon
  <2> QED BY <2>1, <2>2
<1>13. \A j \in 0..n : j \in S
  <2> HIDE DEF S
  <2> QED BY <1>11, <1>12, LoopInduction
<1>14. n \in 0..n
  OBVIOUS
<1>15. loop[n] = f[n]
  BY <1>13, <1>14
<1> QED BY <1>6, <1>9, <1>15

LEMMA ProductLoopStep ==
  ASSUME NEW n \in Nat, NEW factors \in [1..n -> Int], NEW i \in Int, NEW f,
         ProductLoop(factors, n, i, f), NEW j \in 1..n
  PROVE  /\ f[j] \in Int /\ f[j - 1] \in Int /\ factors[j] \in Int
         /\ j = i => f[j] = f[j - 1]
         /\ j # i => Cong(f[j], f[j - 1] * factors[j])
<1>1. j - 1 \in 0..n /\ j \in 0..n
  OBVIOUS
<1>2. f[j] \in Int /\ f[j - 1] \in Int /\ factors[j] \in Int
  BY <1>1 DEF ProductLoop
<1>3. j = i => f[j] = f[j - 1]
  BY DEF ProductLoop
<1>4. ASSUME j # i PROVE Cong(f[j], f[j - 1] * factors[j])
  <2> DEFINE v == f[j - 1] * factors[j]
  <2>1. v \in Int
    BY <1>2
  <2>2. f[j] = mod_q(v)
    BY <1>4 DEF ProductLoop
  <2> HIDE DEF v
  <2>3. Cong(f[j], v)
    BY <2>1, <2>2, ModQCong
  <2> QED BY <2>3 DEF v
<1> QED BY <1>2, <1>3, <1>4

LEMMA ProductInt ==
  ASSUME NEW n \in Nat, NEW factors \in [1..n -> Int], NEW i \in Int
  PROVE  Product(factors, i) \in Int
<1>1. PICK f : ProductLoop(factors, n, i, f) /\ Product(factors, i) = f[n]
  BY ProductLoopRuns
<1> QED BY <1>1 DEF ProductLoop

(* One zero factor makes the product zero.                                 *)
LEMMA ProductZero ==
  ASSUME NEW n \in Nat, NEW factors \in [1..n -> Int], NEW i \in Int,
         NEW m \in 1..n, m # i, Cong(factors[m], 0)
  PROVE  Cong(Product(factors, i), 0)
<1>1. PICK f : ProductLoop(factors, n, i, f) /\ Product(factors, i) = f[n]
  BY ProductLoopRuns
<1> DEFINE S == {j \in 0..n : j >= m => Cong(f[j], 0)}
<1>2. 0 \in S
  OBVIOUS
<1>3. ASSUME NEW j \in 1..n, j - 1 \in S PROVE j \in S
  <2> SUFFICES ASSUME j >= m PROVE Cong(f[j], 0)
    OBVIOUS
  <2> DEFINE x == f[j - 1]
             y == factors[j]
             xy == x * y
  <2>1. f[j] \in Int /\ x \in Int /\ y \in Int /\ (j = i => f[j] = x) /\ (j # i => Cong(f[j], xy))
    BY <1>1, ProductLoopStep
  <2>2. CASE j = m
    <3>1. Cong(y, 0)
      BY <2>2
    <3> HIDE DEF x, y
    <3>2. xy \in Int
      BY <2>1
    <3>3. Cong(xy, 0)
      BY <2>1, <3>1, CongScaleZero
    <3> HIDE DEF xy
    <3> QED BY <2>1, <2>2, <3>2, <3>3, CongTrans
  <2>3. CASE j # m
    <3>1. Cong(x, 0)
      BY <1>3, <2>3
    <3> HIDE DEF x, y
    <3>2. xy \in Int
      BY <2>1
    <3>3. Cong(xy, 0)
      BY <2>1, <3>1, CongScaleZero
    <3> HIDE DEF xy
    <3> QED BY <2>1, <3>1, <3>2, <3>3, CongTrans
  <2> QED BY <2>2, <2>3
<1>4. \A j \in 0..n : j \in S
  <2> HIDE DEF S
  <2> QED BY <1>2, <1>3, LoopInduction
<1>5. n \in 0..n /\ n >= m
  OBVIOUS
<1>6. Cong(f[n], 0)
  BY <1>4, <1>5
<1> QED BY <1>1, <1>6

(* A product of units is a unit.                                           *)
LEMMA ProductUnit ==
  ASSUME QIsPrime, NEW n \in Nat, NEW factors \in [1..n -> Int], NEW i \in Int,
         \A m \in 1..n : m # i => ~Cong(factors[m], 0)
  PROVE  ~Cong(Product(factors, i), 0)
<1>1. PICK f : ProductLoop(factors, n, i, f) /\ Product(factors, i) = f[n]
  BY ProductLoopRuns
<1> DEFINE S == {j \in 0..n : ~Cong(f[j], 0)}
<1>2. 0 \in S
  <2>1. 0 \in 0..n /\ f[0] = 1
    BY <1>1 DEF ProductLoop
  <2>2. 1 \in 0..(Q - 1) /\ 0 \in 0..(Q - 1)
    BY QAssumption
  <2>3. ~Cong(1, 0)
    BY <2>2, CongResidues
  <2> QED BY <2>1, <2>3
<1>3. ASSUME NEW j \in 1..n, j - 1 \in S PROVE j \in S
  <2> DEFINE x == f[j - 1]
             y == factors[j]
             xy == x * y
  <2>1. f[j] \in Int /\ x \in Int /\ y \in Int /\ (j = i => f[j] = x) /\ (j # i => Cong(f[j], xy))
    BY <1>1, ProductLoopStep
  <2>2. ~Cong(x, 0)
    BY <1>3
  <2>3. CASE j = i
    BY <2>1, <2>2, <2>3
  <2>4. CASE j # i
    <3> SUFFICES ASSUME Cong(f[j], 0) PROVE FALSE
      OBVIOUS
    <3>1. ~Cong(y, 0)
      BY <2>4
    <3> HIDE DEF x, y
    <3>2. xy \in Int
      BY <2>1
    <3>3. Cong(xy, f[j])
      BY <2>1, <2>4, <3>2, CongSym
    <3>4. Cong(xy, 0)
      BY <2>1, <3>2, <3>3, CongTrans
    <3> QED BY <2>1, <2>2, <3>1, <3>4, NoZeroDivisors
  <2> QED BY <2>3, <2>4
<1>4. \A j \in 0..n : j \in S
  <2> HIDE DEF S
  <2> QED BY <1>2, <1>3, LoopInduction
<1>5. n \in 0..n
  OBVIOUS
<1>6. ~Cong(f[n], 0)
  BY <1>4, <1>5
<1> QED BY <1>1, <1>6

(* The factors z - points[j].                                              *)
LinearFactors(points, n, z) == [j \in 1..n |-> z - points[j]]

LEMMA LinearFactorsType ==
  ASSUME NEW n \in Nat, NEW points \in [1..n -> Int], NEW z \in Int
  PROVE  LinearFactors(points, n, z) \in [1..n -> Int]
BY DEF LinearFactors

(* Without its i-th factor, their product has degree n - 1.                *)
LEMMA BasisPoly ==
  ASSUME NEW n \in Nat, NEW points \in [1..n -> Int], NEW i \in 1..n, NEW h \in IntFcn,
         \A z \in Int : h[z] = Product(LinearFactors(points, n, z), i)
  PROVE  h \in Polys[n]
<1> DEFINE F(z) == CHOOSE f : /\ ProductLoop(LinearFactors(points, n, z), n, i, f)
                              /\ Product(LinearFactors(points, n, z), i) = f[n]
<1>0. i \in Int
  OBVIOUS
<1>1. ASSUME NEW z \in Int
      PROVE  /\ ProductLoop(LinearFactors(points, n, z), n, i, F(z))
             /\ Product(LinearFactors(points, n, z), i) = F(z)[n]
  BY <1>0, LinearFactorsType, ProductLoopRuns
<1> HIDE DEF F
<1>2. ASSUME NEW z \in Int, NEW j \in 0..n PROVE F(z)[j] \in Int
  BY <1>1 DEF ProductLoop
<1> DEFINE P(j) == [z \in Int |-> F(z)[j]]
           D(j) == IF j < i THEN j + 1 ELSE j
           S == {j \in 0..n : P(j) \in Polys[D(j)]}
<1>3. \A j \in 0..n : P(j) \in IntFcn
  BY <1>2 DEF IntFcn
<1>4. 0 \in S
  <2>1. 0 \in 0..n /\ D(0) = 1 /\ 1 \in Nat \ {0} /\ 1 \in Int
    OBVIOUS
  <2>2. \A z \in Int : Cong(P(0)[z], 1)
    <3>1. \A z \in Int : P(0)[z] = 1
      BY <1>1 DEF ProductLoop
    <3> QED BY <3>1, CongRefl
  <2>3. P(0) \in Polys[1]
    <3> HIDE DEF P
    <3> QED BY <1>3, <2>1, <2>2, ConstantPoly
  <2> HIDE DEF P
  <2> QED BY <2>1, <2>3
<1>5. ASSUME NEW j \in 1..n, j - 1 \in S PROVE j \in S
  <2> DEFINE p == P(j - 1)
             b == points[j]
  <2>1. j \in 0..n /\ j - 1 \in 0..n /\ b \in Int /\ D(j) \in Nat /\ D(j - 1) \in Nat
    OBVIOUS
  <2>2. p \in IntFcn /\ P(j) \in IntFcn
    BY <1>3, <2>1
  <2>3. p \in Polys[D(j - 1)]
    BY <1>5
  <2>4. ASSUME NEW z \in Int
        PROVE  /\ j = i => P(j)[z] = p[z]
               /\ j # i => Cong(P(j)[z], (z - b) * p[z])
    <3> DEFINE f == F(z)
               factors == LinearFactors(points, n, z)
    <3>1. ProductLoop(factors, n, i, f) /\ factors \in [1..n -> Int]
      BY <1>1, LinearFactorsType
    <3>2. factors[j] = z - b
      BY DEF LinearFactors
    <3>3. P(j)[z] = f[j] /\ p[z] = f[j - 1]
      OBVIOUS
    <3> HIDE DEF f, factors, P, p
    <3>4. /\ f[j] \in Int /\ f[j - 1] \in Int /\ factors[j] \in Int
          /\ j = i => f[j] = f[j - 1]
          /\ j # i => Cong(f[j], f[j - 1] * factors[j])
      BY <1>0, <3>1, ProductLoopStep
    <3> HIDE DEF b
    <3>5. f[j - 1] * factors[j] = (z - b) * f[j - 1]
      BY <2>1, <3>2, <3>4
    <3> QED BY <3>3, <3>4, <3>5
  <2>5. CASE j = i
    <3>1. P(j) = p
      BY <2>4, <2>5
    <3>2. D(j - 1) = D(j)
      BY <2>5
    <3> HIDE DEF P, p, D
    <3> QED BY <2>1, <2>3, <3>1, <3>2
  <2>6. CASE j # i
    <3>1. \A z \in Int : Cong(P(j)[z], (z - b) * p[z])
      BY <2>4, <2>6
    <3>2. D(j - 1) + 1 = D(j)
      BY <2>6
    <3> HIDE DEF P, p, D, b
    <3>3. P(j) \in Polys[D(j - 1) + 1]
      BY <2>1, <2>2, <2>3, <3>1, TimesLinearPoly
    <3> QED BY <2>1, <3>2, <3>3
  <2> QED BY <2>5, <2>6
<1>6. \A j \in 0..n : j \in S
  <2> HIDE DEF S
  <2> QED BY <1>4, <1>5, LoopInduction
<1>7. n \in 0..n /\ D(n) = n
  OBVIOUS
<1>8. h = P(n)
  <2>1. \A z \in Int : h[z] = P(n)[z]
    BY <1>1
  <2>2. h \in [Int -> Int] /\ P(n) \in [Int -> Int]
    BY <1>3, <1>7 DEF IntFcn
  <2> HIDE DEF P
  <2> QED BY <2>1, <2>2
<1> HIDE DEF P, D
<1> QED BY <1>6, <1>7, <1>8

LEMMA LagrangeIs ==
  ASSUME NEW n \in Nat, NEW points \in [1..n -> Int], NEW i \in 1..n
  PROVE  /\ Lagrange(points, i)[1] = Product(LinearFactors(points, n, 0), i)
         /\ Lagrange(points, i)[2] =
              mod_inverse_q(Product(LinearFactors(points, n, points[i]), i))
<1>1. Len(points) = n
  BY LenIs
<1>2. [j \in 1..Len(points) |-> -points[j]] = LinearFactors(points, n, 0)
  <2>1. \A j \in 1..n : -points[j] = 0 - points[j]
    OBVIOUS
  <2> QED BY <1>1, <2>1 DEF LinearFactors
<1>3. [j \in 1..Len(points) |-> points[i] - points[j]] = LinearFactors(points, n, points[i])
  BY <1>1 DEF LinearFactors
<1>4. Lagrange(points, i) =
        <<Product(LinearFactors(points, n, 0), i),
          mod_inverse_q(Product(LinearFactors(points, n, points[i]), i))>>
  BY <1>2, <1>3 DEF Lagrange
<1> QED BY <1>4

(* At a point other than the i-th the product is zero, at the i-th it is   *)
(* not.                                                                    *)
LEMMA BasisValues ==
  ASSUME QIsPrime, NEW n \in Nat, NEW points \in [1..n -> Int], Apart(points, n),
         NEW i \in 1..n
  PROVE  /\ \A m \in 1..n : m # i => Cong(Product(LinearFactors(points, n, points[m]), i), 0)
         /\ ~Cong(Product(LinearFactors(points, n, points[i]), i), 0)
<1>0. i \in Int
  OBVIOUS
<1>1. ASSUME NEW m \in 1..n, m # i
      PROVE  Cong(Product(LinearFactors(points, n, points[m]), i), 0)
  <2> DEFINE factors == LinearFactors(points, n, points[m])
  <2>1. factors \in [1..n -> Int]
    BY LinearFactorsType
  <2>2. factors[m] = 0
    BY DEF LinearFactors
  <2>3. Cong(factors[m], 0)
    BY <2>2, CongRefl
  <2> HIDE DEF factors
  <2>4. Cong(Product(factors, i), 0)
    BY <1>0, <1>1, <2>1, <2>3, ProductZero
  <2> QED BY <2>4 DEF factors
<1>2. ~Cong(Product(LinearFactors(points, n, points[i]), i), 0)
  <2> DEFINE factors == LinearFactors(points, n, points[i])
  <2>1. factors \in [1..n -> Int]
    BY LinearFactorsType
  <2>2. \A m \in 1..n : m # i => ~Cong(factors[m], 0)
    BY DEF LinearFactors, Apart
  <2> HIDE DEF factors
  <2>3. ~Cong(Product(factors, i), 0)
    BY <1>0, <2>1, <2>2, ProductUnit
  <2> QED BY <2>3 DEF factors
<1> QED BY <1>1, <1>2

(* The i-th term of threshold_combine.                                     *)
CombineTerm(points, values, i) ==
  LET l == Lagrange(points, i) IN mod_q(mod_q(values[i] * l[1]) * l[2])

(* What its outer loop goes through.                                       *)
CombineLoop(points, values, n, f) ==
  /\ f \in [0..n -> Int]
  /\ f[0] = 0
  /\ \A i \in 1..n : f[i] = mod_q(f[i - 1] + CombineTerm(points, values, i))

LEMMA CombineLoopRuns ==
  ASSUME NEW n \in Nat, NEW points \in [1..n -> Int], NEW values,
         \A i \in 1..n : CombineTerm(points, values, i) \in Int
  PROVE  \E f : CombineLoop(points, values, n, f) /\ CombineAt(points, values) = center_q(f[n])
<1> DEFINE term(i) == CombineTerm(points, values, i)
           step == [i \in 1..n |-> [v \in Int |-> mod_q(v + term(i))]]
           loop[i \in 0..Len(points)] ==
             IF i = 0 THEN 0
             ELSE LET l == Lagrange(points, i)
                      t == mod_q(mod_q(values[i] * l[1]) * l[2])
                  IN mod_q(loop[i - 1] + t)
<1>1. Len(points) = n
  BY LenIs
<1>2. step \in [1..n -> [Int -> Int]]
  <2> SUFFICES ASSUME NEW i \in 1..n, NEW v \in Int PROVE mod_q(v + term(i)) \in Int
    OBVIOUS
  <2>1. v + term(i) \in Int
    OBVIOUS
  <2> QED BY <2>1, ModQCong
<1>3. PICK f : f \in LoopRuns(Int, 0, n, step)
  <2>1. 0 \in Int
    OBVIOUS
  <2> HIDE DEF step
  <2> QED BY <1>2, <2>1, LoopExists
<1>4. f \in [0..n -> Int] /\ f[0] = 0
  BY <1>3 DEF LoopRuns
<1>5. ASSUME NEW i \in 1..n PROVE f[i] = mod_q(f[i - 1] + CombineTerm(points, values, i))
  <2>1. f[i] = step[i][f[i - 1]]
    <3> HIDE DEF step
    <3> QED BY <1>3 DEF LoopRuns
  <2>2. i - 1 \in 0..n
    OBVIOUS
  <2>3. f[i - 1] \in Int
    BY <1>4, <2>2
  <2> QED BY <2>1, <2>3
<1>6. CombineLoop(points, values, n, f)
  BY <1>4, <1>5 DEF CombineLoop
<1>7. f = [i \in 0..Len(points) |->
             IF i = 0 THEN 0 ELSE mod_q(f[i - 1] + CombineTerm(points, values, i))]
  <2> SUFFICES ASSUME NEW i \in 0..n
               PROVE  f[i] = IF i = 0 THEN 0
                             ELSE mod_q(f[i - 1] + CombineTerm(points, values, i))
    BY <1>1, <1>4, Zenon
  <2>1. CASE i = 0
    BY <1>4, <2>1
  <2>2. CASE i # 0
    <3>1. i \in 1..n
      BY <2>2
    <3> QED BY <1>5, <2>2, <3>1, Zenon
  <2> QED BY <2>1, <2>2
<1>8. loop = [i \in 0..Len(points) |->
             IF i = 0 THEN 0 ELSE mod_q(loop[i - 1] + CombineTerm(points, values, i))]
  <2> HIDE DEF step, term
  <2>1. \E g : g = [i \in 0..Len(points) |->
             IF i = 0 THEN 0 ELSE mod_q(g[i - 1] + CombineTerm(points, values, i))]
    BY <1>7, Zenon
  <2> QED BY <2>1, Zenon DEF CombineTerm
<1>9. CombineAt(points, values) = center_q(loop[n])
  BY <1>1 DEF CombineAt
<1> HIDE DEF loop, step, term
<1> DEFINE S == {i \in 0..n : loop[i] = f[i]}
<1>10. ASSUME NEW i \in 0..n
       PROVE  loop[i] = IF i = 0 THEN 0
                        ELSE mod_q(loop[i - 1] + CombineTerm(points, values, i))
  BY <1>1, <1>8, Zenon
<1>11. 0 \in S
  <2>1. 0 \in 0..n
    OBVIOUS
  <2> QED BY <1>4, <1>10, <2>1
<1>12. ASSUME NEW i \in 1..n, i - 1 \in S PROVE i \in S
  <2>1. i \in 0..n /\ i # 0 /\ loop[i - 1] = f[i - 1]
    BY <1>12
  <2>2. loop[i] = f[i]
    BY <1>5, <1>10, <2>1, Zenon
  <2> QED BY <2>1, <2>2
<1>13. \A i \in 0..n : i \in S
  <2> HIDE DEF S
  <2> QED BY <1>11, <1>12, LoopInduction
<1>14. n \in 0..n
  OBVIOUS
<1>15. loop[n] = f[n]
  BY <1>13, <1>14
<1> QED BY <1>6, <1>9, <1>15

LEMMA AddMultiple ==
  ASSUME NEW n \in Nat, NEW h \in Polys[n], NEW w \in Int, NEW b \in Polys[n]
  PROVE  \E e \in Polys[n] : \A z \in Int : e[z] = h[z] + w * b[z]
<1> DEFINE wb == [z \in Int |-> w * b[z]]
           e == [z \in Int |-> h[z] + wb[z]]
<1>2. h \in IntFcn /\ b \in IntFcn
  BY PolysDef
<1>3. b \in Polys[n]
  OBVIOUS
<1>4. \A z \in Int : b[z] \in Int /\ h[z] \in Int
  BY <1>2, IntFcnValue
<1>5. ASSUME NEW z \in Int PROVE w * b[z] \in Int /\ wb[z] = w * b[z]
  <2>1. b[z] \in Int
    BY <1>4
  <2>2. wb[z] = w * b[z]
    OBVIOUS
  <2> HIDE DEF wb
  <2>3. w * b[z] \in Int
    BY ONLY <2>1, w \in Int
  <2> QED BY <2>2, <2>3
<1>6. wb \in IntFcn
  <2>1. \A z \in Int : w * b[z] \in Int
    BY <1>5
  <2> QED BY <2>1 DEF IntFcn
<1>7. \A z \in Int : Cong(wb[z], w * b[z])
  <2> HIDE DEF wb
  <2> QED BY <1>5, CongRefl
<1>8. wb \in Polys[n]
  <2> HIDE DEF wb
  <2> QED BY <1>3, <1>6, <1>7, ScalePoly
<1>9. ASSUME NEW z \in Int PROVE h[z] + wb[z] \in Int /\ e[z] = h[z] + wb[z]
  <2>1. h[z] \in Int
    BY <1>4
  <2>2. wb[z] \in Int
    BY <1>5
  <2>3. e[z] = h[z] + wb[z]
    OBVIOUS
  <2> HIDE DEF wb, e
  <2>4. h[z] + wb[z] \in Int
    BY ONLY <2>1, <2>2
  <2> QED BY <2>3, <2>4
<1> HIDE DEF wb
<1>10. e \in IntFcn
  <2>1. \A z \in Int : h[z] + wb[z] \in Int
    BY <1>9
  <2> QED BY <2>1 DEF IntFcn
<1> HIDE DEF e
<1>11. \A z \in Int : Cong(e[z], h[z] + wb[z])
  BY <1>9, CongRefl
<1>12. e \in Polys[n]
  BY <1>8, <1>10, <1>11, SumPoly
<1> QED BY <1>5, <1>9, <1>12

(* One more value is met by adding a multiple of a basis polynomial.       *)
LEMMA AddOnePoint ==
  ASSUME NEW n \in Nat, NEW points \in [1..n -> Int], NEW i \in 1..n, NEW h \in Polys[n],
         NEW w \in Int, NEW b \in IntFcn,
         \A z \in Int : b[z] = Product(LinearFactors(points, n, z), i)
  PROVE  \E e \in Polys[n] : \A z \in Int : e[z] = h[z] + w * b[z]
<1>1. b \in Polys[n]
  BY BasisPoly
<1> QED BY <1>1, AddMultiple

(* What threshold_combine returns is the value at 0 of a polynomial of     *)
(* degree below the number of partials that has the given values at the    *)
(* given points.                                                           *)
LEMMA CombineInterpolates ==
  ASSUME QIsPrime, NEW n \in Nat, NEW points \in [1..n -> Int], Apart(points, n),
         NEW values \in [1..n -> Int]
  PROVE  /\ CombineAt(points, values) \in -(Q \div 2)..(Q \div 2)
         /\ CombineAt(points, values) \in Int
         /\ \E h \in Polys[n] : /\ \A m \in 1..n : Cong(h[points[m]], values[m])
                                /\ Cong(CombineAt(points, values), h[0])
<1> DEFINE B(z, i) == Product(LinearFactors(points, n, z), i)
           num(i) == B(0, i)
           inv(i) == mod_inverse_q(B(points[i], i))
<1>1. ASSUME NEW i \in 1..n, NEW z \in Int PROVE B(z, i) \in Int
  <2>1. i \in Int
    OBVIOUS
  <2> QED BY <2>1, LinearFactorsType, ProductInt
<1>2. ASSUME NEW i \in 1..n
      PROVE  /\ inv(i) \in Int /\ Cong(inv(i) * B(points[i], i), 1)
             /\ \A m \in 1..n : m # i => Cong(B(points[m], i), 0)
  <2>1. points[i] \in Int
    OBVIOUS
  <2>2. B(points[i], i) \in Int
    BY <1>1, <2>1
  <2>3. ~Cong(B(points[i], i), 0) /\ \A m \in 1..n : m # i => Cong(B(points[m], i), 0)
    BY BasisValues
  <2> HIDE DEF B
  <2>4. inv(i) \in 0..(Q - 1) /\ Cong(inv(i) * B(points[i], i), 1)
    BY <2>2, <2>3, ModInverseCorrect
  <2> HIDE DEF inv
  <2>5. inv(i) \in Int
    BY <2>4, QAssumption
  <2> QED BY <2>3, <2>4, <2>5
<1>3. ASSUME NEW i \in 1..n
      PROVE  /\ CombineTerm(points, values, i) = mod_q(mod_q(values[i] * num(i)) * inv(i))
             /\ CombineTerm(points, values, i) \in Int
             /\ values[i] \in Int /\ num(i) \in Int /\ inv(i) \in Int
             /\ Cong(CombineTerm(points, values, i), (values[i] * num(i)) * inv(i))
  <2> DEFINE v == values[i]
             p == num(i)
             r == inv(i)
             t == CombineTerm(points, values, i)
  <2>1. v \in Int /\ p \in Int /\ r \in Int
    BY <1>1, <1>2
  <2>2. t = mod_q(mod_q(v * p) * r)
    BY LagrangeIs DEF CombineTerm
  <2> HIDE DEF v, p, r, t
  <2>3. v * p \in Int
    BY <2>1
  <2>4. mod_q(v * p) \in Int /\ Cong(mod_q(v * p), v * p)
    BY <2>3, ModQCong
  <2>5. mod_q(v * p) * r \in Int /\ (v * p) * r \in Int
    BY <2>1, <2>3, <2>4
  <2>6. Cong(mod_q(v * p) * r, (v * p) * r)
    BY <2>1, <2>3, <2>4, CongScale
  <2>7. t \in Int /\ Cong(t, mod_q(v * p) * r)
    BY <2>2, <2>5, ModQCong
  <2>8. Cong(t, (v * p) * r)
    BY <2>5, <2>6, <2>7, CongTrans
  <2> QED BY <2>1, <2>2, <2>7, <2>8 DEF v, p, r, t
<1>4. PICK f : CombineLoop(points, values, n, f) /\ CombineAt(points, values) = center_q(f[n])
  BY <1>3, CombineLoopRuns
<1>5. \A i \in 0..n : f[i] \in Int
  BY <1>4 DEF CombineLoop
<1> DEFINE Meets(h, i) == /\ \A m \in 1..n : m <= i => Cong(h[points[m]], values[m])
                          /\ \A m \in 1..n : m > i => Cong(h[points[m]], 0)
                          /\ Cong(f[i], h[0])
           S == {i \in 0..n : \E h \in Polys[n] : Meets(h, i)}
<1>6. 0 \in S
  <2> DEFINE zero == [z \in Int |-> 0]
  <2>1. zero \in Zeros
    BY CongRefl DEF Zeros, IntFcn
  <2>2. zero \in Polys[n]
    <3> HIDE DEF zero
    <3> QED BY <2>1, ZerosInPolys
  <2>3. f[0] = 0 /\ 0 \in 0..n
    BY <1>4 DEF CombineLoop
  <2>4. Meets(zero, 0)
    BY <2>3, CongRefl
  <2> HIDE DEF zero, Meets
  <2> QED BY <2>2, <2>3, <2>4
<1>7. ASSUME NEW i \in 1..n, i - 1 \in S PROVE i \in S
  <2>1. i \in 0..n /\ i - 1 \in 0..n
    OBVIOUS
  <2>2. PICK h \in Polys[n] : Meets(h, i - 1)
    BY <1>7
  <2> DEFINE w == values[i] * inv(i)
  <2>3. w \in Int
    BY <1>3
  <2>4. PICK e \in Polys[n] : \A z \in Int : e[z] = h[z] + w * B(z, i)
    <3> DEFINE b == [z \in Int |-> B(z, i)]
    <3>1. b \in IntFcn /\ \A z \in Int : b[z] = B(z, i)
      BY <1>1 DEF IntFcn
    <3> HIDE DEF b, w
    <3>2. \A z \in Int : b[z] = Product(LinearFactors(points, n, z), i)
      BY <3>1
    <3>3. \E e \in Polys[n] : \A z \in Int : e[z] = h[z] + w * b[z]
      BY <2>3, <3>1, <3>2, AddOnePoint
    <3> QED BY <3>1, <3>3
  <2>5. \A z \in Int : h[z] \in Int /\ B(z, i) \in Int
    BY <1>1, IntFcnValue, PolysDef
  <2> HIDE DEF B
  <2>6. ASSUME NEW m \in 1..n, m # i PROVE Cong(e[points[m]], h[points[m]])
    <3> DEFINE x == points[m]
               b == B(x, i)
    <3>1. x \in Int /\ b \in Int /\ h[x] \in Int /\ e[x] = h[x] + w * b
      BY <2>4, <2>5
    <3>2. Cong(b, 0)
      BY <1>2, <2>6
    <3> HIDE DEF x, b, w
    <3>3. Cong(w * b, 0)
      BY <2>3, <3>1, <3>2, CongScaleZero
    <3> DEFINE wb == w * b
    <3>4. wb \in Int /\ Cong(wb, 0) /\ e[x] = h[x] + wb
      BY <2>3, <3>1, <3>3
    <3> HIDE DEF wb
    <3>5. Cong(h[x] + wb, h[x])
      BY <3>1, <3>4, CongZeroShift
    <3> QED BY <3>4, <3>5 DEF x
  <2>7. Cong(e[points[i]], values[i])
    <3> DEFINE x == points[i]
               b == B(x, i)
               v == values[i]
               r == inv(i)
    <3>1. x \in Int /\ b \in Int /\ h[x] \in Int /\ e[x] = h[x] + (v * r) * b /\ v \in Int /\ r \in Int
      BY <1>3, <2>4, <2>5
    <3>2. Cong(h[x], 0)
      BY <2>2
    <3>3. Cong(r * b, 1)
      BY <1>2
    <3> HIDE DEF x, b, r, v, w
    <3> DEFINE rb == r * b
    <3>4. rb \in Int /\ Cong(rb, 1) /\ (v * r) * b = v * rb
      BY <3>1, <3>3
    <3> HIDE DEF rb
    <3> DEFINE vrb == v * rb
    <3>5. Cong(vrb, v)
      BY <3>1, <3>4, CongScaleOne
    <3>8. vrb \in Int /\ e[x] = h[x] + vrb
      <4>1. vrb \in Int
        BY <3>1, <3>4
      <4>2. e[x] = h[x] + vrb
        BY <3>1, <3>4
      <4> QED BY <4>1, <4>2
    <3> HIDE DEF vrb
    <3>6. Cong(h[x] + vrb, vrb)
      BY <3>1, <3>2, <3>8, CongZeroShift
    <3>9. h[x] + vrb \in Int
      BY <3>1, <3>8
    <3>7. Cong(h[x] + vrb, v)
      BY <3>1, <3>5, <3>6, <3>8, <3>9, CongTrans
    <3> QED BY <3>7, <3>8 DEF x, v
  <2>8. Cong(f[i], e[0])
    <3> DEFINE v == values[i]
               p == num(i)
               r == inv(i)
               t == CombineTerm(points, values, i)
               vpr == (v * p) * r
               s == f[i - 1]
    <3>1. v \in Int /\ p \in Int /\ r \in Int /\ t \in Int /\ Cong(t, vpr)
      BY <1>3
    <3>2. f[i] = mod_q(s + t)
      BY <1>4 DEF CombineLoop
    <3>3. s \in Int /\ f[i] \in Int /\ h[0] \in Int /\ Cong(s, h[0])
      BY <1>5, <2>1, <2>2, <2>5
    <3>4. e[0] = h[0] + (v * r) * p
      BY <2>4
    <3> HIDE DEF v, p, r, t, s, w
    <3>5. (v * r) * p = vpr /\ vpr \in Int
      <4>1. (v * r) * p = v * (r * p) /\ (v * p) * r = v * (p * r) /\ r * p = p * r
        BY <3>1
      <4> QED BY <3>1, <4>1
    <3> HIDE DEF vpr
    <3>6. s + t \in Int
      BY <3>1, <3>3
    <3>7. Cong(f[i], s + t)
      BY <3>2, <3>6, ModQCong
    <3>8. Cong(s + t, h[0] + vpr)
      BY <3>1, <3>3, <3>5, CongAdd
    <3>10. h[0] + vpr \in Int
      BY <3>3, <3>5
    <3>9. Cong(f[i], h[0] + vpr)
      BY <3>3, <3>6, <3>7, <3>8, <3>10, CongTrans
    <3> QED BY <3>4, <3>5, <3>9
  <2>9. \A m \in 1..n : points[m] \in Int /\ values[m] \in Int
    OBVIOUS
  <2>10. e \in IntFcn /\ h \in IntFcn
    BY PolysDef
  <2>11. ASSUME NEW m \in 1..n, m <= i PROVE Cong(e[points[m]], values[m])
    <3>1. CASE m = i
      BY <2>7, <3>1
    <3>2. CASE m # i
      <4>1. Cong(e[points[m]], h[points[m]])
        BY <2>6, <3>2
      <4>2. Cong(h[points[m]], values[m])
        BY <2>2, <2>11, <3>2
      <4>3. e[points[m]] \in Int /\ h[points[m]] \in Int
        BY <2>9, <2>10, IntFcnValue
      <4> QED BY <2>9, <4>1, <4>2, <4>3, CongTrans
    <3> QED BY <3>1, <3>2
  <2>12. ASSUME NEW m \in 1..n, m > i PROVE Cong(e[points[m]], 0)
    <3>1. Cong(e[points[m]], h[points[m]])
      BY <2>6, <2>12
    <3>2. Cong(h[points[m]], 0)
      BY <2>2, <2>12
    <3>3. e[points[m]] \in Int /\ h[points[m]] \in Int
      BY <2>9, <2>10, IntFcnValue
    <3> QED BY <3>1, <3>2, <3>3, CongTrans
  <2>13. Meets(e, i)
    BY <2>8, <2>11, <2>12
  <2> HIDE DEF Meets
  <2> QED BY <2>1, <2>13
<1>8. \A i \in 0..n : i \in S
  <2> HIDE DEF S
  <2> QED BY <1>6, <1>7, LoopInduction
<1>9. n \in 0..n
  OBVIOUS
<1>10. PICK h \in Polys[n] : Meets(h, n)
  BY <1>8, <1>9
<1>11. Cong(CombineAt(points, values), h[0])
  <2>1. f[n] \in Int /\ h[0] \in Int
    BY <1>5, <1>9, IntFcnValue, PolysDef
  <2>2. center_q(f[n]) \in Int /\ Cong(center_q(f[n]), f[n])
    BY <2>1, CenterQCong
  <2>3. Cong(center_q(f[n]), h[0])
    BY <1>10, <2>1, <2>2, CongTrans
  <2> QED BY <1>4, <2>3
<1>12. CombineAt(points, values) \in -(Q \div 2)..(Q \div 2) /\ CombineAt(points, values) \in Int
  <2>1. f[n] \in Int
    BY <1>5, <1>9
  <2> QED BY <1>4, <2>1, CenterQHalf, CenterQCong
<1> QED BY <1>10, <1>11, <1>12

(* There is only one such polynomial, so the combination of values of a    *)
(* polynomial of small enough degree is its value at 0.                    *)
LEMMA CombineIsValueAtZero ==
  ASSUME QIsPrime, NEW n \in Nat, NEW points \in [1..n -> Int], Apart(points, n),
         NEW values \in [1..n -> Int], NEW g \in Polys[n],
         \A m \in 1..n : Cong(g[points[m]], values[m])
  PROVE  /\ CombineAt(points, values) \in -(Q \div 2)..(Q \div 2)
         /\ CombineAt(points, values) \in Int
         /\ Cong(CombineAt(points, values), g[0])
<1>1. PICK h \in Polys[n] : /\ \A m \in 1..n : Cong(h[points[m]], values[m])
                            /\ Cong(CombineAt(points, values), h[0])
  BY CombineInterpolates
<1>2. h \in IntFcn /\ g \in IntFcn
  BY PolysDef
<1> DEFINE minus == [z \in Int |-> (-1) * g[z]]
           d == [z \in Int |-> h[z] + minus[z]]
<1>3. ASSUME NEW z \in Int
      PROVE  h[z] \in Int /\ g[z] \in Int /\ minus[z] \in Int /\ d[z] \in Int
  <2>1. h[z] \in Int /\ g[z] \in Int
    BY <1>2, IntFcnValue
  <2>2. (-1) * g[z] \in Int
    BY ONLY <2>1
  <2>3. minus[z] \in Int
    BY <2>2
  <2> HIDE DEF minus
  <2>4. h[z] + minus[z] \in Int
    BY ONLY <2>1, <2>3
  <2> QED BY <2>1, <2>3, <2>4
<1>4. minus \in IntFcn /\ d \in IntFcn
  <2>1. minus \in IntFcn
    <3>1. \A z \in Int : (-1) * g[z] \in Int
      BY <1>3
    <3> QED BY <3>1 DEF IntFcn
  <2>2. d \in IntFcn
    <3>1. \A z \in Int : h[z] + minus[z] \in Int
      BY <1>3
    <3> HIDE DEF minus
    <3> QED BY <3>1 DEF IntFcn
  <2> QED BY <2>1, <2>2
<1>5. \A z \in Int : minus[z] = (-1) * g[z] /\ d[z] = h[z] + minus[z]
  OBVIOUS
<1> HIDE DEF minus, d
<1>6. minus \in Polys[n]
  <2>1. \A z \in Int : Cong(minus[z], (-1) * g[z])
    BY <1>3, <1>5, CongRefl
  <2>2. -1 \in Int
    OBVIOUS
  <2> QED BY <1>4, <2>1, <2>2, ScalePoly
<1>7. d \in Polys[n]
  <2>1. \A z \in Int : Cong(d[z], h[z] + minus[z])
    BY <1>3, <1>5, CongRefl
  <2> QED BY <1>4, <1>6, <2>1, SumPoly
<1>8. ASSUME NEW m \in 1..n PROVE Cong(d[points[m]], 0)
  <2> DEFINE x == points[m]
             u == h[x]
             v == g[x]
             y == values[m]
  <2>1. x \in Int /\ y \in Int
    OBVIOUS
  <2>2. u \in Int /\ v \in Int
    BY <1>3, <2>1
  <2>3. Cong(u, y) /\ Cong(v, y)
    BY <1>1
  <2>4. d[x] = u + (-1) * v
    BY <1>5, <2>1
  <2> HIDE DEF x, u, v, y
  <2>5. Cong(y, v)
    BY <2>1, <2>2, <2>3, CongSym
  <2>6. Cong(u, v)
    BY <2>1, <2>2, <2>3, <2>5, CongTrans
  <2>7. PICK k \in Int : u - v = k * Q
    BY <2>6 DEF Cong
  <2>8. (u + (-1) * v) - 0 = k * Q
    BY <2>2, <2>7
  <2>9. Cong(u + (-1) * v, 0)
    BY <2>8 DEF Cong
  <2> QED BY <2>4, <2>9 DEF x
<1>9. d \in Zeros
  BY <1>7, <1>8, RootsDecide
<1>10. Cong(h[0], g[0])
  <2>1. Cong(d[0], 0) /\ d[0] = h[0] + (-1) * g[0] /\ h[0] \in Int /\ g[0] \in Int
    BY <1>3, <1>5, <1>9 DEF Zeros
  <2>2. PICK k \in Int : (h[0] + (-1) * g[0]) - 0 = k * Q
    BY <2>1 DEF Cong
  <2>3. h[0] - g[0] = k * Q
    BY <2>1, <2>2
  <2> QED BY <2>3 DEF Cong
<1>11. h[0] \in Int /\ g[0] \in Int
  BY <1>3
<1>12. /\ CombineAt(points, values) \in -(Q \div 2)..(Q \div 2)
       /\ CombineAt(points, values) \in Int
  BY CombineInterpolates
<1> QED BY <1>1, <1>10, <1>11, <1>12, CongTrans

(* Some polynomial with residues for coefficients takes given values at    *)
(* given points.                                                           *)
LEMMA Interpolation ==
  ASSUME QIsPrime, NEW n \in Nat, NEW points \in [1..n -> Int], Apart(points, n),
         NEW values \in [1..n -> Int]
  PROVE  \E poly \in [1..n -> 0..(Q - 1)] :
           \A m \in 1..n : Cong(EvalPoly(poly, points[m]), values[m])
<1>1. PICK h \in Polys[n] : \A m \in 1..n : Cong(h[points[m]], values[m])
  BY CombineInterpolates
<1>2. PICK poly \in [1..n -> 0..(Q - 1)] : \A z \in Int : Cong(EvalPoly(poly, z), h[z])
  BY CoefficientsExist
<1>3. h \in IntFcn
  BY PolysDef
<1>4. ASSUME NEW m \in 1..n PROVE Cong(EvalPoly(poly, points[m]), values[m])
  <2> DEFINE x == points[m]
             e == EvalPoly(poly, x)
  <2>1. x \in Int /\ values[m] \in Int
    OBVIOUS
  <2>2. poly \in [1..n -> Int]
    BY QAssumption
  <2>3. e \in 0..(Q - 1)
    BY <2>1, <2>2, EvalPolyRange
  <2>4. h[x] \in Int
    BY <1>3, <2>1, IntFcnValue
  <2>5. Cong(e, h[x]) /\ Cong(h[x], values[m])
    BY <1>1, <1>2, <2>1
  <2> HIDE DEF e, x
  <2>6. e \in Int
    BY <2>3, QAssumption
  <2>7. Cong(e, values[m])
    BY <2>1, <2>4, <2>5, <2>6, CongTrans
  <2> QED BY <2>7 DEF e, x
<1> QED BY <1>4

(* Different residues stay apart.                                          *)
LEMMA ResiduesApart ==
  ASSUME NEW x \in 0..(Q - 1), NEW y \in 0..(Q - 1), x # y
  PROVE  ~Cong(x - y, 0)
<1> SUFFICES ASSUME Cong(x - y, 0) PROVE FALSE
  OBVIOUS
<1>1. PICK k \in Int : (x - y) - 0 = k * Q
  BY DEF Cong
<1>2. x - y = k * Q
  BY <1>1, QAssumption
<1> QED BY <1>2, ResidueUnique

-----------------------------------------------------------------------------
(* What the holders of a sharing compute together.                         *)

(* Different points of 0..n differ modulo Q.                               *)
LEMMA PointsApart ==
  ASSUME NEW n \in 0..(Q - 1), NEW k \in Nat, NEW list \in [1..k -> 0..n],
         \A i, j \in 1..k : i # j => list[i] # list[j]
  PROVE  Apart(list, k) /\ list \in [1..k -> Int]
<1>1. \A i \in 1..k : list[i] \in 0..(Q - 1)
  BY QAssumption
<1>2. Apart(list, k)
  BY <1>1, ResiduesApart DEF Apart
<1> QED BY <1>1, <1>2, QAssumption

(* A share is the polynomial's value, a partial its multiple.              *)
LEMMA PartialIsValue ==
  ASSUME NEW n \in Nat, NEW t \in Nat, NEW poly \in [1..t -> Int],
         NEW i \in 1..n, NEW f \in Int
  PROVE  /\ EvalPoly(poly, i) \in Int
         /\ mod_q(SplitShares(n, poly)[i] * f) \in Int
         /\ Cong(f * EvalPoly(poly, i), mod_q(SplitShares(n, poly)[i] * f))
<1> DEFINE e == EvalPoly(poly, i)
<1>1. i \in Int
  OBVIOUS
<1>2. e \in 0..(Q - 1)
  BY <1>1, EvalPolyRange
<1>3. SplitShares(n, poly)[i] = center_q(e)
  BY DEF SplitShares
<1> HIDE DEF e
<1>4. e \in Int
  BY <1>2, QAssumption
<1> DEFINE c == center_q(e)
<1>5. c \in Int /\ Cong(e, c)
  BY <1>4, CenterQCong
<1> HIDE DEF c
<1> DEFINE fe == f * e
           cf == c * f
<1>6. fe \in Int /\ cf \in Int /\ cf = f * c
  BY <1>4, <1>5
<1>7. Cong(fe, cf)
  BY <1>4, <1>5, <1>6, CongScale
<1> HIDE DEF fe, cf
<1>8. mod_q(cf) \in Int /\ Cong(cf, mod_q(cf))
  BY <1>6, ModQCong
<1>9. Cong(fe, mod_q(cf))
  BY <1>6, <1>7, <1>8, CongTrans
<1> QED BY <1>3, <1>4, <1>8, <1>9 DEF e, c, cf, fe

(* What the holders at some points answer.                                 *)
Answers(n, poly, points, factor) ==
  [i \in DOMAIN points |-> mod_q(SplitShares(n, poly)[points[i]] * factor)]

(* The partials of k different holders of a sharing of degree below k      *)
(* combine to the product of the secret and the public factor.             *)
LEMMA SharedProduct ==
  ASSUME QIsPrime, NEW n \in 0..(Q - 1), NEW t \in Nat \ {0}, NEW poly \in [1..t -> Int],
         NEW k \in Nat, t <= k, NEW points \in [1..k -> 1..n],
         \A i, j \in 1..k : i # j => points[i] # points[j], NEW factor \in Int
  PROVE  LET out == CombineAt(points, Answers(n, poly, points, factor)) IN
         out \in -(Q \div 2)..(Q \div 2) /\ out \in Int /\ Cong(out, poly[1] * factor)
<1> DEFINE values == Answers(n, poly, points, factor)
<1>0. values = [i \in 1..k |-> mod_q(SplitShares(n, poly)[points[i]] * factor)]
  BY DEF Answers
<1> HIDE DEF values
<1> DEFINE out == CombineAt(points, values)
           secret == poly[1]
<1>1. n \in Nat /\ t \in Nat /\ 1 \in 1..t
  BY QAssumption
<1>2. secret \in Int
  BY <1>1
<1>3. points \in [1..k -> Int] /\ Apart(points, k)
  <2>1. points \in [1..k -> 0..n]
    BY <1>1
  <2> QED BY <2>1, PointsApart
<1> DEFINE f == [z \in Int |-> EvalPoly(poly, z)]
           g == [z \in Int |-> factor * f[z]]
<1>7. \A z \in Int : EvalPoly(poly, z) \in Int
  <2>1. \A z \in Int : EvalPoly(poly, z) \in 0..(Q - 1)
    BY <1>1, EvalPolyRange
  <2>2. 0..(Q - 1) \subseteq Int
    BY QAssumption
  <2> QED BY <2>1, <2>2
<1>8. f \in IntFcn
  BY <1>7 DEF IntFcn
<1>9. f \in Polys[k]
  <2>1. \A z \in Int : Cong(f[z], EvalPoly(poly, z))
    BY <1>7, CongRefl
  <2>2. f \in Polys[t]
    <3> HIDE DEF f
    <3> QED BY <1>1, <1>8, <2>1, EvalIsPoly
  <2>3. Polys[t] \subseteq Polys[k]
    BY <1>1, PolysMonotone
  <2> QED BY <2>2, <2>3
<1>10. ASSUME NEW z \in Int PROVE factor * f[z] \in Int
  <2>1. f[z] \in Int
    BY <1>7
  <2> HIDE DEF f
  <2> QED BY ONLY <2>1, factor \in Int
<1>11. \A z \in Int : g[z] = factor * f[z]
  OBVIOUS
<1>12. \A z \in Int : f[z] = EvalPoly(poly, z)
  OBVIOUS
<1>13. g \in IntFcn
  <2> HIDE DEF f
  <2> QED BY <1>10 DEF IntFcn
<1> HIDE DEF f, g
<1>14. g \in Polys[k]
  <2>1. \A z \in Int : Cong(g[z], factor * f[z])
    BY <1>10, <1>11, CongRefl
  <2> QED BY <1>9, <1>13, <2>1, ScalePoly
<1>15. ASSUME NEW m \in 1..k PROVE values[m] \in Int /\ Cong(g[points[m]], values[m])
  <2>1. points[m] \in 1..n /\ points[m] \in Int
    BY <1>3
  <2>2. values[m] = mod_q(SplitShares(n, poly)[points[m]] * factor)
    BY <1>0
  <2>3. g[points[m]] = factor * EvalPoly(poly, points[m])
    BY <1>11, <1>12, <2>1
  <2> DEFINE i == points[m]
             e == EvalPoly(poly, i)
             v == mod_q(SplitShares(n, poly)[i] * factor)
  <2>4. v \in Int /\ Cong(factor * e, v)
    <3>1. i \in 1..n
      BY <2>1
    <3> HIDE DEF i
    <3> QED BY <1>1, <3>1, PartialIsValue
  <2> QED BY <2>2, <2>3, <2>4
<1>16. values \in [1..k -> Int]
  BY <1>0, <1>15
<1>17. /\ out \in -(Q \div 2)..(Q \div 2) /\ out \in Int
       /\ Cong(out, g[0])
  BY <1>3, <1>14, <1>15, <1>16, CombineIsValueAtZero
<1>18. Cong(g[0], secret * factor) /\ g[0] \in Int /\ secret * factor \in Int
  <2> DEFINE e == EvalPoly(poly, 0)
  <2>1. Cong(e, secret)
    BY <1>1, EvalAtZero
  <2>2. e \in Int
    BY <1>7
  <2>3. g[0] = factor * e
    <3>1. 0 \in Int
      OBVIOUS
    <3>2. g[0] = factor * f[0]
      BY <1>11, <3>1
    <3>3. f[0] = e
      BY <1>12, <3>1
    <3> QED BY <3>2, <3>3
  <2> HIDE DEF e, secret
  <2>4. Cong(factor * e, factor * secret)
    BY <1>2, <2>1, <2>2, CongScale
  <2>5. factor * secret = secret * factor
    BY <1>2
  <2>6. factor * e \in Int
    BY ONLY factor \in Int, <2>2
  <2>7. secret * factor \in Int
    BY ONLY factor \in Int, <1>2
  <2> QED BY <2>3, <2>4, <2>5, <2>6, <2>7
<1> HIDE DEF out
<1>19. Cong(out, secret * factor)
  BY <1>17, <1>18, CongTrans
<1> QED BY <1>17, <1>19 DEF out, secret, values

-----------------------------------------------------------------------------
(* The codecs.  The reciprocals of the code divide by 3329 from below, and *)
(* closely enough for the values it divides.                               *)

LEMMA RecipDigits ==
  /\ Recip28 % 512 = 251 /\ (Recip28 \div 512) % 512 = 157 /\ Recip28 \div 262144 = 0
  /\ Recip32 % 512 = 439 /\ (Recip32 \div 512) % 512 = 471 /\ Recip32 \div 262144 = 4
<1>1. Recip28 = 251 + 512 * 157
  BY SMT DEF Recip28
<1>2. Recip32 = 439 + 512 * 2519
  BY SMT DEF Recip32
<1>3. 157 % 512 = 157 /\ 2519 % 512 = 471
  BY SMT
<1>4. Recip28 % 512 = 251 /\ Recip28 \div 512 = 157 /\ Recip28 \div 262144 = 0
  BY <1>1, SMT
<1>5. Recip32 % 512 = 439 /\ Recip32 \div 512 = 2519 /\ Recip32 \div 262144 = 4
  BY <1>2, SMT
<1> QED BY <1>3, <1>4, <1>5

LEMMA MulShift28 ==
  ASSUME NEW x \in Int, x >= -1663, x <= 54913
  PROVE  LET t == MulShift(x, Recip28, 28) IN
         /\ t \in Int
         /\ x >= 0 => t >= 0 /\ 3329 * t <= x /\ x < 3329 * t + 3330
         /\ x < 0 => t + 1 = 0
<1> DEFINE low  == (x * 251) \div 512
           mid  == (low + x * 157) \div 512
           t    == mid \div 1024
<1>1. low \in Int /\ 512 * low <= 251 * x /\ 251 * x <= 512 * low + 511
  BY SMT
<1>2. mid \in Int /\ 512 * mid <= low + 157 * x /\ low + 157 * x <= 512 * mid + 511
  BY <1>1, SMT
<1>3. t \in Int /\ 1024 * t <= mid /\ mid <= 1024 * t + 1023
  BY <1>2, SMT
<1>4. MulShift(x, Recip28, 28) = t
  <2>1. 28 - 18 = 10 /\ 2^10 = 1024
    BY SMT
  <2>2. mid + x * 0 = mid
    BY <1>2, SMT
  <2> HIDE DEF t
  <2>3. MulShift(x, Recip28, 28) = (mid + x * 0) \div 1024
    BY RecipDigits, <2>1, SMT DEF MulShift
  <2> QED BY <2>2, <2>3, SMT DEF t
<1> HIDE DEF low, mid, t
<1>5. x >= 0 => t >= 0 /\ 3329 * t <= x /\ x < 3329 * t + 3330
  BY <1>1, <1>2, <1>3, SMT
<1>6. x < 0 => t + 1 = 0
  BY <1>1, <1>2, <1>3, SMT
<1> QED BY <1>3, <1>4, <1>5, <1>6, SMT

LEMMA MulShift32 ==
  ASSUME NEW y \in Int, y >= 0, y <= 3328, NEW x \in Int, x = 1024 * y + 1665
  PROVE  LET t == MulShift(x, Recip32, 32) IN
         t \in Int /\ t >= 0 /\ 3329 * t <= x /\ x < 3329 * t + 3331
<1> DEFINE low  == (x * 439) \div 512
           mid  == (low + x * 471) \div 512
           high == mid + x * 4
           t    == high \div 16384
<1>1. low \in Int /\ 512 * low <= 439 * x /\ 439 * x <= 512 * low + 511
  BY SMT
<1>2. mid \in Int /\ 512 * mid <= low + 471 * x /\ low + 471 * x <= 512 * mid + 511
  BY <1>1, SMT
<1>3. high \in Int /\ high = mid + 4 * x
  BY <1>2, SMT
<1>4. t \in Int /\ 16384 * t <= high /\ high <= 16384 * t + 16383
  BY <1>3, SMT
<1>5. MulShift(x, Recip32, 32) = t
  <2>1. 32 - 18 = 14 /\ 2^14 = 16384
    BY SMT
  <2> HIDE DEF t
  <2>2. MulShift(x, Recip32, 32) = high \div 16384
    BY RecipDigits, <2>1, SMT DEF MulShift
  <2> QED BY <2>2, SMT DEF t
<1> HIDE DEF low, mid, high, t
<1>6. t >= 0 /\ 3329 * t <= x /\ x < 3329 * t + 3331
  BY <1>1, <1>2, <1>3, <1>4, SMT
<1> QED BY <1>4, <1>5, <1>6, SMT

(* z is c, moved by at most b and by some multiples of the modulus.        *)
Within(z, c, b) ==
  \E d \in Int, k \in Int : -b <= d /\ d <= b /\ z = c + d + k * KYBER_Q

(* z is y in 0..q-1, moved by at most b, or has gone around to 0.          *)
Moved(z, y, b) ==
  /\ z \in Int /\ z >= 0 /\ z <= 3329
  /\ \/ -b <= z - y /\ z - y <= b
     \/ -b <= z + 3329 - y /\ z + 3329 - y <= b

(* t is the nearest of n steps below y.                                    *)
Nearest(y, t, n) ==
  /\ y \in Int /\ y >= 0 /\ y <= 3328 /\ t \in Int /\ t >= 0 /\ t <= n
  /\ 3329 * t <= n * y + 1665 /\ n * y + 1665 < 3329 * t + 3331

LEMMA WithinOf ==
  ASSUME NEW b \in Int, NEW c \in Int, NEW d \in Int, NEW k \in Int, NEW z \in Int,
         -b <= d, d <= b, z = c + d + k * KYBER_Q
  PROVE  Within(z, c, b)
BY Zenon DEF Within

LEMMA WithinOfRepresentative ==
  ASSUME NEW b \in Int, NEW c \in Int, NEW y \in Int, NEW z \in Int,
         y = c \/ y = c + KYBER_Q, Moved(z, y, b)
  PROVE  Within(z, c, b)
<1> DEFINE near == z - y
           far  == z + KYBER_Q - y
<1>1. near \in Int /\ far \in Int
  BY SMT DEF KYBER_Q
<1>2. (-b <= near /\ near <= b) \/ (-b <= far /\ far <= b)
  BY SMT DEF Moved, KYBER_Q
<1>3. PICK o \in Int : o = 1
  OBVIOUS
<1>4. PICK n \in Int : n + 1 = 0
  BY -1 \in Int, SMT
<1>5. PICK w \in Int : w = 0
  OBVIOUS
<1>6. y = c => z = c + near + w * KYBER_Q /\ z = c + far + n * KYBER_Q
  BY <1>4, <1>5, SMT DEF KYBER_Q
<1>7. y = c + KYBER_Q => z = c + near + o * KYBER_Q /\ z = c + far + w * KYBER_Q
  BY <1>3, <1>5, SMT DEF KYBER_Q
<1> HIDE DEF near, far
<1>8. CASE y = c /\ -b <= near /\ near <= b
  BY <1>1, <1>6, <1>8, WithinOf
<1>9. CASE y = c /\ -b <= far /\ far <= b
  BY <1>1, <1>6, <1>9, WithinOf
<1>10. CASE y = c + KYBER_Q /\ -b <= near /\ near <= b
  BY <1>1, <1>7, <1>10, WithinOf
<1>11. CASE y = c + KYBER_Q /\ -b <= far /\ far <= b
  BY <1>1, <1>7, <1>11, WithinOf
<1> QED BY <1>2, <1>8, <1>9, <1>10, <1>11

LEMMA RoundDiv ==
  ASSUME NEW x
  PROVE  round_div_q(x, Recip28, 28) = MulShift(x, Recip28, 28) % 16
<1>1. 32 - 28 = 4 /\ 2^4 = 16
  BY SMT
<1> QED BY <1>1, SMT DEF round_div_q

LEMMA Decompress10Near ==
  ASSUME NEW y, NEW t, Nearest(y, t, 1024)
  PROVE  Moved(Decompress10(t % 1024), y, 2)
<1>1. /\ y \in Int /\ t \in Int /\ y <= 3328 /\ t >= 0
      /\ 3329 * t <= 1024 * y + 1665 /\ 1024 * y + 1665 < 3329 * t + 3331
      /\ t <= 1023 \/ t = 1024
  BY SMT DEF Nearest
<1>2. ASSUME NEW z \in Int, t <= 1023, z = (t * 3329 + 512) \div 1024
      PROVE  Moved(z, y, 2)
  <2>1. 1024 * z <= 3329 * t + 512 /\ 3329 * t + 512 <= 1024 * z + 1023
    BY <1>1, <1>2, SMT
  <2>2. z <= 3329
    BY <1>1, <1>2, <2>1, SMT
  <2>3. z >= 0
    BY <1>1, <1>2, <2>1, SMT
  <2>4. z - y <= 2
    BY <1>1, <1>2, <2>1, SMT
  <2>5. z - y >= -2
    BY <1>1, <1>2, <2>1, SMT
  <2> QED BY <1>1, <1>2, <2>2, <2>3, <2>4, <2>5, SMT DEF Moved
<1>3. CASE t <= 1023
  <2> DEFINE z == (t * 3329 + 512) \div 1024
  <2>1. t % 1024 = t
    BY <1>1, <1>3, SMT
  <2>2. Decompress10(t % 1024) = z
    BY <2>1, SMT DEF Decompress10, KYBER_Q
  <2>3. z \in Int
    BY <1>1, SMT
  <2>4. z = (t * 3329 + 512) \div 1024
    OBVIOUS
  <2> HIDE DEF z
  <2>5. Moved(z, y, 2)
    BY <1>2, <1>3, <2>3, <2>4
  <2> QED BY <2>2, <2>5
<1>4. CASE t = 1024
  <2>1. t % 1024 = 0
    BY <1>4, SMT
  <2>2. Decompress10(t % 1024) = 0
    BY <2>1, SMT DEF Decompress10, KYBER_Q
  <2>3. y >= 3328
    BY <1>1, <1>4, SMT
  <2>4. Moved(0, y, 2)
    BY <1>1, <2>3, SMT DEF Moved
  <2> QED BY <2>2, <2>4
<1> QED BY <1>1, <1>3, <1>4

(* A coefficient that went through the ten bits of a vector.               *)
LEMMA Compress10Error ==
  ASSUME NEW c \in Int, c >= -3328, c <= 3328
  PROVE  /\ Compress10(c) \in 0..1023
         /\ Decompress10(Compress10(c)) \in Int
         /\ Decompress10(Compress10(c)) >= 0 /\ Decompress10(Compress10(c)) <= 3329
         /\ Within(Decompress10(Compress10(c)), c, 2)
<1> DEFINE y == Canonical(c)
           x == y * 1024 + 1665
           t == MulShift(x, Recip32, 32)
           z == Decompress10(t % 1024)
<1>1. y \in Int /\ y >= 0 /\ y <= 3328 /\ (y = c \/ y = c + KYBER_Q)
  BY SMT DEF Canonical, KYBER_Q
<1>2. z = Decompress10(t % 1024)
  OBVIOUS
<1> HIDE DEF z
<1>3. Compress10(c) = t % 1024
  BY SMT DEF Compress10
<1> HIDE DEF y
<1>4. x \in Int /\ x = 1024 * y + 1665
  BY <1>1, SMT
<1> HIDE DEF x
<1>5. t \in Int /\ t >= 0 /\ 3329 * t <= x /\ x < 3329 * t + 3331
  BY <1>1, <1>4, MulShift32, SMT
<1> HIDE DEF t
<1>6. 3329 * t <= 1024 * y + 1665 /\ 1024 * y + 1665 < 3329 * t + 3331
  BY <1>4, <1>5, SMT
<1>7. t <= 1024
  BY <1>1, <1>5, <1>6, SMT
<1>8. Nearest(y, t, 1024)
  BY <1>1, <1>5, <1>6, <1>7, SMT DEF Nearest
<1>9. Moved(z, y, 2)
  BY <1>2, <1>8, Decompress10Near
<1>10. Within(z, c, 2) /\ z \in Int /\ z >= 0 /\ z <= 3329
  <2>1. z \in Int /\ z >= 0 /\ z <= 3329
    BY <1>9 DEF Moved
  <2> DEFINE b == 2
  <2>2. b \in Int
    OBVIOUS
  <2>3. Moved(z, y, b)
    BY <1>9
  <2> HIDE DEF b
  <2>4. Within(z, c, b)
    BY <1>1, <2>1, <2>2, <2>3, WithinOfRepresentative
  <2> QED BY <2>1, <2>4 DEF b
<1>11. t % 1024 \in 0..1023
  BY <1>5, SMT
<1>12. Compress10(c) \in 0..1023
  BY <1>3, <1>11
<1>13. Decompress10(Compress10(c)) = z
  BY <1>2, <1>3
<1> QED BY ONLY <1>10, <1>12, <1>13

LEMMA Decompress4Near ==
  ASSUME NEW y, NEW t, Nearest(y, t, 16)
  PROVE  Moved(Decompress4(t % 16), y, 104)
<1>1. /\ y \in Int /\ t \in Int /\ y <= 3328 /\ t >= 0
      /\ 3329 * t <= 16 * y + 1665 /\ 16 * y + 1665 < 3329 * t + 3331
      /\ t <= 15 \/ t = 16
  BY SMT DEF Nearest
<1>2. ASSUME NEW z \in Int, t <= 15, z = (t * 3329 + 8) \div 16
      PROVE  Moved(z, y, 104)
  <2>1. 16 * z <= 3329 * t + 8 /\ 3329 * t + 8 <= 16 * z + 15
    BY <1>1, <1>2, SMT
  <2>2. z <= 3329
    BY <1>1, <1>2, <2>1, SMT
  <2>3. z >= 0
    BY <1>1, <1>2, <2>1, SMT
  <2>4. z - y <= 104
    BY <1>1, <1>2, <2>1, SMT
  <2>5. z - y >= -104
    BY <1>1, <1>2, <2>1, SMT
  <2> QED BY <1>1, <1>2, <2>2, <2>3, <2>4, <2>5, SMT DEF Moved
<1>3. CASE t <= 15
  <2> DEFINE z == (t * 3329 + 8) \div 16
  <2>1. t % 16 = t
    BY <1>1, <1>3, SMT
  <2>2. Decompress4(t % 16) = z
    BY <2>1, SMT DEF Decompress4, KYBER_Q
  <2>3. z \in Int
    BY <1>1, SMT
  <2>4. z = (t * 3329 + 8) \div 16
    OBVIOUS
  <2> HIDE DEF z
  <2>5. Moved(z, y, 104)
    BY <1>2, <1>3, <2>3, <2>4
  <2> QED BY <2>2, <2>5
<1>4. CASE t = 16
  <2>1. t % 16 = 0
    BY <1>4, SMT
  <2>2. Decompress4(t % 16) = 0
    BY <2>1, SMT DEF Decompress4, KYBER_Q
  <2>3. y >= 3225
    BY <1>1, <1>4, SMT
  <2>4. Moved(0, y, 104)
    BY <1>1, <2>3, SMT DEF Moved
  <2> QED BY <2>2, <2>4
<1> QED BY <1>1, <1>3, <1>4

(* A coefficient that went through the four bits of a scalar.              *)
LEMMA Compress4Error ==
  ASSUME NEW c \in Int, c >= -3328, c <= 3328
  PROVE  /\ Compress4(c) \in 0..15
         /\ Decompress4(Compress4(c)) \in Int
         /\ Decompress4(Compress4(c)) >= 0 /\ Decompress4(Compress4(c)) <= 3329
         /\ Within(Decompress4(Compress4(c)), c, 104)
<1> DEFINE y == Canonical(c)
           x == y * 16 + 1665
           t == MulShift(x, Recip28, 28)
           z == Decompress4(t % 16)
<1>1. y \in Int /\ y >= 0 /\ y <= 3328 /\ (y = c \/ y = c + KYBER_Q)
  BY SMT DEF Canonical, KYBER_Q
<1>2. z = Decompress4(t % 16)
  OBVIOUS
<1> HIDE DEF z
<1>3. Compress4(c) = t % 16
  BY RoundDiv, SMT DEF Compress4
<1> HIDE DEF y
<1>4. x \in Int /\ x = 16 * y + 1665
  BY <1>1, SMT
<1> HIDE DEF x
<1>5. t \in Int /\ t >= 0 /\ 3329 * t <= x /\ x < 3329 * t + 3330
  <2>1. x <= 54913 /\ x >= -1663 /\ x >= 0
    BY <1>1, <1>4, SMT
  <2> QED BY <1>4, <2>1, MulShift28, SMT
<1> HIDE DEF t
<1>6. 3329 * t <= 16 * y + 1665 /\ 16 * y + 1665 < 3329 * t + 3330
  BY <1>4, <1>5, SMT
<1>7. t <= 16
  BY <1>1, <1>5, <1>6, SMT
<1>8. Nearest(y, t, 16)
  BY <1>1, <1>5, <1>6, <1>7, SMT DEF Nearest
<1>9. Moved(z, y, 104)
  BY <1>2, <1>8, Decompress4Near
<1>10. Within(z, c, 104) /\ z \in Int /\ z >= 0 /\ z <= 3329
  <2>1. z \in Int /\ z >= 0 /\ z <= 3329
    BY <1>9 DEF Moved
  <2> DEFINE b == 104
  <2>2. b \in Int
    OBVIOUS
  <2>3. Moved(z, y, b)
    BY <1>9
  <2> HIDE DEF b
  <2>4. Within(z, c, b)
    BY <1>1, <2>1, <2>2, <2>3, WithinOfRepresentative
  <2> QED BY <2>1, <2>4 DEF b
<1>11. t % 16 \in 0..15
  BY <1>5, SMT
<1>12. Compress4(c) \in 0..15
  BY <1>3, <1>11
<1>13. Decompress4(Compress4(c)) = z
  BY <1>2, <1>3
<1> QED BY ONLY <1>10, <1>12, <1>13

(* A message bit is decided at a quarter of the modulus.                   *)
LEMMA ToBitDecides ==
  ASSUME NEW c \in Int, c >= -1664, c <= 1664
  PROVE  /\ c >= -832 /\ c <= 831 => ToBit(c) = 0
         /\ c <= -833 \/ c >= 833 => ToBit(c) = 1
<1> DEFINE x == c * 2 + 1665
           t == MulShift(x, Recip28, 28)
<1>1. x \in Int /\ x >= -1663 /\ x <= 54913 /\ x = 2 * c + 1665
  BY SMT
<1>2. ToBit(c) = (t % 16) % 2
  BY RoundDiv, SMT DEF ToBit
<1> HIDE DEF x
<1>3. /\ t \in Int
      /\ x >= 0 => t >= 0 /\ 3329 * t <= x /\ x < 3329 * t + 3330
      /\ x < 0 => t + 1 = 0
  BY <1>1, MulShift28, SMT
<1> HIDE DEF t
<1>4. ASSUME c >= -832, c <= 831
      PROVE  ToBit(c) = 0
  <2>1. t = 0
    BY <1>1, <1>3, <1>4, SMT
  <2>2. (t % 16) % 2 = 0
    BY <2>1, SMT
  <2> QED BY <1>2, <2>2
<1>5. ASSUME c <= -833
      PROVE  ToBit(c) = 1
  <2>1. t + 1 = 0
    BY <1>1, <1>3, <1>5, SMT
  <2>2. t % 16 = 15
    BY <1>3, <2>1, SMT
  <2>3. (t % 16) % 2 = 1
    BY <2>2, SMT
  <2> QED BY <1>2, <2>3
<1>6. ASSUME c >= 833
      PROVE  ToBit(c) = 1
  <2>1. t = 1
    BY <1>1, <1>3, <1>6, SMT
  <2>2. (t % 16) % 2 = 1
    BY <2>1, SMT
  <2> QED BY <1>2, <2>2
<1> QED BY <1>4, <1>5, <1>6
=============================================================================
