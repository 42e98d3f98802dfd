---------------------------- MODULE HelperProofs ----------------------------
(***************************************************************************)
(* The loop of mod_inverse_q as a state machine, for every modulus and     *)
(* every argument, and the sampling of matrices, coefficients and noise,   *)
(* for every size, rate, number of blocks and output of the XOF.           *)
(***************************************************************************)
EXTENDS ModInverse, Sampling, ArithmeticProofs, SequenceTheorems, FiniteSetTheorems

-----------------------------------------------------------------------------
(* mod_inverse_q, whose invariant is EuclidInv of ArithmeticProofs.        *)

(* A multiple of d is d times its quotient.                                *)
LEMMA MultipleDivides ==
  ASSUME NEW d \in Nat \ {0}, NEW k \in Int
  PROVE  Divides(d, k * d)
<1> DEFINE x == k * d
           q == x \div d
           m == x % d
<1>1. x \in Int
  OBVIOUS
<1>2. q \in Int /\ m \in 0..(d - 1) /\ x = d * q + m
  BY <1>1
<1>3. d * (k - q) = m
  BY <1>2
<1>4. k - q = 0
  <2>1. CASE k - q >= 1
    <3>1. d * (k - q) >= d
      BY <2>1, <1>2
    <3> QED BY <1>2, <1>3, <3>1
  <2>2. CASE k - q <= -1
    <3>1. d * (k - q) <= -d
      BY <2>2, <1>2
    <3> QED BY <1>2, <1>3, <3>1
  <2> QED BY <1>2, <2>1, <2>2
<1>5. q = k
  BY <1>2, <1>4
<1> QED BY <1>5 DEF Divides

(* A multiple of Q is what Divides says it is.                             *)
LEMMA CongDivides ==
  ASSUME NEW x \in Int, NEW y \in Int, Cong(x, y)
  PROVE  Divides(Q, x - y)
<1>1. PICK k \in Int : x - y = k * Q
  BY DEF Cong
<1>2. Divides(Q, k * Q)
  BY MultipleDivides, QAssumption
<1> QED BY <1>1, <1>2

Inv == EuclidInv(a, s)

LEMMA InitInv == Init => Inv
<1> SUFFICES ASSUME Init PROVE Inv
  OBVIOUS
<1>1. a \in Int /\ s = EuclidInit(a)
  BY InputsAssumption DEF Init
<1> QED BY <1>1, EuclidStarts DEF Inv

LEMMA RoundInv ==
  ASSUME Inv, [Round]_vars
  PROVE  Inv'
<1>1. CASE Round
  <2>1. s' = EuclidStep(s) /\ a' = a /\ s.newr # 0
    BY <1>1 DEF Round
  <2>2. EuclidInv(a, EuclidStep(s))
    BY <2>1, EuclidContinues DEF Inv
  <2> QED BY <2>1, <2>2 DEF Inv
<1>2. CASE UNCHANGED vars
  BY <1>2 DEF vars, Inv
<1> QED BY <1>1, <1>2

LEMMA InvAlways == Spec => []Inv
<1>1. Inv /\ [Round]_vars => Inv'
  BY RoundInv
<1> QED BY InitInv, <1>1, PTL DEF Spec

(* t and newt stay Bezout coefficients of the remainders modulo Q, for     *)
(* every modulus and argument.                                             *)
THEOREM BezoutInvariant == Spec => []Bezout
<1>1. Inv => Bezout
  <2> SUFFICES ASSUME Inv PROVE Bezout
    OBVIOUS
  <2>1. /\ a \in Int /\ s \in Euclid
        /\ Cong(s.t * a, s.r) /\ Cong(s.newt * a, s.newr)
    BY DEF Inv, EuclidInv, Coefficients
  <2>2. s.t \in Int /\ s.newt \in Int /\ s.r \in Int /\ s.newr \in Int
    BY <2>1 DEF Euclid
  <2>3. s.t * a \in Int /\ s.newt * a \in Int
    BY <2>1, <2>2
  <2>4. Divides(Q, s.t * a - s.r)
    BY <2>1, <2>2, <2>3, CongDivides
  <2>5. Divides(Q, s.newt * a - s.newr)
    BY <2>1, <2>2, <2>3, CongDivides
  <2> QED BY <2>1, <2>4, <2>5 DEF Bezout
<1> QED BY InvAlways, <1>1, PTL

(* Every round leaves a smaller remainder, so the loop is bounded by Q.    *)
THEOREM RemainderShrinks == Spec => Shrinks
<1>1. Inv /\ Inv' /\ [Round]_vars => [s'.newr < s.newr /\ s'.r > s'.newr]_vars
  <2> SUFFICES ASSUME Inv, Inv', Round
               PROVE  s'.newr < s.newr /\ s'.r > s'.newr
    BY DEF Inv
  <2>1. s' = EuclidStep(s) /\ s.newr # 0
    BY DEF Round
  <2>2. EuclidStep(s).newr < s.newr
    BY <2>1, EuclidContinues DEF Inv
  <2>3. s'.r > s'.newr
    BY DEF Inv, EuclidInv
  <2> QED BY <2>1, <2>2, <2>3
<1> QED BY InvAlways, <1>1, PTL DEF Spec, Shrinks

LEMMA InvSuffices ==
  ASSUME QIsPrime, Inv
  PROVE  InverseFound
<1>1. /\ EuclidInv(a, s) /\ a \in Int /\ s.t \in Int /\ a % Q = mod_q(a)
      /\ mod_q(s.t) \in Int
  <2>1. EuclidInv(a, s) /\ a \in Int /\ s \in Euclid
    BY DEF Inv, EuclidInv
  <2>2. s.t \in Int
    BY <2>1 DEF Euclid
  <2>3. a % Q = mod_q(a)
    BY <2>1, RemIsModQ
  <2>4. mod_q(s.t) \in Int
    BY <2>2, ModQCong
  <2> QED BY <2>1, <2>2, <2>3, <2>4
<1>2. s.t \in -Q..Q /\ s.newt \in -Q..Q
  BY <1>1, EuclidBounds
<1>3. ASSUME Done, a % Q # 0 PROVE (mod_q(s.t) * a) % Q = 1
  <2> DEFINE p == mod_q(s.t) * a
  <2>1. Cong(p, 1)
    BY <1>1, <1>3, EuclidResult DEF Done
  <2>2. p \in Int
    BY ONLY <1>1
  <2> HIDE DEF p
  <2>3. PICK k \in Int : p - 1 = k * Q
    BY <2>1 DEF Cong
  <2>4. 1 \in 0..(Q - 1)
    BY QAssumption
  <2>5. p % Q = 1
    BY <2>2, <2>3, <2>4, ResidueOf
  <2> QED BY <2>5 DEF p
<1>4. ASSUME Done, a % Q = 0 PROVE mod_q(s.t) = 0
  BY <1>1, <1>4, EuclidResult DEF Done
<1> QED BY <1>2, <1>3, <1>4 DEF InverseFound

(* For every prime modulus the loop returns the inverse of every argument  *)
(* that is not a multiple of it, zero for the others, and its coefficients *)
(* stay within the modulus (threshold.c:27-50).                            *)
THEOREM InverseOfEveryArgument ==
  ASSUME QIsPrime
  PROVE  Spec => []InverseFound
<1>1. Inv => InverseFound
  BY InvSuffices
<1> QED BY InvAlways, <1>1, PTL

-----------------------------------------------------------------------------
(* kyber_gen_matrix and rej_uniform keep to their arrays.                  *)

(* The place p of a stream that is long enough holds a byte.               *)
LEMMA BlockOfByte ==
  ASSUME NEW blks \in Seq(Blocks), NEW p \in Nat, p < Rate * Len(blks)
  PROVE  (p \div Rate) + 1 \in 1..Len(blks) /\ (p % Rate) + 1 \in 1..Rate
<1> DEFINE d == p \div Rate
           m == p % Rate
<1>1. Rate \in Nat \ {0} /\ Len(blks) \in Nat
  BY SamplingAssumption
<1>2. d \in Nat /\ m \in 0..(Rate - 1) /\ p = Rate * d + m
  <2>1. p \div Rate \in Nat
    BY <1>1, SMT
  <2>2. (p % Rate) \in 0..(Rate - 1)
    BY <1>1, SMT
  <2>3. p = Rate * (p \div Rate) + (p % Rate)
    BY <1>1, SMT
  <2> QED BY <2>1, <2>2, <2>3
<1> HIDE DEF d, m
<1>3. d < Len(blks)
  <2> SUFFICES ASSUME d >= Len(blks) PROVE FALSE
    BY <1>1, <1>2
  <2>1. Rate * d >= Rate * Len(blks)
    BY <1>1, <1>2
  <2> QED BY <1>1, <1>2, <2>1
<1>4. d + 1 \in 1..Len(blks) /\ m + 1 \in 1..Rate
  BY <1>1, <1>2, <1>3
<1> QED BY <1>4 DEF d, m

LEMMA ByteInStream ==
  ASSUME NEW blks \in Seq(Blocks), NEW p \in Nat, p < Rate * Len(blks)
  PROVE  ByteAt(blks, p) \in Byte
<1>1. (p \div Rate) + 1 \in 1..Len(blks) /\ (p % Rate) + 1 \in 1..Rate
  BY BlockOfByte
<1>2. blks[(p \div Rate) + 1] \in Blocks
  BY <1>1
<1>3. blks[(p \div Rate) + 1][(p % Rate) + 1] \in Byte
  BY <1>1, <1>2, SamplingAssumption
<1> QED BY <1>3 DEF ByteAt

LEMMA CandidatesNatural ==
  ASSUME NEW b0 \in Byte, NEW b1 \in Byte, NEW b2 \in Byte
  PROVE  Candidates(b0, b1, b2)[1] \in Nat /\ Candidates(b0, b1, b2)[2] \in Nat
<1>1. b1 % 16 \in Nat /\ b1 \div 16 \in Nat
  BY DEF Byte
<1> QED BY <1>1 DEF Candidates, Byte

LEMMA ExtseedIsCell ==
  ASSUME NEW t \in BOOLEAN, NEW c \in Cells
  PROVE  Extseed(t, c) \in Cells
BY DEF Extseed, Cells

(* What SamplingBounds needs: a buffer's length never exceeds what was     *)
(* squeezed for the current entry, and a stream only grows.                *)
SamplingInv ==
  /\ cell \in Cells /\ transposed \in BOOLEAN /\ stream \in [Cells -> Seq(Blocks)]
  /\ blocks \in Nat /\ buflen \in Nat /\ pos \in Nat
  /\ SamplingBounds

LEMMA SamplingInitInv == SamplingInit => SamplingInv
<1> SUFFICES ASSUME SamplingInit PROVE SamplingInv
  OBVIOUS
<1>1. MatrixK \in Nat \ {0} /\ MatrixN \in Nat \ {0} /\ Rate \in Nat \ {0}
      /\ MaxBlocks \in Nat /\ FirstBlocks \in Nat
  BY SamplingAssumption
<1>2. cell \in Cells /\ transposed \in BOOLEAN
  <2>1. 0 \in 0..(MatrixK - 1)
    BY <1>1
  <2>2. cell = <<0, 0>> /\ transposed = FALSE
    BY DEF SamplingInit, SamplingIdle
  <2> QED BY <2>1, <2>2 DEF Cells
<1>3. stream \in [Cells -> Seq(Blocks)]
  BY DEF SamplingInit, SamplingIdle
<1>4. blocks \in Nat /\ buflen = 0 /\ pos = 0 /\ ctr = 0 /\ coeffs = Unset /\ pc # "reject"
  BY <1>1 DEF SamplingInit, SamplingIdle
<1>5. coeffs \in [1..MatrixN -> -1..(Q - 1)]
  BY <1>4, QAssumption DEF Unset
<1>6. 0 <= MaxBlocks * Rate
  BY <1>1
<1> QED BY <1>1, <1>2, <1>3, <1>4, <1>5, <1>6 DEF SamplingInv, SamplingBounds

(* A stream is only ever extended.                                         *)
Extends(b, c) == Len(b) <= Len(c) /\ \A i \in 1..Len(b) : c[i] = b[i]

LEMMA XofExtends ==
  ASSUME stream \in [Cells -> Seq(Blocks)], NEW e \in Cells, NEW n \in Nat, Xof(e, n)
  PROVE  /\ stream' \in [Cells -> Seq(Blocks)] /\ Len(stream'[e]) >= n
         /\ \A x \in Cells : /\ Extends(stream[x], stream'[x])
                             /\ Len(stream'[x]) = n \/ Len(stream'[x]) = Len(stream[x])
<1>1. \A x \in Cells : stream[x] \in Seq(Blocks) /\ Len(stream[x]) \in Nat
  OBVIOUS
<1>2. CASE n <= Len(stream[e])
  <2>1. stream' = stream
    BY <1>2 DEF Xof
  <2> QED BY <1>1, <1>2, <2>1 DEF Extends
<1>3. CASE ~(n <= Len(stream[e]))
  <2> DEFINE l == n - Len(stream[e])
             old == stream[e]
  <2>1. l \in Nat
    BY <1>1, <1>3
  <2>2. PICK more \in [1..l -> Blocks] : stream' = [stream EXCEPT ![e] = @ \o more]
    BY <1>3 DEF Xof
  <2>3. l + Len(old) = n /\ old \in Seq(Blocks)
    BY <1>1, <1>3
  <2> HIDE DEF l
  <2>4. more \in Seq(Blocks) /\ Len(more) = l
    BY <2>1
  <2> HIDE DEF old
  <2>5. old \o more \in Seq(Blocks) /\ Len(old \o more) = Len(old) + Len(more)
    BY <2>3, <2>4, ConcatProperties
  <2>6. \A i \in 1..Len(old) : (old \o more)[i] = old[i]
    <3> SUFFICES ASSUME NEW i \in 1..Len(old) PROVE (old \o more)[i] = old[i]
      OBVIOUS
    <3>1. Len(old) \in Nat /\ Len(more) \in Nat
      BY <2>3, <2>4
    <3>2. i \in 1..(Len(old) + Len(more)) /\ i <= Len(old)
      BY <3>1
    <3>3. (old \o more)[i] = IF i <= Len(old) THEN old[i] ELSE more[i - Len(old)]
      BY ONLY <2>3, <2>4, <3>2, ConcatProperties
    <3> QED BY <3>2, <3>3
  <2>7. Len(old \o more) = n /\ Len(old) <= Len(old \o more)
    BY <2>1, <2>3, <2>4, <2>5
  <2>8. Extends(old, old \o more)
    BY <2>6, <2>7 DEF Extends
  <2>9. stream' \in [Cells -> Seq(Blocks)] /\ stream'[e] = old \o more
    BY <2>2, <2>5 DEF old
  <2>10. ASSUME NEW x \in Cells
         PROVE  /\ Extends(stream[x], stream'[x])
                /\ Len(stream'[x]) = n \/ Len(stream'[x]) = Len(stream[x])
    <3>1. CASE x = e
      BY <2>7, <2>8, <2>9, <3>1 DEF old
    <3>2. CASE x # e
      <4>1. stream'[x] = stream[x]
        BY <2>2, <3>2
      <4> QED BY <1>1, <4>1 DEF Extends
    <3> QED BY <3>1, <3>2
  <2>11. Len(stream'[e]) >= n
    BY <2>7, <2>9
  <2> QED BY <2>9, <2>10, <2>11
<1> QED BY <1>2, <1>3

LEMMA SqueezeInv ==
  ASSUME SamplingInv, Squeeze
  PROVE  SamplingInv'
<1> DEFINE e == Extseed(transposed, cell)
<1>1. Rate \in Nat \ {0} /\ MaxBlocks \in Nat /\ MatrixN \in Nat
  BY SamplingAssumption
<1>2. e \in Cells
  BY ExtseedIsCell DEF SamplingInv
<1>3. stream' \in [Cells -> Seq(Blocks)] /\ Len(stream'[e]) >= blocks
  BY <1>2, XofExtends DEF SamplingInv, Squeeze
<1>4. /\ buflen' = blocks * Rate /\ blocks' = blocks + 1 /\ pos' = 0 /\ ctr' = 0
      /\ cell' = cell /\ transposed' = transposed /\ coeffs' = coeffs
      /\ blocks \in Nat /\ blocks <= MaxBlocks
  BY DEF SamplingInv, Squeeze
<1>5. blocks * Rate \in Nat /\ blocks * Rate <= MaxBlocks * Rate
  BY <1>1, <1>4
<1>6. Len(stream'[e]) \in Nat
  BY <1>2, <1>3
<1>7. blocks * Rate <= Rate * Len(stream'[e])
  BY <1>1, <1>3, <1>4, <1>6
<1>8. e' = e
  BY <1>4 DEF Extseed
<1>9. coeffs \in [1..MatrixN -> -1..(Q - 1)]
  BY DEF SamplingInv, SamplingBounds
<1>10. SamplingBounds'
  BY <1>1, <1>4, <1>5, <1>7, <1>8, <1>9 DEF SamplingBounds
<1> QED BY <1>3, <1>4, <1>5, <1>10 DEF SamplingInv

LEMMA GroupInv ==
  ASSUME SamplingInv, Group
  PROVE  SamplingInv'
<1> DEFINE e   == Extseed(transposed, cell)
           v   == CandidatesAt(stream[e], pos)
           one == IF v[1] < Q THEN 1 ELSE 0
           two == IF ctr + one < MatrixN /\ v[2] < Q THEN 1 ELSE 0
<1>1. Rate \in Nat \ {0} /\ MatrixN \in Nat \ {0} /\ MaxBlocks \in Nat
  BY SamplingAssumption
<1>2. /\ cell \in Cells /\ transposed \in BOOLEAN /\ stream \in [Cells -> Seq(Blocks)]
      /\ buflen \in Nat /\ pos \in Nat /\ ctr \in 0..MatrixN
      /\ coeffs \in [1..MatrixN -> -1..(Q - 1)]
  BY DEF SamplingInv, SamplingBounds
<1>3. pc = "reject" /\ ctr < MatrixN /\ pos + 3 <= buflen
  BY DEF Group, Rejecting
<1>4. e \in Cells /\ stream[e] \in Seq(Blocks)
  BY <1>2, ExtseedIsCell
<1>5. buflen <= Rate * Len(stream[e])
  BY <1>3 DEF SamplingInv, SamplingBounds
<1>6. Rate * Len(stream[e]) \in Nat
  BY <1>1, <1>4
<1>7. ByteAt(stream[e], pos) \in Byte
  BY <1>2, <1>3, <1>4, <1>5, <1>6, ByteInStream
<1>8. ByteAt(stream[e], pos + 1) \in Byte
  <2>1. pos + 1 \in Nat /\ pos + 1 < Rate * Len(stream[e])
    BY <1>2, <1>3, <1>5, <1>6
  <2> QED BY <1>4, <2>1, ByteInStream
<1>9. ByteAt(stream[e], pos + 2) \in Byte
  <2>1. pos + 2 \in Nat /\ pos + 2 < Rate * Len(stream[e])
    BY <1>2, <1>3, <1>5, <1>6
  <2> QED BY <1>4, <2>1, ByteInStream
<1>10. v[1] \in Nat /\ v[2] \in Nat
  BY <1>7, <1>8, <1>9, CandidatesNatural DEF CandidatesAt
<1>11. /\ coeffs' = [n \in 1..MatrixN |->
                       IF n = ctr + one + two /\ two = 1 THEN v[2]
                       ELSE IF n = ctr + 1 /\ one = 1 THEN v[1] ELSE coeffs[n]]
       /\ ctr' = ctr + one + two /\ pos' = pos + 3
       /\ UNCHANGED <<pc, transposed, cell, stream, blocks, buflen>>
  BY DEF Group
<1>12. two = 1 => v[2] < Q
  OBVIOUS
<1>13. one = 1 => v[1] < Q
  OBVIOUS
<1>14. one \in {0, 1} /\ two \in {0, 1} /\ (two = 1 => ctr + one < MatrixN)
  OBVIOUS
<1> HIDE DEF one, two, v
<1>15. ctr' \in 0..MatrixN
  BY <1>1, <1>2, <1>3, <1>11, <1>14
<1>16. coeffs' \in [1..MatrixN -> -1..(Q - 1)]
  <2>1. two = 1 => v[2] \in -1..(Q - 1)
    BY <1>10, <1>12, QAssumption
  <2>2. one = 1 => v[1] \in -1..(Q - 1)
    BY <1>10, <1>13, QAssumption
  <2> QED BY <1>2, <1>11, <2>1, <2>2
<1> HIDE DEF e
<1>17. SamplingBounds'
  <2>1. e' = e
    BY <1>11 DEF e, Extseed
  <2>2. buflen' <= MaxBlocks * Rate /\ pos' <= buflen'
    BY <1>2, <1>3, <1>11 DEF SamplingInv, SamplingBounds
  <2>3. buflen' <= Rate * Len(stream'[e'])
    BY <1>5, <1>11, <2>1
  <2> QED BY <1>15, <1>16, <2>2, <2>3 DEF SamplingBounds, e
<1>18. pos' \in Nat
  BY <1>2, <1>11
<1> QED BY <1>11, <1>17, <1>18 DEF SamplingInv

LEMMA NextCellInv ==
  ASSUME SamplingInv, NextCell
  PROVE  SamplingInv'
<1>1. MatrixK \in Nat \ {0} /\ MatrixN \in Nat \ {0} /\ FirstBlocks \in Nat
  BY SamplingAssumption
<1>2. cell' \in Cells
  BY <1>1 DEF NextCell, SamplingInv, Cells
<1>3. transposed' \in BOOLEAN /\ pc' # "reject"
  BY DEF NextCell, SamplingInv
<1>4. coeffs' \in [1..MatrixN -> -1..(Q - 1)]
  BY <1>1, QAssumption DEF NextCell, Unset
<1>5. ctr' = 0 /\ blocks' = FirstBlocks /\ UNCHANGED <<stream, buflen, pos>>
  BY DEF NextCell
<1>6. SamplingBounds'
  BY <1>1, <1>3, <1>4, <1>5 DEF SamplingInv, SamplingBounds
<1> QED BY <1>1, <1>2, <1>3, <1>5, <1>6 DEF SamplingInv

LEMMA SamplingStep == SamplingInv /\ [SamplingNext]_samplingVars => SamplingInv'
<1> SUFFICES ASSUME SamplingInv, [SamplingNext]_samplingVars PROVE SamplingInv'
  OBVIOUS
<1>1. CASE Squeeze
  BY <1>1, SqueezeInv
<1>2. CASE Abort
  BY <1>2 DEF Abort, SamplingInv, SamplingBounds, Extseed
<1>3. CASE Group
  BY <1>3, GroupInv
<1>4. CASE Again
  BY <1>4 DEF Again, SamplingInv, SamplingBounds
<1>5. CASE NextCell
  BY <1>5, NextCellInv
<1>6. CASE Draw
  BY <1>6 DEF Draw, SamplingInv, SamplingBounds
<1>7. CASE Noise
  BY <1>7 DEF Noise, SamplingInv, SamplingBounds
<1>8. CASE UNCHANGED samplingVars
  BY <1>8 DEF samplingVars, SamplingInv, SamplingBounds, Extseed
<1> QED BY <1>1, <1>2, <1>3, <1>4, <1>5, <1>6, <1>7, <1>8 DEF SamplingNext

(* rej_uniform never stores past coeffs nor reads past the buffer, and the *)
(* buffer never grows past its limit, for every size, rate and output of   *)
(* the XOF (indcpa.c:16-30, 57-91).                                        *)
THEOREM ArraysKept == SamplingSpec => []SamplingBounds
<1>1. SamplingInv => SamplingBounds
  BY DEF SamplingInv
<1> QED BY SamplingInitInv, SamplingStep, <1>1, PTL DEF SamplingSpec

-----------------------------------------------------------------------------
(* The candidates accepted one after the other.                            *)
LEMMA AcceptedStep ==
  ASSUME NEW b
  PROVE  /\ AcceptedOf(b, 0) = << >>
         /\ \A n \in Nat : AcceptedOf(b, n + 1)
              = IF Candidate(b, n + 1) < Q
                THEN Append(AcceptedOf(b, n), Candidate(b, n + 1)) ELSE AcceptedOf(b, n)
         /\ \A n \in Nat : AcceptedOf(b, n) \in Seq({Candidate(b, k) : k \in Nat})
<1> DEFINE C(k) == Candidate(b, k)
           U == {C(k) : k \in Nat}
           V == Seq(U)
           step == [i \in Nat |-> [v \in V |-> IF C(i + 1) < Q THEN Append(v, C(i + 1)) ELSE v]]
           acc[k \in Nat] ==
             IF k = 0 THEN << >>
             ELSE IF C(k) < Q THEN Append(acc[k - 1], C(k)) ELSE acc[k - 1]
<1>1. \A k \in Nat : C(k) \in U
  OBVIOUS
<1>2. \A n : AcceptedOf(b, n) = acc[n]
  BY DEF AcceptedOf
<1> HIDE DEF C, U
<1>3. step \in [Nat -> [V -> V]]
  <2>1. ASSUME NEW i \in Nat, NEW v \in V
        PROVE  (IF C(i + 1) < Q THEN Append(v, C(i + 1)) ELSE v) \in V
    <3>1. C(i + 1) \in U
      BY <1>1
    <3> QED BY <3>1
  <2> QED BY <2>1
<1>4. << >> \in V
  OBVIOUS
<1>5. PICK f : f \in Runs(V, << >>, step)
  <2> HIDE DEF step, V
  <2> QED BY <1>3, <1>4, RunExists
<1>6. f \in [Nat -> V] /\ f[0] = << >>
  BY <1>5 DEF Runs
<1>7. ASSUME NEW i \in Nat
      PROVE  f[i + 1] = IF C(i + 1) < Q THEN Append(f[i], C(i + 1)) ELSE f[i]
  <2>1. f[i + 1] = step[i][f[i]]
    BY <1>5 DEF Runs
  <2>2. f[i] \in V
    BY <1>6
  <2> QED BY <2>1, <2>2
<1>8. f = [k \in Nat |->
             IF k = 0 THEN << >>
             ELSE IF C(k) < Q THEN Append(f[k - 1], C(k)) ELSE f[k - 1]]
  <2>1. ASSUME NEW k \in Nat
        PROVE  f[k] = IF k = 0 THEN << >>
                      ELSE IF C(k) < Q THEN Append(f[k - 1], C(k)) ELSE f[k - 1]
    <3>1. CASE k = 0
      BY <1>6, <3>1
    <3>2. CASE k # 0
      <4>1. k - 1 \in Nat /\ (k - 1) + 1 = k
        BY <3>2
      <4>2. f[(k - 1) + 1] = IF C((k - 1) + 1) < Q THEN Append(f[k - 1], C((k - 1) + 1)) ELSE f[k - 1]
        BY <1>7, <4>1
      <4> QED BY <3>2, <4>1, <4>2
    <3> QED BY <3>1, <3>2
  <2> HIDE DEF V
  <2> QED BY <1>6, <2>1, Zenon
<1>9. acc = [k \in Nat |->
               IF k = 0 THEN << >>
               ELSE IF C(k) < Q THEN Append(acc[k - 1], C(k)) ELSE acc[k - 1]]
  <2>1. \E g : g = [k \in Nat |->
                      IF k = 0 THEN << >>
                      ELSE IF C(k) < Q THEN Append(g[k - 1], C(k)) ELSE g[k - 1]]
    BY <1>8, Zenon
  <2> QED BY <2>1, Zenon
<1> HIDE DEF acc
<1>10. acc[0] = << >>
  <2>1. 0 \in Nat
    OBVIOUS
  <2> QED BY <1>9, <2>1, Zenon
<1>11. ASSUME NEW i \in Nat
       PROVE  acc[i + 1] = IF C(i + 1) < Q THEN Append(acc[i], C(i + 1)) ELSE acc[i]
  <2> DEFINE k == i + 1
  <2>1. k \in Nat /\ k # 0 /\ k - 1 = i
    OBVIOUS
  <2> HIDE DEF k
  <2>2. acc[k] = IF C(k) < Q THEN Append(acc[k - 1], C(k)) ELSE acc[k - 1]
    BY <1>9, <2>1, Zenon
  <2>3. acc[k] = IF C(k) < Q THEN Append(acc[i], C(k)) ELSE acc[i]
    BY <2>1, <2>2
  <2> QED BY <2>3 DEF k
<1>12. \A i \in Nat : acc[i] \in V
  <2> DEFINE S == {i \in Nat : acc[i] \in V}
  <2>1. 0 \in S
    BY <1>4, <1>10
  <2>2. ASSUME NEW i \in Nat, i \in S PROVE i + 1 \in S
    <3>1. acc[i] \in V /\ C(i + 1) \in U
      BY <1>1, <2>2
    <3> DEFINE w == acc[i]
               c == C(i + 1)
    <3>2. Append(w, c) \in V
      <4> HIDE DEF w, c
      <4>1. w \in Seq(U) /\ c \in U
        BY <3>1 DEF w, c
      <4> QED BY <4>1
    <3> HIDE DEF V
    <3> QED BY <1>11, <3>1, <3>2
  <2>3. \A i \in Nat : i \in S
    <3> HIDE DEF S
    <3> QED BY <2>1, <2>2, Induction
  <2> QED BY <2>3
<1> QED BY <1>2, <1>10, <1>11, <1>12 DEF C, U

(* What was accepted stays in its place.                                   *)
LEMMA AcceptedGrows ==
  ASSUME NEW b, NEW n \in Nat, NEW m \in Nat, n <= m
  PROVE  /\ Len(AcceptedOf(b, n)) \in Nat /\ Len(AcceptedOf(b, m)) \in Nat
         /\ Len(AcceptedOf(b, n)) <= Len(AcceptedOf(b, m))
         /\ \A i \in 1..Len(AcceptedOf(b, n)) : AcceptedOf(b, m)[i] = AcceptedOf(b, n)[i]
<1> DEFINE A(k) == AcceptedOf(b, k)
           C(k) == Candidate(b, k)
           U == {C(k) : k \in Nat}
           P(k) == Len(A(n)) <= Len(A(k)) /\ \A i \in 1..Len(A(n)) : A(k)[i] = A(n)[i]
           S == {d \in Nat : P(n + d)}
<1>1. \A k \in Nat : A(k) \in Seq(U)
  BY AcceptedStep
<1>2. \A k \in Nat : A(k + 1) = IF C(k + 1) < Q THEN Append(A(k), C(k + 1)) ELSE A(k)
  BY AcceptedStep
<1>3. \A k \in Nat : C(k) \in U
  OBVIOUS
<1> HIDE DEF A, C, U
<1>4. \A k \in Nat : Len(A(k)) \in Nat
  BY <1>1
<1>5. 0 \in S
  BY <1>4
<1>6. ASSUME NEW d \in Nat, d \in S PROVE d + 1 \in S
  <2> DEFINE k == n + d
             w == A(k)
             c == C(k + 1)
  <2>1. k \in Nat /\ k + 1 \in Nat /\ n + (d + 1) = k + 1
    OBVIOUS
  <2>2. P(k)
    BY <1>6
  <2> HIDE DEF k
  <2>3. w \in Seq(U) /\ c \in U /\ Len(A(n)) \in Nat
    BY <1>1, <1>3, <1>4, <2>1, Zenon
  <2>4. A(k + 1) = Append(w, c) \/ A(k + 1) = w
    BY <1>2, <2>1
  <2>5. Len(A(n)) <= Len(w) /\ \A i \in 1..Len(A(n)) : w[i] = A(n)[i]
    BY <2>2
  <2> HIDE DEF w, c
  <2>6. Len(Append(w, c)) = Len(w) + 1 /\ \A i \in 1..Len(w) : Append(w, c)[i] = w[i]
    BY <2>3
  <2>7. Len(w) \in Nat
    BY <2>3
  <2>8. P(k + 1)
    BY <2>3, <2>4, <2>5, <2>6, <2>7
  <2> QED BY <2>1, <2>8
<1>7. \A d \in Nat : d \in S
  <2> HIDE DEF S
  <2> QED BY <1>5, <1>6, Induction
<1>8. m - n \in Nat /\ n + (m - n) = m
  OBVIOUS
<1>9. P(m)
  BY <1>7, <1>8
<1> QED BY <1>4, <1>9 DEF A

(* The first candidates lie within what is known of the stream, where a    *)
(* longer stream holds the same.                                           *)
LEMMA ByteKept ==
  ASSUME NEW b \in Seq(Blocks), NEW c \in Seq(Blocks), Extends(b, c),
         NEW p \in Nat, p < Rate * Len(b)
  PROVE  ByteAt(c, p) = ByteAt(b, p)
<1>1. (p \div Rate) + 1 \in 1..Len(b)
  BY BlockOfByte
<1>2. c[(p \div Rate) + 1] = b[(p \div Rate) + 1]
  BY <1>1 DEF Extends
<1> QED BY <1>2 DEF ByteAt

LEMMA CandidateKept ==
  ASSUME NEW b \in Seq(Blocks), NEW c \in Seq(Blocks), Extends(b, c),
         NEW k \in 1..(2 * ((Len(b) * Rate) \div 3))
  PROVE  Candidate(c, k) = Candidate(b, k)
<1> DEFINE l == Len(b) * Rate
           p == 3 * ((k - 1) \div 2)
<1>1. l \in Nat /\ l = Rate * Len(b)
  <2>1. Len(b) \in Nat /\ Rate \in Nat
    BY SamplingAssumption
  <2> QED BY <2>1
<1>2. p \in Nat /\ p + 1 \in Nat /\ p + 2 \in Nat /\ p + 2 < l
  <2>1. k \in Int /\ k >= 1 /\ k <= 2 * (l \div 3)
    <3> DEFINE n == l \div 3
    <3>1. k \in 1..(2 * n)
      OBVIOUS
    <3>2. n \in Int
      <4> HIDE DEF l
      <4> QED BY <1>1
    <3> HIDE DEF n
    <3>3. k \in Int /\ k >= 1 /\ k <= 2 * n
      BY <3>1, <3>2
    <3> QED BY <3>3 DEF n
  <2> HIDE DEF l
  <2> DEFINE m == (k - 1) \div 2
             n == l \div 3
  <2>2. m \in Int /\ 2 * m <= k - 1 /\ m >= 0
    BY <2>1, SMT
  <2>3. n \in Int /\ 3 * n <= l
    BY <1>1, SMT
  <2>4. k <= 2 * n /\ p = 3 * m
    BY <2>1
  <2> HIDE DEF m, n, p
  <2> QED BY <1>1, <2>1, <2>2, <2>3, <2>4, SMT
<1> HIDE DEF p
<1>3. p < Rate * Len(b) /\ p + 1 < Rate * Len(b) /\ p + 2 < Rate * Len(b)
  <2> HIDE DEF l
  <2>1. p < l /\ p + 1 < l /\ p + 2 < l
    BY <1>1, <1>2
  <2> QED BY <1>1, <2>1
<1>4. ByteAt(c, p) = ByteAt(b, p) /\ ByteAt(c, p + 1) = ByteAt(b, p + 1)
        /\ ByteAt(c, p + 2) = ByteAt(b, p + 2)
  <2> HIDE DEF l
  <2> QED BY <1>2, <1>3, ByteKept
<1>5. CandidatesAt(c, p) = CandidatesAt(b, p)
  BY <1>4 DEF CandidatesAt
<1> QED BY <1>5 DEF Candidate, p

LEMMA AcceptedKept ==
  ASSUME NEW b \in Seq(Blocks), NEW c \in Seq(Blocks), Extends(b, c),
         NEW n \in Nat, n <= 2 * ((Len(b) * Rate) \div 3)
  PROVE  AcceptedOf(c, n) = AcceptedOf(b, n)
<1> DEFINE S == {k \in Nat : AcceptedOf(c, k) = AcceptedOf(b, k)}
<1>1. 0 \in S
  <2>1. AcceptedOf(c, 0) = << >> /\ AcceptedOf(b, 0) = << >>
    BY AcceptedStep
  <2> QED BY <2>1
<1>2. ASSUME NEW i \in 1..n, i - 1 \in S PROVE i \in S
  <2> DEFINE j == i - 1
             most == 2 * ((Len(b) * Rate) \div 3)
  <2>1. j \in Nat /\ j + 1 = i /\ i \in Nat
    OBVIOUS
  <2>2. most \in Nat
    <3>1. Len(b) * Rate \in Nat
      BY SamplingAssumption
    <3> QED BY <3>1, SMT
  <2>3. i \in 1..most
    <3> HIDE DEF most
    <3>1. n <= most
      BY DEF most
    <3> QED BY <2>2, <3>1
  <2>4. Candidate(c, i) = Candidate(b, i)
    BY <2>3, CandidateKept
  <2>5. AcceptedOf(c, j) = AcceptedOf(b, j)
    BY <1>2
  <2> HIDE DEF j
  <2>6. AcceptedOf(c, j + 1) = AcceptedOf(b, j + 1)
    <3>1. AcceptedOf(c, j + 1)
            = IF Candidate(c, j + 1) < Q
              THEN Append(AcceptedOf(c, j), Candidate(c, j + 1)) ELSE AcceptedOf(c, j)
      BY <2>1, AcceptedStep
    <3>2. AcceptedOf(b, j + 1)
            = IF Candidate(b, j + 1) < Q
              THEN Append(AcceptedOf(b, j), Candidate(b, j + 1)) ELSE AcceptedOf(b, j)
      BY <2>1, AcceptedStep
    <3>3. Candidate(c, j + 1) = Candidate(b, j + 1)
      BY <2>1, <2>4
    <3> QED BY ONLY <2>5, <3>1, <3>2, <3>3
  <2> QED BY <2>1, <2>6
<1>3. \A i \in 0..n : i \in S
  <2> HIDE DEF S
  <2> QED BY <1>1, <1>2, LoopInduction
<1> QED BY <1>3

-----------------------------------------------------------------------------
(* The tries of one entry.  A try has stored the candidates accepted so    *)
(* far, and a failed one has shown that its blocks hold too few.           *)

Current == Extseed(transposed, cell)

Filled(taken) ==
  /\ ctr <= Len(taken) /\ (ctr < MatrixN => ctr = Len(taken))
  /\ \A i \in 1..ctr : coeffs[i] = taken[i]

Short(e, b) == Len(AcceptedOf(stream[e], 2 * ((b * Rate) \div 3))) < MatrixN

TryInv ==
  /\ blocks >= FirstBlocks /\ blocks <= MaxBlocks + 1
  /\ \A e \in Cells : Len(stream[e]) <= MaxBlocks
  /\ pc = "reject" =>
       /\ blocks > FirstBlocks /\ Len(stream[Current]) >= blocks - 1
       /\ buflen = (blocks - 1) * Rate
       /\ \E g \in Nat : pos = 3 * g /\ Filled(AcceptedOf(stream[Current], 2 * g))
  /\ pc \in {"squeeze", "starved"} /\ blocks > FirstBlocks =>
       Len(stream[Current]) >= blocks - 1 /\ Short(Current, blocks - 1)
  /\ pc = "starved" => blocks = MaxBlocks + 1

LEMMA SizesAre ==
  /\ MatrixN \in Nat /\ MatrixN > 0 /\ MatrixK \in Nat /\ MatrixK > 0
  /\ Rate \in Nat /\ Rate > 0 /\ MaxBlocks \in Nat /\ FirstBlocks \in Nat
  /\ FirstBlocks >= 1 /\ FirstBlocks <= MaxBlocks
BY SamplingAssumption

LEMMA SqueezeTries ==
  ASSUME SamplingInv, TryInv, Squeeze
  PROVE  TryInv'
<1> DEFINE e == Current
<1>1. /\ cell \in Cells /\ transposed \in BOOLEAN /\ stream \in [Cells -> Seq(Blocks)]
      /\ blocks \in Nat
  BY DEF SamplingInv
<1>2. e \in Cells /\ e' = e
  BY <1>1, ExtseedIsCell DEF Squeeze, Current, Extseed
<1>3. /\ pc' = "reject" /\ blocks' = blocks + 1 /\ blocks <= MaxBlocks
      /\ buflen' = blocks * Rate /\ pos' = 0 /\ ctr' = 0 /\ Xof(e, blocks)
  BY DEF Squeeze, Current
<1>4. /\ stream' \in [Cells -> Seq(Blocks)] /\ Len(stream'[e]) >= blocks
      /\ \A x \in Cells : Len(stream'[x]) = blocks \/ Len(stream'[x]) = Len(stream[x])
  BY <1>1, <1>2, <1>3, XofExtends
<1>5. \A x \in Cells : Len(stream'[x]) <= MaxBlocks
  BY <1>3, <1>4 DEF TryInv
<1>6. AcceptedOf(stream'[e], 0) = << >>
  BY AcceptedStep
<1>7. Filled(AcceptedOf(stream[e], 0))'
  <2>1. Filled(AcceptedOf(stream[e], 0))'
          <=> (0 <= Len(AcceptedOf(stream'[e], 0)) /\ (0 < MatrixN => 0 = Len(AcceptedOf(stream'[e], 0))))
    <3>1. 1..0 = {}
      OBVIOUS
    <3> QED BY <1>2, <1>3, <3>1 DEF Filled
  <2> QED BY <1>6, <2>1
<1>8. blocks >= FirstBlocks
  BY DEF TryInv
<1> HIDE DEF e
<1>9. blocks' >= FirstBlocks /\ blocks' <= MaxBlocks + 1 /\ blocks' > FirstBlocks
        /\ (blocks - 1) + 1 = blocks /\ (blocks + 1) - 1 = blocks
  BY <1>1, <1>3, <1>8, SizesAre
<1>10. \E g \in Nat : pos' = 3 * g /\ Filled(AcceptedOf(stream[e], 2 * g))'
  <2>1. pos' = 3 * 0 /\ 2 * 0 = 0 /\ 0 \in Nat
    BY <1>3
  <2>2. Filled(AcceptedOf(stream[e], 2 * 0))'
    BY <1>7, <2>1
  <2> QED BY <2>1, <2>2
<1>11. pc' = "reject" =>
         /\ blocks' > FirstBlocks /\ Len(stream'[e']) >= blocks' - 1
         /\ buflen' = (blocks' - 1) * Rate
         /\ \E g \in Nat : pos' = 3 * g /\ Filled(AcceptedOf(stream[e], 2 * g))'
  BY <1>2, <1>3, <1>4, <1>9, <1>10
<1> QED BY <1>3, <1>5, <1>9, <1>11 DEF TryInv, e

LEMMA GroupTries ==
  ASSUME SamplingInv, TryInv, Group
  PROVE  TryInv'
<1> DEFINE e   == Current
           b   == stream[e]
           v   == CandidatesAt(b, pos)
           one == IF v[1] < Q THEN 1 ELSE 0
           two == IF ctr + one < MatrixN /\ v[2] < Q THEN 1 ELSE 0
           A(n) == AcceptedOf(b, n)
<1>1. /\ pc = "reject" /\ ctr < MatrixN
      /\ UNCHANGED <<pc, transposed, cell, stream, blocks, buflen>>
      /\ coeffs' = [n \in 1..MatrixN |->
                      IF n = ctr + one + two /\ two = 1 THEN v[2]
                      ELSE IF n = ctr + 1 /\ one = 1 THEN v[1] ELSE coeffs[n]]
      /\ ctr' = ctr + one + two /\ pos' = pos + 3
  BY DEF Group, Rejecting, Current
<1>2. PICK g \in Nat : pos = 3 * g /\ Filled(A(2 * g))
  BY <1>1 DEF TryInv
<1>3. ctr \in Nat /\ MatrixN \in Nat
  BY SizesAre DEF SamplingInv, SamplingBounds
<1>4. v[1] = Candidate(b, 2 * g + 1) /\ v[2] = Candidate(b, 2 * g + 2)
  <2>1. /\ ((2 * g + 1) - 1) \div 2 = g /\ (((2 * g + 1) - 1) % 2) + 1 = 1
        /\ ((2 * g + 2) - 1) \div 2 = g /\ (((2 * g + 2) - 1) % 2) + 1 = 2
    BY SMT
  <2> HIDE DEF b
  <2> QED BY <1>2, <2>1 DEF Candidate
<1>5. e' = e /\ b' = b
  BY <1>1 DEF Current, Extseed
<1> DEFINE n == 2 * g
           c == Candidate(b, n + 1)
           d == Candidate(b, (n + 1) + 1)
<1>6. n \in Nat /\ n + 1 \in Nat /\ (n + 1) + 1 = 2 * (g + 1) /\ (n + 1) + 1 = 2 * g + 2
  OBVIOUS
<1>7. v[1] = c /\ v[2] = d
  <2> HIDE DEF v, b
  <2> QED BY <1>4, <1>6
<1> HIDE DEF b, e, v, n, c, d
<1>8. /\ A(n + 1) = IF c < Q THEN Append(A(n), c) ELSE A(n)
      /\ A((n + 1) + 1) = IF d < Q THEN Append(A(n + 1), d) ELSE A(n + 1)
  <2>1. A(n + 1) = IF c < Q THEN Append(A(n), c) ELSE A(n)
    BY <1>6, AcceptedStep DEF c
  <2>2. A((n + 1) + 1) = IF d < Q THEN Append(A(n + 1), d) ELSE A(n + 1)
    BY <1>6, AcceptedStep DEF d
  <2> QED BY <2>1, <2>2
<1> DEFINE U == {Candidate(b, k) : k \in Nat}
<1>9. A(n) \in Seq(U) /\ A(n + 1) \in Seq(U) /\ c \in U /\ d \in U
  <2>1. A(n) \in Seq(U) /\ A(n + 1) \in Seq(U)
    BY <1>6, AcceptedStep
  <2>2. c \in U /\ d \in U
    BY <1>6 DEF c, d
  <2> QED BY <2>1, <2>2
<1> DEFINE a0 == A(n)
           a1 == A(n + 1)
           a2 == A((n + 1) + 1)
<1>10. /\ ctr = Len(a0) /\ \A i \in 1..ctr : coeffs[i] = a0[i]
  BY <1>1, <1>2 DEF Filled, n
<1> HIDE DEF U, A, a0, a1, a2
<1>11. /\ Len(a0) \in Nat /\ Len(a1) = ctr + one /\ Len(a1) \in Nat
       /\ \A i \in 1..ctr : a1[i] = a0[i]
       /\ one = 1 => a1[ctr + 1] = c
  <2>1. CASE c < Q
    <3>1. a1 = Append(a0, c) /\ one = 1 /\ a0 \in Seq(U) /\ c \in U
      BY <1>7, <1>8, <1>9, <2>1 DEF a0, a1
    <3>2. /\ Len(a0) \in Nat /\ Len(a1) = Len(a0) + 1 /\ a1[Len(a0) + 1] = c
          /\ \A i \in 1..Len(a0) : a1[i] = a0[i]
      BY <3>1
    <3> HIDE DEF one
    <3> QED BY <1>10, <3>1, <3>2
  <2>2. CASE ~(c < Q)
    <3>1. a1 = a0 /\ one = 0 /\ a0 \in Seq(U)
      BY <1>7, <1>8, <1>9, <2>2 DEF a0, a1
    <3> HIDE DEF one
    <3> QED BY <1>3, <1>10, <3>1
  <2> QED BY <2>1, <2>2
<1>12. /\ Len(a2) = Len(a1) \/ Len(a2) = Len(a1) + 1
       /\ \A i \in 1..Len(a1) : a2[i] = a1[i]
       /\ d < Q => Len(a2) = Len(a1) + 1 /\ a2[Len(a1) + 1] = d
       /\ ~(d < Q) => Len(a2) = Len(a1)
  <2>1. CASE d < Q
    <3>1. a2 = Append(a1, d) /\ a1 \in Seq(U) /\ d \in U
      BY <1>8, <1>9, <2>1 DEF a1, a2
    <3> QED BY <2>1, <3>1
  <2>2. CASE ~(d < Q)
    <3>1. a2 = a1
      BY <1>8, <2>2 DEF a1, a2
    <3> QED BY <1>11, <2>2, <3>1
  <2> QED BY <2>1, <2>2
<1>13. one = 0 \/ one = 1
  OBVIOUS
<1>14. /\ two = 1 => ctr + one < MatrixN /\ d < Q
       /\ two = 0 => ~(ctr + one < MatrixN) \/ ~(d < Q)
       /\ two = 0 \/ two = 1
  BY <1>7
<1> HIDE DEF one, two
<1>15. ctr' = ctr + one + two /\ ctr' \in Nat /\ ctr' <= MatrixN
  BY <1>1, <1>3, <1>13, <1>14
<1>16. ctr' <= Len(a2) /\ (ctr' < MatrixN => ctr' = Len(a2))
  BY <1>3, <1>11, <1>12, <1>13, <1>14, <1>15
<1>17. ASSUME NEW i \in 1..ctr' PROVE coeffs'[i] = a2[i]
  <2>1. i \in 1..MatrixN
    BY <1>3, <1>15
  <2>2. coeffs'[i] = IF i = ctr + one + two /\ two = 1 THEN d
                     ELSE IF i = ctr + 1 /\ one = 1 THEN c ELSE coeffs[i]
    BY <1>1, <1>7, <2>1
  <2>3. CASE i = ctr + one + two /\ two = 1
    <3>1. i = Len(a1) + 1 /\ d < Q
      BY <1>3, <1>11, <1>13, <1>14, <2>3
    <3> QED BY <1>12, <2>2, <2>3, <3>1
  <2>4. CASE ~(i = ctr + one + two /\ two = 1) /\ i = ctr + 1 /\ one = 1
    <3>1. i \in 1..Len(a1) /\ a1[i] = c
      BY <1>3, <1>11, <2>4
    <3> QED BY <1>12, <2>2, <2>4, <3>1
  <2>5. CASE ~(i = ctr + one + two /\ two = 1) /\ ~(i = ctr + 1 /\ one = 1)
    <3>1. i \in 1..ctr
      BY <1>3, <1>13, <1>14, <1>15, <2>5
    <3>2. i \in 1..Len(a1)
      BY <1>3, <1>11, <1>13, <3>1
    <3>3. a2[i] = a1[i] /\ a1[i] = a0[i] /\ a0[i] = coeffs[i]
      BY <1>10, <1>11, <1>12, <3>1, <3>2
    <3> QED BY <2>2, <2>5, <3>3
  <2> QED BY <2>3, <2>4, <2>5
<1>18. Filled(A(2 * (g + 1)))'
  <2>1. A(2 * (g + 1))' = a2
    BY <1>5, <1>6 DEF a2, A
  <2> QED BY <1>16, <1>17, <2>1 DEF Filled
<1>19. pos' = 3 * (g + 1) /\ g + 1 \in Nat
  BY <1>1, <1>2
<1>20. \E h \in Nat : pos' = 3 * h /\ Filled(AcceptedOf(stream[e], 2 * h))'
  BY <1>18, <1>19 DEF A, b
<1>21. Current' = Current
  BY <1>5 DEF e
<1>22. /\ blocks' = blocks /\ buflen' = buflen /\ stream' = stream /\ pc' = "reject"
  BY <1>1
<1> QED BY <1>1, <1>20, <1>21, <1>22 DEF TryInv, e

LEMMA AgainTries ==
  ASSUME SamplingInv, TryInv, Again
  PROVE  TryInv'
<1> DEFINE e == Current
<1>1. /\ pc = "reject" /\ ~(ctr < MatrixN /\ pos + 3 <= buflen) /\ ctr < MatrixN
      /\ pc' = "squeeze"
      /\ UNCHANGED <<transposed, cell, stream, blocks, buflen, pos, ctr, coeffs>>
  BY DEF Again, Rejecting
<1>2. /\ blocks > FirstBlocks /\ Len(stream[e]) >= blocks - 1
      /\ buflen = (blocks - 1) * Rate
  BY <1>1 DEF TryInv
<1>3. PICK g \in Nat : pos = 3 * g /\ Filled(AcceptedOf(stream[e], 2 * g))
  BY <1>1 DEF TryInv
<1>4. /\ buflen \in Nat /\ pos <= buflen /\ ctr \in Nat /\ MatrixN \in Nat /\ blocks \in Nat
  BY SizesAre DEF SamplingInv, SamplingBounds
<1>5. g = buflen \div 3
  <2>1. 3 * g <= buflen /\ buflen < 3 * g + 3
    BY <1>1, <1>3, <1>4
  <2> QED BY <1>4, <2>1, SMT
<1>6. Short(e, blocks - 1)
  <2>1. ctr = Len(AcceptedOf(stream[e], 2 * g))
    BY <1>1, <1>3 DEF Filled
  <2> QED BY <1>1, <1>2, <1>5, <2>1 DEF Short
<1>7. Current' = e /\ Short(e, blocks - 1)'
  <2>1. Current' = Current
    BY <1>1 DEF Current, Extseed
  <2> HIDE DEF e
  <2>2. e' = e
    BY <2>1 DEF e
  <2> QED BY <1>1, <1>6, <2>1, <2>2 DEF Short, e
<1> QED BY <1>1, <1>2, <1>7 DEF TryInv

LEMMA TryStep ==
  ASSUME SamplingInv, TryInv, [SamplingNext]_samplingVars
  PROVE  TryInv'
<1>0. blocks \in Nat
  BY DEF SamplingInv
<1>1. CASE Squeeze
  BY <1>1, SqueezeTries
<1>2. CASE Abort
  <2>1. /\ UNCHANGED <<stream, blocks>> /\ Current' = Current
        /\ \/ pc = "squeeze" /\ blocks > MaxBlocks /\ pc' = "starved"
           \/ pc' = "failed"
    BY <1>2 DEF Abort, Current, Extseed
  <2>2. Short(Current, blocks - 1)' = Short(Current, blocks - 1)
    BY <2>1 DEF Short
  <2> QED BY <1>0, <2>1, <2>2, SizesAre DEF TryInv
<1>3. CASE Group
  BY <1>3, GroupTries
<1>4. CASE Again
  BY <1>4, AgainTries
<1>5. CASE NextCell
  <2>1. blocks' = FirstBlocks /\ stream' = stream /\ (pc' = "squeeze" \/ pc' = "done")
    BY <1>5 DEF NextCell
  <2> QED BY <2>1, SizesAre DEF TryInv
<1>6. CASE Draw \/ Noise
  <2>1. /\ UNCHANGED <<stream, blocks>> /\ (pc' = "drawn" \/ pc' = "sampled")
    BY <1>6 DEF Draw, Noise
  <2> QED BY <2>1 DEF TryInv
<1>7. CASE UNCHANGED samplingVars
  BY <1>7 DEF samplingVars, TryInv, Current, Extseed, Filled, Short
<1> QED BY <1>1, <1>2, <1>3, <1>4, <1>5, <1>6, <1>7 DEF SamplingNext

LEMMA TryInitially == SamplingInit => TryInv
<1> SUFFICES ASSUME SamplingInit PROVE TryInv
  OBVIOUS
<1>1. /\ blocks = FirstBlocks /\ pc # "reject" /\ pc # "starved"
      /\ stream = [e \in Cells |-> << >>]
  BY DEF SamplingInit, SamplingIdle
<1>2. \A e \in Cells : Len(stream[e]) = 0
  BY <1>1
<1> QED BY <1>1, <1>2, SizesAre DEF TryInv

LEMMA StarvedIsShort ==
  ASSUME SamplingInv, TryInv
  PROVE  StarvedOnlyShort
<1> SUFFICES ASSUME pc = "starved"
             PROVE  Len(stream[Current]) = MaxBlocks /\ Len(Accepted(Current)) < MatrixN
  BY DEF StarvedOnlyShort, Current
<1>1. Current \in Cells /\ Len(stream[Current]) \in Nat
  BY ExtseedIsCell DEF SamplingInv, Current
<1>2. /\ blocks = MaxBlocks + 1 /\ blocks > FirstBlocks /\ blocks - 1 = MaxBlocks
  BY SizesAre DEF TryInv
<1>3. Len(stream[Current]) >= blocks - 1 /\ Short(Current, blocks - 1)
  BY <1>2 DEF TryInv
<1>4. Len(stream[Current]) <= MaxBlocks
  BY <1>1 DEF TryInv
<1>5. Len(stream[Current]) = MaxBlocks
  BY <1>1, <1>2, <1>3, <1>4, SizesAre
<1>6. Len(Accepted(Current)) < MatrixN
  BY <1>2, <1>3, <1>5 DEF Short, Accepted
<1> QED BY <1>5, <1>6

(* Sampling aborts only on a stream that is too short of candidates: no    *)
(* try throws away an entry it could have finished, for every size, rate   *)
(* and output of the XOF (indcpa.c:57-91).                                 *)
THEOREM StarvedAlwaysShort == SamplingSpec => []StarvedOnlyShort
<1>1. SamplingInv /\ TryInv /\ [SamplingNext]_samplingVars => (SamplingInv /\ TryInv)'
  BY SamplingStep, TryStep
<1>2. SamplingInv /\ TryInv => StarvedOnlyShort
  BY StarvedIsShort
<1> QED BY SamplingInitInv, TryInitially, <1>1, <1>2, PTL DEF SamplingSpec

-----------------------------------------------------------------------------
(* The finished entries.                                                   *)

IsFirst(m, taken) ==
  /\ m \in [1..MatrixN -> Int] /\ MatrixN <= Len(taken)
  /\ \A i \in 1..MatrixN : m[i] = taken[i]

Before(c, d) == c[1] < d[1] \/ (c[1] = d[1] /\ c[2] < d[2])

(* An entry is the beginning of its stream's accepted candidates, and the  *)
(* transposed matrix is begun when the key's is complete.                  *)
MatrixInv ==
  /\ matrix \in [BOOLEAN -> [Cells -> {<< >>} \cup [1..MatrixN -> Int]]]
  /\ \A t \in BOOLEAN, c \in Cells :
       matrix[t][c] # << >> => IsFirst(matrix[t][c], Accepted(Extseed(t, c)))
  /\ ~transposed => \A c \in Cells :
       matrix[TRUE][c] = << >> /\ (Before(c, cell) => matrix[FALSE][c] # << >>)
  /\ transposed => \A c \in Cells : matrix[FALSE][c] # << >>

LEMMA MatrixInitially == SamplingInit => MatrixInv
<1> SUFFICES ASSUME SamplingInit PROVE MatrixInv
  OBVIOUS
<1>1. /\ transposed = FALSE /\ cell = <<0, 0>>
      /\ matrix = [t \in BOOLEAN |-> [c \in Cells |-> << >>]]
  BY DEF SamplingInit, SamplingIdle
<1>2. \A c \in Cells : ~Before(c, cell)
  BY <1>1, SizesAre DEF Before, Cells
<1> QED BY <1>1, <1>2 DEF MatrixInv

(* What is known of a stream only grows.                                   *)
LEMMA FirstKept ==
  ASSUME NEW b \in Seq(Blocks), NEW c \in Seq(Blocks), Extends(b, c),
         NEW m, IsFirst(m, AcceptedOf(b, 2 * ((Len(b) * Rate) \div 3)))
  PROVE  IsFirst(m, AcceptedOf(c, 2 * ((Len(c) * Rate) \div 3)))
<1> DEFINE k == 2 * ((Len(b) * Rate) \div 3)
           l == 2 * ((Len(c) * Rate) \div 3)
           old  == AcceptedOf(b, k)
           same == AcceptedOf(c, k)
           new  == AcceptedOf(c, l)
<1>1. k \in Nat /\ l \in Nat /\ k <= l
  <2> DEFINE x == Len(b) * Rate
             y == Len(c) * Rate
  <2>1. Len(b) \in Nat /\ Len(c) \in Nat /\ Len(b) <= Len(c) /\ Rate \in Nat
    BY SizesAre DEF Extends
  <2>2. x \in Nat /\ y \in Nat /\ x <= y
    BY <2>1
  <2> HIDE DEF x, y
  <2>3. x \div 3 \in Nat /\ y \div 3 \in Nat /\ x \div 3 <= y \div 3
    BY <2>2, SMT
  <2>4. 2 * (x \div 3) \in Nat /\ 2 * (y \div 3) \in Nat /\ 2 * (x \div 3) <= 2 * (y \div 3)
    BY <2>3
  <2> QED BY <2>4 DEF x, y
<1>2. same = old
  <2>1. k <= 2 * ((Len(b) * Rate) \div 3)
    BY <1>1
  <2> HIDE DEF k
  <2> QED BY <1>1, <2>1, AcceptedKept
<1>3. IsFirst(m, old)
  OBVIOUS
<1> HIDE DEF k, l
<1>4. /\ Len(same) \in Nat /\ Len(new) \in Nat /\ Len(same) <= Len(new)
      /\ \A i \in 1..Len(same) : new[i] = same[i]
  BY <1>1, AcceptedGrows
<1> HIDE DEF old, same, new
<1>5. IsFirst(m, new)
  <2>1. m \in [1..MatrixN -> Int] /\ MatrixN <= Len(same) /\ \A i \in 1..MatrixN : m[i] = same[i]
    BY <1>2, <1>3 DEF IsFirst
  <2>2. \A i \in 1..MatrixN : i \in 1..Len(same)
    BY <1>4, <2>1, SizesAre
  <2>3. \A i \in 1..MatrixN : m[i] = new[i]
    BY <1>4, <2>1, <2>2
  <2>4. MatrixN <= Len(new)
    BY <1>4, <2>1, SizesAre
  <2> QED BY <2>1, <2>3, <2>4 DEF IsFirst
<1> QED BY <1>5 DEF l, new

LEMMA SqueezeMatrix ==
  ASSUME SamplingInv, MatrixInv, Squeeze
  PROVE  MatrixInv'
<1>1. /\ cell \in Cells /\ transposed \in BOOLEAN /\ stream \in [Cells -> Seq(Blocks)]
      /\ blocks \in Nat
  BY DEF SamplingInv
<1>2. Extseed(transposed, cell) \in Cells
  BY <1>1, ExtseedIsCell
<1>3. Xof(Extseed(transposed, cell), blocks) /\ UNCHANGED <<transposed, cell, matrix>>
  BY DEF Squeeze
<1>4. stream' \in [Cells -> Seq(Blocks)] /\ \A x \in Cells : Extends(stream[x], stream'[x])
  BY <1>1, <1>2, <1>3, XofExtends
<1>5. ASSUME NEW t \in BOOLEAN, NEW c \in Cells, matrix[t][c] # << >>
      PROVE  IsFirst(matrix[t][c], Accepted(Extseed(t, c))')
  <2> DEFINE x == Extseed(t, c)
             m == matrix[t][c]
  <2>1. x \in Cells
    BY ExtseedIsCell
  <2>2. IsFirst(m, Accepted(x))
    BY <1>5 DEF MatrixInv
  <2> HIDE DEF x, m
  <2>3. stream[x] \in Seq(Blocks) /\ stream'[x] \in Seq(Blocks) /\ Extends(stream[x], stream'[x])
    BY <1>1, <1>4, <2>1
  <2>4. IsFirst(m, AcceptedOf(stream[x], 2 * ((Len(stream[x]) * Rate) \div 3)))
    BY <2>2 DEF Accepted
  <2>5. IsFirst(m, AcceptedOf(stream'[x], 2 * ((Len(stream'[x]) * Rate) \div 3)))
    BY <2>3, <2>4, FirstKept
  <2> QED BY <2>5 DEF Accepted, x, m
<1>6. \A t \in BOOLEAN, c \in Cells :
        matrix'[t][c] # << >> => IsFirst(matrix'[t][c], Accepted(Extseed(t, c))')
  BY <1>3, <1>5
<1> QED BY <1>3, <1>6 DEF MatrixInv, Extseed

(* A finished try has stored the beginning of what its stream holds.       *)
LEMMA CompleteIsFirst ==
  ASSUME SamplingInv, TryInv, pc = "reject", ctr >= MatrixN
  PROVE  IsFirst(coeffs, Accepted(Current))
<1> DEFINE b == stream[Current]
           k == 2 * ((Len(b) * Rate) \div 3)
<1>1. Current \in Cells /\ b \in Seq(Blocks) /\ Len(b) \in Nat /\ buflen <= Rate * Len(b)
  <2>1. Current \in Cells /\ b \in Seq(Blocks)
    BY ExtseedIsCell DEF SamplingInv, Current
  <2>2. buflen <= Rate * Len(b)
    BY DEF SamplingInv, SamplingBounds, Current
  <2>3. Len(b) \in Nat
    BY <2>1
  <2> QED BY <2>1, <2>2, <2>3
<1>2. /\ ctr \in Nat /\ ctr = MatrixN /\ pos \in Nat /\ buflen \in Nat /\ pos <= buflen
      /\ coeffs \in [1..MatrixN -> Int]
  <2>1. /\ ctr \in 0..MatrixN /\ coeffs \in [1..MatrixN -> -1..(Q - 1)]
        /\ pos \in Nat /\ buflen \in Nat /\ pos <= buflen
    BY DEF SamplingInv, SamplingBounds
  <2>2. \A i \in 1..MatrixN : coeffs[i] \in Int
    BY <2>1, QAssumption
  <2>3. coeffs \in [1..MatrixN -> Int]
    BY <2>1, <2>2
  <2> QED BY <2>1, <2>3, SizesAre
<1>3. PICK g \in Nat : pos = 3 * g /\ Filled(AcceptedOf(b, 2 * g))
  BY DEF TryInv
<1>4. k \in Nat /\ 2 * g <= k
  <2> DEFINE x == Len(b) * Rate
  <2>1. x \in Nat /\ 3 * g <= x
    <3>1. Rate * Len(b) \in Nat /\ x = Rate * Len(b)
      BY <1>1, SizesAre
    <3> QED BY <1>1, <1>2, <1>3, <3>1
  <2> HIDE DEF x
  <2>2. x \div 3 \in Nat /\ g <= x \div 3
    BY <2>1, SMT
  <2>3. 2 * (x \div 3) \in Nat /\ 2 * g <= 2 * (x \div 3)
    BY <2>2
  <2> QED BY <2>3 DEF x
<1> DEFINE part == AcceptedOf(b, 2 * g)
           all  == AcceptedOf(b, k)
<1> HIDE DEF b, k
<1>5. /\ Len(part) \in Nat /\ Len(all) \in Nat /\ Len(part) <= Len(all)
      /\ \A i \in 1..Len(part) : all[i] = part[i]
  BY <1>4, AcceptedGrows
<1>6. MatrixN <= Len(part) /\ \A i \in 1..MatrixN : coeffs[i] = part[i]
  BY <1>2, <1>3 DEF Filled
<1> HIDE DEF part, all
<1>7. MatrixN <= Len(all)
  BY <1>5, <1>6, SizesAre
<1>8. ASSUME NEW i \in 1..MatrixN PROVE coeffs[i] = all[i]
  <2>1. i \in 1..Len(part)
    BY <1>5, <1>6, SizesAre
  <2> QED BY <1>5, <1>6, <2>1
<1>9. IsFirst(coeffs, all)
  BY <1>2, <1>7, <1>8 DEF IsFirst
<1> QED BY <1>9 DEF all, k, b, Accepted

(* The entries come in order; the last one of the key's matrix begins the  *)
(* transposed one.                                                         *)
LEMMA CellsInOrder ==
  ASSUME SamplingInv, NextCell
  PROVE  /\ transposed => transposed'
         /\ ~transposed /\ ~transposed' =>
              \A c \in Cells : Before(c, cell') => c = cell \/ Before(c, cell)
         /\ ~transposed /\ transposed' =>
              \A c \in Cells : c = cell \/ Before(c, cell)
<1> DEFINE i == cell[1]
           j == cell[2]
<1>1. /\ MatrixK \in Int /\ cell = <<i, j>> /\ transposed \in BOOLEAN
      /\ i \in Int /\ i >= 0 /\ i <= MatrixK - 1 /\ j \in Int /\ j >= 0 /\ j <= MatrixK - 1
  <2>1. cell \in Cells /\ transposed \in BOOLEAN /\ MatrixK \in Int
    BY SizesAre DEF SamplingInv
  <2> QED BY <2>1 DEF Cells
<1>2. /\ cell' = IF j < MatrixK - 1 THEN <<i, j + 1>>
                 ELSE IF i < MatrixK - 1 THEN <<i + 1, 0>> ELSE <<0, 0>>
      /\ transposed' = (transposed \/ cell' = <<0, 0>>)
  BY DEF NextCell
<1>3. ASSUME NEW c \in Cells
      PROVE  /\ c = <<c[1], c[2]>> /\ c[1] \in Int /\ c[2] \in Int
             /\ c[1] >= 0 /\ c[2] >= 0 /\ c[1] <= MatrixK - 1 /\ c[2] <= MatrixK - 1
  BY <1>1 DEF Cells
<1> HIDE DEF i, j
<1>4. cell[1] = i /\ cell[2] = j
  BY <1>1
<1>5. CASE j < MatrixK - 1
  <2>1. cell' = <<i, j + 1>> /\ cell' # <<0, 0>>
    BY <1>1, <1>2, <1>5
  <2>2. ASSUME NEW c \in Cells, Before(c, cell') PROVE c = cell \/ Before(c, cell)
    BY <1>1, <1>3, <1>4, <2>1, <2>2 DEF Before
  <2> QED BY <1>1, <1>2, <2>1, <2>2
<1>6. CASE ~(j < MatrixK - 1) /\ i < MatrixK - 1
  <2>1. cell' = <<i + 1, 0>> /\ cell' # <<0, 0>>
    BY <1>1, <1>2, <1>6
  <2>2. ASSUME NEW c \in Cells, Before(c, cell') PROVE c = cell \/ Before(c, cell)
    BY <1>1, <1>3, <1>4, <1>6, <2>1, <2>2 DEF Before
  <2> QED BY <1>1, <1>2, <2>1, <2>2
<1>7. CASE ~(j < MatrixK - 1) /\ ~(i < MatrixK - 1)
  <2>1. cell' = <<0, 0>>
    BY <1>2, <1>7
  <2>2. ASSUME NEW c \in Cells PROVE c = cell \/ Before(c, cell)
    BY <1>1, <1>3, <1>4, <1>7, <2>2 DEF Before
  <2> QED BY <1>2, <2>1, <2>2
<1> QED BY <1>5, <1>6, <1>7

LEMMA NextCellMatrix ==
  ASSUME SamplingInv, TryInv, MatrixInv, NextCell
  PROVE  MatrixInv'
<1>1. /\ pc = "reject" /\ ctr >= MatrixN /\ stream' = stream
      /\ matrix' = [matrix EXCEPT ![transposed][cell] = coeffs]
  BY DEF NextCell
<1>2. cell \in Cells /\ transposed \in BOOLEAN /\ transposed' \in BOOLEAN
  BY DEF SamplingInv, NextCell
<1>3. IsFirst(coeffs, Accepted(Extseed(transposed, cell)))
  BY <1>1, CompleteIsFirst DEF Current
<1>4. coeffs \in [1..MatrixN -> Int] /\ coeffs # << >>
  <2>1. coeffs \in [1..MatrixN -> Int]
    BY <1>3 DEF IsFirst
  <2>2. 1 \in 1..MatrixN
    BY SizesAre
  <2>3. 1 \in DOMAIN coeffs /\ 1 \notin DOMAIN << >>
    BY <2>1, <2>2
  <2> QED BY <2>1, <2>3
<1> DEFINE V == {<< >>} \cup [1..MatrixN -> Int]
<1>5. matrix \in [BOOLEAN -> [Cells -> V]]
  BY DEF MatrixInv
<1>6. coeffs \in V
  BY <1>4
<1> HIDE DEF V
<1>7. matrix' \in [BOOLEAN -> [Cells -> V]]
  BY <1>1, <1>2, <1>5, <1>6
<1>8. ASSUME NEW t \in BOOLEAN, NEW c \in Cells
      PROVE  matrix'[t][c] = IF t = transposed /\ c = cell THEN coeffs ELSE matrix[t][c]
  BY <1>1, <1>2, <1>5
<1>9. ASSUME NEW t \in BOOLEAN, NEW c \in Cells, matrix'[t][c] # << >>
      PROVE  IsFirst(matrix'[t][c], Accepted(Extseed(t, c))')
  <2>1. Accepted(Extseed(t, c))' = Accepted(Extseed(t, c))
    BY <1>1 DEF Accepted
  <2>2. CASE t = transposed /\ c = cell
    BY <1>3, <1>8, <2>1, <2>2
  <2>3. CASE ~(t = transposed /\ c = cell)
    <3>1. matrix'[t][c] = matrix[t][c] /\ matrix[t][c] # << >>
      BY <1>8, <1>9, <2>3
    <3>2. IsFirst(matrix[t][c], Accepted(Extseed(t, c)))
      BY <3>1 DEF MatrixInv
    <3> QED BY <2>1, <3>1, <3>2
  <2> QED BY <2>2, <2>3
<1>10. ASSUME ~transposed', NEW c \in Cells
       PROVE  matrix'[TRUE][c] = << >> /\ (Before(c, cell') => matrix'[FALSE][c] # << >>)
  <2>1. ~transposed /\ transposed = FALSE
    BY <1>2, <1>10, CellsInOrder
  <2>2. matrix[TRUE][c] = << >> /\ (Before(c, cell) => matrix[FALSE][c] # << >>)
    BY <2>1 DEF MatrixInv
  <2>3. Before(c, cell') => c = cell \/ Before(c, cell)
    BY <1>10, <2>1, CellsInOrder
  <2> QED BY <1>4, <1>8, <2>1, <2>2, <2>3
<1>11. ASSUME transposed', NEW c \in Cells
       PROVE  matrix'[FALSE][c] # << >>
  <2>1. CASE transposed
    BY <1>8, <2>1 DEF MatrixInv
  <2>2. CASE ~transposed
    <3>1. c = cell \/ Before(c, cell)
      BY <1>11, <2>2, CellsInOrder
    <3>2. Before(c, cell) => matrix[FALSE][c] # << >>
      BY <2>2 DEF MatrixInv
    <3>3. transposed = FALSE
      BY <1>2, <2>2
    <3> QED BY <1>4, <1>8, <3>1, <3>2, <3>3
  <2> QED BY <2>1, <2>2
<1> QED BY <1>7, <1>9, <1>10, <1>11 DEF MatrixInv, V, Extseed

LEMMA MatrixStep ==
  ASSUME SamplingInv, TryInv, MatrixInv, [SamplingNext]_samplingVars
  PROVE  MatrixInv'
<1>1. CASE Squeeze
  BY <1>1, SqueezeMatrix
<1>2. CASE NextCell
  BY <1>2, NextCellMatrix
<1>3. CASE UNCHANGED <<transposed, cell, stream, matrix>>
  BY <1>3 DEF MatrixInv, Extseed, Accepted
<1> QED BY <1>1, <1>2, <1>3
        DEF SamplingNext, samplingVars, Abort, Group, Again, Draw, Noise

LEMMA FirstIsOne ==
  ASSUME NEW m, NEW n, NEW taken, IsFirst(m, taken), IsFirst(n, taken)
  PROVE  m = n
<1>1. m = [k \in 1..MatrixN |-> m[k]] /\ n = [k \in 1..MatrixN |-> n[k]]
  BY DEF IsFirst
<1>2. ASSUME NEW k \in 1..MatrixN PROVE m[k] = n[k]
  BY DEF IsFirst
<1>3. [k \in 1..MatrixN |-> m[k]] = [k \in 1..MatrixN |-> n[k]]
  BY <1>2, Zenon
<1> QED BY <1>1, <1>3, Zenon

LEMMA MatrixIsFromSeed ==
  ASSUME SamplingInv, MatrixInv
  PROVE  MatrixFromSeed
<1> SUFFICES ASSUME NEW i \in 0..(MatrixK - 1), NEW j \in 0..(MatrixK - 1)
             PROVE  /\ matrix[FALSE][<<i, j>>] # << >> =>
                         matrix[FALSE][<<i, j>>] = SubSeq(Accepted(<<j, i>>), 1, MatrixN)
                    /\ matrix[TRUE][<<i, j>>] # << >> =>
                         matrix[TRUE][<<i, j>>] = matrix[FALSE][<<j, i>>]
  BY DEF MatrixFromSeed
<1>1. <<i, j>> \in Cells /\ <<j, i>> \in Cells /\ TRUE \in BOOLEAN /\ FALSE \in BOOLEAN
  BY DEF Cells
<1>2. /\ Extseed(FALSE, <<i, j>>) = <<j, i>> /\ Extseed(TRUE, <<i, j>>) = <<i, j>>
      /\ Extseed(FALSE, <<j, i>>) = <<i, j>>
  BY DEF Extseed
<1>3. ASSUME matrix[FALSE][<<i, j>>] # << >>
      PROVE  matrix[FALSE][<<i, j>>] = SubSeq(Accepted(<<j, i>>), 1, MatrixN)
  <2> DEFINE m == matrix[FALSE][<<i, j>>]
             taken == Accepted(<<j, i>>)
             front == SubSeq(taken, 1, MatrixN)
  <2>1. IsFirst(m, Accepted(Extseed(FALSE, <<i, j>>)))
    BY <1>1, <1>3 DEF MatrixInv
  <2>2. m \in [1..MatrixN -> Int] /\ \A n \in 1..MatrixN : m[n] = taken[n]
    BY <1>2, <2>1 DEF IsFirst
  <2> HIDE DEF m, taken
  <2>3. \A n \in 1..MatrixN : taken[n] \in Int
    BY <2>2
  <2>4. /\ front \in Seq(Int) /\ Len(front) = IF 1 <= MatrixN THEN MatrixN - 1 + 1 ELSE 0
        /\ \A n \in 1..(MatrixN - 1 + 1) : front[n] = taken[1 + n - 1]
    BY <2>3, SizesAre, SubSeqProperties
  <2> HIDE DEF front
  <2>5. MatrixN - 1 + 1 = MatrixN /\ 1 <= MatrixN /\ \A n \in 1..MatrixN : 1 + n - 1 = n
    BY SizesAre
  <2>6. Len(front) = MatrixN /\ \A n \in 1..MatrixN : front[n] = m[n]
    BY <2>2, <2>4, <2>5
  <2>7. front \in [1..MatrixN -> Int]
    BY <2>4, <2>6
  <2>8. front = m
    BY <2>2, <2>6, <2>7
  <2> QED BY <2>8 DEF front, m, taken
<1>4. ASSUME matrix[TRUE][<<i, j>>] # << >>
      PROVE  matrix[TRUE][<<i, j>>] = matrix[FALSE][<<j, i>>]
  <2> DEFINE m == matrix[TRUE][<<i, j>>]
             n == matrix[FALSE][<<j, i>>]
             taken == Accepted(<<i, j>>)
  <2>1. transposed
    BY <1>1, <1>4 DEF MatrixInv, SamplingInv
  <2>2. n # << >>
    BY <1>1, <2>1 DEF MatrixInv
  <2>3. IsFirst(m, taken)
    BY <1>1, <1>2, <1>4 DEF MatrixInv
  <2>4. IsFirst(n, taken)
    BY <1>1, <1>2, <2>2 DEF MatrixInv
  <2> HIDE DEF m, n, taken
  <2>5. m = n
    BY <2>3, <2>4, FirstIsOne
  <2> QED BY <2>5 DEF m, n
<1> QED BY <1>3, <1>4

(* Both matrices come from the one seed, one the transpose of the other,   *)
(* however many tries and blocks their entries took, for every size, rate  *)
(* and output of the XOF (indcpa.c:36-98).                                 *)
THEOREM MatrixAlwaysFromSeed == SamplingSpec => []MatrixFromSeed
<1> DEFINE All == SamplingInv /\ TryInv /\ MatrixInv
<1>1. SamplingInit => All
  BY SamplingInitInv, TryInitially, MatrixInitially
<1>2. All /\ [SamplingNext]_samplingVars => All'
  BY SamplingStep, TryStep, MatrixStep
<1>3. All => MatrixFromSeed
  BY MatrixIsFromSeed
<1> QED BY <1>1, <1>2, <1>3, PTL DEF SamplingSpec

-----------------------------------------------------------------------------
(* rand_mod_q: sixteen second bytes for every value.                      *)

(* The second bytes behind a first byte are those that end in the same     *)
(* four bits.                                                              *)
LEMMA SecondBytes ==
  ASSUME NEW b0 \in Byte, NEW b1 \in Byte, NEW c0 \in Byte, NEW c1 \in Byte
  PROVE  /\ Masked(b0, b1) \in Nat /\ Masked(b0, b1) % 256 = b0
         /\ Masked(c0, c1) = Masked(b0, b1) <=> c0 = b0 /\ c1 % 16 = b1 % 16
<1> DEFINE m == b1 % 16
           n == c1 % 16
<1>1. /\ b0 \in Int /\ b0 >= 0 /\ b0 <= 255 /\ c0 \in Int /\ c0 >= 0 /\ c0 <= 255
      /\ m \in Int /\ m >= 0 /\ m <= 15 /\ n \in Int /\ n >= 0 /\ n <= 15
  BY DEF Byte
<1>2. Masked(b0, b1) = b0 + 256 * m /\ Masked(c0, c1) = c0 + 256 * n
  BY DEF Masked
<1> HIDE DEF m, n
<1>3. (b0 + 256 * m) % 256 = b0
  BY <1>1, SMT
<1>4. c0 + 256 * n = b0 + 256 * m <=> c0 = b0 /\ n = m
  BY <1>1, SMT
<1>5. b0 + 256 * m \in Nat
  BY <1>1
<1> QED BY <1>2, <1>3, <1>4, <1>5 DEF m, n

LEMMA SixteenBytes ==
  ASSUME NEW m \in 0..15
  PROVE  Cardinality({b \in Byte : b % 16 = m}) = 16
<1> DEFINE S == {b \in Byte : b % 16 = m}
           f == [k \in 1..16 |-> 16 * (k - 1) + m]
<1>1. \A k \in 1..16 : f[k] \in S
  <2> SUFFICES ASSUME NEW k \in 1..16
               PROVE  16 * (k - 1) + m \in 0..255 /\ (16 * (k - 1) + m) % 16 = m
    BY DEF Byte
  <2> QED BY SMT
<1>2. \A k, l \in 1..16 : f[k] = f[l] => k = l
  BY SMT
<1>3. \A b \in S : \E k \in 1..16 : f[k] = b
  <2> SUFFICES ASSUME NEW b \in S PROVE \E k \in 1..16 : f[k] = b
    OBVIOUS
  <2> DEFINE k == (b \div 16) + 1
  <2>1. b \in 0..255 /\ b % 16 = m
    BY DEF Byte
  <2>2. k \in 1..16 /\ 16 * (k - 1) + m = b
    BY <2>1, SMT
  <2> QED BY <2>2
<1> HIDE DEF f
<1>4. f \in [1..16 -> S]
  BY <1>1, Zenon DEF f
<1>5. f \in Bijection(1..16, S)
  <2>1. DOMAIN f = 1..16
    BY <1>4
  <2> QED BY <1>2, <1>3, <1>4, <2>1 DEF Bijection, Injection, IsInjective, Surjection
<1> HIDE DEF S
<1>6. IsFiniteSet(1..16) /\ Cardinality(1..16) = 16
  <2>1. PICK n \in Int : n = 16
    OBVIOUS
  <2>2. PICK o \in Int : o = 1
    OBVIOUS
  <2>3. IsFiniteSet(o..n) /\ Cardinality(o..n) = IF o > n THEN 0 ELSE n - o + 1
    BY FS_Interval, Zenon
  <2>4. Cardinality(o..n) = 16
    BY <2>1, <2>2, <2>3
  <2> QED BY <2>1, <2>2, <2>3, <2>4
<1>7. Cardinality(S) = Cardinality(1..16)
  <2>1. ExistsBijection(1..16, S)
    BY <1>5 DEF ExistsBijection
  <2> QED BY <1>6, <2>1, FS_Bijection
<1> QED BY <1>6, <1>7 DEF S

DrawInv ==
  pc = "drawn" =>
    \E b0 \in LowBytes, b1 \in Byte : Masked(b0, b1) < Q /\ drawn = Masked(b0, b1)

LEMMA DrawIsUniform == DrawInv => UniformDraw
<1> SUFFICES ASSUME DrawInv, pc = "drawn"
             PROVE  /\ drawn \in 0..(Q - 1)
                    /\ \A c0 \in LowBytes :
                         Cardinality({c1 \in Byte : Masked(c0, c1) = drawn})
                           = IF c0 = drawn % 256 THEN 16 ELSE 0
  BY DEF UniformDraw
<1>1. PICK b0 \in LowBytes, b1 \in Byte : Masked(b0, b1) < Q /\ drawn = Masked(b0, b1)
  BY DEF DrawInv
<1>2. LowBytes \subseteq Byte
  BY SamplingAssumption
<1>3. drawn \in Nat /\ drawn % 256 = b0 /\ drawn < Q
  BY <1>1, <1>2, SecondBytes
<1>4. drawn \in 0..(Q - 1)
  BY <1>3, QAssumption
<1>5. ASSUME NEW c0 \in LowBytes
      PROVE  Cardinality({c1 \in Byte : Masked(c0, c1) = drawn})
               = IF c0 = drawn % 256 THEN 16 ELSE 0
  <2>1. CASE c0 = b0
    <3>1. \A c1 \in Byte : Masked(c0, c1) = drawn <=> c1 % 16 = b1 % 16
      BY <1>1, <1>2, <2>1, SecondBytes
    <3>2. {c1 \in Byte : Masked(c0, c1) = drawn} = {b \in Byte : b % 16 = b1 % 16}
      BY <3>1
    <3>3. b1 % 16 \in 0..15
      BY DEF Byte
    <3> QED BY <1>3, <2>1, <3>2, <3>3, SixteenBytes
  <2>2. CASE c0 # b0
    <3>1. {c1 \in Byte : Masked(c0, c1) = drawn} = {}
      BY <1>1, <1>2, <2>2, SecondBytes
    <3> QED BY <1>3, <2>2, <3>1, FS_EmptySet
  <2> QED BY <2>1, <2>2
<1> QED BY <1>4, <1>5

(* rand_mod_q returns every value it can return equally often: behind the  *)
(* one first byte that fits, for 16 of the second bytes (threshold.c).     *)
THEOREM DrawsAreUniform == SamplingSpec => []UniformDraw
<1>1. SamplingInit => DrawInv
  BY DEF SamplingInit, DrawInv
<1>2. DrawInv /\ [SamplingNext]_samplingVars => DrawInv'
  <2> SUFFICES ASSUME DrawInv, [SamplingNext]_samplingVars PROVE DrawInv'
    OBVIOUS
  <2>1. CASE Draw
    BY <2>1 DEF Draw, DrawInv
  <2>2. CASE ~Draw
    <3>1. pc' # "drawn" \/ (pc' = pc /\ drawn' = drawn)
      BY <2>2 DEF SamplingNext, samplingVars, Squeeze, Abort, Group, Again, NextCell, Noise
    <3> QED BY <3>1 DEF DrawInv
  <2> QED BY <2>1, <2>2
<1> QED BY <1>1, <1>2, DrawIsUniform, PTL DEF SamplingSpec

-----------------------------------------------------------------------------
(* cbd_eta2: bits counted in place.                                        *)

LEMMA EvenPowers ==
  /\ 2^0 = 1 /\ 2^1 = 2 /\ 2^2 = 4 /\ 2^3 = 8 /\ 2^4 = 16 /\ 2^5 = 32 /\ 2^6 = 64
  /\ 2^7 = 128 /\ 2^8 = 256 /\ 2^9 = 512 /\ 2^10 = 1024 /\ 2^11 = 2048
  /\ 2^12 = 4096 /\ 2^13 = 8192 /\ 2^14 = 16384 /\ 2^15 = 32768
BY SMT

LEMMA EvenBitsAre ==
  ASSUME NEW t \in Nat
  PROVE  EvenBits(t) = Bit(t, 0) * 1 + Bit(t, 2) * 4 + Bit(t, 4) * 16 + Bit(t, 6) * 64
           + Bit(t, 8) * 256 + Bit(t, 10) * 1024 + Bit(t, 12) * 4096 + Bit(t, 14) * 16384
<1> DEFINE term == [i \in 1..8 |-> Bit(t, 2 * (i - 1)) * 2^(2 * (i - 1))]
           sum[i \in 0..8] ==
             IF i = 0 THEN 0 ELSE sum[i - 1] + Bit(t, 2 * (i - 1)) * 2^(2 * (i - 1))
<1>1. /\ term[1] = Bit(t, 0) * 1    /\ term[2] = Bit(t, 2) * 4
      /\ term[3] = Bit(t, 4) * 16   /\ term[4] = Bit(t, 6) * 64
      /\ term[5] = Bit(t, 8) * 256  /\ term[6] = Bit(t, 10) * 1024
      /\ term[7] = Bit(t, 12) * 4096 /\ term[8] = Bit(t, 14) * 16384
  <2>1. /\ term[1] = Bit(t, 2 * (1 - 1)) * 2^(2 * (1 - 1))
        /\ term[2] = Bit(t, 2 * (2 - 1)) * 2^(2 * (2 - 1))
        /\ term[3] = Bit(t, 2 * (3 - 1)) * 2^(2 * (3 - 1))
        /\ term[4] = Bit(t, 2 * (4 - 1)) * 2^(2 * (4 - 1))
        /\ term[5] = Bit(t, 2 * (5 - 1)) * 2^(2 * (5 - 1))
        /\ term[6] = Bit(t, 2 * (6 - 1)) * 2^(2 * (6 - 1))
        /\ term[7] = Bit(t, 2 * (7 - 1)) * 2^(2 * (7 - 1))
        /\ term[8] = Bit(t, 2 * (8 - 1)) * 2^(2 * (8 - 1))
    OBVIOUS
  <2> HIDE DEF term
  <2> QED BY <2>1, EvenPowers
<1>2. ASSUME NEW i \in 1..8 PROVE term[i] \in Int
  <2>1. i = 1 \/ i = 2 \/ i = 3 \/ i = 4 \/ i = 5 \/ i = 6 \/ i = 7 \/ i = 8
    OBVIOUS
  <2>2. /\ Bit(t, 0) \in Int /\ Bit(t, 2) \in Int /\ Bit(t, 4) \in Int /\ Bit(t, 6) \in Int
        /\ Bit(t, 8) \in Int /\ Bit(t, 10) \in Int /\ Bit(t, 12) \in Int /\ Bit(t, 14) \in Int
    BY EvenPowers DEF Bit
  <2> HIDE DEF term
  <2>3. /\ term[1] \in Int /\ term[2] \in Int /\ term[3] \in Int /\ term[4] \in Int
        /\ term[5] \in Int /\ term[6] \in Int /\ term[7] \in Int /\ term[8] \in Int
    BY <1>1, <2>2
  <2> QED BY <2>1, <2>3
<1>3. term \in [1..8 -> Int]
  BY <1>2
<1>4. PICK f \in [0..8 -> Int] : f = [i \in 0..8 |-> IF i = 0 THEN 0 ELSE f[i - 1] + term[i]]
  <2>1. 8 \in Nat
    OBVIOUS
  <2> HIDE DEF term
  <2> QED BY <1>3, <2>1, SumExists
<1>5. f = [i \in 0..8 |->
             IF i = 0 THEN 0 ELSE f[i - 1] + Bit(t, 2 * (i - 1)) * 2^(2 * (i - 1))]
  <2>1. ASSUME NEW i \in 0..8, i # 0
        PROVE  term[i] = Bit(t, 2 * (i - 1)) * 2^(2 * (i - 1))
    <3>1. i \in 1..8
      BY <2>1
    <3> QED BY <3>1
  <2>2. ASSUME NEW i \in 0..8
        PROVE  f[i] = IF i = 0 THEN 0 ELSE f[i - 1] + Bit(t, 2 * (i - 1)) * 2^(2 * (i - 1))
    <3>1. f[i] = IF i = 0 THEN 0 ELSE f[i - 1] + term[i]
      <4> HIDE DEF term
      <4> QED BY <1>4, Zenon
    <3> HIDE DEF term
    <3> QED BY <2>1, <3>1, Zenon
  <2> HIDE DEF term
  <2> QED BY <2>2, Zenon
<1>6. sum = [i \in 0..8 |->
               IF i = 0 THEN 0 ELSE sum[i - 1] + Bit(t, 2 * (i - 1)) * 2^(2 * (i - 1))]
  <2>1. \E g : g = [i \in 0..8 |->
                      IF i = 0 THEN 0 ELSE g[i - 1] + Bit(t, 2 * (i - 1)) * 2^(2 * (i - 1))]
    BY <1>5, Zenon
  <2> QED BY <2>1, Zenon
<1>7. EvenBits(t) = sum[8]
  BY DEF EvenBits
<1> HIDE DEF sum
<1>8. sum = [i \in 0..8 |-> IF i = 0 THEN 0 ELSE sum[i - 1] + term[i]]
  <2>1. ASSUME NEW i \in 0..8
        PROVE  (IF i = 0 THEN 0 ELSE sum[i - 1] + Bit(t, 2 * (i - 1)) * 2^(2 * (i - 1)))
                 = IF i = 0 THEN 0 ELSE sum[i - 1] + term[i]
    <3>1. i # 0 => i \in 1..8
      OBVIOUS
    <3>2. i # 0 => term[i] = Bit(t, 2 * (i - 1)) * 2^(2 * (i - 1))
      BY <3>1
    <3> HIDE DEF term
    <3> QED BY <3>2, Zenon
  <2> HIDE DEF term
  <2> QED BY <1>6, <2>1, Zenon
<1> HIDE DEF term
<1>9. sum[8] = term[1] + term[2] + term[3] + term[4] + term[5] + term[6] + term[7] + term[8]
  BY <1>3, <1>8, SumOfEight
<1> QED BY <1>1, <1>7, <1>9

(* The counts of eight pairs do not mix.                                   *)
LEMMA PairsApart ==
  ASSUME NEW d0 \in Int, NEW d1 \in Int, NEW d2 \in Int, NEW d3 \in Int,
         NEW d4 \in Int, NEW d5 \in Int, NEW d6 \in Int, NEW d7 \in Int,
         d0 >= 0, d0 <= 2, d1 >= 0, d1 <= 2, d2 >= 0, d2 <= 2, d3 >= 0, d3 <= 2,
         d4 >= 0, d4 <= 2, d5 >= 0, d5 <= 2, d6 >= 0, d6 <= 2, d7 >= 0, d7 <= 2
  PROVE  LET x == d0 + 4 * d1 + 16 * d2 + 64 * d3 + 256 * d4 + 1024 * d5 + 4096 * d6
                    + 16384 * d7
         IN  /\ (x \div 1) % 4 = d0 /\ (x \div 4) % 4 = d1
             /\ (x \div 16) % 4 = d2 /\ (x \div 64) % 4 = d3
             /\ (x \div 256) % 4 = d4 /\ (x \div 1024) % 4 = d5
             /\ (x \div 4096) % 4 = d6 /\ (x \div 16384) % 4 = d7
BY SMT

(* The sixteen bits of a half.                                             *)
BitsAre(h) ==
  /\ Bit(h, 0) = (h \div 1) % 2 /\ Bit(h, 1) = (h \div 2) % 2
  /\ Bit(h, 2) = (h \div 4) % 2 /\ Bit(h, 3) = (h \div 8) % 2
  /\ Bit(h, 4) = (h \div 16) % 2 /\ Bit(h, 5) = (h \div 32) % 2
  /\ Bit(h, 6) = (h \div 64) % 2 /\ Bit(h, 7) = (h \div 128) % 2
  /\ Bit(h, 8) = (h \div 256) % 2 /\ Bit(h, 9) = (h \div 512) % 2
  /\ Bit(h, 10) = (h \div 1024) % 2 /\ Bit(h, 11) = (h \div 2048) % 2
  /\ Bit(h, 12) = (h \div 4096) % 2 /\ Bit(h, 13) = (h \div 8192) % 2
  /\ Bit(h, 14) = (h \div 16384) % 2 /\ Bit(h, 15) = (h \div 32768) % 2

LEMMA BitsOf == ASSUME NEW h PROVE BitsAre(h)
BY EvenPowers DEF Bit, BitsAre

(* The even bits of r are the odd bits of h.                               *)
ShiftedDown(h, r) ==
  /\ Bit(r, 0) = Bit(h, 1) /\ Bit(r, 2) = Bit(h, 3)
  /\ Bit(r, 4) = Bit(h, 5) /\ Bit(r, 6) = Bit(h, 7)
  /\ Bit(r, 8) = Bit(h, 9) /\ Bit(r, 10) = Bit(h, 11)
  /\ Bit(r, 12) = Bit(h, 13) /\ Bit(r, 14) = Bit(h, 15)

(* A half shifted down, whatever comes in at its top.                      *)
HalfShifted(h, c) == (h \div 2) + 32768 * c

LEMMA ShiftHalf ==
  ASSUME NEW h \in Nat, NEW c \in Nat
  PROVE  HalfShifted(h, c) \in Nat /\ ShiftedDown(h, HalfShifted(h, c))
<1> DEFINE g == h \div 2
           r == g + 32768 * c
<1>1. g \in Nat /\ r \in Nat
  BY SMT
<1>2. /\ g \div 1 = h \div 2 /\ g \div 4 = h \div 8
      /\ g \div 16 = h \div 32 /\ g \div 64 = h \div 128
      /\ g \div 256 = h \div 512 /\ g \div 1024 = h \div 2048
      /\ g \div 4096 = h \div 8192 /\ g \div 16384 = h \div 32768
  BY SMT
<1> HIDE DEF g
<1>3. /\ (r \div 1) % 2 = (g \div 1) % 2 /\ (r \div 4) % 2 = (g \div 4) % 2
      /\ (r \div 16) % 2 = (g \div 16) % 2 /\ (r \div 64) % 2 = (g \div 64) % 2
      /\ (r \div 256) % 2 = (g \div 256) % 2 /\ (r \div 1024) % 2 = (g \div 1024) % 2
      /\ (r \div 4096) % 2 = (g \div 4096) % 2 /\ (r \div 16384) % 2 = (g \div 16384) % 2
  BY ONLY <1>1, SMT
<1> HIDE DEF r
<1>4. BitsAre(h) /\ BitsAre(r)
  BY BitsOf
<1>5. ShiftedDown(h, r)
  BY <1>2, <1>3, <1>4 DEF ShiftedDown, BitsAre
<1> QED BY <1>1, <1>5 DEF g, r, HalfShifted

IsBit(b) == b \in Int /\ b >= 0 /\ b <= 1

LEMMA BitIsBit ==
  ASSUME NEW t \in Nat
  PROVE  /\ IsBit(Bit(t, 0)) /\ IsBit(Bit(t, 1)) /\ IsBit(Bit(t, 2)) /\ IsBit(Bit(t, 3))
         /\ IsBit(Bit(t, 4)) /\ IsBit(Bit(t, 5)) /\ IsBit(Bit(t, 6)) /\ IsBit(Bit(t, 7))
         /\ IsBit(Bit(t, 8)) /\ IsBit(Bit(t, 9)) /\ IsBit(Bit(t, 10)) /\ IsBit(Bit(t, 11))
         /\ IsBit(Bit(t, 12)) /\ IsBit(Bit(t, 13)) /\ IsBit(Bit(t, 14)) /\ IsBit(Bit(t, 15))
<1>1. ASSUME NEW x \in Int PROVE IsBit(x % 2)
  BY DEF IsBit
<1>2. \A p \in {1, 2, 4, 8, 16, 32, 64, 128, 256, 512, 1024, 2048, 4096, 8192, 16384, 32768} :
        t \div p \in Int
  BY SMT
<1> QED BY <1>1, <1>2, BitsOf DEF BitsAre

(* The pairs of one half, counted without a carry out of it.               *)
HalfCounted(h, x) ==
  /\ x \in Nat /\ x < 65536
  /\ (x \div 4^0) % 4 = Bit(h, 0) + Bit(h, 1)
  /\ (x \div 4^1) % 4 = Bit(h, 2) + Bit(h, 3)
  /\ (x \div 4^2) % 4 = Bit(h, 4) + Bit(h, 5)
  /\ (x \div 4^3) % 4 = Bit(h, 6) + Bit(h, 7)
  /\ (x \div 4^4) % 4 = Bit(h, 8) + Bit(h, 9)
  /\ (x \div 4^5) % 4 = Bit(h, 10) + Bit(h, 11)
  /\ (x \div 4^6) % 4 = Bit(h, 12) + Bit(h, 13)
  /\ (x \div 4^7) % 4 = Bit(h, 14) + Bit(h, 15)

LEMMA FourPowers ==
  /\ 4^0 = 1 /\ 4^1 = 4 /\ 4^2 = 16 /\ 4^3 = 64
  /\ 4^4 = 256 /\ 4^5 = 1024 /\ 4^6 = 4096 /\ 4^7 = 16384
  /\ 2^15 = 32768 /\ 2^16 = 65536
BY SMT

LEMMA HalfCounts ==
  ASSUME NEW h \in Nat, NEW r \in Nat, ShiftedDown(h, r)
  PROVE  HalfCounted(h, EvenBits(h) + EvenBits(r))
<1> DEFINE x == EvenBits(h) + EvenBits(r)
           b0 == Bit(h, 0)   b1 == Bit(h, 1)   b2 == Bit(h, 2)   b3 == Bit(h, 3)
           b4 == Bit(h, 4)   b5 == Bit(h, 5)   b6 == Bit(h, 6)   b7 == Bit(h, 7)
           b8 == Bit(h, 8)   b9 == Bit(h, 9)   b10 == Bit(h, 10) b11 == Bit(h, 11)
           b12 == Bit(h, 12) b13 == Bit(h, 13) b14 == Bit(h, 14) b15 == Bit(h, 15)
           d0 == b0 + b1   d1 == b2 + b3   d2 == b4 + b5   d3 == b6 + b7
           d4 == b8 + b9   d5 == b10 + b11 d6 == b12 + b13 d7 == b14 + b15
<1>1. /\ IsBit(b0) /\ IsBit(b1) /\ IsBit(b2) /\ IsBit(b3)
      /\ IsBit(b4) /\ IsBit(b5) /\ IsBit(b6) /\ IsBit(b7)
      /\ IsBit(b8) /\ IsBit(b9) /\ IsBit(b10) /\ IsBit(b11)
      /\ IsBit(b12) /\ IsBit(b13) /\ IsBit(b14) /\ IsBit(b15)
  BY BitIsBit
<1>2. EvenBits(h) = b0 * 1 + b2 * 4 + b4 * 16 + b6 * 64 + b8 * 256 + b10 * 1024
                      + b12 * 4096 + b14 * 16384
  BY EvenBitsAre
<1>3. EvenBits(r) = b1 * 1 + b3 * 4 + b5 * 16 + b7 * 64 + b9 * 256 + b11 * 1024
                      + b13 * 4096 + b15 * 16384
  <2>1. EvenBits(r)
          = Bit(r, 0) * 1 + Bit(r, 2) * 4 + Bit(r, 4) * 16 + Bit(r, 6) * 64
              + Bit(r, 8) * 256 + Bit(r, 10) * 1024 + Bit(r, 12) * 4096 + Bit(r, 14) * 16384
    BY EvenBitsAre
  <2>2. /\ Bit(r, 0) = b1 /\ Bit(r, 2) = b3 /\ Bit(r, 4) = b5 /\ Bit(r, 6) = b7
        /\ Bit(r, 8) = b9 /\ Bit(r, 10) = b11 /\ Bit(r, 12) = b13 /\ Bit(r, 14) = b15
    BY DEF ShiftedDown
  <2> HIDE DEF b1, b3, b5, b7, b9, b11, b13, b15
  <2> QED BY ONLY <2>1, <2>2
<1> HIDE DEF b0, b1, b2, b3, b4, b5, b6, b7, b8, b9, b10, b11, b12, b13, b14, b15
<1>4. x = d0 + 4 * d1 + 16 * d2 + 64 * d3 + 256 * d4 + 1024 * d5 + 4096 * d6 + 16384 * d7
  BY ONLY <1>1, <1>2, <1>3, SMT DEF IsBit
<1> HIDE DEF x
<1>5. /\ d0 \in Int /\ d1 \in Int /\ d2 \in Int /\ d3 \in Int
      /\ d4 \in Int /\ d5 \in Int /\ d6 \in Int /\ d7 \in Int
      /\ d0 >= 0 /\ d0 <= 2 /\ d1 >= 0 /\ d1 <= 2 /\ d2 >= 0 /\ d2 <= 2
      /\ d3 >= 0 /\ d3 <= 2 /\ d4 >= 0 /\ d4 <= 2 /\ d5 >= 0 /\ d5 <= 2
      /\ d6 >= 0 /\ d6 <= 2 /\ d7 >= 0 /\ d7 <= 2
  BY ONLY <1>1, SMT DEF IsBit
<1> HIDE DEF d0, d1, d2, d3, d4, d5, d6, d7
<1>6. /\ (x \div 1) % 4 = d0 /\ (x \div 4) % 4 = d1
      /\ (x \div 16) % 4 = d2 /\ (x \div 64) % 4 = d3
      /\ (x \div 256) % 4 = d4 /\ (x \div 1024) % 4 = d5
      /\ (x \div 4096) % 4 = d6 /\ (x \div 16384) % 4 = d7
  BY ONLY <1>4, <1>5, SMT
<1>7. x \in Nat /\ x < 65536
  BY ONLY <1>4, <1>5, SMT
<1>8. HalfCounted(h, x)
  BY ONLY <1>6, <1>7, FourPowers
     DEF HalfCounted, d0, d1, d2, d3, d4, d5, d6, d7,
         b0, b1, b2, b3, b4, b5, b6, b7, b8, b9, b10, b11, b12, b13, b14, b15
<1> QED BY <1>8 DEF x

(* The bits of a half are those of its two bytes.                          *)
LowByte(h, b) ==
  /\ Bit(h, 0) = Bit(b, 0) /\ Bit(h, 1) = Bit(b, 1) /\ Bit(h, 2) = Bit(b, 2)
  /\ Bit(h, 3) = Bit(b, 3) /\ Bit(h, 4) = Bit(b, 4) /\ Bit(h, 5) = Bit(b, 5)
  /\ Bit(h, 6) = Bit(b, 6) /\ Bit(h, 7) = Bit(b, 7)

HighByte(h, b) ==
  /\ Bit(h, 8) = Bit(b, 0) /\ Bit(h, 9) = Bit(b, 1) /\ Bit(h, 10) = Bit(b, 2)
  /\ Bit(h, 11) = Bit(b, 3) /\ Bit(h, 12) = Bit(b, 4) /\ Bit(h, 13) = Bit(b, 5)
  /\ Bit(h, 14) = Bit(b, 6) /\ Bit(h, 15) = Bit(b, 7)

LEMMA BytesOfHalf ==
  ASSUME NEW b \in Byte, NEW c \in Byte
  PROVE  /\ b + 256 * c \in Nat
         /\ LowByte(b + 256 * c, b) /\ HighByte(b + 256 * c, c)
<1> DEFINE h == b + 256 * c
<1>1. b \in Nat /\ c \in Nat /\ b < 256 /\ h \in Nat
  BY DEF Byte
<1>2. /\ (h \div 1) % 2 = (b \div 1) % 2 /\ (h \div 2) % 2 = (b \div 2) % 2
      /\ (h \div 4) % 2 = (b \div 4) % 2 /\ (h \div 8) % 2 = (b \div 8) % 2
      /\ (h \div 16) % 2 = (b \div 16) % 2 /\ (h \div 32) % 2 = (b \div 32) % 2
      /\ (h \div 64) % 2 = (b \div 64) % 2 /\ (h \div 128) % 2 = (b \div 128) % 2
  <2>3. /\ (h \div 1) % 2 = (b \div 1) % 2 /\ (h \div 2) % 2 = (b \div 2) % 2
    BY ONLY <1>1, SMT
  <2>4. /\ (h \div 4) % 2 = (b \div 4) % 2 /\ (h \div 8) % 2 = (b \div 8) % 2
    BY ONLY <1>1, SMT
  <2>5. /\ (h \div 16) % 2 = (b \div 16) % 2 /\ (h \div 32) % 2 = (b \div 32) % 2
    BY ONLY <1>1, SMT
  <2>6. /\ (h \div 64) % 2 = (b \div 64) % 2 /\ (h \div 128) % 2 = (b \div 128) % 2
    BY ONLY <1>1, SMT
  <2> QED BY <2>3, <2>4, <2>5, <2>6
<1>3. /\ h \div 256 = c \div 1 /\ h \div 512 = c \div 2
      /\ h \div 1024 = c \div 4 /\ h \div 2048 = c \div 8
      /\ h \div 4096 = c \div 16 /\ h \div 8192 = c \div 32
      /\ h \div 16384 = c \div 64 /\ h \div 32768 = c \div 128
  BY ONLY <1>1, SMT
<1> HIDE DEF h
<1>4. BitsAre(h) /\ BitsAre(b) /\ BitsAre(c)
  BY BitsOf
<1>5. LowByte(h, b)
  BY <1>2, <1>4 DEF LowByte, BitsAre
<1>6. HighByte(h, c)
  BY <1>3, <1>4 DEF HighByte, BitsAre
<1> QED BY <1>1, <1>5, <1>6 DEF h

(* The four bits of half byte m of b, two counted against two.             *)
Difference(b, m) == Bit(b, 4 * m + 0) + Bit(b, 4 * m + 1) - Bit(b, 4 * m + 2) - Bit(b, 4 * m + 3)

(* Two bytes of a half, counted.                                           *)
LEMMA HalfDifferences ==
  ASSUME NEW b \in Byte, NEW c \in Byte, NEW x, HalfCounted(b + 256 * c, x)
  PROVE  /\ ((x \div 4^0) % 4) - ((x \div 4^1) % 4) = Difference(b, 0)
         /\ ((x \div 4^2) % 4) - ((x \div 4^3) % 4) = Difference(b, 1)
         /\ ((x \div 4^4) % 4) - ((x \div 4^5) % 4) = Difference(c, 0)
         /\ ((x \div 4^6) % 4) - ((x \div 4^7) % 4) = Difference(c, 1)
<1> DEFINE h == b + 256 * c
<1>1. h \in Nat /\ LowByte(h, b) /\ HighByte(h, c)
  BY BytesOfHalf
<1>2. HalfCounted(h, x)
  OBVIOUS
<1>3. b \in Nat /\ c \in Nat
  BY DEF Byte
<1> HIDE DEF h
<1>4. /\ (x \div 4^0) % 4 = Bit(b, 0) + Bit(b, 1) /\ (x \div 4^1) % 4 = Bit(b, 2) + Bit(b, 3)
      /\ (x \div 4^2) % 4 = Bit(b, 4) + Bit(b, 5) /\ (x \div 4^3) % 4 = Bit(b, 6) + Bit(b, 7)
      /\ (x \div 4^4) % 4 = Bit(c, 0) + Bit(c, 1) /\ (x \div 4^5) % 4 = Bit(c, 2) + Bit(c, 3)
      /\ (x \div 4^6) % 4 = Bit(c, 4) + Bit(c, 5) /\ (x \div 4^7) % 4 = Bit(c, 6) + Bit(c, 7)
  <2>1. /\ (x \div 4^0) % 4 = Bit(b, 0) + Bit(b, 1) /\ (x \div 4^1) % 4 = Bit(b, 2) + Bit(b, 3)
        /\ (x \div 4^2) % 4 = Bit(b, 4) + Bit(b, 5) /\ (x \div 4^3) % 4 = Bit(b, 6) + Bit(b, 7)
    BY <1>1, <1>2 DEF HalfCounted, LowByte
  <2>2. /\ (x \div 4^4) % 4 = Bit(c, 0) + Bit(c, 1) /\ (x \div 4^5) % 4 = Bit(c, 2) + Bit(c, 3)
        /\ (x \div 4^6) % 4 = Bit(c, 4) + Bit(c, 5) /\ (x \div 4^7) % 4 = Bit(c, 6) + Bit(c, 7)
    BY <1>1, <1>2 DEF HalfCounted, HighByte
  <2> QED BY ONLY <2>1, <2>2
<1>5. /\ IsBit(Bit(b, 0)) /\ IsBit(Bit(b, 1)) /\ IsBit(Bit(b, 2)) /\ IsBit(Bit(b, 3))
      /\ IsBit(Bit(b, 4)) /\ IsBit(Bit(b, 5)) /\ IsBit(Bit(b, 6)) /\ IsBit(Bit(b, 7))
      /\ IsBit(Bit(c, 0)) /\ IsBit(Bit(c, 1)) /\ IsBit(Bit(c, 2)) /\ IsBit(Bit(c, 3))
      /\ IsBit(Bit(c, 4)) /\ IsBit(Bit(c, 5)) /\ IsBit(Bit(c, 6)) /\ IsBit(Bit(c, 7))
  BY ONLY <1>3, BitIsBit
<1>6. /\ Difference(b, 0) = Bit(b, 0) + Bit(b, 1) - Bit(b, 2) - Bit(b, 3)
      /\ Difference(b, 1) = Bit(b, 4) + Bit(b, 5) - Bit(b, 6) - Bit(b, 7)
      /\ Difference(c, 0) = Bit(c, 0) + Bit(c, 1) - Bit(c, 2) - Bit(c, 3)
      /\ Difference(c, 1) = Bit(c, 4) + Bit(c, 5) - Bit(c, 6) - Bit(c, 7)
  BY DEF Difference
<1> QED BY ONLY <1>4, <1>5, <1>6, SMT DEF IsBit

(* Every coefficient of cbd_eta2 from its own half byte.                   *)
LEMMA NoiseBits ==
  ASSUME NEW x \in [1..4 -> Byte]
  PROVE  /\ DOMAIN CbdCoeffs(x) = 0..7
         /\ CbdCoeffs(x)[0] = Difference(x[1], 0) /\ CbdCoeffs(x)[1] = Difference(x[1], 1)
         /\ CbdCoeffs(x)[2] = Difference(x[2], 0) /\ CbdCoeffs(x)[3] = Difference(x[2], 1)
         /\ CbdCoeffs(x)[4] = Difference(x[3], 0) /\ CbdCoeffs(x)[5] = Difference(x[3], 1)
         /\ CbdCoeffs(x)[6] = Difference(x[4], 0) /\ CbdCoeffs(x)[7] = Difference(x[4], 1)
<1> DEFINE t == load32_le(x)
           r == ShiftRight(t)
           d == PairCounts(t)
           low == EvenBits(t.lo) + EvenBits(r.lo)
           high == EvenBits(t.hi) + EvenBits(r.hi)
<1>1. /\ x[1] \in Byte /\ x[2] \in Byte /\ x[3] \in Byte /\ x[4] \in Byte
  OBVIOUS
<1>2. t.lo = x[1] + 256 * x[2] /\ t.hi = x[3] + 256 * x[4]
  BY DEF load32_le
<1> HIDE DEF t
<1>3. t.lo \in Nat /\ t.hi \in Nat
  BY <1>1, <1>2, BytesOfHalf
<1>4. r.lo = (t.lo \div 2) + 32768 * (t.hi % 2) /\ r.hi = t.hi \div 2
  BY FourPowers DEF ShiftRight
<1>5. d.lo = low % 65536 /\ d.hi = (high + (low \div 65536)) % 65536
  BY FourPowers DEF PairCounts, MaskedSum
<1> HIDE DEF d, r
<1>6. HalfCounted(t.lo, low)
  <2>1. t.hi % 2 \in Nat
    BY <1>3
  <2> DEFINE carry == t.hi % 2
  <2>2. carry \in Nat
    BY <2>1
  <2> HIDE DEF carry
  <2>3. HalfShifted(t.lo, carry) \in Nat /\ ShiftedDown(t.lo, HalfShifted(t.lo, carry))
    BY <1>3, <2>2, ShiftHalf
  <2>4. r.lo \in Nat /\ ShiftedDown(t.lo, r.lo)
    BY <1>4, <2>3 DEF carry, HalfShifted
  <2> QED BY <1>3, <2>4, HalfCounts
<1>7. HalfCounted(t.hi, high)
  <2>1. t.hi \div 2 = HalfShifted(t.hi, 0)
    BY <1>3 DEF HalfShifted
  <2>2. HalfShifted(t.hi, 0) \in Nat /\ ShiftedDown(t.hi, HalfShifted(t.hi, 0))
    BY <1>3, ShiftHalf
  <2>3. r.hi \in Nat /\ ShiftedDown(t.hi, r.hi)
    BY <1>4, <2>1, <2>2
  <2> QED BY <1>3, <2>3, HalfCounts
<1> HIDE DEF low, high
<1>8. d.lo = low /\ d.hi = high
  <2>1. low \in Nat /\ low < 65536 /\ high \in Nat /\ high < 65536
    BY <1>6, <1>7 DEF HalfCounted
  <2>2. low % 65536 = low /\ low \div 65536 = 0 /\ (high + 0) % 65536 = high
    BY ONLY <2>1, SMT
  <2> QED BY ONLY <1>5, <2>2
<1>9. /\ DOMAIN CbdCoeffs(x) = 0..7
      /\ CbdCoeffs(x)[0] = ((d.lo \div 4^0) % 4) - ((d.lo \div 4^1) % 4)
      /\ CbdCoeffs(x)[1] = ((d.lo \div 4^2) % 4) - ((d.lo \div 4^3) % 4)
      /\ CbdCoeffs(x)[2] = ((d.lo \div 4^4) % 4) - ((d.lo \div 4^5) % 4)
      /\ CbdCoeffs(x)[3] = ((d.lo \div 4^6) % 4) - ((d.lo \div 4^7) % 4)
      /\ CbdCoeffs(x)[4] = ((d.hi \div 4^0) % 4) - ((d.hi \div 4^1) % 4)
      /\ CbdCoeffs(x)[5] = ((d.hi \div 4^2) % 4) - ((d.hi \div 4^3) % 4)
      /\ CbdCoeffs(x)[6] = ((d.hi \div 4^4) % 4) - ((d.hi \div 4^5) % 4)
      /\ CbdCoeffs(x)[7] = ((d.hi \div 4^6) % 4) - ((d.hi \div 4^7) % 4)
  <2>1. CbdCoeffs(x) = [j \in 0..7 |-> Pair(d, 2 * j) - Pair(d, 2 * j + 1)]
    BY DEF CbdCoeffs, d, t
  <2>2. /\ DOMAIN CbdCoeffs(x) = 0..7
        /\ CbdCoeffs(x)[0] = Pair(d, 0) - Pair(d, 1) /\ CbdCoeffs(x)[1] = Pair(d, 2) - Pair(d, 3)
        /\ CbdCoeffs(x)[2] = Pair(d, 4) - Pair(d, 5) /\ CbdCoeffs(x)[3] = Pair(d, 6) - Pair(d, 7)
        /\ CbdCoeffs(x)[4] = Pair(d, 8) - Pair(d, 9) /\ CbdCoeffs(x)[5] = Pair(d, 10) - Pair(d, 11)
        /\ CbdCoeffs(x)[6] = Pair(d, 12) - Pair(d, 13) /\ CbdCoeffs(x)[7] = Pair(d, 14) - Pair(d, 15)
    BY <2>1
  <2>3. /\ Pair(d, 0) = (d.lo \div 4^0) % 4 /\ Pair(d, 1) = (d.lo \div 4^1) % 4
        /\ Pair(d, 2) = (d.lo \div 4^2) % 4 /\ Pair(d, 3) = (d.lo \div 4^3) % 4
        /\ Pair(d, 4) = (d.lo \div 4^4) % 4 /\ Pair(d, 5) = (d.lo \div 4^5) % 4
        /\ Pair(d, 6) = (d.lo \div 4^6) % 4 /\ Pair(d, 7) = (d.lo \div 4^7) % 4
    BY DEF Pair
  <2>4. /\ Pair(d, 8) = (d.hi \div 4^0) % 4 /\ Pair(d, 9) = (d.hi \div 4^1) % 4
        /\ Pair(d, 10) = (d.hi \div 4^2) % 4 /\ Pair(d, 11) = (d.hi \div 4^3) % 4
        /\ Pair(d, 12) = (d.hi \div 4^4) % 4 /\ Pair(d, 13) = (d.hi \div 4^5) % 4
        /\ Pair(d, 14) = (d.hi \div 4^6) % 4 /\ Pair(d, 15) = (d.hi \div 4^7) % 4
    BY DEF Pair
  <2> QED BY ONLY <2>2, <2>3, <2>4
<1>10. /\ ((low \div 4^0) % 4) - ((low \div 4^1) % 4) = Difference(x[1], 0)
       /\ ((low \div 4^2) % 4) - ((low \div 4^3) % 4) = Difference(x[1], 1)
       /\ ((low \div 4^4) % 4) - ((low \div 4^5) % 4) = Difference(x[2], 0)
       /\ ((low \div 4^6) % 4) - ((low \div 4^7) % 4) = Difference(x[2], 1)
  BY <1>1, <1>2, <1>6, HalfDifferences
<1>11. /\ ((high \div 4^0) % 4) - ((high \div 4^1) % 4) = Difference(x[3], 0)
       /\ ((high \div 4^2) % 4) - ((high \div 4^3) % 4) = Difference(x[3], 1)
       /\ ((high \div 4^4) % 4) - ((high \div 4^5) % 4) = Difference(x[4], 0)
       /\ ((high \div 4^6) % 4) - ((high \div 4^7) % 4) = Difference(x[4], 1)
  BY <1>1, <1>2, <1>7, HalfDifferences
<1> QED BY ONLY <1>8, <1>9, <1>10, <1>11

NoiseInv ==
  pc = "sampled" =>
    \E x \in [1..4 -> Byte] : drawn = [word |-> x, coeffs |-> CbdCoeffs(x)]

LEMMA NoiseIsBits == NoiseInv => NoiseIsBinomial
<1> SUFFICES ASSUME NoiseInv, pc = "sampled"
             PROVE  /\ DOMAIN drawn.coeffs = 0..7
                    /\ \A j \in 0..7 :
                         drawn.coeffs[j] = Difference(drawn.word[(j \div 2) + 1], j % 2)
  BY DEF NoiseIsBinomial, Difference
<1>1. PICK x \in [1..4 -> Byte] : drawn.word = x /\ drawn.coeffs = CbdCoeffs(x)
  BY DEF NoiseInv
<1>2. DOMAIN drawn.coeffs = 0..7
  BY <1>1, NoiseBits
<1>3. ASSUME NEW j \in 0..7
      PROVE  CbdCoeffs(x)[j] = Difference(x[(j \div 2) + 1], j % 2)
  <2>1. j = 0 \/ j = 1 \/ j = 2 \/ j = 3 \/ j = 4 \/ j = 5 \/ j = 6 \/ j = 7
    OBVIOUS
  <2>2. /\ (0 \div 2) + 1 = 1 /\ (1 \div 2) + 1 = 1 /\ (2 \div 2) + 1 = 2 /\ (3 \div 2) + 1 = 2
        /\ (4 \div 2) + 1 = 3 /\ (5 \div 2) + 1 = 3 /\ (6 \div 2) + 1 = 4 /\ (7 \div 2) + 1 = 4
        /\ 0 % 2 = 0 /\ 1 % 2 = 1 /\ 2 % 2 = 0 /\ 3 % 2 = 1
        /\ 4 % 2 = 0 /\ 5 % 2 = 1 /\ 6 % 2 = 0 /\ 7 % 2 = 1
    BY SMT
  <2> QED BY ONLY <2>1, <2>2, NoiseBits, x \in [1..4 -> Byte], Zenon
<1> QED BY <1>1, <1>2, <1>3

(* For every word of 32 random bits, each of its eight coefficients is the *)
(* difference of two counts of two bits, its own half byte: the counting   *)
(* in place carries nothing from one pair into the next, nor from the low  *)
(* half of the word into the high one (cbd.c:13-28).                       *)
THEOREM NoiseAlwaysBinomial == SamplingSpec => []NoiseIsBinomial
<1>1. SamplingInit => NoiseInv
  BY DEF SamplingInit, NoiseInv
<1>2. NoiseInv /\ [SamplingNext]_samplingVars => NoiseInv'
  <2> SUFFICES ASSUME NoiseInv, [SamplingNext]_samplingVars PROVE NoiseInv'
    OBVIOUS
  <2>1. CASE Noise
    BY <2>1, SamplingAssumption DEF Noise, NoiseInv
  <2>2. CASE ~Noise
    <3>1. pc' # "sampled" \/ (pc' = pc /\ drawn' = drawn)
      BY <2>2 DEF SamplingNext, samplingVars, Squeeze, Abort, Group, Again, NextCell, Draw
    <3> QED BY <3>1 DEF NoiseInv
  <2> QED BY <2>1, <2>2
<1> QED BY <1>1, <1>2, NoiseIsBits, PTL DEF SamplingSpec

=============================================================================
