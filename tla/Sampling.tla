------------------------------ MODULE Sampling ------------------------------
(***************************************************************************)
(* Where random coefficients come from.  kyber_gen_matrix (src/kyber/      *)
(* indcpa.c) expands a seed into the public matrix by rejection sampling   *)
(* of a XOF's output, once for the key and once, transposed, to encrypt;   *)
(* rand_mod_q (threshold.c) draws the coefficients of the sharing          *)
(* polynomials; cbd_eta2 (cbd.c) turns bits into noise.                    *)
(***************************************************************************)
EXTENDS FieldArith, FiniteSets, Sequences

CONSTANTS
  MatrixN,      \* KYBER_N
  MatrixK,      \* KYBER_K
  Rate,         \* SHAKE128_RATE
  FirstBlocks,  \* the first buffer, in blocks (3)
  MaxBlocks,    \* GEN_MATRIX_MAX_BLOCKS
  Blocks,       \* what the XOF may put into a block
  LowBytes,     \* values of the first byte rand_mod_q draws
  Words         \* the four bytes of a word of random bits for cbd_eta2

Byte == 0..255

ASSUME SamplingAssumption ==
  /\ MatrixN \in Nat \ {0} /\ MatrixK \in Nat \ {0} /\ Rate \in Nat \ {0}
  /\ MaxBlocks \in Nat /\ FirstBlocks \in 1..MaxBlocks
  /\ \A b \in Blocks : DOMAIN b = 1..Rate /\ \A i \in 1..Rate : b[i] \in Byte
  /\ LowBytes \subseteq Byte /\ Words \subseteq [1..4 -> Byte]

VARIABLES
  pc,
  transposed, \* the argument of kyber_gen_matrix
  cell,       \* <<i, j>>
  stream,     \* stream[e]: the blocks of the XOF of seed || e squeezed so far
  blocks,     \* how many blocks the next try takes
  buflen, pos, ctr, coeffs,  \* rej_uniform
  matrix,     \* matrix[t][c]: the finished coefficients, empty before
  drawn       \* what rand_mod_q returned, or cbd_eta2's word and coefficients

samplingVars ==
  <<pc, transposed, cell, stream, blocks, buflen, pos, ctr, coeffs, matrix, drawn>>

Cells  == (0..MatrixK - 1) \X (0..MatrixK - 1)
Unset  == [n \in 1..MatrixN |-> -1]

SamplingIdle ==
  /\ transposed = FALSE /\ cell = <<0, 0>> /\ blocks = FirstBlocks
  /\ stream = [e \in Cells |-> << >>]
  /\ buflen = 0 /\ pos = 0 /\ ctr = 0 /\ coeffs = Unset
  /\ matrix = [t \in BOOLEAN |-> [c \in Cells |-> << >>]]
  /\ drawn = << >>

SamplingInit == pc \in {"squeeze", "draw", "noise"} /\ SamplingIdle

-----------------------------------------------------------------------------
(* kyber_gen_matrix.                                                       *)

(* Mutant of Extseed: the key's order for both matrices.                   *)
ExtseedPlain(t, c) == <<c[2], c[1]>>

(* The two bytes behind the seed.                                          *)
Extseed(t, c) == IF t THEN c ELSE <<c[2], c[1]>>

(* A XOF's output is one stream: a longer one begins with the shorter.     *)
Xof(e, n) ==
  IF n <= Len(stream[e]) THEN stream' = stream
  ELSE \E more \in [1..(n - Len(stream[e])) -> Blocks] :
         stream' = [stream EXCEPT ![e] = @ \o more]

(* Mutants of Squeeze: the count of the last try is kept; no block more.   *)
SqueezeKeepsCount ==
  /\ pc = "squeeze" /\ blocks <= MaxBlocks
  /\ Xof(Extseed(transposed, cell), blocks)
  /\ pc' = "reject"
  /\ buflen' = blocks * Rate /\ blocks' = blocks + 1
  /\ pos' = 0
  /\ UNCHANGED <<transposed, cell, ctr, coeffs, matrix, drawn>>

SqueezeSameLength ==
  /\ pc = "squeeze" /\ blocks <= MaxBlocks
  /\ Xof(Extseed(transposed, cell), blocks)
  /\ pc' = "reject"
  /\ buflen' = blocks * Rate
  /\ pos' = 0 /\ ctr' = 0
  /\ UNCHANGED <<transposed, cell, blocks, coeffs, matrix, drawn>>

(* A try with one block more than the last.                                *)
Squeeze ==
  /\ pc = "squeeze" /\ blocks <= MaxBlocks
  /\ Xof(Extseed(transposed, cell), blocks)
  /\ pc' = "reject"
  /\ buflen' = blocks * Rate /\ blocks' = blocks + 1
  /\ pos' = 0 /\ ctr' = 0
  /\ UNCHANGED <<transposed, cell, coeffs, matrix, drawn>>

(* Mutant of Abort: the last block is never used.                          *)
AbortEarly ==
  /\ \/ pc = "squeeze" /\ blocks >= MaxBlocks /\ pc' = "starved"
     \/ pc = "squeeze" /\ blocks <= MaxBlocks /\ pc' = "failed"
     \/ pc = "draw" /\ pc' = "failed"
  /\ UNCHANGED <<transposed, cell, stream, blocks, buflen, pos, ctr, coeffs, matrix, drawn>>

(* abort(): the blocks are used up, or OpenSSL failed.                     *)
Abort ==
  /\ \/ pc = "squeeze" /\ blocks > MaxBlocks /\ pc' = "starved"
     \/ pc = "squeeze" /\ blocks <= MaxBlocks /\ pc' = "failed"
     \/ pc = "draw" /\ pc' = "failed"
  /\ UNCHANGED <<transposed, cell, stream, blocks, buflen, pos, ctr, coeffs, matrix, drawn>>

(* Byte p of a stream of blocks, and the two candidates of three bytes.    *)
ByteAt(blks, p) == blks[(p \div Rate) + 1][(p % Rate) + 1]
Candidates(b0, b1, b2) == <<b0 + 256 * (b1 % 16), b1 \div 16 + 16 * b2>>
CandidatesAt(blks, p) ==
  Candidates(ByteAt(blks, p), ByteAt(blks, p + 1), ByteAt(blks, p + 2))

Rejecting == ctr < MatrixN /\ pos + 3 <= buflen

(* Mutant of Group: the second candidate is stored without looking at ctr. *)
GroupUnchecked ==
  /\ pc = "reject" /\ Rejecting
  /\ LET v   == CandidatesAt(stream[Extseed(transposed, cell)], pos)
         one == IF v[1] < Q THEN 1 ELSE 0
         two == IF v[2] < Q THEN 1 ELSE 0
     IN  /\ coeffs' = [n \in 1..MatrixN |->
                         IF n = ctr + one + two /\ two = 1 THEN v[2]
                         ELSE IF n = ctr + 1 /\ one = 1 THEN v[1] ELSE coeffs[n]]
         /\ ctr' = ctr + one + two
  /\ pos' = pos + 3
  /\ UNCHANGED <<pc, transposed, cell, stream, blocks, buflen, matrix, drawn>>

(* One round of rej_uniform's loop.                                        *)
Group ==
  /\ pc = "reject" /\ Rejecting
  /\ LET v   == CandidatesAt(stream[Extseed(transposed, cell)], pos)
         one == IF v[1] < Q THEN 1 ELSE 0
         two == IF ctr + one < MatrixN /\ v[2] < Q THEN 1 ELSE 0
     IN  /\ coeffs' = [n \in 1..MatrixN |->
                         IF n = ctr + one + two /\ two = 1 THEN v[2]
                         ELSE IF n = ctr + 1 /\ one = 1 THEN v[1] ELSE coeffs[n]]
         /\ ctr' = ctr + one + two
  /\ pos' = pos + 3
  /\ UNCHANGED <<pc, transposed, cell, stream, blocks, buflen, matrix, drawn>>

(* rej_uniform ran out of bytes: another try.                              *)
Again ==
  /\ pc = "reject" /\ ~Rejecting /\ ctr < MatrixN
  /\ pc' = "squeeze"
  /\ UNCHANGED <<transposed, cell, stream, blocks, buflen, pos, ctr, coeffs, matrix, drawn>>

(* The entry is complete; the next one, or the next matrix.                *)
NextCell ==
  /\ pc = "reject" /\ ctr >= MatrixN
  /\ matrix' = [matrix EXCEPT ![transposed][cell] = coeffs]
  /\ LET i == cell[1] j == cell[2] IN
       /\ cell' = IF j < MatrixK - 1 THEN <<i, j + 1>>
                  ELSE IF i < MatrixK - 1 THEN <<i + 1, 0>> ELSE <<0, 0>>
       /\ transposed' = (transposed \/ cell' = <<0, 0>>)
       /\ pc' = IF transposed /\ cell' = <<0, 0>> THEN "done" ELSE "squeeze"
  /\ blocks' = FirstBlocks /\ ctr' = 0 /\ coeffs' = Unset
  /\ UNCHANGED <<stream, buflen, pos, drawn>>

-----------------------------------------------------------------------------
(* rand_mod_q.                                                             *)

(* Mutant of Masked: the excess is folded back instead of rejected.        *)
MaskedFolded(b0, b1) == (b0 + 256 * (b1 % 16)) % Q

Masked(b0, b1) == b0 + 256 * (b1 % 16)

(* Two random bytes; a value of q or more is drawn again.                  *)
Draw ==
  /\ pc = "draw"
  /\ \E b0 \in LowBytes, b1 \in Byte :
       Masked(b0, b1) < Q /\ drawn' = Masked(b0, b1)
  /\ pc' = "drawn"
  /\ UNCHANGED <<transposed, cell, stream, blocks, buflen, pos, ctr, coeffs, matrix>>

-----------------------------------------------------------------------------
(* cbd_eta2.                                                               *)

(* A 32-bit word is two halves of 16 bits.                                 *)
load32_le(x) == [lo |-> x[1] + 256 * x[2], hi |-> x[3] + 256 * x[4]]

Bit(h, i) == (h \div 2^i) % 2

(* t >> 1.                                                                 *)
ShiftRight(t) == [lo |-> (t.lo \div 2) + 2^15 * (t.hi % 2), hi |-> t.hi \div 2]

(* h & 0x5555: the bits of a half in even places.                          *)
EvenBits(h) ==
  LET sum[i \in 0..8] ==
        IF i = 0 THEN 0 ELSE sum[i - 1] + Bit(h, 2 * (i - 1)) * 2^(2 * (i - 1))
  IN  sum[8]

(* The 32-bit sum of two masked words, with the carry between the halves.  *)
MaskedSum(t, r) ==
  LET low == EvenBits(t.lo) + EvenBits(r.lo)
  IN  [lo |-> low % 2^16,
       hi |-> (EvenBits(t.hi) + EvenBits(r.hi) + (low \div 2^16)) % 2^16]

(* Mutant of PairCounts: the odd places are not shifted down.              *)
PairCountsUnshifted(t) == MaskedSum(t, t)

(* d: the bits of every pair counted in place.                             *)
PairCounts(t) == MaskedSum(t, ShiftRight(t))

(* (d >> 2 * n) & 3.                                                       *)
Pair(d, n) == IF n < 8 THEN (d.lo \div 4^n) % 4 ELSE (d.hi \div 4^(n - 8)) % 4

(* The eight coefficients of the word in the bytes x.                      *)
CbdCoeffs(x) ==
  LET d == PairCounts(load32_le(x))
  IN  [j \in 0..7 |-> Pair(d, 2 * j) - Pair(d, 2 * j + 1)]

Noise ==
  /\ pc = "noise"
  /\ \E x \in Words : drawn' = [word |-> x, coeffs |-> CbdCoeffs(x)]
  /\ pc' = "sampled"
  /\ UNCHANGED <<transposed, cell, stream, blocks, buflen, pos, ctr, coeffs, matrix>>

SamplingNext == Squeeze \/ Abort \/ Group \/ Again \/ NextCell \/ Draw \/ Noise

SamplingSpec == SamplingInit /\ [][SamplingNext]_samplingVars
-----------------------------------------------------------------------------
(* Neither coeffs[] nor buf[] is used past its end (indcpa.c:16-30, 64).   *)
SamplingBounds ==
  /\ ctr \in 0..MatrixN /\ coeffs \in [1..MatrixN -> -1..(Q - 1)]
  /\ buflen <= MaxBlocks * Rate /\ pos <= buflen
  /\ pc = "reject" => buflen <= Rate * Len(stream[Extseed(transposed, cell)])

(* The k-th candidate of a stream, the candidates below q among the first  *)
(* n, and among all that is known of it.                                   *)
Candidate(blks, k) == CandidatesAt(blks, 3 * ((k - 1) \div 2))[((k - 1) % 2) + 1]

AcceptedOf(blks, n) ==
  LET acc[k \in Nat] ==
        IF k = 0 THEN << >>
        ELSE IF Candidate(blks, k) < Q THEN Append(acc[k - 1], Candidate(blks, k))
        ELSE acc[k - 1]
  IN  acc[n]

Accepted(e) == AcceptedOf(stream[e], 2 * ((Len(stream[e]) * Rate) \div 3))

(* However many tries an entry took, it is the first MatrixN accepted      *)
(* candidates of its own stream: entry i, j of the key's matrix that of    *)
(* seed || j || i, and the matrix encryption expands from the same seed,   *)
(* in tries of its own, is the transpose of the key's.                     *)
MatrixFromSeed ==
  \A i, j \in 0..MatrixK - 1 :
    /\ matrix[FALSE][<<i, j>>] # << >> =>
         matrix[FALSE][<<i, j>>] = SubSeq(Accepted(<<j, i>>), 1, MatrixN)
    /\ matrix[TRUE][<<i, j>>] # << >> =>
         matrix[TRUE][<<i, j>>] = matrix[FALSE][<<j, i>>]

(* Sampling gives up only on a stream whose first MaxBlocks blocks do not  *)
(* hold MatrixN candidates below q.                                        *)
StarvedOnlyShort ==
  pc = "starved" =>
    LET e == Extseed(transposed, cell) IN
    Len(stream[e]) = MaxBlocks /\ Len(Accepted(e)) < MatrixN

(* The squeezing loop ends, in both matrices or in abort().                *)
SamplingEnds == pc \in {"squeeze", "reject"} ~> pc \in {"done", "starved", "failed"}

(* rand_mod_q favours no value: whatever it returned, 16 of the 256 second *)
(* bytes give it behind the one first byte that can.                       *)
UniformDraw ==
  pc = "drawn" =>
    /\ drawn \in 0..(Q - 1)
    /\ \A b0 \in LowBytes :
         Cardinality({b1 \in Byte : Masked(b0, b1) = drawn})
           = IF b0 = drawn % 256 THEN 16 ELSE 0

(* No carry runs from one pair of bits into the next, nor from one half of *)
(* the word into the other: each of the eight coefficients is the          *)
(* difference of two counts of two bits, its own half byte (cbd.c:13-28).  *)
NoiseIsBinomial ==
  pc = "sampled" =>
    /\ DOMAIN drawn.coeffs = 0..7
    /\ \A j \in 0..7 :
         LET bit(i) == Bit(drawn.word[(j \div 2) + 1], 4 * (j % 2) + i) IN
         drawn.coeffs[j] = bit(0) + bit(1) - bit(2) - bit(3)
=============================================================================
