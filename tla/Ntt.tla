-------------------------------- MODULE Ntt --------------------------------
(***************************************************************************)
(* The product of two vectors of ring elements as the PKE and the          *)
(* shareholders compute it (src/kyber/ntt.c, poly.c, polyvec.c): the table *)
(* of twiddle factors; polyvec_ntt of the secret at key generation, and    *)
(* the bytes it is kept in; polyvec_ntt of a ciphertext's vector, the sum  *)
(* of the base multiplications, poly_invntt_tomont.  One action per        *)
(* butterfly layer, for the independent elements of a vector together;     *)
(* every cast to int16 that the C code makes is made here.                 *)
(***************************************************************************)
EXTENDS Codec

CONSTANTS
  Operands,  \* the pairs of vectors to multiply
  InBound    \* bound on the absolute value of their coefficients

KYBER_N == 256
Index == 0..(KYBER_N - 1)
Components == {1, 2, 3}  \* KYBER_K of them

ASSUME OperandsAssumption ==
  /\ InBound \in 0..9471
  /\ \A p \in Operands : \A h \in {1, 2} :
       /\ p[h] \in [Components -> [Index -> Int]]
       /\ \A c \in Components : \A i \in Index :
            -InBound <= p[h][c][i] /\ p[h][c][i] <= InBound

VARIABLES
  pc,    \* "table", "start", "nttF", "pack", "nttG", "mul", "inv", "scale", "done"
  tmp,   \* kyber_ntt_init's powers of zeta, as far as they are computed
  zetas, \* the table of twiddle factors
  pair,  \* the operands
  f,     \* skpv: the secret, then the key as it is read back
  g,     \* b: the ciphertext's vector
  prod,  \* the product
  len,   \* half the block size of the next layer
  k      \* the next power, then the next twiddle factor

vars == <<pc, tmp, zetas, pair, f, g, prod, len, k>>

Twiddle == 0..127

(* Reverse the low 7 bits of i.                                            *)
bitrev7(i) ==
  LET bit(b) == (i \div b) % 2
  IN 64 * bit(1) + 32 * bit(2) + 16 * bit(4) + 8 * bit(8)
     + 4 * bit(16) + 2 * bit(32) + bit(64)

center(x) ==
  LET y == IF x > KYBER_Q \div 2 THEN x - KYBER_Q ELSE x
  IN IF y < -(KYBER_Q \div 2) THEN y + KYBER_Q ELSE y

(* (KYBER_MONT * 17) % KYBER_Q, with C's sign.                             *)
MontZeta == -((-KYBER_MONT * 17) % KYBER_Q)

(* Mutant of Layer: r[j] is updated before r[j + len] is computed from it. *)
LayerInOrder(r) ==
  [i \in Index |->
     LET block == i \div (2 * len) IN
     IF i % (2 * len) < len
     THEN Wrap16(r[i] + fq_mul(zetas[k + block], r[i + len]))
     ELSE LET t == fq_mul(zetas[k + block], r[i])
          IN Wrap16(Wrap16(r[i - len] + t) - t)]

(* One layer of ntt: a butterfly on every pair len apart, one twiddle      *)
(* factor per block.                                                       *)
Layer(r) ==
  [i \in Index |->
     LET block == i \div (2 * len) IN
     IF i % (2 * len) < len
     THEN Wrap16(r[i] + fq_mul(zetas[k + block], r[i + len]))
     ELSE Wrap16(r[i - len] - fq_mul(zetas[k + block], r[i]))]

(* One layer of invntt, which takes the twiddle factors from the end.      *)
InvLayer(r) ==
  [i \in Index |->
     LET block == i \div (2 * len) IN
     IF i % (2 * len) < len
     THEN barrett_reduce(Wrap16(r[i] + r[i + len]))
     ELSE fq_mul(zetas[k - block], Wrap16(r[i] - r[i - len]))]

Layers(v) == [c \in Components |-> Layer(v[c])]

poly_reduce(r) == [i \in Index |-> barrett_reduce(r[i])]

(* basemul on slot i \div 2: a product modulo X^2 - zeta, where            *)
(* neighbouring slots use zeta and -zeta.                                  *)
poly_basemul_montgomery(a, b) ==
  [i \in Index |->
     LET zeta == IF i % 4 < 2 THEN zetas[64 + (i \div 4)] ELSE -zetas[64 + (i \div 4)] IN
     IF i % 2 = 0
     THEN Wrap16(fq_mul(fq_mul(a[i + 1], b[i + 1]), zeta) + fq_mul(a[i], b[i]))
     ELSE Wrap16(fq_mul(a[i - 1], b[i]) + fq_mul(a[i], b[i - 1]))]

(* What poly_frombytes reads back from the bytes of poly_tobytes, two      *)
(* coefficients at a time.                                                 *)
Unpacked(r) ==
  [i \in Index |->
     LET first == 2 * (i \div 2)
     IN poly_frombytes(poly_tobytes(<<r[first], r[first + 1]>>))[1 + (i % 2)]]

poly_add(a, b) == [i \in Index |-> Wrap16(a[i] + b[i])]

(* The three products, added up as int16 and reduced once.                 *)
polyvec_basemul_acc_montgomery(a, b) ==
  LET t(c) == poly_basemul_montgomery(a[c], b[c])
  IN poly_reduce(poly_add(poly_add(t(1), t(2)), t(3)))

Zero == [i \in Index |-> 0]
ZeroVec == [c \in Components |-> Zero]

Init ==
  /\ pc = "table"
  /\ tmp = [i \in Twiddle |-> IF i = 0 THEN KYBER_MONT ELSE 0]
  /\ zetas = [i \in Twiddle |-> 0]
  /\ pair = <<ZeroVec, ZeroVec>> /\ f = ZeroVec /\ g = ZeroVec /\ prod = Zero
  /\ len = 128 /\ k = 1

(* kyber_ntt_init, which the first transform calls: one power of zeta      *)
(* after the other, then the table in bit-reversed order.                  *)
Table ==
  /\ pc = "table"
  /\ IF k < 128
     THEN /\ tmp' = [tmp EXCEPT ![k] = fq_mul(tmp[k - 1], MontZeta)]
          /\ k' = k + 1
          /\ UNCHANGED <<zetas, pc>>
     ELSE /\ zetas' = [i \in Twiddle |-> center(tmp[bitrev7(i)])]
          /\ k' = 1 /\ pc' = "start"
          /\ UNCHANGED tmp
  /\ UNCHANGED <<pair, f, g, prod, len>>

(* The secret of a key generation, and a ciphertext's vector for later.    *)
Start ==
  /\ pc = "start"
  /\ pair' \in Operands
  /\ f' = pair'[1] /\ g' = pair'[2]
  /\ pc' = "nttF"
  /\ UNCHANGED <<tmp, zetas, prod, len, k>>

Blocks == 128 \div len

(* A layer of polyvec_ntt(&skpv) in indcpa_keypair_derand, or the          *)
(* poly_reduce of each poly_ntt.                                           *)
NttF ==
  /\ pc = "nttF"
  /\ IF len >= 2
     THEN /\ f' = Layers(f)
          /\ k' = k + Blocks /\ len' = len \div 2
          /\ UNCHANGED pc
     ELSE /\ f' = [c \in Components |-> poly_reduce(f[c])]
          /\ k' = 1 /\ len' = 128 /\ pc' = "pack"
  /\ UNCHANGED <<tmp, zetas, pair, g, prod>>

(* The key is written as bytes, which whoever decrypts reads back: a       *)
(* coefficient arrives in [0, q), not in the centred range it had.         *)
Pack ==
  /\ pc = "pack"
  /\ f' = [c \in Components |-> Unpacked(f[c])]
  /\ pc' = "nttG"
  /\ UNCHANGED <<tmp, zetas, pair, g, prod, len, k>>

(* A layer of polyvec_ntt(&b) in indcpa_dec or a shareholder.              *)
NttG ==
  /\ pc = "nttG"
  /\ IF len >= 2
     THEN /\ g' = Layers(g)
          /\ k' = k + Blocks /\ len' = len \div 2
          /\ UNCHANGED pc
     ELSE /\ g' = [c \in Components |-> poly_reduce(g[c])]
          /\ k' = 1 /\ len' = 128 /\ pc' = "mul"
  /\ UNCHANGED <<tmp, zetas, pair, f, prod>>

Multiply ==
  /\ pc = "mul"
  /\ prod' = polyvec_basemul_acc_montgomery(f, g)
  /\ k' = 127 /\ len' = 2 /\ pc' = "inv"
  /\ UNCHANGED <<tmp, zetas, pair, f, g>>

InvNtt ==
  /\ pc = "inv"
  /\ prod' = InvLayer(prod)
  /\ k' = k - Blocks /\ len' = 2 * len
  /\ pc' = IF len = 128 THEN "scale" ELSE "inv"
  /\ UNCHANGED <<tmp, zetas, pair, f, g>>

(* The loop that ends invntt: times mont^2 / 128.                          *)
Scale ==
  /\ pc = "scale"
  /\ prod' = [i \in Index |-> fq_mul(prod[i], 1441)]
  /\ pc' = "done"
  /\ UNCHANGED <<tmp, zetas, pair, f, g, len, k>>

Next == Table \/ Start \/ NttF \/ Pack \/ NttG \/ Multiply \/ InvNtt \/ Scale

Spec == Init /\ [][Next]_vars
-----------------------------------------------------------------------------
(* Coefficient i of the product of two elements of Z[X]/(X^256 + 1).       *)
RingProduct(a, b, i) ==
  LET term(j) == IF j <= i THEN a[j] * b[i - j] ELSE -(a[j] * b[KYBER_N + i - j])
      row(h) == LET sum[j \in 0..16] ==
                      IF j = 0 THEN 0 ELSE (sum[j - 1] + term(16 * h + j - 1)) % KYBER_Q
                IN sum[16]
      rows[h \in 0..16] == IF h = 0 THEN 0 ELSE (rows[h - 1] + row(h - 1)) % KYBER_Q
  IN rows[16]

(* The transforms compute the inner product in the ring, on which a        *)
(* shareholder's partial and indcpa_dec both rest: polyvec_ntt, the sum of *)
(* base multiplications and poly_invntt_tomont, in that order.             *)
ProductInRing ==
  pc = "done" =>
    \A i \in Index :
      LET term(c) == RingProduct(pair[1][c], pair[2][c], i)
      IN (prod[i] - (term(1) + term(2) + term(3))) % KYBER_Q = 0

(* Layers of ntt that are behind, by the len of the next one.              *)
LayersDone ==
  CASE len = 128 -> 0 [] len = 64 -> 1 [] len = 32 -> 2 [] len = 16 -> 3
    [] len = 8 -> 4 [] len = 4 -> 5 [] len = 2 -> 6 [] OTHER -> 7

Within(r, bound) == \A i \in Index : -bound <= r[i] /\ r[i] <= bound

WithinVec(v, bound) == \A c \in Components : Within(v[c], bound)

(* The lazy additions of the transforms stay inside int16: each layer of   *)
(* ntt adds less than q, a Barrett reduction brings a value to q/2, and    *)
(* the inverse transform reduces as it goes (ntt.c:77-80, 103-106).        *)
CoefficientsFit ==
  /\ pc = "nttF" => WithinVec(f, InBound + 3328 * LayersDone) /\ WithinVec(g, InBound)
  /\ pc = "pack" => WithinVec(f, 1664) /\ WithinVec(g, InBound)
  /\ pc = "nttG" => WithinVec(f, 3328) /\ WithinVec(g, InBound + 3328 * LayersDone)
  /\ pc = "mul"  => WithinVec(f, 3328) /\ WithinVec(g, 1664)
  /\ pc \in {"inv", "scale", "done"} => Within(prod, 3328)
=============================================================================
