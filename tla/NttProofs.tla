------------------------------ MODULE NttProofs ------------------------------
(***************************************************************************)
(* The reductions for every int16 and int32 input they are meant for; for  *)
(* every operand, the bound on the coefficients along the transforms; and  *)
(* that the transforms compute the product in the ring.                    *)
(***************************************************************************)
EXTENDS Ntt, TLAPS

(* x is an integer of absolute value at most b.                            *)
Abs(x, b) == x \in Int /\ -b <= x /\ x <= b

LEMMA WrapFits ==
  ASSUME NEW x \in Int, -32768 <= x, x <= 32767
  PROVE  Wrap16(x) = x
BY SMT DEF Wrap16

LEMMA WrapCongruent ==
  ASSUME NEW x \in Int
  PROVE  /\ Wrap16(x) \in Int /\ -32768 <= Wrap16(x) /\ Wrap16(x) <= 32767
         /\ \E j \in Int : x - Wrap16(x) = 65536 * j
<1> DEFINE j == (x + 32768) \div 65536
<1>1. j \in Int /\ x - Wrap16(x) = 65536 * j
  BY SMT DEF Wrap16
<1>2. Wrap16(x) \in Int /\ -32768 <= Wrap16(x) /\ Wrap16(x) <= 32767
  BY SMT DEF Wrap16
<1> QED BY <1>1, <1>2

(* montgomery_reduce, on the inputs reduce.h:22 allows, returns a value    *)
(* between -q and q, exclusively, that times 2^16 is congruent to its      *)
(* argument.                                                               *)
THEOREM MontgomeryRange ==
  ASSUME NEW a \in Int, -(3329 * 32768) <= a, a < 3329 * 32768
  PROVE  /\ Abs(montgomery_reduce(a), 3328)
         /\ \E m \in Int : 65536 * montgomery_reduce(a) = a - 3329 * m
<1> DEFINE w == Wrap16(a)
           t == Wrap16(w * (-3327))
           d == (a - t * 3329) \div 65536
<1>1. w \in Int /\ \E j \in Int : a - w = 65536 * j
  BY SMT, WrapCongruent
<1>2. w * (-3327) \in Int
  BY SMT, <1>1
<1>3. /\ t \in Int /\ -32768 <= t /\ t <= 32767
      /\ \E j \in Int : w * (-3327) - t = 65536 * j
  BY SMT, <1>2, WrapCongruent
<1> HIDE DEF w, t
<1>4. PICK j \in Int : a - w = 65536 * j
  BY <1>1
<1>5. PICK l \in Int : w * (-3327) - t = 65536 * l
  BY <1>3
<1>6. a - t * 3329 = 65536 * (j + 169 * w + 3329 * l)
  BY SMT, <1>1, <1>3, <1>4, <1>5
<1>7. d = j + 169 * w + 3329 * l
  BY SMT, <1>1, <1>3, <1>4, <1>5, <1>6
<1>8. 65536 * d = a - t * 3329 /\ d \in Int
  BY SMT, <1>1, <1>3, <1>6, <1>7
<1> HIDE DEF d
<1>9. -3328 <= d /\ d <= 3328
  BY SMT, <1>3, <1>8
<1>10. Wrap16(d) = d
  BY SMT, <1>8, <1>9, WrapFits
<1>11. montgomery_reduce(a) = d
  BY SMT, <1>10 DEF montgomery_reduce, KYBER_Q, KYBER_QINV, d, t, w
<1> QED BY SMT, <1>3, <1>8, <1>9, <1>11 DEF Abs

(* barrett_reduce returns the centred representative of every int16        *)
(* (reduce.h:26).                                                          *)
THEOREM BarrettRange ==
  ASSUME NEW a \in Int, -32768 <= a, a <= 32767
  PROVE  /\ Abs(barrett_reduce(a), 1664)
         /\ \E m \in Int : barrett_reduce(a) = a - 3329 * m
<1> DEFINE t == (20159 * a + 33554432) \div 67108864
<1>1. BarrettV = 20159
  BY SMT DEF BarrettV, KYBER_Q
<1>2. t \in Int /\ -1664 <= a - t * 3329 /\ a - t * 3329 <= 1664
  BY SMT
<1>3. barrett_reduce(a) = Wrap16(a - t * 3329)
  BY SMT, <1>1 DEF barrett_reduce, KYBER_Q
<1> HIDE DEF t
<1>4. barrett_reduce(a) = a - t * 3329
  BY SMT, <1>2, <1>3, WrapFits
<1> QED BY SMT, <1>2, <1>4 DEF Abs

(* The product of two bounded integers.                                    *)
LEMMA ProductBound ==
  ASSUME NEW a \in Int, NEW b \in Int, NEW A \in Nat, NEW B \in Nat,
         -A <= a, a <= A, -B <= b, b <= B
  PROVE  a * b \in Int /\ -(A * B) <= a * b /\ a * b <= A * B
<1>1. CASE b >= 0
  <2>1. a * b <= A * b /\ -(A * b) <= a * b
    BY SMT, <1>1
  <2>2. A * b <= A * B
    BY SMT, <1>1
  <2> QED BY SMT, <2>1, <2>2
<1>2. CASE b < 0
  <2> DEFINE c == -b
  <2>1. c \in Int /\ 0 <= c /\ c <= B /\ a * b = -(a * c)
    BY SMT, <1>2
  <2> HIDE DEF c
  <2>2. a * c <= A * c /\ -(A * c) <= a * c
    BY SMT, <2>1
  <2>3. A * c <= A * B
    BY SMT, <2>1
  <2> QED BY SMT, <2>1, <2>2, <2>3
<1> QED BY SMT, <1>1, <1>2

(* A product of a twiddle factor, or of a reduced value, with any int16.   *)
LEMMA FqMulRange ==
  ASSUME NEW a, NEW b, Abs(a, 3328), Abs(b, 32767)
  PROVE  Abs(fq_mul(a, b), 3328)
<1>1. a \in Int /\ b \in Int /\ -3328 <= a /\ a <= 3328 /\ -32767 <= b /\ b <= 32767
  BY SMT DEF Abs
<1>2. a * b \in Int /\ -(3328 * 32767) <= a * b /\ a * b <= 3328 * 32767
  BY SMT, <1>1, ProductBound
<1>3. -(3329 * 32768) <= a * b /\ a * b < 3329 * 32768
  BY SMT, <1>2
<1> QED BY SMT, <1>2, <1>3, MontgomeryRange DEF fq_mul
-----------------------------------------------------------------------------
(* Where the forward and the inverse transform can stand between layers.   *)
Ahead  == {<<128, 1>>, <<64, 2>>, <<32, 4>>, <<16, 8>>, <<8, 16>>, <<4, 32>>, <<2, 64>>}
Behind == {<<2, 127>>, <<4, 63>>, <<8, 31>>, <<16, 15>>, <<32, 7>>, <<64, 3>>, <<128, 1>>}

Vector(r, b) == r \in [Index -> Int] /\ Within(r, b)

Tables ==
  /\ tmp \in [Twiddle -> Int] /\ \A i \in Twiddle : Abs(tmp[i], 3328)
  /\ zetas \in [Twiddle -> Int] /\ \A i \in Twiddle : Abs(zetas[i], 1664)

Position ==
  /\ pc = "table" => k \in Int /\ 1 <= k /\ k <= 128 /\ len = 128
  /\ pc \in {"start", "pack"} => k = 1 /\ len = 128
  /\ pc \in {"nttF", "nttG"} => <<len, k>> \in Ahead \cup {<<1, 128>>}
  /\ pc = "inv" => <<len, k>> \in Behind

NttInv ==
  /\ pc \in {"table", "start", "nttF", "pack", "nttG", "mul", "inv", "scale", "done"}
  /\ f \in [Components -> [Index -> Int]] /\ g \in [Components -> [Index -> Int]]
  /\ prod \in [Index -> Int]
  /\ Tables /\ Position /\ CoefficientsFit

LEMMA IndexIs == \A i : i \in Index <=> i \in Int /\ 0 <= i /\ i <= 255
BY SMT DEF Index, KYBER_N

LEMMA TwiddleIs == \A i : i \in Twiddle <=> i \in Int /\ 0 <= i /\ i <= 127
BY SMT DEF Twiddle

(* The pair of a coefficient and its twiddle factor exist, in each layer.  *)
LEMMA ButterflyIndices ==
  ASSUME NEW L, NEW K, <<L, K>> \in Ahead, NEW i \in Index
  PROVE  /\ L \in Nat /\ K \in Nat /\ i \in Int
         /\ i % (2 * L) < L => i + L \in Index
         /\ ~(i % (2 * L) < L) => i - L \in Index
         /\ K + (i \div (2 * L)) \in Twiddle
<1>1. i \in Int /\ 0 <= i /\ i <= 255
  BY SMT, IndexIs
<1>2. CASE L = 128 /\ K = 1
  BY SMT, <1>1, <1>2, IndexIs, TwiddleIs
<1>3. CASE L = 64 /\ K = 2
  BY SMT, <1>1, <1>3, IndexIs, TwiddleIs
<1>4. CASE L = 32 /\ K = 4
  BY SMT, <1>1, <1>4, IndexIs, TwiddleIs
<1>5. CASE L = 16 /\ K = 8
  BY SMT, <1>1, <1>5, IndexIs, TwiddleIs
<1>6. CASE L = 8 /\ K = 16
  BY SMT, <1>1, <1>6, IndexIs, TwiddleIs
<1>7. CASE L = 4 /\ K = 32
  BY SMT, <1>1, <1>7, IndexIs, TwiddleIs
<1>8. CASE L = 2 /\ K = 64
  BY SMT, <1>1, <1>8, IndexIs, TwiddleIs
<1> QED BY SMT, <1>2, <1>3, <1>4, <1>5, <1>6, <1>7, <1>8 DEF Ahead

LEMMA InvButterflyIndices ==
  ASSUME NEW L, NEW K, <<L, K>> \in Behind, NEW i \in Index
  PROVE  /\ L \in Nat /\ K \in Nat /\ i \in Int
         /\ i % (2 * L) < L => i + L \in Index
         /\ ~(i % (2 * L) < L) => i - L \in Index
         /\ K - (i \div (2 * L)) \in Twiddle
<1>1. i \in Int /\ 0 <= i /\ i <= 255
  BY SMT, IndexIs
<1>2. CASE L = 128 /\ K = 1
  BY SMT, <1>1, <1>2, IndexIs, TwiddleIs
<1>3. CASE L = 64 /\ K = 3
  BY SMT, <1>1, <1>3, IndexIs, TwiddleIs
<1>4. CASE L = 32 /\ K = 7
  BY SMT, <1>1, <1>4, IndexIs, TwiddleIs
<1>5. CASE L = 16 /\ K = 15
  BY SMT, <1>1, <1>5, IndexIs, TwiddleIs
<1>6. CASE L = 8 /\ K = 31
  BY SMT, <1>1, <1>6, IndexIs, TwiddleIs
<1>7. CASE L = 4 /\ K = 63
  BY SMT, <1>1, <1>7, IndexIs, TwiddleIs
<1>8. CASE L = 2 /\ K = 127
  BY SMT, <1>1, <1>8, IndexIs, TwiddleIs
<1> QED BY SMT, <1>2, <1>3, <1>4, <1>5, <1>6, <1>7, <1>8 DEF Behind

(* A layer of ntt adds less than q to the bound, while that fits int16.    *)
LEMMA LayerBound ==
  ASSUME Tables, <<len, k>> \in Ahead, NEW b \in Nat, b <= 29439,
         NEW r, Vector(r, b)
  PROVE  Vector(Layer(r), b + 3328)
<1> SUFFICES ASSUME NEW i \in Index
             PROVE  Abs(Layer(r)[i], b + 3328)
  BY SMT DEF Vector, Within, Abs, Layer
<1> DEFINE low == i % (2 * len) < len
           z   == zetas[k + (i \div (2 * len))]
<1>1. /\ low => i + len \in Index
      /\ ~low => i - len \in Index
      /\ k + (i \div (2 * len)) \in Twiddle
  BY ButterflyIndices
<1>2. Abs(z, 3328)
  BY SMT, <1>1 DEF Tables, Abs
<1> HIDE DEF z
<1>3. \A h \in Index : Abs(r[h], b)
  BY SMT DEF Vector, Within, Abs
<1>4. \A h \in Index : Abs(fq_mul(z, r[h]), 3328)
  <2> TAKE h \in Index
  <2>1. Abs(r[h], 32767)
    BY SMT, <1>3 DEF Abs
  <2> QED BY <1>2, <2>1, FqMulRange
<1> DEFINE u == fq_mul(z, r[i + len])
           v == fq_mul(z, r[i])
<1>5. Layer(r)[i] = IF low THEN Wrap16(r[i] + u) ELSE Wrap16(r[i - len] - v)
  BY SMT DEF Layer, z
<1>6. CASE low
  <2>1. Abs(u, 3328) /\ Abs(r[i], b)
    BY <1>1, <1>3, <1>4, <1>6
  <2>2. Layer(r)[i] = Wrap16(r[i] + u)
    BY <1>5, <1>6
  <2> HIDE DEF u
  <2>3. Wrap16(r[i] + u) = r[i] + u
    BY SMT, <2>1, WrapFits DEF Abs
  <2> QED BY SMT, <2>1, <2>2, <2>3 DEF Abs
<1>7. CASE ~low
  <2>1. Abs(v, 3328) /\ Abs(r[i - len], b)
    BY <1>1, <1>3, <1>4, <1>7
  <2>2. Layer(r)[i] = Wrap16(r[i - len] - v)
    BY <1>5, <1>7
  <2> HIDE DEF v
  <2>3. Wrap16(r[i - len] - v) = r[i - len] - v
    BY SMT, <2>1, WrapFits DEF Abs
  <2> QED BY SMT, <2>1, <2>2, <2>3 DEF Abs
<1> QED BY <1>6, <1>7

(* A Barrett reduction of any vector brings it to q/2.                     *)
LEMMA ReduceBound ==
  ASSUME NEW r \in [Index -> Int], Within(r, 32767)
  PROVE  Vector(poly_reduce(r), 1664)
<1> SUFFICES ASSUME NEW i \in Index
             PROVE  Abs(barrett_reduce(r[i]), 1664)
  BY SMT DEF Vector, Within, Abs, poly_reduce
<1>1. r[i] \in Int /\ -32768 <= r[i] /\ r[i] <= 32767
  BY SMT DEF Within
<1> QED BY SMT, <1>1, BarrettRange

(* A layer of invntt keeps the bound q - 1.                                *)
LEMMA InvLayerBound ==
  ASSUME Tables, <<len, k>> \in Behind, NEW r, Vector(r, 3328)
  PROVE  Vector(InvLayer(r), 3328)
<1> SUFFICES ASSUME NEW i \in Index
             PROVE  Abs(InvLayer(r)[i], 3328)
  BY SMT DEF Vector, Within, Abs, InvLayer
<1> DEFINE low == i % (2 * len) < len
           z   == zetas[k - (i \div (2 * len))]
           u   == r[i] + r[i + len]
           v   == r[i] - r[i - len]
<1>1. /\ low => i + len \in Index
      /\ ~low => i - len \in Index
      /\ k - (i \div (2 * len)) \in Twiddle
  BY InvButterflyIndices
<1>2. Abs(z, 3328)
  BY SMT, <1>1 DEF Tables, Abs
<1> HIDE DEF z
<1>3. \A h \in Index : Abs(r[h], 3328)
  BY SMT DEF Vector, Within, Abs
<1>4. InvLayer(r)[i] = IF low THEN barrett_reduce(Wrap16(u)) ELSE fq_mul(z, Wrap16(v))
  BY SMT DEF InvLayer, z
<1>5. CASE low
  <2>1. Abs(r[i], 3328) /\ Abs(r[i + len], 3328)
    BY <1>1, <1>3, <1>5
  <2>2. Abs(u, 6656)
    BY SMT, <2>1 DEF Abs
  <2>3. InvLayer(r)[i] = barrett_reduce(Wrap16(u))
    BY <1>4, <1>5
  <2> HIDE DEF u
  <2>4. Wrap16(u) = u
    BY SMT, <2>2, WrapFits DEF Abs
  <2>5. Abs(barrett_reduce(u), 1664)
    BY SMT, <2>2, BarrettRange DEF Abs
  <2> QED BY SMT, <2>3, <2>4, <2>5 DEF Abs
<1>6. CASE ~low
  <2>1. Abs(r[i], 3328) /\ Abs(r[i - len], 3328)
    BY <1>1, <1>3, <1>6
  <2>2. Abs(v, 32767)
    BY SMT, <2>1 DEF Abs
  <2>3. InvLayer(r)[i] = fq_mul(z, Wrap16(v))
    BY <1>4, <1>6
  <2> HIDE DEF v
  <2>4. Wrap16(v) = v
    BY SMT, <2>2, WrapFits DEF Abs
  <2>5. Abs(fq_mul(z, v), 3328)
    BY <1>2, <2>2, FqMulRange
  <2> QED BY <2>3, <2>4, <2>5
<1> QED BY <1>5, <1>6

(* A slot of the base multiplication of a key read back from its bytes     *)
(* with a reduced vector is below 2q.                                      *)
LEMMA BasemulBound ==
  ASSUME Tables, NEW a, NEW b, Vector(a, 3328), Vector(b, 1664)
  PROVE  Vector(poly_basemul_montgomery(a, b), 6656)
<1> SUFFICES ASSUME NEW i \in Index
             PROVE  Abs(poly_basemul_montgomery(a, b)[i], 6656)
  BY SMT DEF Vector, Within, Abs, poly_basemul_montgomery
<1> DEFINE z == IF i % 4 < 2 THEN zetas[64 + (i \div 4)] ELSE -zetas[64 + (i \div 4)]
           u == fq_mul(fq_mul(a[i + 1], b[i + 1]), z) + fq_mul(a[i], b[i])
           v == fq_mul(a[i - 1], b[i]) + fq_mul(a[i], b[i - 1])
<1>1. /\ 64 + (i \div 4) \in Twiddle
      /\ i % 2 = 0 => i + 1 \in Index
      /\ i % 2 # 0 => i - 1 \in Index
  BY SMT, IndexIs, TwiddleIs
<1>2. Abs(z, 3328) /\ Abs(z, 32767)
  BY SMT, <1>1 DEF Tables, Abs
<1> HIDE DEF z
<1>3. \A h \in Index : Abs(a[h], 3328) /\ Abs(b[h], 32767)
  BY SMT DEF Vector, Within, Abs
<1>4. poly_basemul_montgomery(a, b)[i] = IF i % 2 = 0 THEN Wrap16(u) ELSE Wrap16(v)
  BY SMT DEF poly_basemul_montgomery, z
<1>5. \A x \in Int, y \in Int : Abs(x, 3328) /\ Abs(y, 3328) =>
        Abs(Wrap16(x + y), 6656)
  <2> TAKE x \in Int, y \in Int
  <2> HAVE Abs(x, 3328) /\ Abs(y, 3328)
  <2>1. x + y \in Int /\ -6656 <= x + y /\ x + y <= 6656
    BY SMT DEF Abs
  <2>2. Wrap16(x + y) = x + y
    BY SMT, <2>1, WrapFits
  <2> QED BY SMT, <2>1, <2>2 DEF Abs
<1>6. CASE i % 2 = 0
  <2>1. Abs(fq_mul(a[i + 1], b[i + 1]), 3328) /\ Abs(fq_mul(a[i], b[i]), 3328)
    BY <1>1, <1>3, <1>6, FqMulRange
  <2>2. Abs(fq_mul(fq_mul(a[i + 1], b[i + 1]), z), 3328)
    BY <1>2, <2>1, FqMulRange
  <2>3. Abs(Wrap16(u), 6656)
    BY <1>5, <2>1, <2>2 DEF Abs
  <2> QED BY <1>4, <1>6, <2>3
<1>7. CASE i % 2 # 0
  <2>1. Abs(fq_mul(a[i - 1], b[i]), 3328) /\ Abs(fq_mul(a[i], b[i - 1]), 3328)
    BY <1>1, <1>3, <1>7, FqMulRange
  <2>2. Abs(Wrap16(v), 6656)
    BY <1>5, <2>1 DEF Abs
  <2> QED BY <1>4, <1>7, <2>2
<1> QED BY <1>6, <1>7

(* Adding two vectors whose bounds fit together in int16.                  *)
LEMMA AddBound ==
  ASSUME NEW A \in Nat, NEW B \in Nat, A + B <= 32767,
         NEW a, NEW b, Vector(a, A), Vector(b, B)
  PROVE  Vector(poly_add(a, b), A + B)
<1> SUFFICES ASSUME NEW i \in Index
             PROVE  Abs(poly_add(a, b)[i], A + B)
  BY SMT DEF Vector, Within, Abs, poly_add
<1>1. Abs(a[i], A) /\ Abs(b[i], B)
  BY SMT DEF Vector, Within, Abs
<1>2. Wrap16(a[i] + b[i]) = a[i] + b[i]
  BY SMT, <1>1, WrapFits DEF Abs
<1>3. poly_add(a, b)[i] = a[i] + b[i]
  BY <1>2 DEF poly_add
<1> QED BY SMT, <1>1, <1>3 DEF Abs

(* The three products add up to less than 6q, and are reduced to q/2.      *)
LEMMA AccBound ==
  ASSUME Tables, NEW a, NEW b,
         \A c \in Components : Vector(a[c], 3328) /\ Vector(b[c], 1664)
  PROVE  Vector(polyvec_basemul_acc_montgomery(a, b), 1664)
<1> DEFINE t(c) == poly_basemul_montgomery(a[c], b[c])
           two   == poly_add(t(1), t(2))
           sum   == poly_add(two, t(3))
<1>1. \A c \in Components : Vector(t(c), 6656)
  BY BasemulBound
<1>2. Vector(t(1), 6656) /\ Vector(t(2), 6656) /\ Vector(t(3), 6656)
  BY <1>1 DEF Components
<1>3. polyvec_basemul_acc_montgomery(a, b) = poly_reduce(sum)
  BY DEF polyvec_basemul_acc_montgomery
<1> HIDE DEF t
<1>4. 6656 \in Nat /\ 6656 + 6656 = 13312 /\ 6656 + 6656 <= 32767
  BY SMT
<1>5. Vector(two, 13312)
  BY <1>2, <1>4, AddBound
<1> HIDE DEF two
<1>6. 13312 \in Nat /\ 13312 + 6656 = 19968 /\ 13312 + 6656 <= 32767
  BY SMT
<1>7. Vector(sum, 19968)
  BY <1>2, <1>4, <1>5, <1>6, AddBound
<1> HIDE DEF sum
<1>8. sum \in [Index -> Int] /\ Within(sum, 32767)
  BY SMT, <1>7 DEF Vector, Within
<1> QED BY <1>3, <1>8, ReduceBound

(* Two coefficients that share three bytes arrive in [0, q).               *)
LEMMA TwoArrive ==
  ASSUME NEW c, NEW d, Abs(c, 1664), Abs(d, 1664)
  PROVE  poly_frombytes(poly_tobytes(<<c, d>>)) = <<Canonical(c), Canonical(d)>>
<1> DEFINE u == Canonical(c)
           v == Canonical(d)
           b1 == u % 256
           b2 == (u \div 256) + ((v * 16) % 256)
           b3 == v \div 16
<1>1. /\ u \in Int /\ 0 <= u /\ u <= 3328
      /\ v \in Int /\ 0 <= v /\ v <= 3328
  BY SMT DEF Abs, Canonical, KYBER_Q
<1>2. poly_tobytes(<<c, d>>) = <<b1, b2, b3>>
  BY DEF poly_tobytes
<1> HIDE DEF u, v
<1>3. (b1 + 256 * b2) % 4096 = u
  BY SMT, <1>1
<1>4. ((b2 \div 16) + 16 * b3) % 4096 = v
  BY SMT, <1>1
<1> HIDE DEF b1, b2, b3
<1>5. poly_frombytes(<<b1, b2, b3>>)
        = <<(b1 + 256 * b2) % 4096, ((b2 \div 16) + 16 * b3) % 4096>>
  BY DEF poly_frombytes
<1> QED BY <1>2, <1>3, <1>4, <1>5 DEF u, v

(* The bytes of a reduced vector give each coefficient back, in [0, q).    *)
LEMMA UnpackedIs ==
  ASSUME NEW r, Vector(r, 1664), NEW i \in Index
  PROVE  /\ Unpacked(r)[i] = Canonical(r[i])
         /\ Abs(Unpacked(r)[i], 3328)
         /\ Unpacked(r)[i] = r[i] \/ Unpacked(r)[i] = r[i] + KYBER_Q
<1> DEFINE first == 2 * (i \div 2)
           two   == poly_frombytes(poly_tobytes(<<r[first], r[first + 1]>>))
<1>1. /\ first \in Index /\ first + 1 \in Index
      /\ \/ i = first /\ 1 + (i % 2) = 1
         \/ i = first + 1 /\ 1 + (i % 2) = 2
  BY SMT, IndexIs
<1>2. Unpacked(r)[i] = two[1 + (i % 2)]
  BY DEF Unpacked
<1> HIDE DEF first
<1>3. \A h \in Index : Abs(r[h], 1664)
  BY SMT DEF Vector, Within, Abs
<1>4. two = <<Canonical(r[first]), Canonical(r[first + 1])>>
  BY <1>1, <1>3, TwoArrive
<1> HIDE DEF two
<1>5. Unpacked(r)[i] = Canonical(r[i])
  <2>1. CASE i = first /\ 1 + (i % 2) = 1
    BY <1>2, <1>4, <2>1
  <2>2. CASE i = first + 1 /\ 1 + (i % 2) = 2
    BY <1>2, <1>4, <2>2
  <2> QED BY <1>1, <2>1, <2>2
<1>6. \A y : Abs(y, 1664) =>
        Abs(Canonical(y), 3328) /\ (Canonical(y) = y \/ Canonical(y) = y + KYBER_Q)
  BY SMT DEF Abs, Canonical, KYBER_Q
<1> QED BY <1>3, <1>5, <1>6

LEMMA UnpackedBound ==
  ASSUME NEW r, Vector(r, 1664)
  PROVE  Vector(Unpacked(r), 3328)
<1>1. \A i \in Index : Abs(Unpacked(r)[i], 3328)
  BY UnpackedIs
<1>2. Unpacked(r) = [i \in Index |-> Unpacked(r)[i]]
  BY DEF Unpacked
<1> QED BY <1>1, <1>2 DEF Vector, Within, Abs

(* The table kyber_ntt_init builds is centred, one power at a time.        *)
LEMMA PowerBound ==
  ASSUME NEW x, Abs(x, 3328)
  PROVE  Abs(fq_mul(x, MontZeta), 3328)
<1>1. MontZeta = -1103
  BY SMT DEF MontZeta, KYBER_MONT, KYBER_Q
<1>2. Abs(MontZeta, 32767)
  BY SMT, <1>1 DEF Abs
<1> QED BY <1>2, FqMulRange

LEMMA CenterBound ==
  ASSUME NEW x, Abs(x, 3328)
  PROVE  Abs(center(x), 1664)
BY SMT DEF Abs, center, KYBER_Q

LEMMA BitrevTwiddle ==
  ASSUME NEW i \in Twiddle
  PROVE  bitrev7(i) \in Twiddle
<1> DEFINE bit(b) == (i \div b) % 2
<1>1. \A b \in {1, 2, 4, 8, 16, 32, 64} : bit(b) \in Int /\ 0 <= bit(b) /\ bit(b) <= 1
  BY SMT, TwiddleIs
<1>2. bitrev7(i) = 64 * bit(1) + 32 * bit(2) + 16 * bit(4) + 8 * bit(8)
                   + 4 * bit(16) + 2 * bit(32) + bit(64)
  BY DEF bitrev7
<1> HIDE DEF bit
<1> QED BY SMT, <1>1, <1>2, TwiddleIs
-----------------------------------------------------------------------------
LEMMA NttInitInv == Init => NttInv
<1> SUFFICES ASSUME Init PROVE NttInv
  OBVIOUS
<1>1. Zero \in [Index -> Int]
  BY SMT DEF Zero
<1>2. Tables
  BY SMT DEF Init, Tables, Abs, KYBER_MONT
<1>3. Position /\ CoefficientsFit
  BY SMT DEF Init, Position, CoefficientsFit
<1> QED BY <1>1, <1>2, <1>3 DEF Init, NttInv, ZeroVec

(* A transform's step, on whichever operand r it works.                    *)
LEMMA ForwardStep ==
  ASSUME Tables, <<len, k>> \in Ahead \cup {<<1, 128>>}, NEW r,
         Vector(r, InBound + 3328 * LayersDone)
  PROVE  /\ len >= 2 /\ len' = len \div 2 =>
              Vector(Layer(r), InBound + 3328 * LayersDone')
         /\ ~(len >= 2) => Vector(poly_reduce(r), 1664)
<1>1. InBound \in Nat /\ InBound <= 9471
  BY SMT, OperandsAssumption
<1>2. LayersDone \in Nat /\ LayersDone <= 7
  BY SMT DEF LayersDone
<1>3. CASE len >= 2
  <2>1. <<len, k>> \in Ahead
    BY SMT, <1>3 DEF Ahead
  <2>2. len' = len \div 2 => LayersDone' = LayersDone + 1 /\ LayersDone <= 6
    BY SMT, <2>1 DEF Ahead, LayersDone
  <2>3. ASSUME len' = len \div 2
        PROVE  Vector(Layer(r), InBound + 3328 * LayersDone')
    <3>1. InBound + 3328 * LayersDone \in Nat /\ InBound + 3328 * LayersDone <= 29439
      BY SMT, <1>1, <1>2, <2>2, <2>3
    <3>2. Vector(Layer(r), InBound + 3328 * LayersDone + 3328)
      BY <2>1, <3>1, LayerBound
    <3>3. InBound + 3328 * LayersDone + 3328 = InBound + 3328 * LayersDone'
      BY SMT, <1>1, <1>2, <2>2, <2>3
    <3> QED BY <3>2, <3>3
  <2> QED BY <1>3, <2>3
<1>4. CASE ~(len >= 2)
  <2>1. InBound + 3328 * LayersDone <= 32767
    BY SMT, <1>1, <1>2
  <2>2. r \in [Index -> Int] /\ Within(r, 32767)
    BY SMT, <1>1, <1>2, <2>1 DEF Vector, Within
  <2> QED BY <1>4, <2>2, ReduceBound
<1> QED BY <1>3, <1>4

LEMMA InBoundIs == InBound \in Nat /\ InBound <= 9471
BY SMT, OperandsAssumption

LEMMA ForwardPosition ==
  ASSUME <<len, k>> \in Ahead \cup {<<1, 128>>}, len >= 2
  PROVE  <<len \div 2, k + Blocks>> \in Ahead \cup {<<1, 128>>}
<1>1. <<len, k>> \in Ahead
  BY SMT DEF Ahead
<1> QED BY SMT, <1>1 DEF Ahead, Blocks

LEMMA NttNextInv == NttInv /\ [Next]_vars => NttInv'
<1> SUFFICES ASSUME NttInv, [Next]_vars PROVE NttInv'
  OBVIOUS
<1> USE DEF NttInv
<1>1. CASE Table
  <2>1. pc = "table" /\ k \in Int /\ 1 <= k /\ k <= 128 /\ len = 128
    BY SMT, <1>1 DEF Table, Position
  <2>2. Position' /\ CoefficientsFit'
    BY SMT, <1>1, <2>1 DEF Table, Position, CoefficientsFit
  <2>3. Tables'
    <3>1. CASE k < 128
      <4>1. k - 1 \in Twiddle
        BY SMT, <2>1, <3>1, TwiddleIs
      <4>2. Abs(fq_mul(tmp[k - 1], MontZeta), 3328)
        BY <4>1, PowerBound DEF Tables
      <4> QED BY SMT, <1>1, <3>1, <4>2 DEF Table, Tables, Abs
    <3>2. CASE ~(k < 128)
      <4>1. \A i \in Twiddle : Abs(center(tmp[bitrev7(i)]), 1664)
        BY BitrevTwiddle, CenterBound DEF Tables
      <4>2. zetas' = [i \in Twiddle |-> center(tmp[bitrev7(i)])] /\ UNCHANGED tmp
        BY <1>1, <3>2 DEF Table
      <4> HIDE DEF NttInv
      <4>3. zetas' \in [Twiddle -> Int] /\ \A i \in Twiddle : Abs(zetas'[i], 1664)
        BY SMT, <4>1, <4>2 DEF Abs
      <4> QED BY <4>2, <4>3 DEF Tables, NttInv
    <3> QED BY <3>1, <3>2
  <2> QED BY <1>1, <2>1, <2>2, <2>3 DEF Table
<1>2. CASE Start
  <2>1. Tables' /\ Position'
    BY SMT, <1>2 DEF Start, Tables, Position, Ahead
  <2>2. /\ f' \in [Components -> [Index -> Int]] /\ WithinVec(f', InBound)
        /\ g' \in [Components -> [Index -> Int]] /\ WithinVec(g', InBound)
    BY SMT, <1>2, OperandsAssumption DEF Start, WithinVec, Within
  <2>3. LayersDone' = 0
    BY SMT, <1>2 DEF Start, Position, LayersDone
  <2>4. CoefficientsFit'
    BY SMT, <1>2, <2>2, <2>3, InBoundIs DEF Start, CoefficientsFit, WithinVec, Within
  <2> QED BY <1>2, <2>1, <2>2, <2>4 DEF Start
<1>3. CASE NttF
  <2>1. Tables /\ <<len, k>> \in Ahead \cup {<<1, 128>>} /\ WithinVec(g, InBound)
    BY <1>3 DEF NttF, Position, CoefficientsFit
  <2>2. \A c \in Components : Vector(f[c], InBound + 3328 * LayersDone)
    BY <1>3 DEF NttF, CoefficientsFit, Vector, WithinVec
  <2>3. Tables'
    BY <1>3, <2>1 DEF NttF, Tables
  <2>4. CASE len >= 2
    <3>1. f' = [c \in Components |-> Layer(f[c])] /\ len' = len \div 2 /\ k' = k + Blocks
      BY <1>3, <2>4 DEF NttF, Layers
    <3>2. \A c \in Components : Vector(Layer(f[c]), InBound + 3328 * LayersDone')
      BY <2>1, <2>2, <2>4, <3>1, ForwardStep
    <3>3. f' \in [Components -> [Index -> Int]] /\ WithinVec(f', InBound + 3328 * LayersDone')
      BY <3>1, <3>2 DEF Vector, WithinVec
    <3>4. <<len', k'>> \in Ahead \cup {<<1, 128>>}
      BY <2>1, <2>4, <3>1, ForwardPosition
    <3>5. pc' = "nttF" /\ UNCHANGED <<g, prod>>
      BY <1>3, <2>4 DEF NttF
    <3> QED BY <2>1, <2>3, <3>3, <3>4, <3>5 DEF Position, CoefficientsFit, WithinVec, Within
  <2>5. CASE ~(len >= 2)
    <3>1. f' = [c \in Components |-> poly_reduce(f[c])]
      BY <1>3, <2>5 DEF NttF
    <3>2. \A c \in Components : Vector(poly_reduce(f[c]), 1664)
      BY <2>1, <2>2, <2>5, ForwardStep
    <3>3. f' \in [Components -> [Index -> Int]] /\ WithinVec(f', 1664)
      BY <3>1, <3>2 DEF Vector, WithinVec
    <3>4. pc' = "pack" /\ UNCHANGED <<g, prod>> /\ k' = 1 /\ len' = 128
      BY <1>3, <2>5 DEF NttF
    <3>5. Position'
      BY SMT, <3>4 DEF Position
    <3>6. WithinVec(g', InBound)
      BY <2>1, <3>4
    <3> QED BY <2>3, <3>3, <3>4, <3>5, <3>6 DEF CoefficientsFit
  <2> QED BY <2>4, <2>5
<1>9. CASE Pack
  <2>1. Tables /\ k = 1 /\ len = 128 /\ WithinVec(f, 1664) /\ WithinVec(g, InBound)
    BY <1>9 DEF Pack, Position, CoefficientsFit
  <2>2. \A c \in Components : Vector(Unpacked(f[c]), 3328)
    BY <2>1, UnpackedBound DEF Vector, WithinVec
  <2>3. f' = [c \in Components |-> Unpacked(f[c])]
    BY <1>9 DEF Pack
  <2>4. f' \in [Components -> [Index -> Int]] /\ WithinVec(f', 3328)
    BY <2>2, <2>3 DEF Vector, WithinVec
  <2>5. pc' = "nttG" /\ UNCHANGED <<g, prod>> /\ k' = 1 /\ len' = 128
    BY <1>9, <2>1 DEF Pack
  <2>6. Tables'
    BY <1>9, <2>1 DEF Pack, Tables
  <2>7. Position'
    BY SMT, <2>5 DEF Position, Ahead
  <2>8. InBound + 3328 * LayersDone' = InBound
    BY SMT, <2>5, InBoundIs DEF LayersDone
  <2>9. WithinVec(g', InBound + 3328 * LayersDone')
    BY <2>1, <2>5, <2>8
  <2> QED BY <2>4, <2>5, <2>6, <2>7, <2>9 DEF CoefficientsFit
<1>4. CASE NttG
  <2>1. Tables /\ <<len, k>> \in Ahead \cup {<<1, 128>>} /\ WithinVec(f, 3328)
    BY <1>4 DEF NttG, Position, CoefficientsFit
  <2>2. \A c \in Components : Vector(g[c], InBound + 3328 * LayersDone)
    BY <1>4 DEF NttG, CoefficientsFit, Vector, WithinVec
  <2>3. Tables'
    BY <1>4, <2>1 DEF NttG, Tables
  <2>4. CASE len >= 2
    <3>1. g' = [c \in Components |-> Layer(g[c])] /\ len' = len \div 2 /\ k' = k + Blocks
      BY <1>4, <2>4 DEF NttG, Layers
    <3>2. \A c \in Components : Vector(Layer(g[c]), InBound + 3328 * LayersDone')
      BY <2>1, <2>2, <2>4, <3>1, ForwardStep
    <3>3. g' \in [Components -> [Index -> Int]] /\ WithinVec(g', InBound + 3328 * LayersDone')
      BY <3>1, <3>2 DEF Vector, WithinVec
    <3>4. <<len', k'>> \in Ahead \cup {<<1, 128>>}
      BY <2>1, <2>4, <3>1, ForwardPosition
    <3>5. pc' = "nttG" /\ UNCHANGED <<f, prod>>
      BY <1>4, <2>4 DEF NttG
    <3> QED BY <2>1, <2>3, <3>3, <3>4, <3>5 DEF Position, CoefficientsFit, WithinVec, Within
  <2>5. CASE ~(len >= 2)
    <3>1. g' = [c \in Components |-> poly_reduce(g[c])]
      BY <1>4, <2>5 DEF NttG
    <3>2. \A c \in Components : Vector(poly_reduce(g[c]), 1664)
      BY <2>1, <2>2, <2>5, ForwardStep
    <3>3. g' \in [Components -> [Index -> Int]] /\ WithinVec(g', 1664)
      BY <3>1, <3>2 DEF Vector, WithinVec
    <3>4. pc' = "mul" /\ UNCHANGED <<f, prod>>
      BY <1>4, <2>5 DEF NttG
    <3>5. WithinVec(f', 3328)
      BY <2>1, <3>4
    <3> QED BY <2>3, <3>3, <3>4, <3>5 DEF Position, CoefficientsFit
  <2> QED BY <2>4, <2>5
<1>5. CASE Multiply
  <2>1. \A c \in Components : Vector(f[c], 3328) /\ Vector(g[c], 1664)
    BY <1>5 DEF Multiply, CoefficientsFit, Vector, WithinVec
  <2>2. Vector(prod', 1664)
    BY <1>5, <2>1, AccBound DEF Multiply
  <2>3. prod' \in [Index -> Int] /\ Within(prod', 3328)
    BY SMT, <2>2 DEF Vector, Within
  <2>4. Tables' /\ Position'
    BY SMT, <1>5 DEF Multiply, Tables, Position, Behind
  <2> QED BY <1>5, <2>3, <2>4 DEF Multiply, CoefficientsFit, Within
<1>6. CASE InvNtt
  <2>1. <<len, k>> \in Behind /\ Vector(prod, 3328)
    BY <1>6 DEF InvNtt, Position, CoefficientsFit, Vector
  <2>2. Vector(prod', 3328)
    BY <1>6, <2>1, InvLayerBound DEF InvNtt
  <2>3. Tables'
    BY <1>6 DEF InvNtt, Tables
  <2>4. Position'
    BY SMT, <1>6, <2>1 DEF InvNtt, Position, Behind, Blocks
  <2>5. pc' \in {"inv", "scale"} /\ UNCHANGED <<f, g>>
    BY <1>6 DEF InvNtt
  <2> QED BY <2>2, <2>3, <2>4, <2>5 DEF CoefficientsFit, Vector, Within
<1>7. CASE Scale
  <2>1. Vector(prod, 3328)
    BY <1>7 DEF Scale, CoefficientsFit, Vector
  <2>2. \A i \in Index : Abs(prod[i], 3328)
    BY SMT, <2>1 DEF Vector, Within, Abs
  <2>3. \A i \in Index : Abs(fq_mul(prod[i], 1441), 3328)
    <3>1. Abs(1441, 32767)
      BY SMT DEF Abs
    <3> QED BY <2>2, <3>1, FqMulRange
  <2>4. prod' = [i \in Index |-> fq_mul(prod[i], 1441)] /\ pc' = "done"
    BY <1>7 DEF Scale
  <2>5. prod' \in [Index -> Int] /\ Within(prod', 3328)
    BY SMT, <2>3, <2>4 DEF Within, Abs
  <2>6. Tables' /\ Position' /\ UNCHANGED <<f, g>>
    BY <1>7, <2>4 DEF Scale, Tables, Position
  <2> QED BY <2>4, <2>5, <2>6 DEF CoefficientsFit, Within
<1>8. CASE UNCHANGED vars
  BY <1>8 DEF vars, Tables, Position, CoefficientsFit, WithinVec, Within, LayersDone
<1> QED BY <1>1, <1>2, <1>3, <1>4, <1>5, <1>6, <1>7, <1>8, <1>9 DEF Next

(* No coefficient leaves int16 along the transforms, whatever the operands *)
(* (up to 9471 in absolute value) and the twiddle factors the code         *)
(* computes: no cast in ntt.c changes a value.                             *)
THEOREM CoefficientsAlwaysFit == Spec => []CoefficientsFit
<1>1. Init => NttInv
  BY NttInitInv
<1>2. NttInv /\ [Next]_vars => NttInv'
  BY NttNextInv
<1>3. NttInv => CoefficientsFit
  BY DEF NttInv
<1> QED BY <1>1, <1>2, <1>3, PTL DEF Spec
-----------------------------------------------------------------------------
(***************************************************************************)
(* Congruence modulo q.                                                    *)
(***************************************************************************)
Cong(x, y) == x \in Int /\ y \in Int /\ \E m \in Int : x - y = m * KYBER_Q

LEMMA QIs == KYBER_Q = 3329
BY DEF KYBER_Q

LEMMA CongRefl ==
  ASSUME NEW x \in Int
  PROVE  Cong(x, x)
<1>1. x - x = 0 * KYBER_Q
  BY SMT, QIs
<1> QED BY <1>1 DEF Cong

LEMMA CongSym ==
  ASSUME NEW x, NEW y, Cong(x, y)
  PROVE  Cong(y, x)
<1>1. x \in Int /\ y \in Int
  BY DEF Cong
<1>2. PICK m \in Int : x - y = m * KYBER_Q
  BY DEF Cong
<1>3. -m \in Int /\ y - x = (-m) * KYBER_Q
  BY SMT, <1>1, <1>2, QIs
<1> QED BY <1>1, <1>3 DEF Cong

LEMMA CongTrans ==
  ASSUME NEW x, NEW y, NEW z, Cong(x, y), Cong(y, z)
  PROVE  Cong(x, z)
<1>1. x \in Int /\ y \in Int /\ z \in Int
  BY DEF Cong
<1>2. PICK m \in Int : x - y = m * KYBER_Q
  BY DEF Cong
<1>3. PICK l \in Int : y - z = l * KYBER_Q
  BY DEF Cong
<1>4. m + l \in Int /\ x - z = (m + l) * KYBER_Q
  BY SMT, <1>1, <1>2, <1>3, QIs
<1> QED BY <1>1, <1>4 DEF Cong

LEMMA CongAdd ==
  ASSUME NEW x, NEW y, NEW u, NEW v, Cong(x, y), Cong(u, v)
  PROVE  Cong(x + u, y + v) /\ Cong(x - u, y - v)
<1>1. x \in Int /\ y \in Int /\ u \in Int /\ v \in Int
  BY DEF Cong
<1>2. PICK m \in Int : x - y = m * KYBER_Q
  BY DEF Cong
<1>3. PICK l \in Int : u - v = l * KYBER_Q
  BY DEF Cong
<1>4. /\ x + u \in Int /\ y + v \in Int /\ x - u \in Int /\ y - v \in Int
      /\ m + l \in Int /\ m - l \in Int
  BY SMT, <1>1
<1>5. (x + u) - (y + v) = (m + l) * KYBER_Q
  BY SMT, <1>1, <1>2, <1>3, QIs
<1>6. (x - u) - (y - v) = (m - l) * KYBER_Q
  BY SMT, <1>1, <1>2, <1>3, QIs
<1>7. Cong(x + u, y + v)
  BY <1>4, <1>5 DEF Cong
<1>8. Cong(x - u, y - v)
  BY <1>4, <1>6 DEF Cong
<1> QED BY <1>7, <1>8

LEMMA CongScale ==
  ASSUME NEW a \in Int, NEW x, NEW y, Cong(x, y)
  PROVE  Cong(a * x, a * y)
<1>1. x \in Int /\ y \in Int
  BY DEF Cong
<1>2. PICK m \in Int : x - y = m * KYBER_Q
  BY DEF Cong
<1>3. a * x \in Int /\ a * y \in Int /\ a * m \in Int
  BY SMT, <1>1
<1>4. a * x - a * y = a * (x - y)
  BY SMT, <1>1
<1>5. a * (m * KYBER_Q) = (a * m) * KYBER_Q
  BY SMT, QIs
<1>6. (a * x) - (a * y) = (a * m) * KYBER_Q
  BY SMT, <1>2, <1>4, <1>5
<1> QED BY <1>3, <1>6 DEF Cong

LEMMA CongMul ==
  ASSUME NEW x, NEW y, NEW u, NEW v, Cong(x, y), Cong(u, v)
  PROVE  Cong(x * u, y * v)
<1>1. x \in Int /\ y \in Int /\ u \in Int /\ v \in Int
  BY DEF Cong
<1>2. Cong(x * u, x * v)
  BY <1>1, CongScale
<1>3. Cong(v * x, v * y)
  BY <1>1, CongScale
<1>4. v * x = x * v /\ v * y = y * v
  BY SMT, <1>1
<1>5. Cong(x * v, y * v)
  BY <1>3, <1>4
<1> QED BY <1>2, <1>5, CongTrans

LEMMA CongNeg ==
  ASSUME NEW x, NEW y, Cong(x, y)
  PROVE  Cong(-x, -y)
<1> DEFINE u == -1
<1>0. u \in Int /\ x \in Int /\ y \in Int
  BY DEF Cong
<1>1. Cong(u * x, u * y)
  BY <1>0, CongScale
<1>2. u * x = -x /\ u * y = -y
  BY SMT, <1>0
<1> HIDE DEF u
<1> QED BY <1>1, <1>2

(* A multiple of q may be added.                                           *)
LEMMA CongShift ==
  ASSUME NEW x \in Int, NEW y \in Int, NEW m \in Int, x - y = m * 3329
  PROVE  Cong(x, y)
<1>1. x - y = m * KYBER_Q
  BY SMT, QIs
<1> QED BY <1>1 DEF Cong

(* A remainder is congruent to its number, and congruent numbers differ by *)
(* 0.                                                                      *)
LEMMA CongRem ==
  ASSUME NEW x \in Int
  PROVE  Cong(x % KYBER_Q, x)
<1>1. PICK m \in Int : (x % KYBER_Q) - x = m * KYBER_Q
  <2> DEFINE d == x \div 3329
  <2>1. -d \in Int /\ (x % 3329) - x = (-d) * 3329
    BY SMT
  <2> HIDE DEF d
  <2> QED BY SMT, <2>1, QIs
<1>2. x % KYBER_Q \in Int
  BY SMT, QIs
<1> QED BY <1>1, <1>2 DEF Cong

LEMMA CongIsRem ==
  ASSUME NEW x, NEW y, Cong(x, y)
  PROVE  (x - y) % KYBER_Q = 0
<1>1. PICK m \in Int : x - y = m * KYBER_Q
  BY DEF Cong
<1> QED BY SMT, <1>1, QIs

(* 169 is the inverse of mont = 2^16 modulo q.                             *)
LEMMA MontInverse ==
  ASSUME NEW x \in Int, NEW y \in Int, y = 65536 * x
  PROVE  Cong(169 * y, x)
<1> DEFINE m == 3327 * x
<1>1. 169 * y - x = m * KYBER_Q
  BY SMT, QIs
<1>2. 169 * y \in Int /\ m \in Int
  BY SMT
<1> HIDE DEF m
<1> QED BY <1>1, <1>2 DEF Cong

(* fq_mul divides the product by mont.                                     *)
LEMMA FqMulCong ==
  ASSUME NEW a \in Int, NEW b \in Int,
         -(3329 * 32768) <= a * b, a * b < 3329 * 32768
  PROVE  Cong(fq_mul(a, b), 169 * (a * b))
<1> DEFINE p == a * b
           r == montgomery_reduce(p)
<1>1. p \in Int /\ -(3329 * 32768) <= p /\ p < 3329 * 32768
  BY SMT
<1>2. fq_mul(a, b) = r
  BY DEF fq_mul
<1> HIDE DEF p
<1>3. r \in Int /\ \E m \in Int : 65536 * r = p - 3329 * m
  BY <1>1, MontgomeryRange DEF Abs
<1> HIDE DEF r
<1>4. PICK m \in Int : 65536 * r = p - 3329 * m
  BY <1>3
<1> DEFINE h == 65536 * r
<1>5. h \in Int /\ -m \in Int /\ h - p = (-m) * KYBER_Q
  BY SMT, <1>1, <1>3, <1>4, QIs
<1>6. Cong(h, p)
  <2> HIDE DEF h
  <2> QED BY <1>1, <1>5 DEF Cong
<1>7. Cong(169 * h, 169 * p)
  BY <1>6, CongScale
<1>8. Cong(169 * h, r)
  BY <1>3, <1>5, MontInverse
<1>9. Cong(r, 169 * p)
  BY <1>7, <1>8, CongSym, CongTrans
<1> QED BY <1>2, <1>9 DEF p

(* ... when the operands have the sizes the code gives it.                 *)
LEMMA FqMulTimes ==
  ASSUME NEW a, NEW b, Abs(a, 3328), Abs(b, 32767)
  PROVE  Cong(fq_mul(a, b), 169 * (a * b))
<1>1. a \in Int /\ b \in Int /\ -3328 <= a /\ a <= 3328 /\ -32767 <= b /\ b <= 32767
  BY SMT DEF Abs
<1>2. a * b \in Int /\ -(3328 * 32767) <= a * b /\ a * b <= 3328 * 32767
  BY SMT, <1>1, ProductBound
<1>3. -(3329 * 32768) <= a * b /\ a * b < 3329 * 32768
  BY SMT, <1>2
<1> QED BY <1>1, <1>3, FqMulCong

(* barrett_reduce returns a congruent value.                               *)
LEMMA BarrettCong ==
  ASSUME NEW a \in Int, -32768 <= a, a <= 32767
  PROVE  Cong(barrett_reduce(a), a)
<1>1. barrett_reduce(a) \in Int /\ \E m \in Int : barrett_reduce(a) = a - 3329 * m
  BY BarrettRange DEF Abs
<1>2. PICK m \in Int : barrett_reduce(a) = a - 3329 * m
  BY <1>1
<1>3. -m \in Int /\ barrett_reduce(a) - a = (-m) * KYBER_Q
  BY SMT, <1>2, QIs
<1> QED BY <1>1, <1>3 DEF Cong
-----------------------------------------------------------------------------
(***************************************************************************)
(* The sum of a family of 2^h integers, by halves: the elements n apart    *)
(* are added first.                                                        *)
(***************************************************************************)
Family(n) == [0..(n - 1) -> Int]

Halve(t, n) == [j \in 0..(n - 1) |-> t[j] + t[j + n]]

Sum1(t)   == t[0]
Sum2(t)   == Sum1(Halve(t, 1))
Sum4(t)   == Sum2(Halve(t, 2))
Sum8(t)   == Sum4(Halve(t, 4))
Sum16(t)  == Sum8(Halve(t, 8))
Sum32(t)  == Sum16(Halve(t, 16))
Sum64(t)  == Sum32(Halve(t, 32))
Sum128(t) == Sum64(Halve(t, 64))
Sum256(t) == Sum128(Halve(t, 128))

Sum(n, t) ==
  CASE n = 1 -> Sum1(t) [] n = 2 -> Sum2(t) [] n = 4 -> Sum4(t) [] n = 8 -> Sum8(t)
    [] n = 16 -> Sum16(t) [] n = 32 -> Sum32(t) [] n = 64 -> Sum64(t)
    [] n = 128 -> Sum128(t) [] n = 256 -> Sum256(t)

Lens == {2, 4, 8, 16, 32, 64, 128}

LEMMA SumIs ==
  ASSUME NEW t
  PROVE  /\ Sum(1, t) = Sum1(t) /\ Sum(2, t) = Sum2(t) /\ Sum(4, t) = Sum4(t)
         /\ Sum(8, t) = Sum8(t) /\ Sum(16, t) = Sum16(t) /\ Sum(32, t) = Sum32(t)
         /\ Sum(64, t) = Sum64(t) /\ Sum(128, t) = Sum128(t) /\ Sum(256, t) = Sum256(t)
BY SMT DEF Sum

(* The sum is the sum of the halves.                                       *)
LEMMA SumHalves ==
  ASSUME NEW n \in {1} \cup Lens, NEW t
  PROVE  Sum(2 * n, t) = Sum(n, Halve(t, n)) /\ n \in Nat
<1> DEFINE h == Halve(t, n)
<1>1. CASE n = 1
  <2>1. 2 * n = 2 /\ Sum2(t) = Sum1(h)
    BY SMT, <1>1 DEF Sum2
  <2> QED BY <1>1, <2>1, SumIs
<1>2. CASE n = 2
  <2>1. 2 * n = 4 /\ Sum4(t) = Sum2(h)
    BY SMT, <1>2 DEF Sum4
  <2> QED BY <1>2, <2>1, SumIs
<1>3. CASE n = 4
  <2>1. 2 * n = 8 /\ Sum8(t) = Sum4(h)
    BY SMT, <1>3 DEF Sum8
  <2> QED BY <1>3, <2>1, SumIs
<1>4. CASE n = 8
  <2>1. 2 * n = 16 /\ Sum16(t) = Sum8(h)
    BY SMT, <1>4 DEF Sum16
  <2> QED BY <1>4, <2>1, SumIs
<1>5. CASE n = 16
  <2>1. 2 * n = 32 /\ Sum32(t) = Sum16(h)
    BY SMT, <1>5 DEF Sum32
  <2> QED BY <1>5, <2>1, SumIs
<1>6. CASE n = 32
  <2>1. 2 * n = 64 /\ Sum64(t) = Sum32(h)
    BY SMT, <1>6 DEF Sum64
  <2> QED BY <1>6, <2>1, SumIs
<1>7. CASE n = 64
  <2>1. 2 * n = 128 /\ Sum128(t) = Sum64(h)
    BY SMT, <1>7 DEF Sum128
  <2> QED BY <1>7, <2>1, SumIs
<1>8. CASE n = 128
  <2>1. 2 * n = 256 /\ Sum256(t) = Sum128(h)
    BY SMT, <1>8 DEF Sum256
  <2> QED BY <1>8, <2>1, SumIs
<1> QED BY <1>1, <1>2, <1>3, <1>4, <1>5, <1>6, <1>7, <1>8 DEF Lens

LEMMA HalveOf ==
  ASSUME NEW n \in Nat, NEW t \in Family(2 * n)
  PROVE  /\ Halve(t, n) \in Family(n)
         /\ \A j \in 0..(n - 1) :
              t[j] \in Int /\ t[j + n] \in Int /\ Halve(t, n)[j] = t[j] + t[j + n]
<1>1. ASSUME NEW j \in 0..(n - 1)
      PROVE  t[j] \in Int /\ t[j + n] \in Int
  <2>1. j \in 0..(2 * n - 1) /\ j + n \in 0..(2 * n - 1)
    BY SMT
  <2> QED BY <2>1 DEF Family
<1>2. \A j \in 0..(n - 1) : t[j] + t[j + n] \in Int
  BY <1>1, SMT
<1> QED BY <1>1, <1>2 DEF Halve, Family

(* Sums are linear, up to congruence.                                      *)
LinearSum(n) ==
  \A v \in Family(n), t \in Family(n), u \in Family(n), a \in Int :
    (\A j \in 0..(n - 1) : Cong(v[j], t[j] + a * u[j])) =>
       /\ Sum(n, t) \in Int /\ Sum(n, u) \in Int
       /\ Cong(Sum(n, v), Sum(n, t) + a * Sum(n, u))

LEMMA LinearSumDouble ==
  ASSUME NEW n \in {1} \cup Lens, LinearSum(n)
  PROVE  LinearSum(2 * n)
<1> SUFFICES ASSUME NEW v \in Family(2 * n), NEW t \in Family(2 * n),
                    NEW u \in Family(2 * n), NEW a \in Int,
                    \A j \in 0..(2 * n - 1) : Cong(v[j], t[j] + a * u[j])
             PROVE  /\ Sum(2 * n, t) \in Int /\ Sum(2 * n, u) \in Int
                    /\ Cong(Sum(2 * n, v), Sum(2 * n, t) + a * Sum(2 * n, u))
  BY DEF LinearSum
<1> DEFINE hv == Halve(v, n)
           ht == Halve(t, n)
           hu == Halve(u, n)
<1>1. n \in Nat /\ hv \in Family(n) /\ ht \in Family(n) /\ hu \in Family(n)
  BY SumHalves, HalveOf
<1>2. ASSUME NEW j \in 0..(n - 1)
      PROVE  Cong(hv[j], ht[j] + a * hu[j])
  <2>1. j \in 0..(2 * n - 1) /\ j + n \in 0..(2 * n - 1)
    BY SMT, <1>1
  <2>2. Cong(v[j] + v[j + n], (t[j] + a * u[j]) + (t[j + n] + a * u[j + n]))
    BY <2>1, CongAdd
  <2>3. /\ t[j] \in Int /\ t[j + n] \in Int /\ u[j] \in Int /\ u[j + n] \in Int
        /\ hv[j] = v[j] + v[j + n] /\ ht[j] = t[j] + t[j + n] /\ hu[j] = u[j] + u[j + n]
    BY <1>1, HalveOf
  <2>4. (t[j] + a * u[j]) + (t[j + n] + a * u[j + n]) = (t[j] + t[j + n]) + a * (u[j] + u[j + n])
    BY SMT, <2>3
  <2> QED BY <2>2, <2>3, <2>4
<1>3. Sum(2 * n, v) = Sum(n, hv) /\ Sum(2 * n, t) = Sum(n, ht) /\ Sum(2 * n, u) = Sum(n, hu)
  BY SumHalves
<1> HIDE DEF hv, ht, hu
<1> QED BY <1>1, <1>2, <1>3 DEF LinearSum

(* All sums are linear, by doubling.                                       *)
LEMMA SumLinear == \A n \in {1, 256} \cup Lens : LinearSum(n)
<1>1. LinearSum(1)
  <2> SUFFICES ASSUME NEW v \in Family(1), NEW t \in Family(1),
                      NEW u \in Family(1), NEW a \in Int,
                      \A j \in 0..(1 - 1) : Cong(v[j], t[j] + a * u[j])
               PROVE  /\ Sum(1, t) \in Int /\ Sum(1, u) \in Int
                      /\ Cong(Sum(1, v), Sum(1, t) + a * Sum(1, u))
    BY DEF LinearSum
  <2>1. 0 \in 0..(1 - 1)
    BY SMT
  <2>2. Sum(1, v) = v[0] /\ Sum(1, t) = t[0] /\ Sum(1, u) = u[0]
    BY SumIs DEF Sum1
  <2> QED BY <2>1, <2>2 DEF Family
<1>2. /\ 2 * 1 = 2 /\ 2 * 2 = 4 /\ 2 * 4 = 8 /\ 2 * 8 = 16 /\ 2 * 16 = 32 /\ 2 * 32 = 64
      /\ 2 * 64 = 128 /\ 2 * 128 = 256
  BY SMT
<1>3. LinearSum(2)
  BY <1>1, <1>2, LinearSumDouble DEF Lens
<1>4. LinearSum(4)
  BY <1>3, <1>2, LinearSumDouble DEF Lens
<1>5. LinearSum(8)
  BY <1>4, <1>2, LinearSumDouble DEF Lens
<1>6. LinearSum(16)
  BY <1>5, <1>2, LinearSumDouble DEF Lens
<1>7. LinearSum(32)
  BY <1>6, <1>2, LinearSumDouble DEF Lens
<1>8. LinearSum(64)
  BY <1>7, <1>2, LinearSumDouble DEF Lens
<1>9. LinearSum(128)
  BY <1>8, <1>2, LinearSumDouble DEF Lens
<1>10. LinearSum(256)
  BY <1>9, <1>2, LinearSumDouble DEF Lens
<1> QED BY <1>1, <1>3, <1>4, <1>5, <1>6, <1>7, <1>8, <1>9, <1>10 DEF Lens
-----------------------------------------------------------------------------
(***************************************************************************)
(* The transform over the integers.  w is a table of roots of unity; after *)
(* the layer of half-size n, the vector holds the residues modulo the      *)
(* polynomials X^n - Modulus of its blocks of size n.                      *)
(***************************************************************************)
Table128 == [Twiddle -> Int]

Roots(w) ==
  /\ w \in Table128
  /\ Cong(w[1] * w[1], -1)
  /\ \A m \in 1..63 : Cong(w[2 * m] * w[2 * m], w[m]) /\ Cong(w[2 * m + 1] * w[2 * m + 1], -w[m])

(* The first twiddle factor of the layer of half-size n.                  *)
First(n) == 128 \div n

Split(w, n, r) ==
  [i \in Index |->
     LET u == w[First(n) + (i \div (2 * n))] IN
     IF i % (2 * n) < n THEN r[i] + u * r[i + n] ELSE r[i - n] - u * r[i]]

Modulus(w, n, i) ==
  LET u == w[First(n) + ((i \div n) \div 2)] IN
  IF n = 256 THEN -1 ELSE IF (i \div n) % 2 = 0 THEN u ELSE -u

(* The terms of coefficient i of the product in its block.                 *)
Terms(w, n, a, b, i) ==
  [j \in 0..(n - 1) |->
     LET x == a[n * (i \div n) + j] IN
     IF j <= i % n THEN x * b[i - j] ELSE Modulus(w, n, i) * (x * b[i + n - j])]

(* c is, block by block, the product of a and b.                           *)
IsProduct(w, n, a, b, c) == \A i \in Index : Cong(c[i], Sum(n, Terms(w, n, a, b, i)))

Sizes == {2, 4, 8, 16, 32, 64, 128, 256}

Element == [Index -> Int]

(* An index from its block and its place in the block.                     *)
LEMMA Coordinates ==
  ASSUME NEW n \in Sizes, NEW b \in Int, NEW x \in Int, NEW i,
         0 <= b, n * b < 256, 0 <= x, x < n, i = n * b + x
  PROVE  i \in Index /\ i \div n = b /\ i % n = x
<1> USE IndexIs
<1>1. CASE n = 2
  BY SMT, <1>1
<1>2. CASE n = 4
  BY SMT, <1>2
<1>3. CASE n = 8
  BY SMT, <1>3
<1>4. CASE n = 16
  BY SMT, <1>4
<1>5. CASE n = 32
  BY SMT, <1>5
<1>6. CASE n = 64
  BY SMT, <1>6
<1>7. CASE n = 128
  BY SMT, <1>7
<1>8. CASE n = 256
  BY SMT, <1>8
<1> QED BY <1>1, <1>2, <1>3, <1>4, <1>5, <1>6, <1>7, <1>8 DEF Sizes

(* Every index is one of a block.                                          *)
LEMMA BlockOf ==
  ASSUME NEW n \in Sizes, NEW i \in Index
  PROVE  \E b \in Int, x \in Int :
           0 <= b /\ n * b < 256 /\ 0 <= x /\ x < n /\ i = n * b + x
<1> DEFINE b == i \div n
           x == i % n
<1>1. b \in Int /\ x \in Int /\ 0 <= b /\ n * b < 256 /\ 0 <= x /\ x < n /\ i = n * b + x
  <2> USE IndexIs
  <2>1. CASE n = 2
    BY SMT, <2>1
  <2>2. CASE n = 4
    BY SMT, <2>2
  <2>3. CASE n = 8
    BY SMT, <2>3
  <2>4. CASE n = 16
    BY SMT, <2>4
  <2>5. CASE n = 32
    BY SMT, <2>5
  <2>6. CASE n = 64
    BY SMT, <2>6
  <2>7. CASE n = 128
    BY SMT, <2>7
  <2>8. CASE n = 256
    BY SMT, <2>8
  <2> QED BY <2>1, <2>2, <2>3, <2>4, <2>5, <2>6, <2>7, <2>8 DEF Sizes
<1> HIDE DEF b, x
<1> QED BY <1>1

LEMMA LensAreSizes ==
  ASSUME NEW n \in Lens
  PROVE  /\ n \in Sizes /\ 2 * n \in Sizes /\ n \in Int /\ 2 <= n /\ n <= 128
         /\ n \in {1} \cup Lens /\ n \in {1, 256} \cup Lens /\ n # 256
BY SMT DEF Lens, Sizes

(* The two coefficients a layer of half-size n combines, in block b.       *)
Partners(n, b, x, i, h) ==
  /\ n \in Lens /\ b \in Int /\ 0 <= b /\ (2 * n) * b < 256
  /\ x \in Int /\ 0 <= x /\ x < n
  /\ i = (2 * n) * b + x /\ h = i + n

(* Blocks and places of two partners.                                      *)
LEMMA PartnersAt ==
  ASSUME NEW n, NEW b, NEW x, NEW i, NEW h, Partners(n, b, x, i, h)
  PROVE  /\ i \in Index /\ i \div (2 * n) = b /\ i % (2 * n) = x
         /\ h \in Index /\ h \div (2 * n) = b /\ h % (2 * n) = x + n
<1> USE DEF Partners
<1> DEFINE y == x + n
           s == 2 * n
<1>1. s \in Sizes /\ s \in Int
  BY LensAreSizes
<1>2. n \in Int /\ x < s /\ y \in Int /\ 0 <= y /\ y < s /\ i = s * b + x /\ h = s * b + y
  BY SMT, LensAreSizes
<1>3. s * b < 256
  OBVIOUS
<1> HIDE DEF y, s
<1>4. i \in Index /\ i \div s = b /\ i % s = x
  BY <1>1, <1>2, <1>3, Coordinates
<1>5. h \in Index /\ h \div s = b /\ h % s = y
  BY <1>1, <1>2, <1>3, Coordinates
<1> QED BY <1>4, <1>5 DEF s, y

SplitPair(w, n, b, r, i, h) ==
  /\ Split(w, n, r)[i] = r[i] + w[First(n) + b] * r[h]
  /\ Split(w, n, r)[h] = r[i] - w[First(n) + b] * r[h]

(* A layer on a pair of partners.                                          *)
LEMMA SplitAt ==
  ASSUME NEW w, NEW r, NEW n, NEW b, NEW x, NEW i, NEW h, Partners(n, b, x, i, h)
  PROVE  SplitPair(w, n, b, r, i, h)
<1>1. /\ i \in Index /\ i \div (2 * n) = b /\ i % (2 * n) = x
      /\ h \in Index /\ h \div (2 * n) = b /\ h % (2 * n) = x + n
  BY PartnersAt
<1>2. ~(x + n < n) /\ h - n = i
  <2>1. n \in Int /\ i \in Int /\ x \in Int /\ 0 <= x /\ h = i + n
    BY <1>1, IndexIs, LensAreSizes DEF Partners
  <2> QED BY SMT, <2>1
<1> DEFINE u == w[First(n) + b]
<1>3. x < n
  BY DEF Partners
<1>4. Split(w, n, r)[i] = r[i] + u * r[h]
  <2>1. Split(w, n, r)[i] =
          IF i % (2 * n) < n
          THEN r[i] + w[First(n) + (i \div (2 * n))] * r[i + n]
          ELSE r[i - n] - w[First(n) + (i \div (2 * n))] * r[i]
    BY <1>1, Zenon DEF Split
  <2> QED BY <1>1, <1>3, <2>1, Zenon DEF Partners
<1>5. Split(w, n, r)[h] = r[i] - u * r[h]
  <2>1. Split(w, n, r)[h] =
          IF h % (2 * n) < n
          THEN r[h] + w[First(n) + (h \div (2 * n))] * r[h + n]
          ELSE r[h - n] - w[First(n) + (h \div (2 * n))] * r[h]
    BY <1>1, Zenon DEF Split
  <2> QED BY <1>1, <1>2, <2>1, Zenon
<1> QED BY <1>4, <1>5 DEF SplitPair

Halves(w, n, b, x, i, h) ==
  /\ i \div n = 2 * b /\ i % n = x
  /\ h \div n = 2 * b + 1 /\ h % n = x
  /\ Modulus(w, n, i) = w[First(n) + b]
  /\ Modulus(w, n, h) = -w[First(n) + b]

(* Partners land in neighbouring blocks, with opposite moduli.             *)
LEMMA ModulusOfChild ==
  ASSUME NEW w, NEW n, NEW b, NEW x, NEW i, NEW h, Partners(n, b, x, i, h)
  PROVE  Halves(w, n, b, x, i, h)
<1> DEFINE c == 2 * b
           d == 2 * b + 1
<1>0. /\ n \in Lens /\ b \in Int /\ 0 <= b /\ (2 * n) * b < 256
      /\ x \in Int /\ 0 <= x /\ x < n
      /\ i = (2 * n) * b + x /\ h = i + n
  BY DEF Partners
<1>1. n \in Int /\ n \in Sizes /\ n # 256
  BY <1>0, LensAreSizes
<1>2. c \in Int /\ 0 <= c /\ n * c < 256 /\ i = n * c + x
  BY SMT, <1>0, <1>1
<1>3. d \in Int /\ 0 <= d /\ n * d < 256 /\ h = n * d + x
  <2>1. n * d = (2 * n) * b + n
    BY SMT, <1>0, <1>1
  <2>2. (2 * n) * b + n < 256
    <3>1. h \in Index
      BY PartnersAt
    <3>2. h \in Int /\ h <= 255
      BY <3>1, IndexIs
    <3> QED BY SMT, <1>0, <1>1, <3>2
  <2> QED BY SMT, <1>0, <1>1, <2>1, <2>2
<1>4. c \div 2 = b /\ c % 2 = 0 /\ d \div 2 = b /\ d % 2 # 0
  BY SMT, <1>0
<1> HIDE DEF c, d
<1>5. i \div n = c /\ i % n = x
  BY <1>0, <1>1, <1>2, Coordinates
<1>6. h \div n = d /\ h % n = x
  BY <1>0, <1>1, <1>3, Coordinates
<1>7. Modulus(w, n, i) = w[First(n) + b] /\ Modulus(w, n, h) = -w[First(n) + b]
  BY <1>1, <1>4, <1>5, <1>6 DEF Modulus
<1> QED BY <1>5, <1>6, <1>7 DEF c, d, Halves

(* X^2n - Modulus splits: the twiddle factor is a square root.             *)
IsRootOf(w, n, b, z) ==
  /\ First(n) + b \in 1..127
  /\ w[First(n) + b] \in Int
  /\ Cong(w[First(n) + b] * w[First(n) + b], z)

LEMMA ModulusIsSquare ==
  ASSUME NEW w, Roots(w), NEW n \in Lens, NEW b \in Int, NEW i,
         0 <= b, (2 * n) * b < 256, i \div (2 * n) = b
  PROVE  IsRootOf(w, n, b, Modulus(w, 2 * n, i))
<1> DEFINE m == First(n) + b
           l == First(2 * n) + (b \div 2)
<1>1. m \in 1..127
  BY SMT DEF Lens, First
<1>2. w[m] \in Int
  <2>1. m \in Twiddle
    BY SMT, <1>1 DEF Twiddle
  <2> QED BY <2>1 DEF Roots, Table128
<1>3. Cong(w[m] * w[m], Modulus(w, 2 * n, i))
  <2>1. CASE n = 128
    <3>1. b = 0 /\ First(n) = 1 /\ m = 1 /\ 2 * n = 256
      BY SMT, <2>1 DEF First
    <3>2. Modulus(w, 2 * n, i) = -1
      BY <3>1 DEF Modulus
    <3> QED BY <3>1, <3>2 DEF Roots
  <2>2. CASE n # 128
    <3>1. 2 * n # 256
      BY SMT, <2>2 DEF Lens
    <3>2. l \in 1..63 /\ (b % 2 = 0 => m = 2 * l) /\ (b % 2 # 0 => m = 2 * l + 1)
      BY SMT, <2>2 DEF Lens, First
    <3>3. Modulus(w, 2 * n, i) = IF b % 2 = 0 THEN w[l] ELSE -w[l]
      BY <3>1 DEF Modulus
    <3> HIDE DEF l, m
    <3>4. CASE b % 2 = 0
      BY <3>2, <3>3, <3>4 DEF Roots
    <3>5. CASE b % 2 # 0
      BY <3>2, <3>3, <3>5 DEF Roots
    <3> QED BY <3>4, <3>5
  <2> QED BY <2>1, <2>2
<1> QED BY <1>1, <1>2, <1>3 DEF IsRootOf

(* The index of the second factor of term j, for the coefficient at x.     *)
Other(n, i, x, j) == IF j <= x THEN i - j ELSE (i + n) - j

(* The second factors of a pair are partners too.                          *)
LEMMA OtherPartners ==
  ASSUME NEW n, NEW b, NEW x, NEW i, NEW h, Partners(n, b, x, i, h), NEW j \in 0..(n - 1)
  PROVE  /\ Partners(n, b, j, (2 * n) * b + j, (2 * n) * b + j + n)
         /\ j \in Int /\ 0 <= j /\ j < n
         /\ \E y : Partners(n, b, y, Other(n, i, x, j), Other(n, i, x, j) + n)
<1>0. /\ n \in Lens /\ b \in Int /\ 0 <= b /\ (2 * n) * b < 256
      /\ x \in Int /\ 0 <= x /\ x < n
      /\ i = (2 * n) * b + x /\ h = i + n
  BY DEF Partners
<1>1. n \in Int /\ (2 * n) * b \in Int
  BY SMT, <1>0, LensAreSizes
<1>2. j \in Int /\ 0 <= j /\ j < n
  BY SMT, <1>1
<1>3. Partners(n, b, j, (2 * n) * b + j, (2 * n) * b + j + n)
  BY <1>0, <1>2 DEF Partners
<1> DEFINE s == (2 * n) * b
           y == IF j <= x THEN x - j ELSE x + n - j
           e == Other(n, i, x, j)
           e2 == e + n
<1>4. y \in Int /\ 0 <= y /\ y < n /\ e = s + y
  <2> HIDE DEF s
  <2>1. s \in Int /\ i = s + x
    BY <1>0, <1>1 DEF s
  <2> QED BY SMT, <1>0, <1>1, <1>2, <2>1 DEF Other
<1> HIDE DEF y, e
<1>5. Partners(n, b, y, e, e2)
  BY <1>0, <1>4 DEF Partners
<1> QED BY <1>2, <1>3, <1>5 DEF e

(* The terms of a block of size 2n, and those of its two halves, for the   *)
(* coefficients i and h, in terms of the factors they share.               *)
LEMMA ParentTerms ==
  ASSUME NEW w, NEW a, NEW c, NEW n, NEW b, NEW x, NEW i, NEW h, Partners(n, b, x, i, h),
         NEW j \in 0..(n - 1), NEW p, p = (2 * n) * b + j,
         NEW e, e = Other(n, i, x, j), NEW z, z = Modulus(w, 2 * n, i)
  PROVE  /\ Terms(w, 2 * n, a, c, i)[j] = IF j <= x THEN a[p] * c[e] ELSE z * (a[p] * c[e + n])
         /\ Terms(w, 2 * n, a, c, i)[j + n] = z * (a[p + n] * c[IF j <= x THEN e + n ELSE e])
         /\ Terms(w, 2 * n, a, c, h)[j] = a[p] * c[IF j <= x THEN e + n ELSE e]
         /\ Terms(w, 2 * n, a, c, h)[j + n] =
              IF j <= x THEN a[p + n] * c[e] ELSE z * (a[p + n] * c[e + n])
<1> DEFINE s == 2 * n
           start == s * b
<1>1. /\ n \in Int /\ b \in Int /\ x \in Int /\ 0 <= x /\ x < n
      /\ j \in Int /\ 0 <= j /\ j < n
      /\ s \in Int /\ s = n + n /\ start \in Int
      /\ i = start + x /\ h = i + n
  <2>1. n \in Int /\ b \in Int /\ x \in Int /\ 0 <= x /\ x < n /\ i = start + x /\ h = i + n
    BY LensAreSizes DEF Partners
  <2>2. j \in Int /\ 0 <= j /\ j < n
    BY OtherPartners
  <2> QED BY SMT, <2>1, <2>2
<1>2. i \div s = b /\ i % s = x /\ h \div s = b /\ h % s = x + n
  BY PartnersAt
<1>3. Modulus(w, s, i) = z /\ Modulus(w, s, h) = z
  BY <1>2 DEF Modulus
<1>4. j \in 0..(s - 1) /\ j + n \in 0..(s - 1)
  <2> HIDE DEF s, start
  <2> QED BY SMT, <1>1
<1>5. p = start + j
  OBVIOUS
<1> HIDE DEF s, start
<1>6. \A t \in 0..(s - 1) :
        /\ Terms(w, s, a, c, i)[t] = IF t <= x THEN a[start + t] * c[i - t]
                                     ELSE z * (a[start + t] * c[i + s - t])
        /\ Terms(w, s, a, c, h)[t] = IF t <= x + n THEN a[start + t] * c[h - t]
                                     ELSE z * (a[start + t] * c[h + s - t])
  BY <1>2, <1>3 DEF Terms, start
<1>7. /\ start + (j + n) = p + n
      /\ j <= x => e = i - j
      /\ ~(j <= x) => e = (i + n) - j
  BY SMT, <1>1, <1>5 DEF Other
<1>8. CASE j <= x
  <2>1. e = i - j
    BY <1>7, <1>8
  <2>2. /\ ~(j + n <= x) /\ j <= x + n /\ j + n <= x + n
        /\ i + s - (j + n) = e + n /\ h - j = e + n /\ h - (j + n) = e
    BY SMT, <1>1, <1>8, <2>1
  <2>3. Terms(w, s, a, c, i)[j] = a[p] * c[e]
    BY <1>4, <1>5, <1>6, <1>8, <2>1
  <2>4. Terms(w, s, a, c, i)[j + n] = z * (a[p + n] * c[e + n])
    BY <1>4, <1>6, <1>7, <2>2
  <2>5. Terms(w, s, a, c, h)[j] = a[p] * c[e + n]
    BY <1>4, <1>5, <1>6, <2>2
  <2>6. Terms(w, s, a, c, h)[j + n] = a[p + n] * c[e]
    BY <1>4, <1>6, <1>7, <2>2
  <2> QED BY <1>8, <2>3, <2>4, <2>5, <2>6 DEF s
<1>9. CASE ~(j <= x)
  <2>1. e = (i + n) - j
    BY <1>7, <1>9
  <2>2. /\ ~(j + n <= x) /\ j <= x + n /\ ~(j + n <= x + n)
        /\ i + s - j = e + n /\ i + s - (j + n) = e /\ h - j = e /\ h + s - (j + n) = e + n
    BY SMT, <1>1, <1>9, <2>1
  <2>3. Terms(w, s, a, c, i)[j] = z * (a[p] * c[e + n])
    BY <1>4, <1>5, <1>6, <1>9, <2>2
  <2>4. Terms(w, s, a, c, i)[j + n] = z * (a[p + n] * c[e])
    BY <1>4, <1>6, <1>7, <2>2
  <2>5. Terms(w, s, a, c, h)[j] = a[p] * c[e]
    BY <1>4, <1>5, <1>6, <2>2
  <2>6. Terms(w, s, a, c, h)[j + n] = z * (a[p + n] * c[e + n])
    BY <1>4, <1>6, <1>7, <2>2
  <2> QED BY <1>9, <2>3, <2>4, <2>5, <2>6 DEF s
<1> QED BY <1>8, <1>9

(* A term of the halves, from the split factors.                           *)
LEMMA ChildTerms ==
  ASSUME NEW w, NEW a, NEW c, NEW n, NEW b, NEW x, NEW i, NEW h, Partners(n, b, x, i, h),
         NEW j \in 0..(n - 1), NEW p, p = (2 * n) * b + j,
         NEW e, e = Other(n, i, x, j), NEW u, u = w[First(n) + b]
  PROVE  /\ Terms(w, n, a, c, i)[j] = IF j <= x THEN a[p] * c[e] ELSE u * (a[p] * c[e])
         /\ Terms(w, n, a, c, h)[j] =
              IF j <= x THEN a[p + n] * c[e + n] ELSE (-u) * (a[p + n] * c[e + n])
<1> DEFINE start == (2 * n) * b
<1>1. /\ n \in Int /\ b \in Int /\ x \in Int /\ 0 <= x /\ x < n
      /\ j \in Int /\ 0 <= j /\ j < n
      /\ start \in Int /\ i = start + x /\ h = i + n
      /\ n * (2 * b) = start /\ n * (2 * b + 1) = start + n
  <2>1. n \in Int /\ b \in Int /\ x \in Int /\ 0 <= x /\ x < n /\ i = start + x /\ h = i + n
    BY LensAreSizes DEF Partners
  <2>2. j \in Int /\ 0 <= j /\ j < n
    BY OtherPartners
  <2> QED BY SMT, <2>1, <2>2
<1>2. /\ i \div n = 2 * b /\ i % n = x /\ h \div n = 2 * b + 1 /\ h % n = x
      /\ Modulus(w, n, i) = u /\ Modulus(w, n, h) = -u
  <2>1. Halves(w, n, b, x, i, h)
    BY ModulusOfChild
  <2> QED BY <2>1, Zenon DEF Halves
<1>3. p = start + j
  OBVIOUS
<1>4. i \in Index /\ h \in Index
  BY PartnersAt
<1> HIDE DEF start
<1>5. /\ Terms(w, n, a, c, i)[j] = IF j <= x THEN a[start + j] * c[i - j]
                                   ELSE u * (a[start + j] * c[i + n - j])
      /\ Terms(w, n, a, c, h)[j] = IF j <= x THEN a[start + n + j] * c[h - j]
                                   ELSE (-u) * (a[start + n + j] * c[h + n - j])
  <2>1. n * (i \div n) = start /\ n * (h \div n) = start + n
    BY <1>1, <1>2
  <2> QED BY <1>2, <2>1, Zenon DEF Terms
<1>6. /\ start + n + j = p + n
      /\ j <= x => e = i - j
      /\ ~(j <= x) => e = (i + n) - j
  BY SMT, <1>1, <1>3 DEF Other
<1>7. CASE j <= x
  <2>1. h - j = e + n
    BY SMT, <1>1, <1>6, <1>7
  <2> QED BY <1>3, <1>5, <1>6, <1>7, <2>1, Zenon
<1>8. CASE ~(j <= x)
  <2>1. h + n - j = e + n /\ i + n - j = e
    BY SMT, <1>1, <1>6, <1>8
  <2> QED BY <1>3, <1>5, <1>6, <1>8, <2>1, Zenon
<1> QED BY <1>7, <1>8

(* (X^n - u)(X^n + u) = X^2n - u^2, coefficient by coefficient.            *)
LEMMA SplitLow ==
  ASSUME NEW a0 \in Int, NEW a1 \in Int, NEW c0 \in Int, NEW c1 \in Int,
         NEW u \in Int, NEW z, Cong(u * u, z)
  PROVE  Cong((a0 + u * a1) * (c0 + u * c1),
              (a0 * c0 + z * (a1 * c1)) + u * (a0 * c1 + a1 * c0))
<1> DEFINE d == a1 * c1
           m == a0 * c1 + a1 * c0
           o == a0 * c0
<1>1. z \in Int /\ u * u \in Int /\ d \in Int /\ m \in Int /\ o \in Int
  BY SMT DEF Cong
<1>2. (a0 + u * a1) * (c0 + u * c1) = (o + u * m) + d * (u * u)
  BY SMT
<1>3. u * m \in Int
  BY SMT
<1>4. z * d = d * z
  BY SMT, <1>1
<1> HIDE DEF d, m, o
<1>5. Cong(d * (u * u), d * z)
  BY <1>1, CongScale
<1> DEFINE v == u * m
           s == d * (u * u)
           t == d * z
<1>6. v \in Int /\ Cong(s, t)
  BY <1>3, <1>5
<1> HIDE DEF v, s, t
<1>7. o + v \in Int
  BY SMT, <1>1, <1>6
<1>8. Cong((o + v) + s, (o + v) + t)
  BY <1>6, <1>7, CongAdd, CongRefl
<1>9. (o + v) + t = (o + t) + v
  BY SMT, <1>1, <1>6 DEF Cong
<1>10. Cong((o + v) + s, (o + t) + v)
  BY <1>8, <1>9
<1> QED BY <1>2, <1>4, <1>10, Zenon DEF v, s, t, o, m, d

(* The same for the upper half, whose modulus has the other sign.          *)
LEMMA SplitHigh ==
  ASSUME NEW a0 \in Int, NEW a1 \in Int, NEW c0 \in Int, NEW c1 \in Int,
         NEW u \in Int, NEW z, Cong(u * u, z)
  PROVE  Cong(u * ((a0 + u * a1) * (c0 + u * c1)),
              (z * (a0 * c1) + z * (a1 * c0)) + u * (a0 * c0 + z * (a1 * c1)))
<1> DEFINE P == (a0 + u * a1) * (c0 + u * c1)
           o == a0 * c0 + z * (a1 * c1)
           m == a0 * c1 + a1 * c0
<1>1. z \in Int /\ u * u \in Int /\ m \in Int /\ o \in Int /\ P \in Int
  <2>1. z \in Int
    BY DEF Cong
  <2> QED BY SMT, <2>1
<1>2. Cong(P, o + u * m)
  BY SplitLow
<1>3. Cong(m * (u * u), m * z)
  BY <1>1, CongScale
<1>4. m * z = z * (a0 * c1) + z * (a1 * c0)
  BY SMT, <1>1
<1> HIDE DEF P, o, m
<1>5. Cong(u * P, u * (o + u * m))
  BY <1>2, CongScale
<1> DEFINE q == m * (u * u)
           v == u * o
           r == m * z
<1>6. u * (o + u * m) = v + q
  BY SMT, <1>1
<1>7. v \in Int
  BY SMT, <1>1
<1>8. Cong(q, r)
  BY <1>3
<1> HIDE DEF q, v, r
<1>9. Cong(v + q, v + r)
  BY <1>7, <1>8, CongAdd, CongRefl
<1>10. v + r = r + v
  BY SMT, <1>7, <1>8 DEF Cong
<1>11. Cong(u * P, r + v)
  BY <1>5, <1>6, <1>9, <1>10, CongTrans
<1> QED BY <1>4, <1>11, Zenon DEF P, o, v, r

(* Terms and layers of integers are integers.                              *)
LEMMA TermsFamily ==
  ASSUME NEW w, NEW n \in Sizes, NEW a \in Element, NEW c \in Element, NEW i \in Index,
         Modulus(w, n, i) \in Int
  PROVE  Terms(w, n, a, c, i) \in Family(n)
<1>1. PICK b \in Int, x \in Int :
        0 <= b /\ n * b < 256 /\ 0 <= x /\ x < n /\ i = n * b + x
  BY BlockOf
<1>2. i \div n = b /\ i % n = x
  BY <1>1, Coordinates
<1>3. n \in Int
  BY SMT DEF Sizes
<1> DEFINE z == Modulus(w, n, i)
<1> HIDE DEF z
<1>4. ASSUME NEW j \in 0..(n - 1)
      PROVE  /\ n * b + j \in Index
             /\ j <= x => i - j \in Index
             /\ ~(j <= x) => i + n - j \in Index
  <2>1. j \in Int /\ 0 <= j /\ j < n
    BY SMT, <1>3
  <2>2. n * b + j \in Index
    BY <1>1, <2>1, Coordinates
  <2>3. ASSUME j <= x PROVE i - j \in Index
    <3> DEFINE y == x - j
               e == i - j
    <3>1. y \in Int /\ 0 <= y /\ y < n /\ e = n * b + y
      BY SMT, <1>1, <1>3, <2>1, <2>3
    <3> HIDE DEF y, e
    <3>2. e \in Index
      BY <1>1, <3>1, Coordinates
    <3> QED BY <3>2 DEF e
  <2>4. ASSUME ~(j <= x) PROVE i + n - j \in Index
    <3> DEFINE y == (x + n) - j
               e == i + n - j
    <3>1. y \in Int /\ 0 <= y /\ y < n /\ e = n * b + y
      BY SMT, <1>1, <1>3, <2>1, <2>4
    <3> HIDE DEF y, e
    <3>2. e \in Index
      BY <1>1, <3>1, Coordinates
    <3> QED BY <3>2 DEF e
  <2> QED BY <2>2, <2>3, <2>4
<1>5. \A p \in Index, e \in Index : a[p] * c[e] \in Int
  <2> TAKE p \in Index, e \in Index
  <2>1. a[p] \in Int /\ c[e] \in Int
    BY DEF Element
  <2> QED BY SMT, <2>1
<1>6. z \in Int /\ \A v \in Int : z * v \in Int
  <2>1. z \in Int
    BY DEF z
  <2> QED BY SMT, <2>1
<1> DEFINE t(j) == IF j <= x THEN a[n * b + j] * c[i - j] ELSE z * (a[n * b + j] * c[i + n - j])
<1>7. ASSUME NEW j \in 0..(n - 1) PROVE t(j) \in Int
  BY <1>4, <1>5, <1>6
<1>8. Terms(w, n, a, c, i) = [j \in 0..(n - 1) |-> t(j)]
  BY <1>2, Zenon DEF Terms, z
<1> HIDE DEF t
<1> QED BY <1>7, <1>8 DEF Family

LEMMA SplitElement ==
  ASSUME NEW w, Roots(w), NEW n \in Lens, NEW r \in Element
  PROVE  Split(w, n, r) \in Element
<1> SUFFICES ASSUME NEW i \in Index PROVE Split(w, n, r)[i] \in Int
  BY DEF Split, Element
<1>0. n \in Int /\ 2 * n \in Sizes
  BY LensAreSizes
<1> DEFINE s == 2 * n
<1>1. PICK b \in Int, y \in Int :
        0 <= b /\ s * b < 256 /\ 0 <= y /\ y < s /\ i = s * b + y
  BY <1>0, BlockOf
<1>2. ASSUME NEW x \in Int, NEW l, NEW h, Partners(n, b, x, l, h)
      PROVE  Split(w, n, r)[l] \in Int /\ Split(w, n, r)[h] \in Int
  <2> DEFINE u == w[First(n) + b]
  <2>1. l \in Index /\ h \in Index /\ l \div (2 * n) = b
    BY <1>2, PartnersAt
  <2>2. u \in Int
    <3>1. IsRootOf(w, n, b, Modulus(w, 2 * n, l))
      BY <1>1, <2>1, ModulusIsSquare
    <3> QED BY <3>1 DEF IsRootOf
  <2>3. SplitPair(w, n, b, r, l, h)
    BY <1>2, SplitAt
  <2>4. Split(w, n, r)[l] = r[l] + u * r[h] /\ Split(w, n, r)[h] = r[l] - u * r[h]
    BY <2>3 DEF SplitPair
  <2>5. r[l] \in Int /\ r[h] \in Int
    BY <2>1 DEF Element
  <2> HIDE DEF u
  <2>6. r[l] + u * r[h] \in Int /\ r[l] - u * r[h] \in Int
    BY SMT, <2>2, <2>5
  <2> QED BY <2>4, <2>6
<1>3. CASE y < n
  <2>1. Partners(n, b, y, i, i + n)
    BY <1>1, <1>3 DEF Partners
  <2> QED BY <1>2, <2>1
<1>4. CASE ~(y < n)
  <2> DEFINE x == y - n
             l == i - n
  <2>1. x \in Int /\ 0 <= x /\ x < n /\ l = s * b + x /\ i = l + n
    BY SMT, <1>0, <1>1, <1>4
  <2> HIDE DEF x, l
  <2>2. Partners(n, b, x, l, i)
    BY <1>1, <2>1 DEF Partners
  <2> QED BY <1>2, <2>1, <2>2
<1> QED BY <1>3, <1>4

(* The residues of a term of the product are the terms of the residues.    *)
LEMMA TermsSplit ==
  ASSUME NEW w, Roots(w), NEW a \in Element, NEW c \in Element,
         NEW n, NEW b, NEW x, NEW i, NEW h, Partners(n, b, x, i, h), NEW j \in 0..(n - 1),
         NEW u, u = w[First(n) + b]
  PROVE  LET ti == Halve(Terms(w, 2 * n, a, c, i), n)
             th == Halve(Terms(w, 2 * n, a, c, h), n)
         IN /\ Cong(Terms(w, n, Split(w, n, a), Split(w, n, c), i)[j], ti[j] + u * th[j])
            /\ Cong(Terms(w, n, Split(w, n, a), Split(w, n, c), h)[j], ti[j] + (-u) * th[j])
<1> DEFINE p == (2 * n) * b + j
           e == Other(n, i, x, j)
           z == Modulus(w, 2 * n, i)
           A == Split(w, n, a)
           C == Split(w, n, c)
           ti == Halve(Terms(w, 2 * n, a, c, i), n)
           th == Halve(Terms(w, 2 * n, a, c, h), n)
<1>1. Partners(n, b, j, p, p + n)
  BY OtherPartners
<1>2. PICK y : Partners(n, b, y, e, e + n)
  BY OtherPartners
<1>3. n \in Lens /\ b \in Int /\ 0 <= b /\ (2 * n) * b < 256 /\ i \div (2 * n) = b
  BY PartnersAt DEF Partners
<1>4. u \in Int /\ Cong(u * u, z)
  <2>1. IsRootOf(w, n, b, z)
    BY <1>3, ModulusIsSquare
  <2> QED BY <2>1 DEF IsRootOf
<1>5. /\ p \in Index /\ p + n \in Index /\ e \in Index /\ e + n \in Index
  BY <1>1, <1>2, PartnersAt
<1>6. a[p] \in Int /\ a[p + n] \in Int /\ c[e] \in Int /\ c[e + n] \in Int
  BY <1>5 DEF Element
<1>7. /\ Terms(w, 2 * n, a, c, i)[j] = IF j <= x THEN a[p] * c[e] ELSE z * (a[p] * c[e + n])
      /\ Terms(w, 2 * n, a, c, i)[j + n] = z * (a[p + n] * c[IF j <= x THEN e + n ELSE e])
      /\ Terms(w, 2 * n, a, c, h)[j] = a[p] * c[IF j <= x THEN e + n ELSE e]
      /\ Terms(w, 2 * n, a, c, h)[j + n] =
           IF j <= x THEN a[p + n] * c[e] ELSE z * (a[p + n] * c[e + n])
  BY ParentTerms
<1>8. /\ Terms(w, n, A, C, i)[j] = IF j <= x THEN A[p] * C[e] ELSE u * (A[p] * C[e])
      /\ Terms(w, n, A, C, h)[j] =
           IF j <= x THEN A[p + n] * C[e + n] ELSE (-u) * (A[p + n] * C[e + n])
  <2> HIDE DEF A, C
  <2> QED BY ChildTerms
<1>9. A[p] = a[p] + u * a[p + n] /\ A[p + n] = a[p] - u * a[p + n]
  <2>1. SplitPair(w, n, b, a, p, p + n)
    BY <1>1, SplitAt
  <2> QED BY <2>1 DEF SplitPair
<1>10. C[e] = c[e] + u * c[e + n] /\ C[e + n] = c[e] - u * c[e + n]
  <2>1. SplitPair(w, n, b, c, e, e + n)
    BY <1>2, SplitAt
  <2> QED BY <2>1 DEF SplitPair
<1>11. /\ ti[j] = Terms(w, 2 * n, a, c, i)[j] + Terms(w, 2 * n, a, c, i)[j + n]
       /\ th[j] = Terms(w, 2 * n, a, c, h)[j] + Terms(w, 2 * n, a, c, h)[j + n]
  BY DEF Halve
<1> DEFINE a0 == a[p]
           a1 == a[p + n]
           c0 == c[e]
           c1 == c[e + n]
           v  == -u
<1>12. a0 \in Int /\ a1 \in Int /\ c0 \in Int /\ c1 \in Int /\ v \in Int /\ v = -u
  BY SMT, <1>4, <1>6
<1>13. Cong(v * v, z)
  <2>1. v * v = u * u
    BY SMT, <1>4
  <2> QED BY <1>4, <2>1
<1>14. A[p] = a0 + u * a1 /\ A[p + n] = a0 + v * a1 /\ C[e] = c0 + u * c1 /\ C[e + n] = c0 + v * c1
  <2>1. a0 - u * a1 = a0 + v * a1 /\ c0 - u * c1 = c0 + v * c1
    BY SMT, <1>4, <1>12
  <2> QED BY <1>9, <1>10, <2>1
<1>15. CASE j <= x
  <2>1. /\ ti[j] = a0 * c0 + z * (a1 * c1) /\ th[j] = a0 * c1 + a1 * c0
        /\ Terms(w, n, A, C, i)[j] = A[p] * C[e]
        /\ Terms(w, n, A, C, h)[j] = A[p + n] * C[e + n]
    BY <1>7, <1>8, <1>11, <1>15, Zenon
  <2> HIDE DEF ti, th, A, C, a0, a1, c0, c1, v, z
  <2>2. Cong(Terms(w, n, A, C, i)[j], ti[j] + u * th[j])
    <3>1. Cong((a0 + u * a1) * (c0 + u * c1), (a0 * c0 + z * (a1 * c1)) + u * (a0 * c1 + a1 * c0))
      BY <1>4, <1>12, SplitLow
    <3> QED BY <1>14, <2>1, <3>1, Zenon
  <2>3. Cong(Terms(w, n, A, C, h)[j], ti[j] + v * th[j])
    <3>1. Cong((a0 + v * a1) * (c0 + v * c1), (a0 * c0 + z * (a1 * c1)) + v * (a0 * c1 + a1 * c0))
      BY <1>12, <1>13, SplitLow
    <3> QED BY <1>14, <2>1, <3>1, Zenon
  <2> QED BY <2>2, <2>3, Zenon DEF ti, th, A, C, v
<1>16. CASE ~(j <= x)
  <2>1. /\ ti[j] = z * (a0 * c1) + z * (a1 * c0) /\ th[j] = a0 * c0 + z * (a1 * c1)
        /\ Terms(w, n, A, C, i)[j] = u * (A[p] * C[e])
        /\ Terms(w, n, A, C, h)[j] = v * (A[p + n] * C[e + n])
    BY <1>7, <1>8, <1>11, <1>16, Zenon
  <2> HIDE DEF ti, th, A, C, a0, a1, c0, c1, v, z
  <2>2. Cong(Terms(w, n, A, C, i)[j], ti[j] + u * th[j])
    <3>1. Cong(u * ((a0 + u * a1) * (c0 + u * c1)),
               (z * (a0 * c1) + z * (a1 * c0)) + u * (a0 * c0 + z * (a1 * c1)))
      BY <1>4, <1>12, SplitHigh
    <3> QED BY <1>14, <2>1, <3>1, Zenon
  <2>3. Cong(Terms(w, n, A, C, h)[j], ti[j] + v * th[j])
    <3>1. Cong(v * ((a0 + v * a1) * (c0 + v * c1)),
               (z * (a0 * c1) + z * (a1 * c0)) + v * (a0 * c0 + z * (a1 * c1)))
      BY <1>12, <1>13, SplitHigh
    <3> QED BY <1>14, <2>1, <3>1, Zenon
  <2> QED BY <2>2, <2>3, Zenon DEF ti, th, A, C, v
<1> QED BY <1>15, <1>16

(* A layer is a ring homomorphism: the product, block by block, of two     *)
(* elements is mapped to the product of their images in the blocks of half *)
(* the size.                                                               *)
THEOREM ProductSplits ==
  ASSUME NEW w, Roots(w), NEW n \in Lens, NEW a \in Element, NEW c \in Element, NEW d \in Element,
         IsProduct(w, 2 * n, a, c, d)
  PROVE  IsProduct(w, n, Split(w, n, a), Split(w, n, c), Split(w, n, d))
<1> DEFINE A == Split(w, n, a)
           C == Split(w, n, c)
           D == Split(w, n, d)
           s == 2 * n
<1>1. n \in Int /\ s \in Sizes /\ n \in Sizes /\ n \in {1} \cup Lens /\ n \in {1, 256} \cup Lens
  BY LensAreSizes
<1>2. A \in Element /\ C \in Element
  BY SplitElement
<1> HIDE DEF A, C, D
<1>3. ASSUME NEW b, NEW x, NEW i, NEW h, Partners(n, b, x, i, h)
      PROVE  /\ Cong(D[i], Sum(n, Terms(w, n, A, C, i)))
             /\ Cong(D[h], Sum(n, Terms(w, n, A, C, h)))
  <2> DEFINE u == w[First(n) + b]
             v == -u
             ti == Halve(Terms(w, s, a, c, i), n)
             th == Halve(Terms(w, s, a, c, h), n)
             Ti == Terms(w, n, A, C, i)
             Th == Terms(w, n, A, C, h)
  <2>1. /\ i \in Index /\ h \in Index /\ i \div (2 * n) = b /\ h \div (2 * n) = b
        /\ b \in Int /\ 0 <= b /\ (2 * n) * b < 256
    BY <1>3, PartnersAt DEF Partners
  <2>2. u \in Int /\ v \in Int /\ Modulus(w, s, i) \in Int /\ Modulus(w, s, h) \in Int
    <3>1. IsRootOf(w, n, b, Modulus(w, s, i)) /\ IsRootOf(w, n, b, Modulus(w, s, h))
      BY <2>1, ModulusIsSquare
    <3>2. u \in Int /\ Cong(u * u, Modulus(w, s, i)) /\ Cong(u * u, Modulus(w, s, h))
      BY <3>1 DEF IsRootOf
    <3> QED BY <3>2, SMT DEF Cong
  <2>3. Modulus(w, n, i) \in Int /\ Modulus(w, n, h) \in Int
    <3>1. Halves(w, n, b, x, i, h)
      BY <1>3, ModulusOfChild
    <3> QED BY <2>2, <3>1 DEF Halves
  <2>4. Terms(w, s, a, c, i) \in Family(s) /\ Terms(w, s, a, c, h) \in Family(s)
    BY <1>1, <2>1, <2>2, TermsFamily
  <2>5. Ti \in Family(n) /\ Th \in Family(n)
    BY <1>1, <1>2, <2>1, <2>3, TermsFamily
  <2>6. ti \in Family(n) /\ th \in Family(n)
    <3>1. n \in Nat
      BY SumHalves
    <3> QED BY <2>4, <3>1, HalveOf
  <2>7. ASSUME NEW j \in 0..(n - 1)
        PROVE  Cong(Ti[j], ti[j] + u * th[j]) /\ Cong(Th[j], ti[j] + v * th[j])
    BY <1>3, TermsSplit DEF A, C
  <2>8. Cong(d[i], Sum(n, ti)) /\ Cong(d[h], Sum(n, th))
    BY <1>1, <2>1, SumHalves DEF IsProduct
  <2>9. D[i] = d[i] + u * d[h] /\ D[h] = d[i] - u * d[h]
    <3>1. SplitPair(w, n, b, d, i, h)
      BY <1>3, SplitAt
    <3> QED BY <3>1 DEF SplitPair, D
  <2>10. d[i] - u * d[h] = d[i] + v * d[h]
    <3>1. d[i] \in Int /\ d[h] \in Int
      BY <2>1 DEF Element
    <3> HIDE DEF u
    <3> QED BY SMT, <2>2, <3>1
  <2> HIDE DEF u, v, ti, th, Ti, Th
  <2>11. LinearSum(n)
    BY <1>1, SumLinear
  <2>12. Cong(Sum(n, Ti), Sum(n, ti) + u * Sum(n, th))
    BY <2>2, <2>5, <2>6, <2>7, <2>11 DEF LinearSum
  <2>13. Cong(Sum(n, Th), Sum(n, ti) + v * Sum(n, th))
    BY <2>2, <2>5, <2>6, <2>7, <2>11 DEF LinearSum
  <2>14. Cong(d[i] + u * d[h], Sum(n, ti) + u * Sum(n, th))
    BY <2>2, <2>8, CongScale, CongAdd
  <2>15. Cong(d[i] + v * d[h], Sum(n, ti) + v * Sum(n, th))
    BY <2>2, <2>8, CongScale, CongAdd
  <2>16. Cong(D[i], Sum(n, Ti))
    BY <2>9, <2>12, <2>14, CongSym, CongTrans
  <2>17. Cong(D[h], Sum(n, Th))
    BY <2>9, <2>10, <2>13, <2>15, CongSym, CongTrans
  <2> QED BY <2>16, <2>17 DEF Ti, Th
<1>4. ASSUME NEW i \in Index PROVE Cong(D[i], Sum(n, Terms(w, n, A, C, i)))
  <2>1. PICK b \in Int, y \in Int :
          0 <= b /\ s * b < 256 /\ 0 <= y /\ y < s /\ i = s * b + y
    BY <1>1, BlockOf
  <2>2. CASE y < n
    <3>1. Partners(n, b, y, i, i + n)
      BY <2>1, <2>2 DEF Partners
    <3> QED BY <1>3, <3>1
  <2>3. CASE ~(y < n)
    <3> DEFINE x == y - n
               l == i - n
    <3>1. x \in Int /\ 0 <= x /\ x < n /\ l = s * b + x /\ i = l + n
      BY SMT, <1>1, <2>1, <2>3
    <3> HIDE DEF x, l
    <3>2. Partners(n, b, x, l, i)
      BY <2>1, <3>1 DEF Partners
    <3> QED BY <1>3, <3>2
  <2> QED BY <2>2, <2>3
<1> QED BY <1>4 DEF IsProduct, A, C, D

(* The image of an element after the layers down to half-size n.           *)
Image(w, n, r) ==
  LET r1 == Split(w, 128, r)  r2 == Split(w, 64, r1)  r3 == Split(w, 32, r2)
      r4 == Split(w, 16, r3)  r5 == Split(w, 8, r4)   r6 == Split(w, 4, r5)
  IN CASE n = 256 -> r [] n = 128 -> r1 [] n = 64 -> r2 [] n = 32 -> r3
       [] n = 16 -> r4 [] n = 8 -> r5 [] n = 4 -> r6 [] n = 2 -> Split(w, 2, r6)

LEMMA ImageWhole ==
  ASSUME NEW w, NEW r
  PROVE  Image(w, 256, r) = r
BY SMT DEF Image

(* One more layer.                                                         *)
LEMMA ImageStep ==
  ASSUME NEW w, NEW r, NEW n \in Lens
  PROVE  Image(w, n, r) = Split(w, n, Image(w, 2 * n, r))
<1>1. CASE n = 128
  BY SMT, <1>1 DEF Image
<1>2. CASE n = 64
  BY SMT, <1>2 DEF Image
<1>3. CASE n = 32
  BY SMT, <1>3 DEF Image
<1>4. CASE n = 16
  BY SMT, <1>4 DEF Image
<1>5. CASE n = 8
  BY SMT, <1>5 DEF Image
<1>6. CASE n = 4
  BY SMT, <1>6 DEF Image
<1>7. CASE n = 2
  BY SMT, <1>7 DEF Image
<1> QED BY <1>1, <1>2, <1>3, <1>4, <1>5, <1>6, <1>7 DEF Lens

(* What a layer preserves, all layers preserve.                            *)
LEMMA LayersInduction ==
  ASSUME NEW S, 256 \in S, \A n \in Lens : 2 * n \in S => n \in S
  PROVE  \A n \in Sizes : n \in S
<1>1. /\ 2 * 128 = 256 /\ 2 * 64 = 128 /\ 2 * 32 = 64 /\ 2 * 16 = 32 /\ 2 * 8 = 16
      /\ 2 * 4 = 8 /\ 2 * 2 = 4
  BY SMT
<1>2. /\ 128 \in Lens /\ 64 \in Lens /\ 32 \in Lens /\ 16 \in Lens /\ 8 \in Lens
      /\ 4 \in Lens /\ 2 \in Lens
  BY DEF Lens
<1>3. 128 \in S
  BY <1>1, <1>2
<1>4. 64 \in S
  BY <1>1, <1>2, <1>3
<1>5. 32 \in S
  BY <1>1, <1>2, <1>4
<1>6. 16 \in S
  BY <1>1, <1>2, <1>5
<1>7. 8 \in S
  BY <1>1, <1>2, <1>6
<1>8. 4 \in S
  BY <1>1, <1>2, <1>7
<1>9. 2 \in S
  BY <1>1, <1>2, <1>8
<1> QED BY <1>3, <1>4, <1>5, <1>6, <1>7, <1>8, <1>9 DEF Sizes

LEMMA ImageElement ==
  ASSUME NEW w, Roots(w), NEW r \in Element
  PROVE  \A n \in Sizes : Image(w, n, r) \in Element
<1> DEFINE S == {n \in Sizes : Image(w, n, r) \in Element}
<1>1. 256 \in S
  BY ImageWhole DEF Sizes
<1>2. ASSUME NEW n \in Lens, 2 * n \in S PROVE n \in S
  BY <1>2, ImageStep, SplitElement, LensAreSizes
<1> HIDE DEF S
<1>3. \A n \in Sizes : n \in S
  BY <1>1, <1>2, LayersInduction
<1> QED BY <1>3 DEF S

(* Products stay products through all layers.                              *)
LEMMA ImageProduct ==
  ASSUME NEW w, Roots(w), NEW a \in Element, NEW c \in Element, NEW d \in Element,
         IsProduct(w, 256, a, c, d)
  PROVE  \A n \in Sizes : IsProduct(w, n, Image(w, n, a), Image(w, n, c), Image(w, n, d))
<1> DEFINE S == {n \in Sizes : IsProduct(w, n, Image(w, n, a), Image(w, n, c), Image(w, n, d))}
<1>1. 256 \in S
  BY ImageWhole DEF Sizes
<1>2. ASSUME NEW n \in Lens, 2 * n \in S PROVE n \in S
  <2>1. /\ Image(w, 2 * n, a) \in Element /\ Image(w, 2 * n, c) \in Element
        /\ Image(w, 2 * n, d) \in Element
    BY ImageElement, LensAreSizes
  <2>2. IsProduct(w, 2 * n, Image(w, 2 * n, a), Image(w, 2 * n, c), Image(w, 2 * n, d))
    BY <1>2
  <2>3. IsProduct(w, n, Split(w, n, Image(w, 2 * n, a)), Split(w, n, Image(w, 2 * n, c)),
                  Split(w, n, Image(w, 2 * n, d)))
    BY <2>1, <2>2, ProductSplits
  <2>4. n \in Sizes
    BY LensAreSizes
  <2> QED BY <2>3, <2>4, ImageStep
<1> HIDE DEF S
<1>3. \A n \in Sizes : n \in S
  BY <1>1, <1>2, LayersInduction
<1> QED BY <1>3 DEF S

(* The sum of three elements.                                              *)
Total(v) == [i \in Index |-> v[1][i] + v[2][i] + v[3][i]]

LEMMA TotalElement ==
  ASSUME NEW v \in [Components -> Element]
  PROVE  Total(v) \in Element /\ v[1] \in Element /\ v[2] \in Element /\ v[3] \in Element
<1>1. v[1] \in Element /\ v[2] \in Element /\ v[3] \in Element
  BY DEF Components
<1>2. \A i \in Index : v[1][i] \in Int /\ v[2][i] \in Int /\ v[3][i] \in Int
  BY <1>1 DEF Element
<1>3. \A i \in Index : v[1][i] + v[2][i] + v[3][i] \in Int
  BY SMT, <1>2
<1> QED BY <1>1, <1>3 DEF Total, Element

(* A layer distributes over the sum of three elements.                     *)
LEMMA SplitTotal ==
  ASSUME NEW w, Roots(w), NEW n \in Lens, NEW v \in [Components -> Element]
  PROVE  Split(w, n, Total(v)) = Total([c \in Components |-> Split(w, n, v[c])])
<1> DEFINE s == 2 * n
           S == Split(w, n, Total(v))
           T == [c \in Components |-> Split(w, n, v[c])]
<1>0. n \in Int /\ s \in Sizes
  BY LensAreSizes
<1>1. ASSUME NEW b, NEW x, NEW l, NEW h, Partners(n, b, x, l, h)
      PROVE  S[l] = Total(T)[l] /\ S[h] = Total(T)[h]
  <2> DEFINE u == w[First(n) + b]
  <2>1. /\ l \in Index /\ h \in Index /\ l \div (2 * n) = b
        /\ b \in Int /\ 0 <= b /\ (2 * n) * b < 256
    BY <1>1, PartnersAt DEF Partners
  <2>2. u \in Int
    <3>1. IsRootOf(w, n, b, Modulus(w, 2 * n, l))
      BY <2>1, ModulusIsSquare
    <3> QED BY <3>1 DEF IsRootOf
  <2>3. /\ SplitPair(w, n, b, v[1], l, h) /\ SplitPair(w, n, b, v[2], l, h)
        /\ SplitPair(w, n, b, v[3], l, h) /\ SplitPair(w, n, b, Total(v), l, h)
    BY <1>1, SplitAt
  <2>4. T[1] = Split(w, n, v[1]) /\ T[2] = Split(w, n, v[2]) /\ T[3] = Split(w, n, v[3])
    BY DEF Components
  <2>5. /\ Total(v)[l] = v[1][l] + v[2][l] + v[3][l] /\ Total(v)[h] = v[1][h] + v[2][h] + v[3][h]
        /\ Total(T)[l] = T[1][l] + T[2][l] + T[3][l] /\ Total(T)[h] = T[1][h] + T[2][h] + T[3][h]
    <3> HIDE DEF T
    <3> QED BY <2>1 DEF Total
  <2>6. /\ v[1][l] \in Int /\ v[2][l] \in Int /\ v[3][l] \in Int
        /\ v[1][h] \in Int /\ v[2][h] \in Int /\ v[3][h] \in Int
    BY <2>1, TotalElement DEF Element
  <2>7. /\ T[1][l] = v[1][l] + u * v[1][h] /\ T[1][h] = v[1][l] - u * v[1][h]
        /\ T[2][l] = v[2][l] + u * v[2][h] /\ T[2][h] = v[2][l] - u * v[2][h]
        /\ T[3][l] = v[3][l] + u * v[3][h] /\ T[3][h] = v[3][l] - u * v[3][h]
        /\ S[l] = Total(v)[l] + u * Total(v)[h] /\ S[h] = Total(v)[l] - u * Total(v)[h]
    BY <2>3, <2>4 DEF SplitPair
  <2> HIDE DEF u, T, S
  <2>8. S[l] = Total(T)[l]
    BY ONLY SMT, <2>2, <2>5, <2>6, <2>7
  <2>9. S[h] = Total(T)[h]
    BY ONLY SMT, <2>2, <2>5, <2>6, <2>7
  <2> QED BY <2>8, <2>9
<1>2. ASSUME NEW i \in Index PROVE S[i] = Total(T)[i]
  <2> HIDE DEF S, T
  <2>1. PICK b \in Int, y \in Int :
          0 <= b /\ s * b < 256 /\ 0 <= y /\ y < s /\ i = s * b + y
    BY <1>0, BlockOf
  <2>2. CASE y < n
    <3>1. Partners(n, b, y, i, i + n)
      BY <2>1, <2>2 DEF Partners
    <3> QED BY <1>1, <3>1
  <2>3. CASE ~(y < n)
    <3> DEFINE x == y - n
               l == i - n
    <3>1. x \in Int /\ 0 <= x /\ x < n /\ l = s * b + x /\ i = l + n
      BY SMT, <1>0, <2>1, <2>3
    <3> HIDE DEF x, l
    <3>2. Partners(n, b, x, l, i)
      BY <2>1, <3>1 DEF Partners
    <3> QED BY <1>1, <3>2
  <2> QED BY <2>2, <2>3
<1>3. S = [i \in Index |-> S[i]]
  BY Zenon DEF Split
<1>4. Total(T) = [i \in Index |-> Total(T)[i]]
  <2> HIDE DEF T
  <2> QED BY DEF Total
<1> HIDE DEF S, T
<1>5. S = Total(T)
  BY <1>2, <1>3, <1>4, Zenon
<1> QED BY <1>5 DEF S, T

(* So do all layers.                                                       *)
LEMMA ImageTotal ==
  ASSUME NEW w, Roots(w), NEW v \in [Components -> Element]
  PROVE  \A n \in Sizes : Image(w, n, Total(v)) = Total([c \in Components |-> Image(w, n, v[c])])
<1> DEFINE S == {n \in Sizes : Image(w, n, Total(v)) = Total([c \in Components |-> Image(w, n, v[c])])}
<1>1. 256 \in S
  <2>1. v = [c \in Components |-> Image(w, 256, v[c])]
    <3>1. v = [c \in Components |-> v[c]]
      OBVIOUS
    <3> QED BY <3>1, ImageWhole, Zenon
  <2>2. 256 \in Sizes
    BY DEF Sizes
  <2> QED BY <2>1, <2>2, ImageWhole, Zenon
<1>2. ASSUME NEW n \in Lens, 2 * n \in S PROVE n \in S
  <2> DEFINE t == [c \in Components |-> Image(w, 2 * n, v[c])]
             o == [c \in Components |-> Image(w, n, v[c])]
  <2>1. n \in Sizes /\ 2 * n \in Sizes
    BY LensAreSizes
  <2>2. t \in [Components -> Element]
    <3>1. \A c \in Components : Image(w, 2 * n, v[c]) \in Element
      BY <2>1, ImageElement
    <3> QED BY <3>1
  <2>3. o = [c \in Components |-> Split(w, n, t[c])]
    <3>1. \A c \in Components : Image(w, n, v[c]) = Split(w, n, t[c])
      BY ImageStep
    <3> QED BY <3>1, Zenon
  <2>4. Image(w, 2 * n, Total(v)) = Total(t)
    BY <1>2
  <2>5. Image(w, n, Total(v)) = Split(w, n, Total(t))
    BY <2>4, ImageStep
  <2> HIDE DEF t, o
  <2>6. Split(w, n, Total(t)) = Total(o)
    BY <2>2, <2>3, SplitTotal
  <2>7. Image(w, n, Total(v)) = Total(o)
    BY <2>5, <2>6
  <2> QED BY <2>1, <2>7 DEF o
<1> HIDE DEF S
<1>3. \A n \in Sizes : n \in S
  BY <1>1, <1>2, LayersInduction
<1> QED BY <1>3 DEF S

(* The code's twiddle factors are the roots in Montgomery form.            *)
Root == [m \in Twiddle |-> 169 * zetas[m]]

Same(r, v) == \A i \in Index : Cong(r[i], v[i])

(* What holds of both coefficients of every pair holds of all.             *)
LEMMA PairsCover ==
  ASSUME NEW n \in Lens, NEW S,
         \A b, x, i, h : Partners(n, b, x, i, h) => i \in S /\ h \in S
  PROVE  \A i \in Index : i \in S
<1> SUFFICES ASSUME NEW i \in Index PROVE i \in S
  OBVIOUS
<1> DEFINE s == 2 * n
<1>0. n \in Int /\ s \in Sizes
  BY LensAreSizes
<1>1. PICK b \in Int, y \in Int :
        0 <= b /\ s * b < 256 /\ 0 <= y /\ y < s /\ i = s * b + y
  BY <1>0, BlockOf
<1>2. CASE y < n
  <2>1. Partners(n, b, y, i, i + n)
    BY <1>1, <1>2 DEF Partners
  <2> QED BY <2>1
<1>3. CASE ~(y < n)
  <2> DEFINE x == y - n
             l == i - n
  <2>1. x \in Int /\ 0 <= x /\ x < n /\ l = s * b + x /\ i = l + n
    BY SMT, <1>0, <1>1, <1>3
  <2> HIDE DEF x, l
  <2>2. Partners(n, b, x, l, i)
    BY <1>1, <2>1 DEF Partners
  <2> QED BY <2>2
<1> QED BY <1>2, <1>3

(* fq_mul by a twiddle factor multiplies by a root of unity.               *)
LEMMA RootTimes ==
  ASSUME Tables, NEW m \in Twiddle, NEW x, Abs(x, 32767)
  PROVE  Cong(fq_mul(zetas[m], x), Root[m] * x) /\ Abs(fq_mul(zetas[m], x), 3328)
<1> DEFINE z == zetas[m]
<1>1. Abs(z, 3328) /\ z \in Int /\ x \in Int
  BY SMT DEF Tables, Abs
<1>2. Root[m] = 169 * z
  BY DEF Root
<1> HIDE DEF z
<1>3. Cong(fq_mul(z, x), 169 * (z * x)) /\ Abs(fq_mul(z, x), 3328)
  BY <1>1, FqMulTimes, FqMulRange
<1>4. 169 * (z * x) = (169 * z) * x
  BY SMT, <1>1
<1> QED BY <1>2, <1>3, <1>4 DEF z

(* The first twiddle factor of a layer, in ntt and in invntt.              *)
LEMMA AheadPosition ==
  ASSUME <<len, k>> \in Ahead
  PROVE  len \in Lens /\ k = First(len)
BY SMT DEF Ahead, Lens, First

LEMMA BehindPosition ==
  ASSUME <<len, k>> \in Behind
  PROVE  len \in Lens /\ k = 2 * First(len) - 1
BY SMT DEF Behind, Lens, First

(* A layer of the code, coefficient by coefficient.                        *)
LEMMA LayerAt ==
  ASSUME NEW r, NEW i \in Index, NEW block, block = i \div (2 * len)
  PROVE  /\ i % (2 * len) < len =>
              Layer(r)[i] = Wrap16(r[i] + fq_mul(zetas[k + block], r[i + len]))
         /\ ~(i % (2 * len) < len) =>
              Layer(r)[i] = Wrap16(r[i - len] - fq_mul(zetas[k + block], r[i]))
BY DEF Layer

LEMMA InvLayerAt ==
  ASSUME NEW r, NEW i \in Index, NEW block, block = i \div (2 * len)
  PROVE  /\ i % (2 * len) < len =>
              InvLayer(r)[i] = barrett_reduce(Wrap16(r[i] + r[i + len]))
         /\ ~(i % (2 * len) < len) =>
              InvLayer(r)[i] = fq_mul(zetas[k - block], Wrap16(r[i] - r[i - len]))
BY DEF InvLayer

(* A layer of ntt maps vectors that represent an element modulo the        *)
(* polynomials X^2len - z of its blocks to vectors that represent it       *)
(* modulo X^len - u and X^len + u, where u^2 = z: whatever the             *)
(* coefficients, as long as they leave room for the lazy addition.         *)
THEOREM LayerSplits ==
  ASSUME Tables, Roots(Root), <<len, k>> \in Ahead, NEW bound \in Nat, bound <= 29439,
         NEW r, Vector(r, bound), NEW v \in Element, Same(r, v)
  PROVE  Same(Layer(r), Split(Root, len, v))
<1> DEFINE V == Split(Root, len, v)
           S == {i \in Index : Cong(Layer(r)[i], V[i])}
<1>1. len \in Lens /\ k = First(len) /\ len \in Int
  BY AheadPosition, LensAreSizes
<1>2. ASSUME NEW b, NEW x, NEW i, NEW h, Partners(len, b, x, i, h)
      PROVE  i \in S /\ h \in S
  <2> DEFINE u == Root[First(len) + b]
             z == zetas[k + b]
             t == fq_mul(z, r[h])
  <2>1. /\ i \in Index /\ i \div (2 * len) = b /\ i % (2 * len) = x
        /\ h \in Index /\ h \div (2 * len) = b /\ h % (2 * len) = x + len
    BY <1>2, PartnersAt
  <2>2. /\ b \in Int /\ 0 <= b /\ (2 * len) * b < 256 /\ x \in Int /\ 0 <= x /\ x < len
        /\ h = i + len
    BY <1>2 DEF Partners
  <2>3. i + len = h /\ h - len = i /\ x < len /\ ~(x + len < len)
    <3>1. i \in Int
      BY <2>1, IndexIs
    <3> QED BY SMT, <1>1, <2>2, <3>1
  <2>4. Layer(r)[i] = Wrap16(r[i] + t)
    <3>1. i % (2 * len) < len
      BY <2>1, <2>3
    <3>2. Layer(r)[i] = Wrap16(r[i] + fq_mul(zetas[k + b], r[i + len]))
      BY <2>1, <3>1, LayerAt
    <3> QED BY <2>3, <3>2
  <2>5. Layer(r)[h] = Wrap16(r[i] - t)
    <3>1. ~(h % (2 * len) < len)
      BY <2>1, <2>3
    <3>2. Layer(r)[h] = Wrap16(r[h - len] - fq_mul(zetas[k + b], r[h]))
      BY <2>1, <3>1, LayerAt
    <3> QED BY <2>3, <3>2
  <2>6. u \in Int /\ First(len) + b \in Twiddle /\ k + b \in Twiddle
    <3>0. IsRootOf(Root, len, b, Modulus(Root, 2 * len, i))
      BY <1>1, <2>1, <2>2, ModulusIsSquare
    <3>1. First(len) + b \in 1..127 /\ u \in Int
      BY <3>0 DEF IsRootOf
    <3>2. First(len) + b \in Twiddle
      BY SMT, <3>1 DEF Twiddle
    <3> QED BY <1>1, <3>1, <3>2
  <2>7. Abs(r[i], bound) /\ Abs(r[h], bound)
    BY <2>1 DEF Vector, Within, Abs
  <2>8. Abs(r[h], 32767)
    BY SMT, <2>7 DEF Abs
  <2>9. Cong(t, u * r[h]) /\ Abs(t, 3328)
    BY <1>1, <2>6, <2>8, RootTimes
  <2> HIDE DEF t, u, z
  <2>10. r[i] \in Int /\ r[h] \in Int /\ t \in Int
    BY <2>7, <2>9 DEF Abs
  <2>11. Wrap16(r[i] + t) = r[i] + t
    <3>1. r[i] + t \in Int /\ -32768 <= r[i] + t /\ r[i] + t <= 32767
      BY SMT, <2>7, <2>9 DEF Abs
    <3> QED BY <3>1, WrapFits
  <2>12. Wrap16(r[i] - t) = r[i] - t
    <3>1. r[i] - t \in Int /\ -32768 <= r[i] - t /\ r[i] - t <= 32767
      BY SMT, <2>7, <2>9 DEF Abs
    <3> QED BY <3>1, WrapFits
  <2>13. Cong(r[i], v[i]) /\ Cong(r[h], v[h])
    BY <2>1 DEF Same
  <2>14. Cong(t, u * v[h])
    BY <2>6, <2>9, <2>13, CongScale, CongTrans
  <2>15. Cong(r[i] + t, v[i] + u * v[h]) /\ Cong(r[i] - t, v[i] - u * v[h])
    BY <2>13, <2>14, CongAdd
  <2>16. SplitPair(Root, len, b, v, i, h)
    BY <1>2, SplitAt
  <2>17. V[i] = v[i] + u * v[h] /\ V[h] = v[i] - u * v[h]
    BY <2>16 DEF SplitPair, u
  <2>18. Cong(Layer(r)[i], V[i])
    BY <2>4, <2>11, <2>15, <2>17
  <2>19. Cong(Layer(r)[h], V[h])
    BY <2>5, <2>12, <2>15, <2>17
  <2> QED BY <2>1, <2>18, <2>19
<1> HIDE DEF S
<1>3. \A i \in Index : i \in S
  BY <1>1, <1>2, PairsCover
<1> QED BY <1>3 DEF S, Same

(* poly_reduce changes no residue.                                         *)
LEMMA ReduceSame ==
  ASSUME NEW r \in Element, Within(r, 32767), NEW v, Same(r, v)
  PROVE  Same(poly_reduce(r), v)
<1> SUFFICES ASSUME NEW i \in Index
             PROVE  Cong(poly_reduce(r)[i], v[i])
  BY DEF Same
<1>1. r[i] \in Int /\ -32768 <= r[i] /\ r[i] <= 32767
  BY SMT DEF Within, Element
<1>2. Cong(barrett_reduce(r[i]), r[i])
  BY <1>1, BarrettCong
<1>3. poly_reduce(r)[i] = barrett_reduce(r[i])
  BY DEF poly_reduce
<1>4. Cong(r[i], v[i])
  BY DEF Same
<1> QED BY <1>2, <1>3, <1>4, CongTrans

(* The roots of invntt undo those of ntt.                                  *)
MinusInverse(w, u) == Cong(w * u, -1)

InverseRoots(w) ==
  \A n \in Lens, b \in Int :
    0 <= b /\ (2 * n) * b < 256 =>
      /\ (2 * First(n) - 1) - b \in 1..127
      /\ MinusInverse(w[(2 * First(n) - 1) - b], w[First(n) + b])

Undone(w, u, m, a, b) == Cong(w * (m * (a - u * b) - m * (a + u * b)), (2 * m) * b)

(* The difference of two partners, times the opposite root, restores the   *)
(* second.                                                                 *)
LEMMA UndoAlgebra ==
  ASSUME NEW a \in Int, NEW b \in Int, NEW u \in Int, NEW w \in Int, NEW m \in Int,
         MinusInverse(w, u)
  PROVE  Undone(w, u, m, a, b)
<1> DEFINE d == (-2) * (m * b)
           s == d * (w * u)
           o == -1
           t == d * o
<1>1. d \in Int /\ w * u \in Int
  BY SMT
<1>2. w * (m * (a - u * b) - m * (a + u * b)) = s
  <2>1. m * (a - u * b) - m * (a + u * b) = (-2) * (m * (u * b))
    BY SMT
  <2>2. w * ((-2) * (m * (u * b))) = ((-2) * (m * b)) * (w * u)
    BY SMT
  <2> QED BY <2>1, <2>2
<1>3. t = (2 * m) * b
  BY SMT
<1> HIDE DEF d
<1>4. Cong(s, t)
  BY <1>1, CongScale DEF MinusInverse
<1> HIDE DEF s, t
<1> QED BY <1>2, <1>3, <1>4 DEF Undone

(* A layer of invntt undoes the layer of ntt with the same len, up to a    *)
(* factor 2, although it multiplies by other twiddle factors: those of ntt *)
(* in the opposite order, k running down from 127.                         *)
THEOREM InvLayerUndoes ==
  ASSUME Tables, Roots(Root), InverseRoots(Root), <<len, k>> \in Behind,
         NEW r, Vector(r, 3328), NEW v \in Element, NEW m \in Int,
         \A i \in Index : Cong(r[i], m * Split(Root, len, v)[i])
  PROVE  \A i \in Index : Cong(InvLayer(r)[i], (2 * m) * v[i])
<1> DEFINE V == Split(Root, len, v)
           S == {i \in Index : Cong(InvLayer(r)[i], (2 * m) * v[i])}
<1>1. len \in Lens /\ k = 2 * First(len) - 1 /\ len \in Int
  BY BehindPosition, LensAreSizes
<1>2. ASSUME NEW b, NEW x, NEW i, NEW h, Partners(len, b, x, i, h)
      PROVE  i \in S /\ h \in S
  <2> DEFINE u == Root[First(len) + b]
             w == Root[k - b]
             p == r[i] + r[h]
             d == r[h] - r[i]
  <2>1. /\ i \in Index /\ i \div (2 * len) = b /\ i % (2 * len) = x
        /\ h \in Index /\ h \div (2 * len) = b /\ h % (2 * len) = x + len
    BY <1>2, PartnersAt
  <2>2. /\ b \in Int /\ 0 <= b /\ (2 * len) * b < 256 /\ x \in Int /\ 0 <= x /\ x < len
        /\ h = i + len
    BY <1>2 DEF Partners
  <2>3. i + len = h /\ h - len = i /\ x < len /\ ~(x + len < len)
    <3>1. i \in Int
      BY <2>1, IndexIs
    <3> QED BY SMT, <1>1, <2>2, <3>1
  <2>4. InvLayer(r)[i] = barrett_reduce(Wrap16(p))
    <3>1. i % (2 * len) < len
      BY <2>1, <2>3
    <3>2. InvLayer(r)[i] = barrett_reduce(Wrap16(r[i] + r[i + len]))
      BY <2>1, <3>1, InvLayerAt
    <3> QED BY <2>3, <3>2
  <2>5. InvLayer(r)[h] = fq_mul(zetas[k - b], Wrap16(d))
    <3>1. ~(h % (2 * len) < len)
      BY <2>1, <2>3
    <3>2. InvLayer(r)[h] = fq_mul(zetas[k - b], Wrap16(r[h] - r[h - len]))
      BY <2>1, <3>1, InvLayerAt
    <3> QED BY <2>3, <3>2
  <2>6. u \in Int
    <3>1. IsRootOf(Root, len, b, Modulus(Root, 2 * len, i))
      BY <1>1, <2>1, <2>2, ModulusIsSquare
    <3> QED BY <3>1 DEF IsRootOf
  <2>7. k - b \in 1..127 /\ MinusInverse(w, u)
    BY <1>1, <2>2 DEF InverseRoots
  <2>8. k - b \in Twiddle /\ w \in Int
    <3>1. k - b \in Twiddle
      BY SMT, <2>7 DEF Twiddle
    <3> QED BY <3>1 DEF Roots, Table128
  <2>9. Abs(r[i], 3328) /\ Abs(r[h], 3328)
    BY <2>1 DEF Vector, Within, Abs
  <2>10. Abs(p, 6656) /\ Abs(d, 32767)
    BY SMT, <2>9 DEF Abs
  <2>11. Wrap16(p) = p /\ Wrap16(d) = d
    <3> HIDE DEF p, d
    <3>1. p \in Int /\ d \in Int /\ -32768 <= p /\ p <= 32767 /\ -32768 <= d /\ d <= 32767
      BY SMT, <2>10 DEF Abs
    <3> QED BY <3>1, WrapFits
  <2>12. SplitPair(Root, len, b, v, i, h)
    BY <1>2, SplitAt
  <2>13. V[i] = v[i] + u * v[h] /\ V[h] = v[i] - u * v[h]
    BY <2>12 DEF SplitPair
  <2>14. Cong(r[i], m * (v[i] + u * v[h])) /\ Cong(r[h], m * (v[i] - u * v[h]))
    BY <2>1, <2>13
  <2>15. v[i] \in Int /\ v[h] \in Int
    BY <2>1 DEF Element
  <2> HIDE DEF u, w, V
  <2>16. Cong(p, (2 * m) * v[i])
    <3>1. m * (v[i] + u * v[h]) + m * (v[i] - u * v[h]) = (2 * m) * v[i]
      BY SMT, <2>6, <2>15
    <3>2. Cong(p, m * (v[i] + u * v[h]) + m * (v[i] - u * v[h]))
      BY <2>14, CongAdd
    <3> QED BY <3>1, <3>2
  <2>17. Cong(d, m * (v[i] - u * v[h]) - m * (v[i] + u * v[h]))
    BY <2>14, CongAdd
  <2>18. Cong(w * d, (2 * m) * v[h])
    <3> DEFINE a == v[i]
               c == v[h]
               e == m * (a - u * c) - m * (a + u * c)
    <3>0. a \in Int /\ c \in Int
      BY <2>15
    <3> HIDE DEF a, c
    <3>1. Undone(w, u, m, a, c)
      BY <2>6, <2>7, <2>8, <3>0, UndoAlgebra
    <3>2. Cong(d, e)
      BY <2>17 DEF a, c
    <3>5. Cong(w * e, (2 * m) * c)
      BY <3>1 DEF Undone
    <3> HIDE DEF d, e
    <3>3. Cong(w * d, w * e)
      BY <2>8, <3>2, CongScale
    <3>4. Cong(w * d, (2 * m) * c)
      BY <3>3, <3>5, CongTrans
    <3> QED BY <3>4 DEF c, d
  <2> HIDE DEF p, d
  <2>19. Cong(barrett_reduce(p), p)
    <3>1. p \in Int /\ -32768 <= p /\ p <= 32767
      BY SMT, <2>10 DEF Abs
    <3> QED BY <3>1, BarrettCong
  <2>20. Cong(fq_mul(zetas[k - b], d), w * d)
    BY <2>8, <2>10, RootTimes DEF w
  <2>21. Cong(InvLayer(r)[i], (2 * m) * v[i])
    BY <2>4, <2>11, <2>16, <2>19, CongTrans
  <2>22. Cong(InvLayer(r)[h], (2 * m) * v[h])
    BY <2>5, <2>11, <2>18, <2>20, CongTrans
  <2> QED BY <2>1, <2>21, <2>22
<1> HIDE DEF S
<1>3. \A i \in Index : i \in S
  BY <1>1, <1>2, PairsCover
<1> QED BY <1>3 DEF S
-----------------------------------------------------------------------------
(***************************************************************************)
(* The table of twiddle factors.                                           *)
(***************************************************************************)
(* The first n entries of p are powers of 17.                              *)
Powers(p, n) ==
  /\ Cong(p[0], 1)
  /\ 1 < n => Cong(p[1], 17)
  /\ \A i, j \in Twiddle : i + j < n => Cong(p[i + j], p[i] * p[j])

(* One more power.                                                         *)
LEMMA PowersStep ==
  ASSUME NEW p \in Table128, NEW r \in Table128, NEW n \in 1..127, Powers(p, n),
         \A j \in Twiddle : j < n => r[j] = p[j],
         Cong(r[n], p[n - 1] * 17)
  PROVE  Powers(r, n + 1)
<1>1. n \in Int /\ 1 <= n /\ n <= 127 /\ 0 \in Twiddle /\ n \in Twiddle /\ n - 1 \in Twiddle
  BY SMT, TwiddleIs
<1>2. \A j \in Twiddle : p[j] \in Int /\ r[j] \in Int
  BY DEF Table128
<1>3. Cong(r[0], 1)
  BY <1>1 DEF Powers
<1>4. Cong(r[1], 17)
  <2>1. CASE n = 1
    <3>1. Cong(r[1], p[0] * 17)
      <4>1. n - 1 = 0
        BY SMT, <2>1
      <4> QED BY <2>1, <4>1
    <3>2. Cong(p[0] * 17, 1 * 17)
      BY CongMul, CongRefl DEF Powers
    <3>3. 1 * 17 = 17
      BY SMT
    <3> QED BY <3>1, <3>2, <3>3, CongTrans
  <2>2. CASE n # 1
    <3>1. 1 < n /\ 1 \in Twiddle
      BY SMT, <1>1, <2>2, TwiddleIs
    <3> QED BY <3>1 DEF Powers
  <2> QED BY <2>1, <2>2
<1>5. ASSUME NEW i \in Twiddle, NEW j \in Twiddle, i + j < n + 1
      PROVE  Cong(r[i + j], r[i] * r[j])
  <2>0. i \in Int /\ 0 <= i /\ j \in Int /\ 0 <= j /\ r[i] \in Int /\ r[j] \in Int
    BY <1>2, TwiddleIs
  <2>1. CASE i + j < n
    <3>1. i < n /\ j < n /\ i + j \in Twiddle
      BY SMT, <1>1, <2>0, <2>1, TwiddleIs
    <3> QED BY <2>1, <3>1 DEF Powers
  <2>2. CASE i = 0
    <3>1. i + j = j /\ 1 * r[j] = r[j]
      BY SMT, <2>0, <2>2
    <3>2. Cong(r[i] * r[j], 1 * r[j])
      BY <1>3, <2>0, <2>2, CongMul, CongRefl
    <3> QED BY <3>1, <3>2, CongSym
  <2>3. CASE j = 0
    <3>1. i + j = i /\ r[i] * 1 = r[i]
      BY SMT, <2>0, <2>3
    <3>2. Cong(r[i] * r[j], r[i] * 1)
      BY <1>3, <2>0, <2>3, CongMul, CongRefl
    <3> QED BY <3>1, <3>2, CongSym
  <2>4. CASE ~(i + j < n) /\ i # 0 /\ j # 0
    <3> DEFINE m == j - 1
    <3>1. /\ i + j = n /\ i < n /\ j < n /\ 1 < n /\ m \in Twiddle /\ 1 \in Twiddle
          /\ 1 + m = j /\ i + m = n - 1 /\ 1 + m < n /\ i + m < n
      BY SMT, <1>1, <2>0, <2>4, <1>5, TwiddleIs
    <3> HIDE DEF m
    <3>2. Cong(p[j], p[1] * p[m]) /\ Cong(p[n - 1], p[i] * p[m]) /\ Cong(p[1], 17)
      BY <3>1 DEF Powers
    <3>3. p[i] \in Int /\ p[m] \in Int /\ p[j] \in Int
      BY <1>2, <3>1
    <3>4. Cong(p[j], 17 * p[m])
      BY <3>2, <3>3, CongMul, CongRefl, CongTrans
    <3>5. Cong(p[i] * p[j], p[i] * (17 * p[m]))
      BY <3>3, <3>4, CongScale
    <3>6. p[i] * (17 * p[m]) = 17 * (p[i] * p[m]) /\ p[n - 1] * 17 = 17 * p[n - 1]
      BY SMT, <1>1, <1>2, <3>3
    <3>7. Cong(17 * p[n - 1], 17 * (p[i] * p[m]))
      BY <3>2, CongScale
    <3>8. Cong(r[n], 17 * (p[i] * p[m]))
      BY <3>6, <3>7, CongTrans
    <3>9. Cong(r[n], p[i] * p[j])
      BY <3>5, <3>6, <3>8, CongSym, CongTrans
    <3> QED BY <3>1, <3>9
  <2> QED BY <2>1, <2>2, <2>3, <2>4
<1> QED BY <1>3, <1>4, <1>5 DEF Powers

(* v is u^2, and y is x^2 for a residue x that is known.                   *)
IsSquare(v, u) == Cong(v, u * u)
SquareMod(x, y) == x \in Int /\ y \in Int /\ \E m \in Int : x * x - y = m * KYBER_Q

LEMMA SquareOf ==
  ASSUME NEW u, NEW v, NEW x, NEW y, IsSquare(v, u), Cong(u, x), SquareMod(x, y)
  PROVE  Cong(v, y)
<1>1. Cong(v, u * u)
  BY DEF IsSquare
<1>2. Cong(u * u, x * x)
  BY CongMul
<1>3. x \in Int /\ y \in Int
  BY DEF SquareMod
<1>4. x * x \in Int
  BY SMT, <1>3
<1>5. Cong(x * x, y)
  BY <1>3, <1>4 DEF SquareMod, Cong
<1> QED BY <1>1, <1>2, <1>5, CongTrans

(* 17 is a primitive 256th root of unity.                                  *)
LEMMA PowerOf64 ==
  ASSUME NEW p \in Table128, Powers(p, 128)
  PROVE  Cong(p[64] * p[64], -1)
<1>1. \A j \in {1, 2, 4, 8, 16, 32} : j \in Twiddle /\ j + j < 128
  BY SMT, TwiddleIs
<1>2. /\ IsSquare(p[2], p[1]) /\ IsSquare(p[4], p[2]) /\ IsSquare(p[8], p[4])
      /\ IsSquare(p[16], p[8]) /\ IsSquare(p[32], p[16]) /\ IsSquare(p[64], p[32])
  <2>1. 1 + 1 = 2 /\ 2 + 2 = 4 /\ 4 + 4 = 8 /\ 8 + 8 = 16 /\ 16 + 16 = 32 /\ 32 + 32 = 64
    BY SMT
  <2>2. \A j \in {1, 2, 4, 8, 16, 32} : IsSquare(p[j + j], p[j])
    BY <1>1 DEF Powers, IsSquare
  <2> QED BY <2>1, <2>2
<1>3. Cong(p[1], 17)
  <2>1. 1 < 128
    BY SMT
  <2> QED BY <2>1 DEF Powers
<1>4. Cong(p[2], 289)
  <2>1. SquareMod(17, 289)
    <3>1. 0 \in Int /\ 17 * 17 - 289 = 0 * KYBER_Q
      BY SMT, QIs
    <3> QED BY <3>1 DEF SquareMod
  <2> QED BY <1>2, <1>3, <2>1, SquareOf
<1>5. Cong(p[4], 296)
  <2>1. SquareMod(289, 296)
    <3>1. 25 \in Int /\ 289 * 289 - 296 = 25 * KYBER_Q
      BY SMT, QIs
    <3> QED BY <3>1 DEF SquareMod
  <2> QED BY <1>2, <1>4, <2>1, SquareOf
<1>6. Cong(p[8], 1062)
  <2>1. SquareMod(296, 1062)
    <3>1. 26 \in Int /\ 296 * 296 - 1062 = 26 * KYBER_Q
      BY SMT, QIs
    <3> QED BY <3>1 DEF SquareMod
  <2> QED BY <1>2, <1>5, <2>1, SquareOf
<1>7. Cong(p[16], -687)
  <2>1. SquareMod(1062, -687)
    <3>1. 339 \in Int /\ 1062 * 1062 - (-687) = 339 * KYBER_Q
      BY SMT, QIs
    <3> QED BY <3>1 DEF SquareMod
  <2> QED BY <1>2, <1>6, <2>1, SquareOf
<1>8. Cong(p[32], -749)
  <2>1. SquareMod(-687, -749)
    <3>1. 142 \in Int /\ (-687) * (-687) - (-749) = 142 * KYBER_Q
      BY SMT, QIs
    <3> QED BY <3>1 DEF SquareMod
  <2> QED BY <1>2, <1>7, <2>1, SquareOf
<1>9. Cong(p[64], 1729)
  <2>1. SquareMod(-749, 1729)
    <3>1. 168 \in Int /\ (-749) * (-749) - 1729 = 168 * KYBER_Q
      BY SMT, QIs
    <3> QED BY <3>1 DEF SquareMod
  <2> QED BY <1>2, <1>8, <2>1, SquareOf
<1>10. SquareMod(1729, -1)
  <2>1. 898 \in Int /\ 1729 * 1729 - (-1) = 898 * KYBER_Q
    BY SMT, QIs
  <2> QED BY <2>1 DEF SquareMod
<1>11. IsSquare(p[64] * p[64], p[64])
  <2>1. p[64] \in Int
    BY TwiddleIs, SMT DEF Table128
  <2>2. p[64] * p[64] \in Int
    BY SMT, <2>1
  <2> QED BY <2>2, CongRefl DEF IsSquare
<1> QED BY <1>9, <1>10, <1>11, SquareOf

(* The last bit of i becomes the first of the reversed number.             *)
LEMMA BitrevDouble ==
  ASSUME NEW m \in Int, 1 <= m, m <= 63
  PROVE  /\ 2 * bitrev7(2 * m) = bitrev7(m)
         /\ bitrev7(2 * m + 1) = 64 + bitrev7(2 * m)
         /\ bitrev7(2 * m) \in Int /\ 0 <= bitrev7(2 * m) /\ bitrev7(2 * m) <= 63
<1> DEFINE bit(i, b) == (i \div b) % 2
<1>1. \A i : bitrev7(i) = 64 * bit(i, 1) + 32 * bit(i, 2) + 16 * bit(i, 4) + 8 * bit(i, 8)
                          + 4 * bit(i, 16) + 2 * bit(i, 32) + bit(i, 64)
  BY DEF bitrev7
<1> DEFINE d == 2 * m
           e == 2 * m + 1
<1>2. /\ bit(d, 1) = 0 /\ bit(d, 2) = bit(m, 1) /\ bit(d, 4) = bit(m, 2) /\ bit(d, 8) = bit(m, 4)
      /\ bit(d, 16) = bit(m, 8) /\ bit(d, 32) = bit(m, 16) /\ bit(d, 64) = bit(m, 32)
      /\ bit(m, 64) = 0
  BY SMT
<1>3. /\ bit(e, 1) = 1 /\ bit(e, 2) = bit(m, 1) /\ bit(e, 4) = bit(m, 2) /\ bit(e, 8) = bit(m, 4)
      /\ bit(e, 16) = bit(m, 8) /\ bit(e, 32) = bit(m, 16) /\ bit(e, 64) = bit(m, 32)
  BY SMT
<1>4. \A b \in {1, 2, 4, 8, 16, 32} : bit(m, b) \in Int /\ 0 <= bit(m, b) /\ bit(m, b) <= 1
  BY SMT
<1>5. /\ bit(m, 1) \in Int /\ 0 <= bit(m, 1) /\ bit(m, 1) <= 1
      /\ bit(m, 2) \in Int /\ 0 <= bit(m, 2) /\ bit(m, 2) <= 1
      /\ bit(m, 4) \in Int /\ 0 <= bit(m, 4) /\ bit(m, 4) <= 1
      /\ bit(m, 8) \in Int /\ 0 <= bit(m, 8) /\ bit(m, 8) <= 1
      /\ bit(m, 16) \in Int /\ 0 <= bit(m, 16) /\ bit(m, 16) <= 1
      /\ bit(m, 32) \in Int /\ 0 <= bit(m, 32) /\ bit(m, 32) <= 1
  BY <1>4
<1>6. /\ bitrev7(m) = 64 * bit(m, 1) + 32 * bit(m, 2) + 16 * bit(m, 4) + 8 * bit(m, 8)
                          + 4 * bit(m, 16) + 2 * bit(m, 32) + bit(m, 64)
      /\ bitrev7(d) = 64 * bit(d, 1) + 32 * bit(d, 2) + 16 * bit(d, 4) + 8 * bit(d, 8)
                          + 4 * bit(d, 16) + 2 * bit(d, 32) + bit(d, 64)
      /\ bitrev7(e) = 64 * bit(e, 1) + 32 * bit(e, 2) + 16 * bit(e, 4) + 8 * bit(e, 8)
                          + 4 * bit(e, 16) + 2 * bit(e, 32) + bit(e, 64)
  BY <1>1
<1> HIDE DEF bit, d, e
<1>7. /\ 2 * bitrev7(d) = bitrev7(m) /\ bitrev7(e) = 64 + bitrev7(d)
      /\ bitrev7(d) \in Int /\ 0 <= bitrev7(d) /\ bitrev7(d) <= 63
  BY ONLY SMT, <1>2, <1>3, <1>5, <1>6
<1> QED BY <1>7 DEF d, e

LEMMA BitrevOne == bitrev7(1) = 64
BY SMT DEF bitrev7

(* Twiddle factors that are opposite in their layer.                       *)
Opposite(s) ==
  \A b \in Int : 0 <= b /\ b < s =>
    /\ bitrev7(s + b) \in Int /\ bitrev7((2 * s - 1) - b) \in Int
    /\ bitrev7(s + b) + bitrev7((2 * s - 1) - b) = 128

LEMMA OppositeDouble ==
  ASSUME NEW s \in Int, 1 <= s, s <= 32, Opposite(s)
  PROVE  Opposite(2 * s)
<1> SUFFICES ASSUME NEW c \in Int, 0 <= c, c < 2 * s
             PROVE  /\ bitrev7(2 * s + c) \in Int /\ bitrev7((2 * (2 * s) - 1) - c) \in Int
                    /\ bitrev7(2 * s + c) + bitrev7((2 * (2 * s) - 1) - c) = 128
  BY DEF Opposite
<1> DEFINE b == c \div 2
           m == s + b
           l == (2 * s - 1) - b
           x == 2 * s + c
           y == (2 * (2 * s) - 1) - c
<1>1. /\ b \in Int /\ 0 <= b /\ b < s /\ m \in Int /\ 1 <= m /\ m <= 63
      /\ l \in Int /\ 1 <= l /\ l <= 63
      /\ \/ x = 2 * m /\ y = 2 * l + 1
         \/ x = 2 * m + 1 /\ y = 2 * l
  BY SMT
<1>2. bitrev7(m) \in Int /\ bitrev7(l) \in Int /\ bitrev7(m) + bitrev7(l) = 128
  <2> HIDE DEF b
  <2> QED BY <1>1 DEF Opposite
<1> HIDE DEF m, l, x, y
<1>3. /\ 2 * bitrev7(2 * m) = bitrev7(m) /\ bitrev7(2 * m + 1) = 64 + bitrev7(2 * m)
      /\ bitrev7(2 * m) \in Int
      /\ 2 * bitrev7(2 * l) = bitrev7(l) /\ bitrev7(2 * l + 1) = 64 + bitrev7(2 * l)
      /\ bitrev7(2 * l) \in Int
  BY <1>1, BitrevDouble
<1>4. bitrev7(x) \in Int /\ bitrev7(y) \in Int /\ bitrev7(x) + bitrev7(y) = 128
  <2>1. CASE x = 2 * m /\ y = 2 * l + 1
    <3>1. bitrev7(x) = bitrev7(2 * m) /\ bitrev7(y) = 64 + bitrev7(2 * l)
      BY <1>3, <2>1
    <3> QED BY SMT, <1>2, <1>3, <3>1
  <2>2. CASE x = 2 * m + 1 /\ y = 2 * l
    <3>1. bitrev7(x) = 64 + bitrev7(2 * m) /\ bitrev7(y) = bitrev7(2 * l)
      BY <1>3, <2>2
    <3> QED BY SMT, <1>2, <1>3, <3>1
  <2> QED BY <1>1, <2>1, <2>2
<1> QED BY <1>4 DEF x, y

(* The exponents of opposite factors add up to 128, in every layer.        *)
LEMMA OppositeSums == \A n \in Lens : Opposite(First(n))
<1>1. Opposite(1)
  <2> SUFFICES ASSUME NEW b \in Int, 0 <= b, b < 1
               PROVE  /\ bitrev7(1 + b) \in Int /\ bitrev7((2 * 1 - 1) - b) \in Int
                      /\ bitrev7(1 + b) + bitrev7((2 * 1 - 1) - b) = 128
    BY DEF Opposite
  <2>1. 1 + b = 1 /\ (2 * 1 - 1) - b = 1
    BY SMT
  <2> QED BY SMT, <2>1, BitrevOne
<1>2. 2 * 1 = 2 /\ 2 * 2 = 4 /\ 2 * 4 = 8 /\ 2 * 8 = 16 /\ 2 * 16 = 32 /\ 2 * 32 = 64
  BY SMT
<1>3. Opposite(2)
  BY <1>1, <1>2, OppositeDouble
<1>4. Opposite(4)
  BY <1>2, <1>3, OppositeDouble
<1>5. Opposite(8)
  BY <1>2, <1>4, OppositeDouble
<1>6. Opposite(16)
  BY <1>2, <1>5, OppositeDouble
<1>7. Opposite(32)
  BY <1>2, <1>6, OppositeDouble
<1>8. Opposite(64)
  BY <1>2, <1>7, OppositeDouble
<1>9. \A n \in Lens : First(n) \in {1, 2, 4, 8, 16, 32, 64}
  BY SMT DEF Lens, First
<1> QED BY <1>1, <1>3, <1>4, <1>5, <1>6, <1>7, <1>8, <1>9

(* Powers whose exponents add up to 128 multiply to -1.                    *)
LEMMA PowersCancel ==
  ASSUME NEW p \in Table128, Powers(p, 128), NEW x \in Int, NEW y \in Int,
         64 <= x, x <= 127, 1 <= y, x + y = 128
  PROVE  Cong(p[x] * p[y], -1) /\ Cong(p[y] * p[x], -1)
<1> DEFINE d == x - 64
<1>1. /\ d \in Twiddle /\ x \in Twiddle /\ y \in Twiddle /\ 64 \in Twiddle
      /\ 64 + d = x /\ y + d = 64 /\ 64 + d < 128 /\ y + d < 128
  BY SMT, TwiddleIs
<1> HIDE DEF d
<1>2. /\ p[d] \in Int /\ p[x] \in Int /\ p[y] \in Int /\ p[64] \in Int
  BY <1>1 DEF Table128
<1>3. Cong(p[x], p[64] * p[d]) /\ Cong(p[64], p[y] * p[d])
  BY <1>1 DEF Powers
<1>4. Cong(p[x] * p[y], (p[64] * p[d]) * p[y])
  BY <1>2, <1>3, CongMul, CongRefl
<1>5. (p[64] * p[d]) * p[y] = p[64] * (p[y] * p[d])
  BY SMT, <1>2
<1>6. Cong(p[64] * (p[y] * p[d]), p[64] * p[64])
  BY <1>2, <1>3, CongScale, CongSym
<1>7. Cong(p[64] * p[64], -1)
  BY PowerOf64
<1>8. p[y] * p[x] = p[x] * p[y]
  BY SMT, <1>2
<1>9. Cong(p[x] * p[y], -1)
  BY <1>4, <1>5, <1>6, <1>7, CongTrans
<1> QED BY <1>8, <1>9

(* The powers in bit-reversed order are a table of roots.                  *)
LEMMA TableRoots ==
  ASSUME NEW p \in Table128, Powers(p, 128), NEW w \in Table128,
         \A m \in Twiddle : Cong(w[m], p[bitrev7(m)])
  PROVE  Roots(w)
<1>1. Cong(w[1] * w[1], -1)
  <2>1. Cong(w[1], p[64])
    BY BitrevOne, TwiddleIs, SMT
  <2>2. Cong(w[1] * w[1], p[64] * p[64])
    BY <2>1, CongMul
  <2> QED BY <2>2, PowerOf64, CongTrans
<1>2. ASSUME NEW m \in 1..63
      PROVE  Cong(w[2 * m] * w[2 * m], w[m]) /\ Cong(w[2 * m + 1] * w[2 * m + 1], -w[m])
  <2> DEFINE e == bitrev7(2 * m)
             x == w[2 * m]
             y == w[2 * m + 1]
             z == w[m]
  <2>1. m \in Int /\ 1 <= m /\ m <= 63
    BY SMT
  <2>2. /\ 2 * e = bitrev7(m) /\ bitrev7(2 * m + 1) = 64 + e /\ e \in Int /\ 0 <= e /\ e <= 63
    BY <2>1, BitrevDouble
  <2>3. m \in Twiddle /\ 2 * m \in Twiddle /\ 2 * m + 1 \in Twiddle
    BY SMT, TwiddleIs
  <2>4. Cong(x, p[e]) /\ Cong(y, p[64 + e]) /\ Cong(z, p[2 * e])
    BY <2>2, <2>3
  <2> HIDE DEF e, x, y, z
  <2>5. e \in Twiddle /\ 64 \in Twiddle /\ e + e = 2 * e /\ e + e < 128 /\ 64 + e < 128
    BY SMT, <2>2, TwiddleIs
  <2>6. Cong(p[2 * e], p[e] * p[e]) /\ Cong(p[64 + e], p[64] * p[e])
    <3>1. Cong(p[e + e], p[e] * p[e])
      BY <2>5 DEF Powers
    <3>2. Cong(p[64 + e], p[64] * p[e])
      BY <2>5 DEF Powers
    <3> QED BY <2>5, <3>1, <3>2
  <2>7. p[e] \in Int /\ p[64] \in Int /\ z \in Int
    BY <2>4, <2>5 DEF Table128, Cong
  <2>8. Cong(p[e] * p[e], z)
    BY <2>4, <2>6, CongSym, CongTrans
  <2>9. Cong(x * x, z)
    BY <2>4, <2>8, CongMul, CongTrans
  <2>10. Cong(y * y, -z)
    <3> DEFINE s == p[e]
               r == p[64]
    <3>1. Cong(y, r * s)
      BY <2>4, <2>6, CongTrans
    <3>2. Cong(r * r, -1)
      BY PowerOf64
    <3>3. Cong(s * s, z)
      BY <2>8
    <3>0. s \in Int /\ r \in Int
      BY <2>7
    <3> HIDE DEF s, r
    <3>4. Cong(y * y, (r * s) * (r * s))
      BY <3>1, CongMul
    <3>5. (r * s) * (r * s) = (r * r) * (s * s)
      BY SMT, <3>0
    <3>6. Cong((r * r) * (s * s), (-1) * z)
      BY <3>2, <3>3, CongMul
    <3>7. (-1) * z = -z
      BY SMT, <2>7
    <3> QED BY <3>4, <3>5, <3>6, <3>7, CongTrans
  <2> QED BY <2>9, <2>10 DEF x, y, z
<1> QED BY <1>1, <1>2 DEF Roots

(* Read backwards, the same table holds the opposite of the inverses.      *)
LEMMA TableInverse ==
  ASSUME NEW p \in Table128, Powers(p, 128), NEW w \in Table128,
         \A m \in Twiddle : Cong(w[m], p[bitrev7(m)])
  PROVE  InverseRoots(w)
<1> SUFFICES ASSUME NEW n \in Lens, NEW b \in Int, 0 <= b, (2 * n) * b < 256
             PROVE  /\ (2 * First(n) - 1) - b \in 1..127
                    /\ MinusInverse(w[(2 * First(n) - 1) - b], w[First(n) + b])
  BY DEF InverseRoots
<1> DEFINE s == First(n)
           m == s + b
           l == (2 * s - 1) - b
           x == bitrev7(m)
           y == bitrev7(l)
<1>1. s \in Int /\ b < s /\ m \in 1..127 /\ l \in 1..127
  BY SMT DEF Lens, First
<1>2. x \in Int /\ y \in Int /\ x + y = 128
  <2>1. Opposite(s)
    BY OppositeSums
  <2> HIDE DEF s
  <2> QED BY <1>1, <2>1 DEF Opposite
<1>3. m \in Twiddle /\ l \in Twiddle
  <2> HIDE DEF m, l
  <2> QED BY SMT, <1>1, TwiddleIs
<1>4. Cong(w[m], p[x]) /\ Cong(w[l], p[y])
  BY <1>3
<1>5. x \in Twiddle /\ y \in Twiddle
  BY <1>3, BitrevTwiddle
<1> HIDE DEF m, l, x, y
<1>6. Cong(w[l] * w[m], p[y] * p[x])
  BY <1>4, CongMul
<1>7. x <= 127 /\ y <= 127 /\ 1 <= x /\ 1 <= y /\ (64 <= x \/ 64 <= y) /\ y + x = 128
  BY SMT, <1>2, <1>5, TwiddleIs
<1>8. Cong(p[y] * p[x], -1)
  BY <1>2, <1>7, PowersCancel
<1>9. Cong(w[l] * w[m], -1)
  BY <1>6, <1>8, CongTrans
<1> QED BY <1>1, <1>9 DEF m, l, MinusInverse
-----------------------------------------------------------------------------
(***************************************************************************)
(* The base multiplication: the product in each block of two coefficients, *)
(* divided by mont.                                                        *)
(***************************************************************************)
(* The slots of a block of two.                                            *)
SlotProduct(w, a, c, i) ==
  /\ i % 2 = 0 => Sum(2, Terms(w, 2, a, c, i)) =
                    a[i] * c[i] + Modulus(w, 2, i) * (a[i + 1] * c[i + 1])
  /\ i % 2 # 0 => Sum(2, Terms(w, 2, a, c, i)) = a[i - 1] * c[i] + a[i] * c[i - 1]

(* The sum of the two terms of a slot.                                     *)
LEMMA SlotTerms ==
  ASSUME NEW w, NEW a, NEW c, NEW i \in Index
  PROVE  SlotProduct(w, a, c, i)
<1> DEFINE t == Terms(w, 2, a, c, i)
           x(j) == a[2 * (i \div 2) + j]
           y(j) == IF j <= i % 2 THEN x(j) * c[i - j]
                   ELSE Modulus(w, 2, i) * (x(j) * c[i + 2 - j])
<1>1. t[0] = y(0) /\ t[1] = y(1)
  <2>1. 0 \in 0..(2 - 1) /\ 1 \in 0..(2 - 1)
    BY SMT
  <2>2. t = [j \in 0..(2 - 1) |-> y(j)]
    BY DEF Terms
  <2> HIDE DEF t, y
  <2> QED BY <2>1, <2>2
<1>2. Sum(2, t) = t[0] + t[1]
  <2>1. Sum2(t) = Sum1(Halve(t, 1))
    BY DEF Sum2
  <2>2. Sum1(Halve(t, 1)) = t[0] + t[0 + 1] /\ 0 + 1 = 1
    <3> HIDE DEF t
    <3>1. 0 \in 0..(1 - 1) /\ 0 + 1 = 1
      BY SMT
    <3> QED BY <3>1 DEF Sum1, Halve
  <2> QED BY <2>1, <2>2, SumIs
<1>3. CASE i % 2 = 0
  <2>1. /\ 2 * (i \div 2) + 0 = i /\ 2 * (i \div 2) + 1 = i + 1
        /\ 0 <= i % 2 /\ ~(1 <= i % 2) /\ i - 0 = i /\ i + 2 - 1 = i + 1
    <3>1. i \in Int /\ 0 <= i /\ i <= 255
      BY IndexIs
    <3>2. 2 * (i \div 2) = i
      BY ONLY SMT, <1>3, <3>1
    <3> HIDE DEF t, x, y
    <3> QED BY ONLY SMT, <1>3, <3>1, <3>2
  <2>2. y(0) = a[i] * c[i] /\ y(1) = Modulus(w, 2, i) * (a[i + 1] * c[i + 1])
    BY <2>1, Zenon
  <2> QED BY <1>1, <1>2, <1>3, <2>2 DEF SlotProduct
<1>4. CASE i % 2 # 0
  <2>1. /\ 2 * (i \div 2) + 0 = i - 1 /\ 2 * (i \div 2) + 1 = i
        /\ 0 <= i % 2 /\ 1 <= i % 2 /\ i - 0 = i
    BY SMT, <1>4, IndexIs
  <2>2. y(0) = a[i - 1] * c[i] /\ y(1) = a[i] * c[i - 1]
    BY <2>1, Zenon
  <2> QED BY <1>1, <1>2, <1>4, <2>2 DEF SlotProduct
<1> QED BY <1>3, <1>4

(* The factor of a slot is the modulus of its block.                       *)
SlotZeta(i) == IF i % 4 < 2 THEN zetas[64 + (i \div 4)] ELSE -zetas[64 + (i \div 4)]

LEMMA SlotModulus ==
  ASSUME Tables, NEW i \in Index
  PROVE  Abs(SlotZeta(i), 3328) /\ Modulus(Root, 2, i) = 169 * SlotZeta(i)
<1> DEFINE m == 64 + (i \div 4)
           z == zetas[m]
<1>1. m \in Twiddle /\ First(2) + ((i \div 2) \div 2) = m
  BY SMT, IndexIs, TwiddleIs DEF First
<1>2. (i \div 2) % 2 = 0 <=> i % 4 < 2
  BY SMT, IndexIs
<1>3. Abs(z, 1664)
  <2> HIDE DEF m
  <2> QED BY <1>1 DEF Tables
<1>4. Root[m] = 169 * z
  <2> HIDE DEF m
  <2> QED BY <1>1 DEF Root
<1>5. SlotZeta(i) = IF i % 4 < 2 THEN z ELSE -z
  BY DEF SlotZeta
<1>6. Modulus(Root, 2, i) = IF i % 4 < 2 THEN Root[m] ELSE -Root[m]
  <2>1. 2 # 256
    BY SMT
  <2>2. Modulus(Root, 2, i) =
          IF (i \div 2) % 2 = 0 THEN Root[First(2) + ((i \div 2) \div 2)]
          ELSE -Root[First(2) + ((i \div 2) \div 2)]
    BY <2>1 DEF Modulus
  <2> QED BY <1>1, <1>2, <2>2
<1> HIDE DEF z, m
<1> QED BY ONLY SMT, <1>3, <1>4, <1>5, <1>6 DEF Abs

LEMMA CongTwo ==
  ASSUME NEW x, NEW y, NEW a, NEW c,
         Cong(x, a), Cong(y, c), Abs(x, 3328), Abs(y, 1664)
  PROVE  Cong(fq_mul(x, y), 169 * (a * c)) /\ Abs(fq_mul(x, y), 3328)
<1>1. Abs(x, 3328) /\ Abs(y, 32767)
  BY SMT DEF Abs
<1>2. Cong(fq_mul(x, y), 169 * (x * y)) /\ Abs(fq_mul(x, y), 3328)
  BY <1>1, FqMulTimes, FqMulRange
<1>3. Cong(x * y, a * c)
  BY CongMul
<1>4. 169 \in Int
  BY SMT
<1>5. Cong(169 * (x * y), 169 * (a * c))
  BY <1>3, <1>4, CongScale
<1> QED BY <1>2, <1>5, CongTrans

(* A slot of the base multiplication is the product in its block, divided  *)
(* by mont.                                                                *)
LEMMA BaseProduct ==
  ASSUME Tables, NEW a, NEW c, Vector(a, 3328), Vector(c, 1664),
         NEW A \in Element, NEW C \in Element, Same(a, A), Same(c, C), NEW i \in Index
  PROVE  Cong(poly_basemul_montgomery(a, c)[i], 169 * Sum(2, Terms(Root, 2, A, C, i)))
<1> DEFINE r == poly_basemul_montgomery(a, c)[i]
           z == SlotZeta(i)
           u == Modulus(Root, 2, i)
           S == Sum(2, Terms(Root, 2, A, C, i))
<1>1. r = IF i % 2 = 0
          THEN Wrap16(fq_mul(fq_mul(a[i + 1], c[i + 1]), z) + fq_mul(a[i], c[i]))
          ELSE Wrap16(fq_mul(a[i - 1], c[i]) + fq_mul(a[i], c[i - 1]))
  BY DEF poly_basemul_montgomery, SlotZeta
<1>2. (i % 2 = 0 => i + 1 \in Index) /\ (i % 2 # 0 => i - 1 \in Index)
  BY SMT, IndexIs
<1>3. \A l \in Index : /\ A[l] \in Int /\ C[l] \in Int /\ Cong(a[l], A[l]) /\ Cong(c[l], C[l])
                       /\ Abs(a[l], 3328) /\ Abs(c[l], 1664)
  BY DEF Element, Same, Vector, Within, Abs
<1>4. Abs(z, 3328) /\ u = 169 * z
  BY SlotModulus
<1>5. SlotProduct(Root, A, C, i)
  BY SlotTerms
<1>6. \A x, y : Abs(x, 3328) /\ Abs(y, 3328) => Wrap16(x + y) = x + y
  <2> TAKE x, y
  <2> HAVE Abs(x, 3328) /\ Abs(y, 3328)
  <2>1. x + y \in Int /\ -32768 <= x + y /\ x + y <= 32767
    BY SMT DEF Abs
  <2> QED BY <2>1, WrapFits
<1>7. CASE i % 2 = 0
  <2> DEFINE p == fq_mul(a[i + 1], c[i + 1])
             q == fq_mul(p, z)
             s == fq_mul(a[i], c[i])
             P == A[i + 1] * C[i + 1]
             Q == A[i] * C[i]
  <2>1. Cong(p, 169 * P) /\ Abs(p, 3328) /\ Cong(s, 169 * Q) /\ Abs(s, 3328)
    BY <1>2, <1>3, <1>7, CongTwo
  <2>2. r = Wrap16(q + s) /\ S = Q + u * P
    BY <1>1, <1>5, <1>7 DEF SlotProduct
  <2>3. P \in Int /\ Q \in Int
    <3>1. A[i + 1] \in Int /\ C[i + 1] \in Int /\ A[i] \in Int /\ C[i] \in Int
      BY <1>2, <1>3, <1>7
    <3> QED BY SMT, <3>1
  <2> HIDE DEF p, s, P, Q, z, u, r, S
  <2>4. Cong(q, 169 * (p * z)) /\ Abs(q, 3328)
    <3>1. Abs(z, 32767)
      BY SMT, <1>4 DEF Abs
    <3> QED BY <2>1, <3>1, FqMulTimes, FqMulRange
  <2>5. z \in Int /\ p \in Int /\ u \in Int
    BY SMT, <1>4, <2>1 DEF Abs
  <2>6. 169 * (p * z) = u * p /\ u * (169 * P) = 169 * (u * P)
    BY SMT, <1>4, <2>3, <2>5
  <2>7. Cong(u * p, u * (169 * P))
    BY <2>1, <2>5, CongScale
  <2> HIDE DEF q
  <2>8. Cong(q, 169 * (u * P))
    BY <2>4, <2>6, <2>7, CongTrans
  <2>9. Cong(q + s, 169 * (u * P) + 169 * Q)
    BY <2>1, <2>8, CongAdd
  <2>10. 169 * (u * P) + 169 * Q = 169 * (Q + u * P)
    <3>1. u * P \in Int
      BY SMT, <2>3, <2>5
    <3> QED BY SMT, <2>3, <3>1
  <2>11. Wrap16(q + s) = q + s
    BY <1>6, <2>1, <2>4
  <2>12. Cong(r, 169 * S)
    BY <2>2, <2>9, <2>10, <2>11
  <2> QED BY <2>12 DEF r, S
<1>8. CASE i % 2 # 0
  <2> DEFINE p == fq_mul(a[i - 1], c[i])
             s == fq_mul(a[i], c[i - 1])
             P == A[i - 1] * C[i]
             Q == A[i] * C[i - 1]
  <2>1. Cong(p, 169 * P) /\ Abs(p, 3328) /\ Cong(s, 169 * Q) /\ Abs(s, 3328)
    BY <1>2, <1>3, <1>8, CongTwo
  <2>2. r = Wrap16(p + s) /\ S = P + Q
    BY <1>1, <1>5, <1>8 DEF SlotProduct
  <2>3. P \in Int /\ Q \in Int
    <3>1. A[i - 1] \in Int /\ C[i - 1] \in Int /\ A[i] \in Int /\ C[i] \in Int
      BY <1>2, <1>3, <1>8
    <3> QED BY SMT, <3>1
  <2> HIDE DEF p, s, P, Q, r, S
  <2>4. Cong(p + s, 169 * P + 169 * Q)
    BY <2>1, CongAdd
  <2>5. 169 * P + 169 * Q = 169 * (P + Q)
    BY SMT, <2>3
  <2>6. Wrap16(p + s) = p + s
    BY <1>6, <2>1
  <2>7. Cong(r, 169 * S)
    BY <2>2, <2>4, <2>5, <2>6
  <2> QED BY <2>7 DEF r, S
<1> QED BY <1>7, <1>8

(* The three products, added up.                                           *)
LEMMA AccProduct ==
  ASSUME Tables, Roots(Root), NEW a, NEW b,
         \A c \in Components : Vector(a[c], 3328) /\ Vector(b[c], 1664),
         NEW A \in [Components -> Element], NEW B \in [Components -> Element],
         NEW D \in [Components -> Element],
         \A c \in Components : Same(a[c], A[c]) /\ Same(b[c], B[c])
                               /\ IsProduct(Root, 2, A[c], B[c], D[c])
  PROVE  \A i \in Index : Cong(polyvec_basemul_acc_montgomery(a, b)[i], 169 * Total(D)[i])
<1> DEFINE t(c) == poly_basemul_montgomery(a[c], b[c])
           two  == poly_add(t(1), t(2))
           sum  == poly_add(two, t(3))
<1>0. 1 \in Components /\ 2 \in Components /\ 3 \in Components
  BY DEF Components
<1>1. ASSUME NEW c \in Components
      PROVE  /\ Vector(t(c), 6656)
             /\ \A i \in Index : Cong(t(c)[i], 169 * D[c][i])
  <2>1. Vector(t(c), 6656)
    BY BasemulBound
  <2>2. ASSUME NEW i \in Index PROVE Cong(t(c)[i], 169 * D[c][i])
    <3> DEFINE S == Sum(2, Terms(Root, 2, A[c], B[c], i))
    <3>1. Cong(t(c)[i], 169 * S)
      BY BaseProduct
    <3>2. Cong(D[c][i], S)
      BY DEF IsProduct
    <3>3. 169 \in Int
      BY SMT
    <3> HIDE DEF S, t
    <3>4. Cong(169 * S, 169 * D[c][i])
      BY <3>2, <3>3, CongScale, CongSym
    <3> QED BY <3>1, <3>4, CongTrans
  <2> QED BY <2>1, <2>2
<1>2. polyvec_basemul_acc_montgomery(a, b) = poly_reduce(sum)
  BY DEF polyvec_basemul_acc_montgomery
<1> HIDE DEF t
<1>3. Vector(t(1), 6656) /\ Vector(t(2), 6656) /\ Vector(t(3), 6656)
  BY <1>0, <1>1
<1>4. 6656 \in Nat /\ 6656 + 6656 = 13312 /\ 6656 + 6656 <= 32767
  BY SMT
<1>5. Vector(two, 13312)
  BY <1>3, <1>4, AddBound DEF two
<1>6. \A i \in Index : two[i] = t(1)[i] + t(2)[i]
  <2> TAKE i \in Index
  <2>1. t(1)[i] + t(2)[i] \in Int /\ -32768 <= t(1)[i] + t(2)[i] /\ t(1)[i] + t(2)[i] <= 32767
    BY SMT, <1>3 DEF Vector, Within
  <2>2. Wrap16(t(1)[i] + t(2)[i]) = t(1)[i] + t(2)[i]
    BY <2>1, WrapFits
  <2> QED BY <2>2 DEF two, poly_add
<1> HIDE DEF two
<1>7. 13312 \in Nat /\ 13312 + 6656 = 19968 /\ 13312 + 6656 <= 32767
  BY SMT
<1>8. Vector(sum, 19968)
  <2>1. Vector(poly_add(two, t(3)), 13312 + 6656)
    BY SMTT(30), <1>3, <1>4, <1>5, <1>7, AddBound
  <2> QED BY <1>7, <2>1 DEF sum
<1>9. \A i \in Index : sum[i] = two[i] + t(3)[i]
  <2> TAKE i \in Index
  <2>1. two[i] + t(3)[i] \in Int /\ -32768 <= two[i] + t(3)[i] /\ two[i] + t(3)[i] <= 32767
    BY SMT, <1>3, <1>5 DEF Vector, Within
  <2>2. Wrap16(two[i] + t(3)[i]) = two[i] + t(3)[i]
    BY <2>1, WrapFits
  <2> QED BY <2>2 DEF sum, poly_add
<1> HIDE DEF sum
<1> DEFINE E == [i \in Index |-> 169 * Total(D)[i]]
<1>10. Same(sum, E)
  <2> SUFFICES ASSUME NEW i \in Index PROVE Cong(sum[i], E[i])
    BY DEF Same
  <2> DEFINE x == D[1][i]
             y == D[2][i]
             z == D[3][i]
  <2>1. x \in Int /\ y \in Int /\ z \in Int
    <3>1. D[1] \in Element /\ D[2] \in Element /\ D[3] \in Element
      BY TotalElement
    <3> QED BY <3>1 DEF Element
  <2>2. E[i] = 169 * (x + y + z)
    BY DEF Total
  <2>3. Cong(t(1)[i], 169 * x) /\ Cong(t(2)[i], 169 * y) /\ Cong(t(3)[i], 169 * z)
    BY <1>0, <1>1
  <2>4. sum[i] = (t(1)[i] + t(2)[i]) + t(3)[i]
    BY <1>6, <1>9
  <2> HIDE DEF x, y, z, E
  <2>5. Cong((t(1)[i] + t(2)[i]) + t(3)[i], (169 * x + 169 * y) + 169 * z)
    BY <2>3, CongAdd
  <2>6. (169 * x + 169 * y) + 169 * z = 169 * (x + y + z)
    BY SMT, <2>1
  <2> QED BY <2>2, <2>4, <2>5, <2>6
<1>11. sum \in Element /\ Within(sum, 32767)
  BY SMT, <1>8 DEF Vector, Within, Element
<1> HIDE DEF E
<1>12. Same(poly_reduce(sum), E)
  BY <1>10, <1>11, ReduceSame
<1> QED BY <1>2, <1>12 DEF Same, E
-----------------------------------------------------------------------------
(***************************************************************************)
(* The product in the ring, as a sum of 256 terms.                         *)
(***************************************************************************)
Block(t, n, o) == [j \in 0..(n - 1) |-> t[o + j]]

BlockSum(t, n, o) == Sum(n, Block(t, n, o))

LEMMA BlockFamily ==
  ASSUME NEW t \in Family(256), NEW n \in Int, NEW o \in Int, 0 <= o, o + n <= 256
  PROVE  Block(t, n, o) \in Family(n)
<1> SUFFICES ASSUME NEW j \in 0..(n - 1) PROVE t[o + j] \in Int
  BY DEF Block, Family
<1>1. o + j \in 0..(256 - 1)
  BY SMT
<1> QED BY <1>1 DEF Family

(* A block is the concatenation of its halves.                             *)
Concatenates(t, n, o) ==
  /\ BlockSum(t, n, o) \in Int /\ BlockSum(t, n, o + n) \in Int
  /\ Cong(BlockSum(t, 2 * n, o), BlockSum(t, n, o) + BlockSum(t, n, o + n))

LEMMA BlockHalves ==
  ASSUME NEW t \in Family(256), NEW n \in {1} \cup Lens, NEW o \in Int, 0 <= o, o + 2 * n <= 256
  PROVE  Concatenates(t, n, o)
<1> DEFINE p == Block(t, n, o)
           s == Block(t, n, o + n)
           h == Halve(Block(t, 2 * n, o), n)
<1>1. n \in Int /\ 1 <= n /\ n \in {1, 256} \cup Lens
  BY SMT DEF Lens
<1>2. p \in Family(n) /\ s \in Family(n)
  <2>1. o + n <= 256 /\ o + n \in Int /\ 0 <= o + n /\ (o + n) + n <= 256
    BY SMT, <1>1
  <2> QED BY <1>1, <2>1, BlockFamily
<1>3. \A j \in 0..(n - 1) : h[j] = p[j] + s[j] /\ p[j] \in Int /\ s[j] \in Int
  <2> TAKE j \in 0..(n - 1)
  <2>1. j \in 0..(2 * n - 1) /\ j + n \in 0..(2 * n - 1) /\ o + (j + n) = (o + n) + j
    BY SMT, <1>1
  <2>2. Block(t, 2 * n, o)[j] = t[o + j] /\ Block(t, 2 * n, o)[j + n] = t[o + (j + n)]
    BY <2>1 DEF Block
  <2>3. p[j] = t[o + j] /\ s[j] = t[(o + n) + j]
    BY DEF Block
  <2>4. h[j] = Block(t, 2 * n, o)[j] + Block(t, 2 * n, o)[j + n]
    BY DEF Halve
  <2>5. p[j] \in Int /\ s[j] \in Int
    BY <1>2 DEF Family
  <2> QED BY <2>1, <2>2, <2>3, <2>4, <2>5
<1>4. h \in Family(n)
  <2>1. h = [j \in 0..(n - 1) |-> h[j]]
    BY DEF Halve
  <2> HIDE DEF h, p, s
  <2>2. \A j \in 0..(n - 1) : h[j] \in Int
    <3> TAKE j \in 0..(n - 1)
    <3> QED BY SMT, <1>3
  <2> QED BY <2>1, <2>2 DEF Family
<1>5. Sum(2 * n, Block(t, 2 * n, o)) = Sum(n, h)
  BY SumHalves
<1> HIDE DEF p, s, h
<1>6. Sum(n, p) \in Int /\ Sum(n, s) \in Int /\ Cong(Sum(n, h), Sum(n, p) + 1 * Sum(n, s))
  <2>1. \A j \in 0..(n - 1) : Cong(h[j], p[j] + 1 * s[j])
    <3> TAKE j \in 0..(n - 1)
    <3>1. h[j] \in Int /\ h[j] = p[j] + 1 * s[j]
      BY SMT, <1>3
    <3> QED BY <3>1, CongRefl
  <2>2. 1 \in Int /\ LinearSum(n)
    BY <1>1, SumLinear
  <2> QED BY <1>2, <1>4, <2>1, <2>2 DEF LinearSum
<1>7. Sum(n, p) + 1 * Sum(n, s) = Sum(n, p) + Sum(n, s)
  BY SMT, <1>6
<1> QED BY <1>5, <1>6, <1>7 DEF Concatenates, BlockSum, p, s

(* s adds up sixteen blocks of n terms, from o on.                         *)
Adds(s, t, n, o) ==
  \A j \in 0..15 : Cong(s[j + 1], s[j] + BlockSum(t, n, o + n * j))

Advances(s, t, n, o, m) ==
  \A j \in Int : 0 <= j /\ j + m <= 16 =>
    Cong(s[j + m], s[j] + BlockSum(t, m * n, o + n * j))

(* Twice as many blocks at a time.                                         *)
LEMMA AdvancesTwice ==
  ASSUME NEW t \in Family(256), NEW n \in {1, 16}, NEW o \in Int, 0 <= o, o + 16 * n <= 256,
         NEW s \in [0..16 -> Int], NEW m \in {1, 2, 4, 8},
         Advances(s, t, n, o, m)
  PROVE  Advances(s, t, n, o, 2 * m)
<1> SUFFICES ASSUME NEW j \in Int, 0 <= j, j + 2 * m <= 16
             PROVE  Cong(s[j + 2 * m], s[j] + BlockSum(t, (2 * m) * n, o + n * j))
  BY DEF Advances
<1> DEFINE l == j + m
           d == m * n
           e == o + n * j
<1>1. l \in Int /\ 0 <= l /\ l + m <= 16 /\ l + m = j + 2 * m /\ j + m <= 16
  BY SMT
<1>2. d \in {1} \cup Lens /\ (2 * m) * n = 2 * d
  BY SMT DEF Lens
<1>3. e \in Int /\ 0 <= e /\ e + 2 * d <= 256 /\ o + n * l = e + d
  <2>1. CASE n = 1
    BY SMT, <2>1
  <2>2. CASE n = 16
    BY SMT, <2>2
  <2> QED BY <2>1, <2>2
<1>4. Cong(s[l], s[j] + BlockSum(t, d, e))
  BY <1>1 DEF Advances
<1>5. Cong(s[l + m], s[l] + BlockSum(t, d, e + d))
  <2>1. Cong(s[l + m], s[l] + BlockSum(t, d, o + n * l))
    <3> HIDE DEF l
    <3> QED BY <1>1 DEF Advances
  <2> QED BY <1>3, <2>1
<1> HIDE DEF l, d, e
<1>6. Concatenates(t, d, e)
  BY <1>2, <1>3, BlockHalves
<1> DEFINE x == BlockSum(t, d, e)
           y == BlockSum(t, d, e + d)
           z == BlockSum(t, 2 * d, e)
<1>7. x \in Int /\ y \in Int /\ Cong(z, x + y)
  BY <1>6 DEF Concatenates
<1>8. Cong(s[l], s[j] + x) /\ Cong(s[l + m], s[l] + y)
  BY <1>4, <1>5
<1>9. s[j] \in Int
  <2>1. j \in 0..16
    BY SMT
  <2> QED BY <2>1
<1> HIDE DEF x, y, z
<1> DEFINE u == s[l]
           v == s[l + m]
           r == s[j]
<1>10. r \in Int /\ Cong(u, r + x) /\ Cong(v, u + y)
  BY <1>8, <1>9
<1> HIDE DEF u, v, r
<1>11. Cong(u + y, (r + x) + y)
  BY <1>7, <1>10, CongAdd, CongRefl
<1>12. (r + x) + y = r + (x + y)
  BY SMT, <1>7, <1>10
<1>13. Cong(r + (x + y), r + z)
  BY <1>7, <1>10, CongAdd, CongRefl, CongSym
<1>14. Cong(v, r + z)
  BY <1>10, <1>11, <1>12, <1>13, CongTrans
<1> QED BY <1>1, <1>2, <1>14 DEF v, r, z, e

(* A running sum over sixteen blocks is the sum over all their terms.      *)
LEMMA AddsAll ==
  ASSUME NEW t \in Family(256), NEW n \in {1, 16}, NEW o \in Int, 0 <= o, o + 16 * n <= 256,
         NEW s \in [0..16 -> Int], s[0] = 0, Adds(s, t, n, o)
  PROVE  Cong(s[16], BlockSum(t, 16 * n, o))
<1>1. Advances(s, t, n, o, 1)
  <2> SUFFICES ASSUME NEW j \in Int, 0 <= j, j + 1 <= 16
               PROVE  Cong(s[j + 1], s[j] + BlockSum(t, 1 * n, o + n * j))
    BY DEF Advances
  <2>1. j \in 0..15 /\ 1 * n = n
    BY SMT
  <2> QED BY <2>1 DEF Adds
<1>2. 2 * 1 = 2 /\ 2 * 2 = 4 /\ 2 * 4 = 8 /\ 2 * 8 = 16
  BY SMT
<1>3. Advances(s, t, n, o, 2)
  BY <1>1, <1>2, AdvancesTwice
<1>4. Advances(s, t, n, o, 4)
  BY <1>2, <1>3, AdvancesTwice
<1>5. Advances(s, t, n, o, 8)
  BY <1>2, <1>4, AdvancesTwice
<1>6. Advances(s, t, n, o, 16)
  BY <1>2, <1>5, AdvancesTwice
<1> DEFINE x == BlockSum(t, 16 * n, o)
<1>7. Cong(s[16], 0 + x)
  <2>1. 0 + 16 = 16 /\ 0 \in Int /\ 0 <= 0 /\ 0 + 16 <= 16 /\ o + n * 0 = o
    BY SMT
  <2>2. Cong(s[0 + 16], s[0] + BlockSum(t, 16 * n, o + n * 0))
    BY <1>6, <2>1 DEF Advances
  <2> QED BY <2>1, <2>2
<1>8. x \in Int
  <2> DEFINE d == 8 * n
  <2>1. d \in {1} \cup Lens /\ 16 * n = 2 * d /\ o + 2 * d <= 256
    BY SMT DEF Lens
  <2> HIDE DEF d
  <2>2. Concatenates(t, d, o)
    BY <2>1, BlockHalves
  <2> QED BY <2>1, <2>2 DEF Concatenates, Cong
<1> HIDE DEF x
<1>9. 0 + x = x
  BY SMT, <1>8
<1> QED BY <1>7, <1>9 DEF x

(* The running sums of RingProduct exist.                                  *)
Runs(s, t) ==
  s = [j \in 0..16 |-> IF j = 0 THEN 0 ELSE (s[j - 1] + t[j - 1]) % KYBER_Q]

CanRun(t, n) ==
  \E s \in [0..16 -> Int] :
    s[0] = 0 /\ \A j \in 1..n : s[j] = (s[j - 1] + t[j - 1]) % KYBER_Q

LEMMA CanRunStep ==
  ASSUME NEW t \in [0..15 -> Int], NEW n \in 0..15, CanRun(t, n)
  PROVE  CanRun(t, n + 1)
<1>1. PICK s \in [0..16 -> Int] :
        s[0] = 0 /\ \A j \in 1..n : s[j] = (s[j - 1] + t[j - 1]) % KYBER_Q
  BY DEF CanRun
<1> DEFINE x == (s[n] + t[n]) % KYBER_Q
           r == [s EXCEPT ![n + 1] = x]
<1>2. n \in Int /\ 0 <= n /\ n <= 15 /\ n \in 0..16 /\ n + 1 \in 0..16
  BY SMT
<1>3. x \in Int
  <2>1. s[n] \in Int /\ t[n] \in Int
    BY <1>2
  <2> QED BY SMT, <2>1, QIs
<1> HIDE DEF x
<1>4. r \in [0..16 -> Int] /\ r[n + 1] = x
  BY <1>2, <1>3
<1>5. \A j \in 0..16 : j # n + 1 => r[j] = s[j]
  OBVIOUS
<1> HIDE DEF r
<1>6. r[0] = 0
  <2>1. 0 # n + 1 /\ 0 \in 0..16
    BY SMT, <1>2
  <2> QED BY <1>1, <1>5, <2>1
<1>7. ASSUME NEW j \in 1..(n + 1) PROVE r[j] = (r[j - 1] + t[j - 1]) % KYBER_Q
  <2>1. j \in 0..16 /\ j - 1 \in 0..16 /\ j - 1 # n + 1 /\ (j = n + 1 \/ (j \in 1..n /\ j # n + 1))
        /\ (n + 1) - 1 = n
    BY SMT, <1>2
  <2>2. r[j - 1] = s[j - 1]
    BY <1>5, <2>1
  <2>3. CASE j = n + 1
    BY <1>4, <2>1, <2>2, <2>3 DEF x
  <2>4. CASE j \in 1..n /\ j # n + 1
    <3>1. r[j] = s[j]
      BY <1>5, <2>1, <2>4
    <3> QED BY <1>1, <2>2, <2>4, <3>1
  <2> QED BY <2>1, <2>3, <2>4
<1> QED BY <1>4, <1>6, <1>7 DEF CanRun

LEMMA SixteenSteps ==
  ASSUME NEW S, 0 \in S, \A n \in 0..15 : n \in S => n + 1 \in S
  PROVE  \A n \in 0..16 : n \in S
<1>1. 1 \in S /\ 2 \in S /\ 3 \in S /\ 4 \in S
  BY SMT
<1>2. 5 \in S /\ 6 \in S /\ 7 \in S /\ 8 \in S
  BY SMT, <1>1
<1>3. 9 \in S /\ 10 \in S /\ 11 \in S /\ 12 \in S
  BY SMT, <1>2
<1>4. 13 \in S /\ 14 \in S /\ 15 \in S /\ 16 \in S
  BY SMT, <1>3
<1> TAKE n \in 0..16
<1>5. n \in {0, 1, 2, 3, 4, 5, 6, 7, 8, 9, 10, 11, 12, 13, 14, 15, 16}
  BY SMT
<1> QED BY <1>1, <1>2, <1>3, <1>4, <1>5

LEMMA RunExists ==
  ASSUME NEW t \in [0..15 -> Int]
  PROVE  \E s : Runs(s, t)
<1> DEFINE S == {n \in 0..16 : CanRun(t, n)}
<1>1. 0 \in S
  <2> DEFINE z == [j \in 0..16 |-> 0]
  <2>1. z \in [0..16 -> Int] /\ z[0] = 0 /\ \A j \in 1..0 : FALSE
    BY SMT
  <2> HIDE DEF z
  <2>2. 0 \in 0..16
    BY SMT
  <2> QED BY <2>1, <2>2 DEF CanRun
<1>2. ASSUME NEW n \in 0..15, n \in S PROVE n + 1 \in S
  <2>1. n + 1 \in 0..16
    BY SMT
  <2> QED BY <1>2, <2>1, CanRunStep
<1> HIDE DEF S
<1>3. 16 \in S
  <2>1. 16 \in 0..16
    BY SMT
  <2> QED BY <1>1, <1>2, <2>1, SixteenSteps
<1>4. PICK s \in [0..16 -> Int] :
        s[0] = 0 /\ \A j \in 1..16 : s[j] = (s[j - 1] + t[j - 1]) % KYBER_Q
  BY <1>3 DEF S, CanRun
<1>5. s = [j \in 0..16 |-> s[j]]
  OBVIOUS
<1>6. \A j \in 0..16 : s[j] = IF j = 0 THEN 0 ELSE (s[j - 1] + t[j - 1]) % KYBER_Q
  <2> TAKE j \in 0..16
  <2>1. j = 0 \/ (j # 0 /\ j \in 1..16)
    BY SMT
  <2> QED BY <1>4, <2>1
<1>7. Runs(s, t)
  BY <1>5, <1>6, Zenon DEF Runs
<1> QED BY <1>7

(* ... and add up their terms, modulo q.                                   *)
LEMMA RunAdds ==
  ASSUME NEW t \in [0..15 -> Int], NEW s, Runs(s, t)
  PROVE  /\ s \in [0..16 -> Int] /\ s[0] = 0
         /\ \A j \in 0..15 : Cong(s[j + 1], s[j] + t[j])
<1>1. \A j \in 0..16 : s[j] = IF j = 0 THEN 0 ELSE (s[j - 1] + t[j - 1]) % KYBER_Q
  <2> DEFINE e(j) == IF j = 0 THEN 0 ELSE (s[j - 1] + t[j - 1]) % KYBER_Q
  <2>1. s = [j \in 0..16 |-> e(j)]
    BY DEF Runs
  <2> HIDE DEF e
  <2>2. \A j \in 0..16 : s[j] = e(j)
    BY <2>1
  <2> QED BY <2>2 DEF e
<1>2. s[0] = 0 /\ \A j \in 0..15 : s[j + 1] = (s[j] + t[j]) % KYBER_Q
  <2>1. 0 \in 0..16
    BY SMT
  <2>2. \A j \in 0..15 : j + 1 \in 0..16 /\ j + 1 # 0 /\ (j + 1) - 1 = j
    BY SMT
  <2>3. s[0] = 0
    BY <1>1, <2>1
  <2>4. ASSUME NEW j \in 0..15 PROVE s[j + 1] = (s[j] + t[j]) % KYBER_Q
    <3>1. j + 1 \in 0..16 /\ j + 1 # 0 /\ (j + 1) - 1 = j
      BY <2>2
    <3>2. s[j + 1] = (s[(j + 1) - 1] + t[(j + 1) - 1]) % KYBER_Q
      BY <1>1, <3>1
    <3> QED BY <3>1, <3>2
  <2> QED BY <2>3, <2>4
<1> DEFINE S == {j \in 0..16 : s[j] \in Int}
<1>3. \A j \in 0..16 : j \in S
  <2>1. 0 \in S
    BY SMT, <1>2
  <2>2. ASSUME NEW j \in 0..15, j \in S PROVE j + 1 \in S
    <3>1. s[j] \in Int /\ t[j] \in Int /\ s[j + 1] = (s[j] + t[j]) % KYBER_Q
      BY <1>2, <2>2
    <3>2. (s[j] + t[j]) % KYBER_Q \in Int
      BY SMT, <3>1, QIs
    <3>3. j + 1 \in 0..16
      BY SMT
    <3> QED BY <3>1, <3>2, <3>3
  <2> HIDE DEF S
  <2> QED BY <2>1, <2>2, SixteenSteps
<1>4. s \in [0..16 -> Int]
  <2> DEFINE e(j) == IF j = 0 THEN 0 ELSE (s[j - 1] + t[j - 1]) % KYBER_Q
  <2>1. s = [j \in 0..16 |-> e(j)]
    BY DEF Runs
  <2> HIDE DEF e
  <2> QED BY <1>3, <2>1
<1>5. ASSUME NEW j \in 0..15 PROVE Cong(s[j + 1], s[j] + t[j])
  <2>1. s[j + 1] = (s[j] + t[j]) % KYBER_Q
    BY <1>2
  <2>2. s[j] + t[j] \in Int
    <3>1. j \in 0..16
      BY SMT
    <3>2. s[j] \in Int /\ t[j] \in Int
      BY <1>4, <3>1
    <3> QED BY SMT, <3>2
  <2> QED BY <2>1, <2>2, CongRem
<1> QED BY <1>2, <1>4, <1>5

(* The terms of a coefficient of the product in the ring.                  *)
RingTerm(a, b, i, j) ==
  IF j <= i THEN a[j] * b[i - j] ELSE -(a[j] * b[KYBER_N + i - j])

(* The terms of the whole ring, the block of 256 with modulus X^256 + 1.   *)
LEMMA RingTerms ==
  ASSUME NEW w, NEW a \in Element, NEW b \in Element, NEW i \in Index
  PROVE  /\ Terms(w, 256, a, b, i) \in Family(256)
         /\ \A j \in 0..255 : Terms(w, 256, a, b, i)[j] = RingTerm(a, b, i, j)
<1> DEFINE t == Terms(w, 256, a, b, i)
<1>1. Modulus(w, 256, i) = -1 /\ Modulus(w, 256, i) \in Int
  BY SMT DEF Modulus
<1>2. t \in Family(256)
  <2>1. 256 \in Sizes
    BY DEF Sizes
  <2> QED BY <1>1, <2>1, TermsFamily
<1>3. ASSUME NEW j \in 0..255 PROVE t[j] = RingTerm(a, b, i, j)
  <2>1. /\ j \in 0..(256 - 1) /\ 256 * (i \div 256) + j = j /\ i % 256 = i /\ j \in Index
        /\ j <= i => i - j \in Index
        /\ ~(j <= i) => i + 256 - j \in Index /\ KYBER_N + i - j = i + 256 - j
    BY SMT, IndexIs DEF KYBER_N
  <2>2. t[j] = IF j <= i % 256 THEN a[256 * (i \div 256) + j] * b[i - j]
               ELSE Modulus(w, 256, i) * (a[256 * (i \div 256) + j] * b[i + 256 - j])
    BY <2>1 DEF Terms
  <2>3. CASE j <= i
    BY <2>1, <2>2, <2>3 DEF RingTerm
  <2>4. CASE ~(j <= i)
    <3> DEFINE x == a[j]
               y == b[i + 256 - j]
    <3>1. x \in Int /\ y \in Int
      BY <2>1, <2>4 DEF Element
    <3>2. t[j] = Modulus(w, 256, i) * (x * y)
      BY <2>1, <2>2, <2>4
    <3>3. RingTerm(a, b, i, j) = -(x * y)
      BY <2>1, <2>4 DEF RingTerm
    <3> HIDE DEF x, y, t
    <3> QED BY SMT, <1>1, <3>1, <3>2, <3>3
  <2> QED BY <2>3, <2>4
<1> QED BY <1>2, <1>3

(* The running sums of RingProduct are these sums modulo q.                *)
LEMMA RingProductIsSum ==
  ASSUME NEW w, NEW a \in Element, NEW b \in Element, NEW i \in Index
  PROVE  Cong(RingProduct(a, b, i), Sum(256, Terms(w, 256, a, b, i)))
<1> DEFINE T == Terms(w, 256, a, b, i)
           term(j) == IF j <= i THEN a[j] * b[i - j] ELSE -(a[j] * b[KYBER_N + i - j])
           IsRow(h, s) ==
             s = [j \in 0..16 |->
                    IF j = 0 THEN 0 ELSE (s[j - 1] + term(16 * h + j - 1)) % KYBER_Q]
           row(h) == (CHOOSE s : IsRow(h, s))[16]
           AreRows(s) ==
             s = [h \in 0..16 |-> IF h = 0 THEN 0 ELSE (s[h - 1] + row(h - 1)) % KYBER_Q]
           rows == CHOOSE s : AreRows(s)
<1>1. RingProduct(a, b, i) = rows[16]
  BY DEF RingProduct
<1>2. T \in Family(256) /\ \A j \in 0..255 : T[j] = term(j) /\ term(j) \in Int
  <2>1. T \in Family(256) /\ \A j \in 0..255 : T[j] = RingTerm(a, b, i, j)
    BY RingTerms
  <2>2. \A j \in 0..255 : T[j] = term(j)
    BY <2>1 DEF RingTerm
  <2> HIDE DEF T, term
  <2>3. \A j \in 0..255 : T[j] \in Int
    <3>1. \A j \in 0..255 : j \in 0..(256 - 1)
      BY SMT
    <3> QED BY <2>1, <3>1 DEF Family
  <2> QED BY <2>1, <2>2, <2>3
<1> HIDE DEF T, term
<1>3. ASSUME NEW h \in 0..15
      PROVE  Cong(row(h), BlockSum(T, 16, 16 * h))
  <2> DEFINE t == [m \in 0..15 |-> term(16 * h + m)]
             F == CHOOSE s : IsRow(h, s)
             o == 16 * h
  <2>1. \A m \in 0..15 : o + m \in 0..255
    BY SMT
  <2>2. t \in [0..15 -> Int] /\ \A m \in 0..15 : t[m] = T[o + m] /\ t[m] \in Int
    BY <1>2, <2>1
  <2>3. \A s : Runs(s, t) <=> IsRow(h, s)
    <3> TAKE s
    <3>1. \A j \in 0..16 :
            (IF j = 0 THEN 0 ELSE (s[j - 1] + term(16 * h + j - 1)) % KYBER_Q)
            = (IF j = 0 THEN 0 ELSE (s[j - 1] + t[j - 1]) % KYBER_Q)
      <4> TAKE j \in 0..16
      <4>1. CASE j # 0
        <5>1. j - 1 \in 0..15 /\ 16 * h + j - 1 = 16 * h + (j - 1)
          BY SMT, <4>1
        <5>2. t[j - 1] = term(16 * h + (j - 1))
          BY <5>1
        <5> QED BY <5>1, <5>2
      <4> QED BY <4>1
    <3> HIDE DEF t
    <3> QED BY <3>1, Zenon DEF Runs
  <2>4. \E s : IsRow(h, s)
    BY <2>2, <2>3, RunExists
  <2>5. IsRow(h, F)
    <3> HIDE DEF IsRow
    <3> QED BY <2>4, Zenon
  <2>6. Runs(F, t)
    BY <2>3, <2>5
  <2>7. row(h) = F[16]
    OBVIOUS
  <2> HIDE DEF F, t, IsRow, row
  <2>8. /\ F \in [0..16 -> Int] /\ F[0] = 0
        /\ \A j \in 0..15 : Cong(F[j + 1], F[j] + t[j])
    BY <2>2, <2>6, RunAdds
  <2>9. \A j \in 0..15 : BlockSum(T, 1, o + 1 * j) = t[j]
    <3> TAKE j \in 0..15
    <3>1. 0 \in 0..(1 - 1) /\ o + 1 * j + 0 = o + j
      BY SMT
    <3>2. Block(T, 1, o + 1 * j)[0] = T[o + 1 * j + 0]
      BY <3>1 DEF Block
    <3>3. BlockSum(T, 1, o + 1 * j) = Block(T, 1, o + 1 * j)[0]
      BY SumIs DEF BlockSum, Sum1
    <3> QED BY <2>2, <3>1, <3>2, <3>3
  <2>10. Adds(F, T, 1, o)
    BY <2>8, <2>9 DEF Adds
  <2>11. 1 \in {1, 16} /\ o \in Int /\ 0 <= o /\ o + 16 * 1 <= 256 /\ 16 * 1 = 16
    BY SMT
  <2> HIDE DEF o
  <2>12. Cong(F[16], BlockSum(T, 16 * 1, o))
    BY <1>2, <2>8, <2>10, <2>11, AddsAll
  <2> QED BY <2>7, <2>11, <2>12 DEF o
<1>4. Cong(rows[16], BlockSum(T, 256, 0))
  <2> HIDE DEF row
  <2> DEFINE t == [h \in 0..15 |-> row(h)]
  <2>1. t \in [0..15 -> Int] /\ \A h \in 0..15 : t[h] = row(h) /\ t[h] \in Int
    <3>1. \A h \in 0..15 : row(h) \in Int
      BY <1>3 DEF Cong
    <3> QED BY <3>1
  <2>2. \A s : Runs(s, t) <=> AreRows(s)
    <3> TAKE s
    <3>1. \A j \in 0..16 :
            (IF j = 0 THEN 0 ELSE (s[j - 1] + row(j - 1)) % KYBER_Q)
            = (IF j = 0 THEN 0 ELSE (s[j - 1] + t[j - 1]) % KYBER_Q)
      <4> TAKE j \in 0..16
      <4>1. CASE j # 0
        <5>1. j - 1 \in 0..15
          BY SMT, <4>1
        <5>2. t[j - 1] = row(j - 1)
          BY <5>1
        <5> QED BY <5>2
      <4> QED BY <4>1
    <3> HIDE DEF t
    <3> QED BY <3>1, Zenon DEF Runs
  <2>3. \E s : AreRows(s)
    BY <2>1, <2>2, RunExists
  <2>4. AreRows(rows)
    <3> HIDE DEF AreRows
    <3> QED BY <2>3, Zenon
  <2>5. Runs(rows, t)
    BY <2>2, <2>4
  <2> HIDE DEF t, rows, AreRows
  <2>6. /\ rows \in [0..16 -> Int] /\ rows[0] = 0
        /\ \A j \in 0..15 : Cong(rows[j + 1], rows[j] + t[j])
    BY <2>1, <2>5, RunAdds
  <2>7. Adds(rows, T, 16, 0)
    <3> SUFFICES ASSUME NEW j \in 0..15
                 PROVE  Cong(rows[j + 1], rows[j] + BlockSum(T, 16, 0 + 16 * j))
      BY DEF Adds
    <3>1. Cong(rows[j + 1], rows[j] + t[j])
      BY <2>6
    <3>2. Cong(t[j], BlockSum(T, 16, 0 + 16 * j))
      <4>1. 0 + 16 * j = 16 * j
        BY SMT
      <4> QED BY <1>3, <2>1, <4>1
    <3>3. rows[j] \in Int
      <4>1. j \in 0..16
        BY SMT
      <4> QED BY <2>6, <4>1
    <3>4. Cong(rows[j] + t[j], rows[j] + BlockSum(T, 16, 0 + 16 * j))
      BY <3>2, <3>3, CongAdd, CongRefl
    <3> QED BY <3>1, <3>4, CongTrans
  <2>8. 16 \in {1, 16} /\ 0 \in Int /\ 0 <= 0 /\ 0 + 16 * 16 <= 256 /\ 16 * 16 = 256
    BY SMT
  <2>9. Cong(rows[16], BlockSum(T, 16 * 16, 0))
    BY <1>2, <2>6, <2>7, <2>8, AddsAll
  <2> QED BY <2>8, <2>9
<1>5. Block(T, 256, 0) = T
  <2>1. T = [j \in 0..(256 - 1) |-> T[j]]
    BY <1>2 DEF Family
  <2>2. \A j \in 0..(256 - 1) : 0 + j = j
    BY SMT
  <2>3. \A j \in 0..(256 - 1) : T[0 + j] = T[j]
    BY <2>2
  <2> QED BY <2>1, <2>3, Zenon DEF Block
<1> HIDE DEF rows
<1> QED BY <1>1, <1>4, <1>5 DEF BlockSum, T

(* RingProduct as an element.                                              *)
Ring(a, b) == [i \in Index |-> RingProduct(a, b, i)]

(* RingProduct is the product modulo X^256 + 1.                            *)
LEMMA RingIsProduct ==
  ASSUME NEW w, NEW a \in Element, NEW b \in Element
  PROVE  Ring(a, b) \in Element /\ IsProduct(w, 256, a, b, Ring(a, b))
<1>1. \A i \in Index : Cong(Ring(a, b)[i], Sum(256, Terms(w, 256, a, b, i)))
  BY RingProductIsSum DEF Ring
<1>2. \A i \in Index : Ring(a, b)[i] \in Int
  BY <1>1 DEF Cong
<1> QED BY <1>1, <1>2 DEF IsProduct, Element, Ring
-----------------------------------------------------------------------------
(***************************************************************************)
(* What the state holds, as far as the transforms have come.               *)
(***************************************************************************)
(* Table entries without their factor mont, up to congruence.              *)
Plain(t) == [j \in Twiddle |-> 169 * t[j]]

LEMMA RootIsPlain == Root = Plain(zetas)
BY DEF Root, Plain

LEMMA PlainIs ==
  ASSUME NEW t \in [Twiddle -> Int]
  PROVE  Plain(t) \in Table128
<1> SUFFICES ASSUME NEW j \in Twiddle PROVE 169 * t[j] \in Int
  BY DEF Plain, Table128
<1>1. t[j] \in Int
  OBVIOUS
<1> QED BY SMT, <1>1

LEMMA FirstPower ==
  ASSUME NEW p \in Table128, Cong(p[0], 1)
  PROVE  Powers(p, 1)
<1>1. ASSUME NEW i \in Twiddle, NEW j \in Twiddle, i + j < 1
      PROVE  Cong(p[i + j], p[i] * p[j])
  <2>1. i = 0 /\ j = 0 /\ i + j = 0 /\ 0 \in Twiddle
    BY SMT, <1>1, TwiddleIs
  <2>2. p[0] \in Int
    BY <2>1 DEF Table128
  <2>3. Cong(p[0] * p[0], p[0] * 1)
    BY <2>2, CongScale
  <2>4. p[0] * 1 = p[0]
    BY SMT, <2>2
  <2>5. Cong(p[0], p[0] * p[0])
    BY <2>3, <2>4, CongSym
  <2> QED BY <2>1, <2>5
<1>2. ~(1 < 1)
  BY SMT
<1> QED BY <1>1, <1>2 DEF Powers

(* kyber_ntt_init starts from mont, the power 0 of 17 in Montgomery form,  *)
LEMMA InitPowers ==
  ASSUME Init
  PROVE  Powers(Plain(tmp), 1)
<1>1. tmp \in [Twiddle -> Int] /\ tmp[0] = -1044 /\ 0 \in Twiddle
  BY SMT DEF Init, Twiddle, KYBER_MONT
<1>2. Plain(tmp)[0] = 169 * (-1044)
  BY <1>1 DEF Plain
<1>3. 169 * (-1044) \in Int /\ 1 \in Int /\ -53 \in Int /\ 169 * (-1044) - 1 = (-53) * 3329
  BY SMT
<1> DEFINE x == 169 * (-1044)
<1>4. Cong(x, 1)
  <2>1. x \in Int /\ x - 1 = (-53) * KYBER_Q
    BY SMT, QIs
  <2> HIDE DEF x
  <2> QED BY <1>3, <2>1 DEF Cong
<1> QED BY <1>1, <1>2, <1>4, FirstPower, PlainIs

(* multiplies by 17 with each step ...                                     *)
LEMMA NextPower ==
  ASSUME Tables, k \in 1..127, Powers(Plain(tmp), k),
         NEW t, t = [tmp EXCEPT ![k] = fq_mul(tmp[k - 1], MontZeta)]
  PROVE  Powers(Plain(t), k + 1)
<1> DEFINE p == Plain(tmp)
           r == Plain(t)
           x == tmp[k - 1]
           y == fq_mul(x, MontZeta)
<1>1. k \in Twiddle /\ k - 1 \in Twiddle
  BY SMT, TwiddleIs
<1>2. Abs(x, 3328) /\ x \in Int /\ tmp \in [Twiddle -> Int]
  BY <1>1 DEF Tables
<1>3. MontZeta = -1103 /\ Abs(MontZeta, 32767)
  BY SMT DEF MontZeta, KYBER_MONT, KYBER_Q, Abs
<1>4. Cong(y, 169 * (x * MontZeta)) /\ Abs(y, 3328)
  BY <1>2, <1>3, FqMulTimes, PowerBound
<1>5. y \in Int
  BY <1>4 DEF Abs
<1>6. t \in [Twiddle -> Int] /\ t[k] = y
  BY <1>1, <1>2, <1>5
<1>7. p \in Table128 /\ r \in Table128
  <2>1. Plain(tmp) \in Table128
    BY <1>2, PlainIs
  <2>2. Plain(t) \in Table128
    BY ONLY <1>6, PlainIs, Zenon
  <2> QED BY <2>1, <2>2
<1>8. \A j \in Twiddle : j < k => r[j] = p[j]
  <2> TAKE j \in Twiddle
  <2> HAVE j < k
  <2>1. j # k
    BY SMT, TwiddleIs
  <2>2. t[j] = tmp[j]
    BY <1>2, <2>1
  <2> QED BY <2>2 DEF Plain
<1>9. r[k] = 169 * y /\ p[k - 1] = 169 * x
  BY <1>1, <1>6 DEF Plain
<1> DEFINE z == 169 * MontZeta
<1>10. Cong(z, 17) /\ z \in Int
  <2>1. z \in Int /\ -56 \in Int /\ 17 \in Int /\ z - 17 = (-56) * KYBER_Q
    BY SMT, <1>3, QIs
  <2> HIDE DEF z
  <2> QED BY <2>1 DEF Cong
<1>11. Cong(169 * y, 169 * (169 * (x * MontZeta)))
  <2>1. 169 \in Int
    BY SMT
  <2> QED BY <1>4, <2>1, CongScale
<1>12. 169 * (169 * (x * MontZeta)) = (169 * x) * z
  <2>1. MontZeta \in Int
    BY SMT, <1>3
  <2> HIDE DEF x
  <2> QED BY SMT, <1>2, <2>1
<1> HIDE DEF z, y, x
<1>13. 169 * x \in Int
  BY SMT, <1>2
<1>14. Cong((169 * x) * z, (169 * x) * 17)
  BY <1>10, <1>13, CongScale
<1>15. Cong(r[k], p[k - 1] * 17)
  BY <1>9, <1>11, <1>12, <1>14, CongTrans
<1> HIDE DEF p, r
<1>16. Powers(p, k)
  BY DEF p
<1>17. Powers(r, k + 1)
  BY <1>7, <1>8, <1>15, <1>16, PowersStep
<1> QED BY <1>17 DEF r

LEMMA CenterCong ==
  ASSUME NEW x, Abs(x, 3328)
  PROVE  Cong(center(x), x)
<1>1. /\ x \in Int /\ center(x) \in Int
      /\ \/ center(x) - x = 0 * KYBER_Q
         \/ center(x) - x = 1 * KYBER_Q
         \/ center(x) - x = (-1) * KYBER_Q
  BY SMT DEF Abs, center, KYBER_Q
<1>2. 0 \in Int /\ 1 \in Int /\ -1 \in Int
  BY SMT
<1> QED BY <1>1, <1>2 DEF Cong

(* ... and leaves the roots of unity the transforms need: the entries of   *)
(* each layer are square roots of those of the layer before, with both     *)
(* signs, and read backwards they are the opposites of the inverses.       *)
THEOREM TableDone ==
  ASSUME Tables, Powers(Plain(tmp), 128),
         NEW t, t = [i \in Twiddle |-> center(tmp[bitrev7(i)])]
  PROVE  Roots(Plain(t)) /\ InverseRoots(Plain(t))
<1> DEFINE p == Plain(tmp)
           w == Plain(t)
<1>1. tmp \in [Twiddle -> Int] /\ \A i \in Twiddle : Abs(tmp[i], 3328)
  BY DEF Tables
<1>2. \A i \in Twiddle : /\ Cong(center(tmp[bitrev7(i)]), tmp[bitrev7(i)])
                         /\ center(tmp[bitrev7(i)]) \in Int
  BY <1>1, BitrevTwiddle, CenterCong DEF Cong
<1>3. t \in [Twiddle -> Int]
  BY <1>2
<1>4. p \in Table128 /\ w \in Table128
  BY <1>1, <1>3, PlainIs
<1>5. ASSUME NEW m \in Twiddle PROVE Cong(w[m], p[bitrev7(m)])
  <2>1. w[m] = 169 * center(tmp[bitrev7(m)]) /\ p[bitrev7(m)] = 169 * tmp[bitrev7(m)]
    BY BitrevTwiddle DEF Plain
  <2>2. 169 \in Int
    BY SMT
  <2> QED BY <1>2, <2>1, <2>2, CongScale
<1>6. Powers(p, 128)
  OBVIOUS
<1> HIDE DEF p, w
<1>7. Roots(w) /\ InverseRoots(w)
  BY <1>4, <1>5, <1>6, TableRoots, TableInverse
<1> QED BY <1>7 DEF w

(* v holds the components of u, transformed down to half-size n.           *)
Transformed(w, n, v, u) == \A c \in Components : Same(v[c], Image(w, n, u[c]))

Vectors == [Components -> Element]

(* Before the first layer.                                                 *)
LEMMA WholeTransformed ==
  ASSUME NEW w, NEW u \in Vectors
  PROVE  Transformed(w, 256, u, u)
<1> SUFFICES ASSUME NEW c \in Components, NEW i \in Index
             PROVE  Cong(u[c][i], Image(w, 256, u[c])[i])
  BY DEF Transformed, Same
<1>1. u[c][i] \in Int
  BY DEF Vectors, Element
<1>2. Image(w, 256, u[c]) = u[c]
  BY ImageWhole
<1> QED BY <1>1, <1>2, CongRefl

(* A layer of ntt is one layer of the transform.                           *)
LEMMA ForwardLayers ==
  ASSUME Tables, Roots(Root), <<len, k>> \in Ahead, NEW bound \in Nat, bound <= 29439,
         NEW v, \A c \in Components : Vector(v[c], bound),
         NEW u \in Vectors, Transformed(Root, 2 * len, v, u)
  PROVE  Transformed(Root, len, Layers(v), u)
<1> SUFFICES ASSUME NEW c \in Components
             PROVE  Same(Layers(v)[c], Image(Root, len, u[c]))
  BY DEF Transformed
<1>1. len \in Lens /\ 2 * len \in Sizes
  BY AheadPosition, LensAreSizes
<1>2. Layers(v)[c] = Layer(v[c])
  BY DEF Layers
<1> DEFINE e == Image(Root, 2 * len, u[c])
           a == v[c]
<1>3. e \in Element
  BY <1>1, ImageElement DEF Vectors
<1>4. Same(a, e) /\ Vector(a, bound)
  BY DEF Transformed
<1>5. Image(Root, len, u[c]) = Split(Root, len, e)
  BY <1>1, ImageStep
<1> HIDE DEF e, a
<1>6. Same(Layer(a), Split(Root, len, e))
  BY <1>3, <1>4, LayerSplits
<1> QED BY <1>2, <1>5, <1>6 DEF a

(* The reduction at the end of poly_ntt.                                   *)
LEMMA ForwardReduce ==
  ASSUME NEW w, NEW n, NEW v, \A c \in Components : Vector(v[c], 32767),
         NEW u, Transformed(w, n, v, u)
  PROVE  Transformed(w, n, [c \in Components |-> poly_reduce(v[c])], u)
<1> SUFFICES ASSUME NEW c \in Components
             PROVE  Same(poly_reduce(v[c]), Image(w, n, u[c]))
  BY DEF Transformed
<1>1. v[c] \in Element /\ Within(v[c], 32767) /\ Same(v[c], Image(w, n, u[c]))
  BY DEF Vector, Element, Transformed
<1> QED BY <1>1, ReduceSame

(* The bytes of a key keep its residues.                                   *)
LEMMA UnpackedTransformed ==
  ASSUME NEW w, NEW n, NEW v, \A c \in Components : Vector(v[c], 1664),
         NEW u, Transformed(w, n, v, u)
  PROVE  Transformed(w, n, [c \in Components |-> Unpacked(v[c])], u)
<1> SUFFICES ASSUME NEW c \in Components, NEW i \in Index
             PROVE  Cong(Unpacked(v[c])[i], Image(w, n, u[c])[i])
  BY DEF Transformed, Same
<1>1. Cong(v[c][i], Image(w, n, u[c])[i])
  BY DEF Transformed, Same
<1>2. Unpacked(v[c])[i] = v[c][i] \/ Unpacked(v[c])[i] = v[c][i] + KYBER_Q
  BY UnpackedIs
<1> DEFINE y == v[c][i]
           z == Unpacked(v[c])[i]
<1>3. y \in Int
  BY <1>1 DEF Cong
<1>4. Cong(z, y)
  <2>1. z = y \/ z = y + KYBER_Q
    BY <1>2
  <2> HIDE DEF y, z
  <2>2. z \in Int /\ (z - y = 0 * KYBER_Q \/ z - y = 1 * KYBER_Q)
    BY SMT, <1>3, <2>1, QIs
  <2>3. 0 \in Int /\ 1 \in Int
    BY SMT
  <2> QED BY <1>3, <2>2, <2>3 DEF Cong
<1> QED BY <1>1, <1>4, CongTrans

(* The inner product in the ring.                                          *)
Products(p) == [c \in Components |-> Ring(p[1][c], p[2][c])]

Expected(p) == Total(Products(p))

(* r is the image of the product down to half-size n, times m.             *)
Holds(w, n, m, r, p) ==
  \A i \in Index : Cong(r[i], m * Image(w, n, Expected(p))[i])

LEMMA ExpectedElement ==
  ASSUME NEW p, p[1] \in Vectors, p[2] \in Vectors
  PROVE  Products(p) \in Vectors /\ Expected(p) \in Element
<1>1. \A c \in Components : Ring(p[1][c], p[2][c]) \in Element
  BY RingIsProduct DEF Vectors
<1>2. Products(p) \in Vectors
  BY <1>1 DEF Products, Vectors
<1> QED BY <1>2, TotalElement DEF Expected, Vectors

(* polyvec_basemul_acc_montgomery multiplies the images, divided by mont.  *)
LEMMA MultiplyHolds ==
  ASSUME Tables, Roots(Root), NEW p, p[1] \in Vectors, p[2] \in Vectors,
         NEW a, NEW b, \A c \in Components : Vector(a[c], 3328) /\ Vector(b[c], 1664),
         Transformed(Root, 2, a, p[1]), Transformed(Root, 2, b, p[2])
  PROVE  Holds(Root, 2, 169, polyvec_basemul_acc_montgomery(a, b), p)
<1> DEFINE A == [c \in Components |-> Image(Root, 2, p[1][c])]
           B == [c \in Components |-> Image(Root, 2, p[2][c])]
           D == [c \in Components |-> Image(Root, 2, Products(p)[c])]
<1>0. 2 \in Sizes
  BY DEF Sizes
<1>1. Products(p) \in Vectors
  BY ExpectedElement
<1>2. ASSUME NEW c \in Components
      PROVE  /\ A[c] \in Element /\ B[c] \in Element /\ D[c] \in Element
             /\ Same(a[c], A[c]) /\ Same(b[c], B[c])
             /\ IsProduct(Root, 2, A[c], B[c], D[c])
  <2>1. p[1][c] \in Element /\ p[2][c] \in Element /\ Products(p)[c] \in Element
    BY <1>1 DEF Vectors
  <2>2. A[c] \in Element /\ B[c] \in Element /\ D[c] \in Element
    BY <1>0, <2>1, ImageElement
  <2>3. Same(a[c], A[c]) /\ Same(b[c], B[c])
    BY DEF Transformed
  <2>4. IsProduct(Root, 256, p[1][c], p[2][c], Products(p)[c])
    BY <2>1, RingIsProduct DEF Products
  <2>5. IsProduct(Root, 2, Image(Root, 2, p[1][c]), Image(Root, 2, p[2][c]), Image(Root, 2, Products(p)[c]))
    BY <1>0, <2>1, <2>4, ImageProduct
  <2> QED BY <2>2, <2>3, <2>5
<1>3. Image(Root, 2, Expected(p)) = Total(D)
  BY <1>0, <1>1, ImageTotal DEF Expected, Vectors
<1>4. A \in [Components -> Element] /\ B \in [Components -> Element] /\ D \in [Components -> Element]
  BY <1>2
<1> HIDE DEF A, B, D
<1>5. \A i \in Index : Cong(polyvec_basemul_acc_montgomery(a, b)[i], 169 * Total(D)[i])
  BY <1>2, <1>4, AccProduct
<1> QED BY <1>3, <1>5 DEF Holds

(* A layer of invntt goes one layer back and doubles the factor.           *)
LEMMA InverseHolds ==
  ASSUME Tables, Roots(Root), InverseRoots(Root), <<len, k>> \in Behind,
         NEW p, p[1] \in Vectors, p[2] \in Vectors, NEW r, Vector(r, 3328), NEW m \in Int,
         Holds(Root, len, m, r, p)
  PROVE  Holds(Root, 2 * len, 2 * m, InvLayer(r), p)
<1> DEFINE e == Image(Root, 2 * len, Expected(p))
<1>1. len \in Lens /\ 2 * len \in Sizes
  BY BehindPosition, LensAreSizes
<1>2. e \in Element
  BY <1>1, ExpectedElement, ImageElement
<1>3. Image(Root, len, Expected(p)) = Split(Root, len, e)
  BY <1>1, ImageStep
<1>4. \A i \in Index : Cong(r[i], m * Split(Root, len, e)[i])
  BY <1>3 DEF Holds
<1> HIDE DEF e
<1>5. \A i \in Index : Cong(InvLayer(r)[i], (2 * m) * e[i])
  BY <1>2, <1>4, InvLayerUndoes
<1> QED BY <1>5 DEF Holds, e

(* The factor mont^2 / 128 at the end cancels what has come together.      *)
LEMMA ScaleHolds ==
  ASSUME NEW p, p[1] \in Vectors, p[2] \in Vectors, NEW w, NEW r, Vector(r, 3328),
         Holds(w, 256, 169 * 128, r, p)
  PROVE  \A i \in Index : Cong(fq_mul(r[i], 1441), Expected(p)[i])
<1> TAKE i \in Index
<1> DEFINE m == 169 * 128
           e == Expected(p)[i]
           n == 169 * 1441
           o == n * m
<1>1. e \in Int
  BY ExpectedElement DEF Element
<1>2. Cong(r[i], m * e)
  BY ImageWhole DEF Holds
<1>3. Abs(r[i], 3328) /\ r[i] \in Int
  BY DEF Vector, Within, Abs
<1>4. Cong(fq_mul(r[i], 1441), 169 * (r[i] * 1441))
  <2>1. Abs(1441, 32767)
    BY SMT DEF Abs
  <2> QED BY <1>3, <2>1, FqMulTimes
<1>5. 169 * (r[i] * 1441) = n * r[i]
  BY SMT, <1>3
<1>6. n \in Int /\ m \in Int /\ o \in Int /\ 1 \in Int
  BY SMT
<1>7. Cong(o, 1)
  <2>1. o - 1 = 1582463 * KYBER_Q
    BY SMT, QIs
  <2>2. 1582463 \in Int
    BY SMT
  <2> HIDE DEF o
  <2> QED BY <1>6, <2>1, <2>2 DEF Cong
<1> HIDE DEF m, e, n
<1>8. Cong(n * r[i], n * (m * e))
  BY <1>2, <1>6, CongScale
<1>9. n * (m * e) = e * o /\ e * 1 = e
  BY SMT, <1>1, <1>6
<1>10. Cong(e * o, e * 1)
  <2> DEFINE l == 1
  <2>1. Cong(o, l)
    BY <1>7
  <2> HIDE DEF o, l
  <2>2. Cong(e * o, e * l)
    BY <1>1, <2>1, CongScale
  <2> QED BY <2>2 DEF l
<1>11. Cong(fq_mul(r[i], 1441), e)
  BY <1>4, <1>5, <1>8, <1>9, <1>10, CongTrans
<1> QED BY <1>11 DEF e

(* The inductive invariant: the table holds powers, then roots, of unity;  *)
(* f and g represent the operands after the layers that are done; prod is  *)
(* the image of the product, times a factor that the layers behind it and  *)
(* the Montgomery reductions have left.                                    *)
TransformInv ==
  /\ pc = "table" => Powers(Plain(tmp), k)
  /\ pc # "table" => Roots(Root) /\ InverseRoots(Root)
  /\ pc \notin {"table", "start"} => pair \in Operands
  /\ pc = "nttF" => Transformed(Root, 2 * len, f, pair[1]) /\ Transformed(Root, 256, g, pair[2])
  /\ pc = "pack" => Transformed(Root, 2, f, pair[1]) /\ Transformed(Root, 256, g, pair[2])
  /\ pc = "nttG" => Transformed(Root, 2, f, pair[1]) /\ Transformed(Root, 2 * len, g, pair[2])
  /\ pc = "mul"  => Transformed(Root, 2, f, pair[1]) /\ Transformed(Root, 2, g, pair[2])
  /\ pc = "inv"  => Holds(Root, len, 169 * (len \div 2), prod, pair)
  /\ pc = "scale" => Holds(Root, 256, 169 * 128, prod, pair)
  /\ pc = "done" => \A i \in Index : Cong(prod[i], Expected(pair)[i])

LEMMA OperandsAreVectors ==
  ASSUME NEW p \in Operands
  PROVE  p[1] \in Vectors /\ p[2] \in Vectors
BY OperandsAssumption DEF Vectors, Element

LEMMA TransformInitInv == Init => TransformInv
<1> SUFFICES ASSUME Init PROVE TransformInv
  OBVIOUS
<1>1. pc = "table" /\ k = 1
  BY DEF Init
<1>2. Powers(Plain(tmp), 1)
  BY InitPowers
<1> QED BY <1>1, <1>2 DEF TransformInv

(* A layer of ntt on v, or the reduction that follows the last one.        *)
Forward(v, u) ==
  /\ <<len, k>> \in Ahead \cup {<<1, 128>>}
  /\ \A c \in Components : Vector(v[c], InBound + 3328 * LayersDone)
  /\ Transformed(Root, 2 * len, v, u)

Further(v, u) ==
  /\ len >= 2 => Transformed(Root, len, Layers(v), u)
  /\ ~(len >= 2) => Transformed(Root, 2, [c \in Components |-> poly_reduce(v[c])], u)

LEMMA ForwardTransformed ==
  ASSUME Tables, Roots(Root), NEW v, NEW u \in Vectors, Forward(v, u)
  PROVE  Further(v, u)
<1>0. /\ <<len, k>> \in Ahead \cup {<<1, 128>>}
      /\ \A c \in Components : Vector(v[c], InBound + 3328 * LayersDone)
      /\ Transformed(Root, 2 * len, v, u)
  BY DEF Forward
<1>1. CASE len >= 2
  <2>1. <<len, k>> \in Ahead
    BY SMT, <1>0, <1>1 DEF Ahead
  <2> DEFINE bound == InBound + 3328 * LayersDone
  <2>2. LayersDone \in Nat /\ LayersDone <= 6
    BY SMT, <2>1 DEF LayersDone, Ahead
  <2>3. bound \in Nat /\ bound <= 29439
    BY SMT, <2>2, InBoundIs
  <2>5. \A c \in Components : Vector(v[c], bound)
    BY <1>0
  <2> HIDE DEF bound
  <2>6. Transformed(Root, len, Layers(v), u)
    BY <1>0, <2>1, <2>3, <2>5, ForwardLayers
  <2> QED BY <1>1, <2>6 DEF Further
<1>2. CASE ~(len >= 2)
  <2>1. len = 1 /\ 2 * len = 2
    BY SMT, <1>0, <1>2 DEF Ahead
  <2>2. LayersDone = 7
    BY SMT, <2>1 DEF LayersDone
  <2>3. InBound + 3328 * LayersDone <= 32767 /\ InBound + 3328 * LayersDone \in Int
    BY SMT, <2>2, InBoundIs
  <2>4. \A c \in Components : Vector(v[c], 32767)
    <3> TAKE c \in Components
    <3>1. Vector(v[c], InBound + 3328 * LayersDone)
      BY <1>0
    <3> QED BY SMT, <2>3, <3>1 DEF Vector, Within
  <2>5. Transformed(Root, 2, v, u)
    BY <1>0, <2>1
  <2>6. Transformed(Root, 2, [c \in Components |-> poly_reduce(v[c])], u)
    BY <2>4, <2>5, ForwardReduce
  <2> QED BY <1>2, <2>6 DEF Further
<1> QED BY <1>1, <1>2

(* Every step keeps TransformInv.                                          *)
LEMMA TransformNextInv == NttInv /\ TransformInv /\ [Next]_vars => TransformInv'
<1> SUFFICES ASSUME NttInv, TransformInv, [Next]_vars PROVE TransformInv'
  OBVIOUS
<1>0. Tables /\ Position /\ CoefficientsFit
  BY DEF NttInv
<1>1. CASE Table
  <2>1. pc = "table" /\ k \in Int /\ 1 <= k /\ k <= 128 /\ Powers(Plain(tmp), k)
    BY <1>0, <1>1 DEF Table, Position, TransformInv
  <2>2. CASE k < 128
    <3>1. tmp' = [tmp EXCEPT ![k] = fq_mul(tmp[k - 1], MontZeta)] /\ k' = k + 1 /\ pc' = "table"
      BY <1>1, <2>1, <2>2 DEF Table
    <3>2. k \in 1..127
      BY SMT, <2>1, <2>2
    <3> DEFINE t == [tmp EXCEPT ![k] = fq_mul(tmp[k - 1], MontZeta)]
    <3>3. Powers(Plain(t), k + 1)
      <4> HIDE DEF t
      <4>1. t = [tmp EXCEPT ![k] = fq_mul(tmp[k - 1], MontZeta)]
        BY DEF t
      <4> QED BY <1>0, <2>1, <3>2, <4>1, NextPower
    <3>4. Powers(Plain(tmp'), k')
      BY <3>1, <3>3
    <3> QED BY <3>1, <3>4 DEF TransformInv
  <2>3. CASE ~(k < 128)
    <3>1. zetas' = [i \in Twiddle |-> center(tmp[bitrev7(i)])] /\ pc' = "start"
      BY <1>1, <2>3 DEF Table
    <3>2. k = 128
      BY SMT, <2>1, <2>3
    <3> DEFINE t == [i \in Twiddle |-> center(tmp[bitrev7(i)])]
    <3>3. Roots(Plain(t)) /\ InverseRoots(Plain(t))
      <4> HIDE DEF t
      <4>1. t = [i \in Twiddle |-> center(tmp[bitrev7(i)])]
        BY DEF t
      <4> QED BY <1>0, <2>1, <3>2, <4>1, TableDone
    <3>4. Root' = Plain(t)
      BY <3>1 DEF Root, Plain
    <3> HIDE DEF t
    <3>5. (Roots(Root))' /\ (InverseRoots(Root))'
      BY <3>3, <3>4
    <3> QED BY <3>1, <3>5 DEF TransformInv
  <2> QED BY <2>2, <2>3
<1>2. CASE Start
  <2>1. /\ pc = "start" /\ pc' = "nttF" /\ pair' \in Operands /\ f' = pair'[1] /\ g' = pair'[2]
        /\ zetas' = zetas /\ len' = len
    BY <1>2 DEF Start
  <2>2. 2 * len' = 256
    BY SMT, <1>0, <2>1 DEF Position
  <2>3. Root' = Root
    BY <2>1 DEF Root
  <2>4. Roots(Root) /\ InverseRoots(Root)
    BY <2>1 DEF TransformInv
  <2>5. pair'[1] \in Vectors /\ pair'[2] \in Vectors
    BY <2>1, OperandsAreVectors
  <2>6. Transformed(Root, 256, pair'[1], pair'[1]) /\ Transformed(Root, 256, pair'[2], pair'[2])
    BY <2>5, WholeTransformed
  <2> QED BY <2>1, <2>2, <2>3, <2>4, <2>6 DEF TransformInv
<1>3. CASE NttF
  <2>1. /\ pc = "nttF" /\ zetas' = zetas /\ pair' = pair /\ g' = g
        /\ <<len, k>> \in Ahead \cup {<<1, 128>>}
    BY <1>0, <1>3 DEF NttF, Position
  <2>2. \A c \in Components : Vector(f[c], InBound + 3328 * LayersDone)
    BY <1>0, <2>1 DEF NttInv, CoefficientsFit, Vector, WithinVec, Element
  <2>3. /\ Roots(Root) /\ InverseRoots(Root) /\ pair \in Operands
        /\ Transformed(Root, 2 * len, f, pair[1]) /\ Transformed(Root, 256, g, pair[2])
    BY <2>1 DEF TransformInv
  <2>4. Root' = Root
    BY <2>1 DEF Root
  <2>5. pair[1] \in Vectors
    BY <2>3, OperandsAreVectors
  <2>8. Further(f, pair[1])
    <3>1. Forward(f, pair[1])
      BY <2>1, <2>2, <2>3 DEF Forward
    <3> QED BY <1>0, <2>3, <2>5, <3>1, ForwardTransformed
  <2>6. CASE len >= 2
    <3>1. f' = Layers(f) /\ len' = len \div 2 /\ pc' = "nttF"
      BY <1>3, <2>6 DEF NttF
    <3>2. Transformed(Root, len, Layers(f), pair[1])
      BY <2>6, <2>8 DEF Further
    <3>3. 2 * len' = len
      BY SMT, <2>1, <2>6, <3>1 DEF Ahead
    <3> QED BY <2>1, <2>3, <2>4, <3>1, <3>2, <3>3 DEF TransformInv
  <2>7. CASE ~(len >= 2)
    <3>1. f' = [c \in Components |-> poly_reduce(f[c])] /\ pc' = "pack"
      BY <1>3, <2>7 DEF NttF
    <3>2. Transformed(Root, 2, [c \in Components |-> poly_reduce(f[c])], pair[1])
      BY <2>7, <2>8 DEF Further
    <3> QED BY <2>1, <2>3, <2>4, <3>1, <3>2 DEF TransformInv
  <2> QED BY <2>6, <2>7
<1>9. CASE Pack
  <2>1. /\ pc = "pack" /\ pc' = "nttG" /\ zetas' = zetas /\ pair' = pair /\ g' = g /\ len' = len
        /\ f' = [c \in Components |-> Unpacked(f[c])]
    BY <1>9 DEF Pack
  <2>2. \A c \in Components : Vector(f[c], 1664)
    BY <1>0, <2>1 DEF NttInv, CoefficientsFit, Vector, WithinVec, Element
  <2>3. /\ Roots(Root) /\ InverseRoots(Root) /\ pair \in Operands
        /\ Transformed(Root, 2, f, pair[1]) /\ Transformed(Root, 256, g, pair[2])
    BY <2>1 DEF TransformInv
  <2>4. Root' = Root
    BY <2>1 DEF Root
  <2>5. Transformed(Root, 2, [c \in Components |-> Unpacked(f[c])], pair[1])
    BY <2>2, <2>3, UnpackedTransformed
  <2>6. 2 * len' = 256
    BY SMT, <1>0, <2>1 DEF Position
  <2> QED BY <2>1, <2>3, <2>4, <2>5, <2>6 DEF TransformInv
<1>4. CASE NttG
  <2>1. /\ pc = "nttG" /\ zetas' = zetas /\ pair' = pair /\ f' = f
        /\ <<len, k>> \in Ahead \cup {<<1, 128>>}
    BY <1>0, <1>4 DEF NttG, Position
  <2>2. \A c \in Components : Vector(g[c], InBound + 3328 * LayersDone)
    BY <1>0, <2>1 DEF NttInv, CoefficientsFit, Vector, WithinVec, Element
  <2>3. /\ Roots(Root) /\ InverseRoots(Root) /\ pair \in Operands
        /\ Transformed(Root, 2, f, pair[1]) /\ Transformed(Root, 2 * len, g, pair[2])
    BY <2>1 DEF TransformInv
  <2>4. Root' = Root
    BY <2>1 DEF Root
  <2>5. pair[2] \in Vectors
    BY <2>3, OperandsAreVectors
  <2>8. Further(g, pair[2])
    <3>1. Forward(g, pair[2])
      BY <2>1, <2>2, <2>3 DEF Forward
    <3> QED BY <1>0, <2>3, <2>5, <3>1, ForwardTransformed
  <2>6. CASE len >= 2
    <3>1. g' = Layers(g) /\ len' = len \div 2 /\ pc' = "nttG"
      BY <1>4, <2>6 DEF NttG
    <3>2. Transformed(Root, len, Layers(g), pair[2])
      BY <2>6, <2>8 DEF Further
    <3>3. 2 * len' = len
      BY SMT, <2>1, <2>6, <3>1 DEF Ahead
    <3> QED BY <2>1, <2>3, <2>4, <3>1, <3>2, <3>3 DEF TransformInv
  <2>7. CASE ~(len >= 2)
    <3>1. g' = [c \in Components |-> poly_reduce(g[c])] /\ pc' = "mul"
      BY <1>4, <2>7 DEF NttG
    <3>2. Transformed(Root, 2, [c \in Components |-> poly_reduce(g[c])], pair[2])
      BY <2>7, <2>8 DEF Further
    <3> QED BY <2>1, <2>3, <2>4, <3>1, <3>2 DEF TransformInv
  <2> QED BY <2>6, <2>7
<1>5. CASE Multiply
  <2>1. /\ pc = "mul" /\ zetas' = zetas /\ pair' = pair /\ pc' = "inv" /\ len' = 2
        /\ prod' = polyvec_basemul_acc_montgomery(f, g)
    BY <1>5 DEF Multiply
  <2>2. \A c \in Components : Vector(f[c], 3328) /\ Vector(g[c], 1664)
    BY <1>0, <2>1 DEF NttInv, CoefficientsFit, Vector, WithinVec
  <2>3. /\ Roots(Root) /\ InverseRoots(Root) /\ pair \in Operands
        /\ Transformed(Root, 2, f, pair[1]) /\ Transformed(Root, 2, g, pair[2])
    BY <2>1 DEF TransformInv
  <2>4. Root' = Root
    BY <2>1 DEF Root
  <2>5. pair[1] \in Vectors /\ pair[2] \in Vectors
    BY <2>3, OperandsAreVectors
  <2>6. Holds(Root, 2, 169, polyvec_basemul_acc_montgomery(f, g), pair)
    BY <1>0, <2>2, <2>3, <2>5, MultiplyHolds
  <2>7. 169 * (len' \div 2) = 169
    BY SMT, <2>1
  <2> QED BY <2>1, <2>3, <2>4, <2>6, <2>7 DEF TransformInv
<1>6. CASE InvNtt
  <2>1. /\ pc = "inv" /\ zetas' = zetas /\ pair' = pair /\ prod' = InvLayer(prod)
        /\ len' = 2 * len /\ pc' = (IF len = 128 THEN "scale" ELSE "inv")
    BY <1>6 DEF InvNtt
  <2>2. <<len, k>> \in Behind /\ Vector(prod, 3328)
    BY <1>0, <2>1 DEF NttInv, Position, CoefficientsFit, Vector
  <2>3. /\ Roots(Root) /\ InverseRoots(Root) /\ pair \in Operands
        /\ Holds(Root, len, 169 * (len \div 2), prod, pair)
    BY <2>1 DEF TransformInv
  <2>4. Root' = Root
    BY <2>1 DEF Root
  <2>5. pair[1] \in Vectors /\ pair[2] \in Vectors
    BY <2>3, OperandsAreVectors
  <2> DEFINE m == 169 * (len \div 2)
  <2>6. m \in Int /\ 2 * m = 169 * ((2 * len) \div 2) /\ (len = 128 => 2 * m = 169 * 128 /\ 2 * len = 256)
    BY SMT, <2>2 DEF Behind
  <2>7. Holds(Root, len, m, prod, pair)
    BY <2>3
  <2> HIDE DEF m
  <2>8. Holds(Root, 2 * len, 2 * m, InvLayer(prod), pair)
    BY <1>0, <2>2, <2>3, <2>5, <2>6, <2>7, InverseHolds
  <2>9. CASE len = 128
    <3>1. Holds(Root, 256, 169 * 128, InvLayer(prod), pair) /\ pc' = "scale"
      BY <2>1, <2>6, <2>8, <2>9
    <3> QED BY <2>1, <2>3, <2>4, <3>1 DEF TransformInv
  <2>10. CASE len # 128
    <3>1. Holds(Root, 2 * len, 169 * ((2 * len) \div 2), InvLayer(prod), pair) /\ pc' = "inv"
      BY <2>1, <2>6, <2>8, <2>10
    <3> QED BY <2>1, <2>3, <2>4, <3>1 DEF TransformInv
  <2> QED BY <2>9, <2>10
<1>7. CASE Scale
  <2>1. /\ pc = "scale" /\ zetas' = zetas /\ pair' = pair /\ pc' = "done"
        /\ prod' = [i \in Index |-> fq_mul(prod[i], 1441)]
    BY <1>7 DEF Scale
  <2>2. Vector(prod, 3328)
    BY <1>0, <2>1 DEF NttInv, CoefficientsFit, Vector
  <2>3. /\ Roots(Root) /\ InverseRoots(Root) /\ pair \in Operands
        /\ Holds(Root, 256, 169 * 128, prod, pair)
    BY <2>1 DEF TransformInv
  <2>4. Root' = Root
    BY <2>1 DEF Root
  <2>5. pair[1] \in Vectors /\ pair[2] \in Vectors
    BY <2>3, OperandsAreVectors
  <2>6. \A i \in Index : Cong(fq_mul(prod[i], 1441), Expected(pair)[i])
    BY <2>2, <2>3, <2>5, ScaleHolds
  <2>7. \A i \in Index : Cong(prod'[i], Expected(pair)[i])
    BY <2>1, <2>6
  <2> QED BY <2>1, <2>3, <2>4, <2>7 DEF TransformInv
<1>8. CASE UNCHANGED vars
  <2>1. Root' = Root
    BY <1>8 DEF Root, vars
  <2> QED BY <1>8, <2>1 DEF vars, TransformInv
<1> QED BY <1>1, <1>2, <1>3, <1>4, <1>5, <1>6, <1>7, <1>8, <1>9 DEF Next

LEMMA TransformIsProduct == NttInv /\ TransformInv => ProductInRing
<1> SUFFICES ASSUME NttInv, TransformInv, pc = "done", NEW i \in Index
             PROVE  (prod[i] - (RingProduct(pair[1][1], pair[2][1], i)
                                + RingProduct(pair[1][2], pair[2][2], i)
                                + RingProduct(pair[1][3], pair[2][3], i))) % KYBER_Q = 0
  BY DEF ProductInRing
<1>1. Cong(prod[i], Expected(pair)[i])
  BY DEF TransformInv
<1>2. Expected(pair)[i] = RingProduct(pair[1][1], pair[2][1], i)
                          + RingProduct(pair[1][2], pair[2][2], i)
                          + RingProduct(pair[1][3], pair[2][3], i)
  BY DEF Expected, Total, Products, Ring, Components
<1>3. (prod[i] - Expected(pair)[i]) % KYBER_Q = 0
  BY <1>1, CongIsRem
<1> QED BY <1>2, <1>3

(* ProductInRing for every pair of operands in range: polyvec_ntt of both, *)
(* the sum of base multiplications and poly_invntt_tomont compute, up to   *)
(* multiples of q, the inner product in Z[X]/(X^256 + 1).                  *)
THEOREM ProductAlwaysInRing == Spec => []ProductInRing
<1>1. Init => NttInv /\ TransformInv
  BY NttInitInv, TransformInitInv
<1>2. (NttInv /\ TransformInv) /\ [Next]_vars => (NttInv /\ TransformInv)'
  BY NttNextInv, TransformNextInv
<1>3. NttInv /\ TransformInv => ProductInRing
  BY TransformIsProduct
<1> QED BY <1>1, <1>2, <1>3, PTL DEF Spec
=============================================================================
