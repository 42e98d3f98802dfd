----------------------------- MODULE KemProofs -----------------------------
(***************************************************************************)
(* What crosses the wire and what is made of it.  The four codecs for      *)
(* every coefficient and every message byte: packed coefficients arrive    *)
(* exactly, compressed ones within half a step, a message under any noise  *)
(* below a quarter of the modulus.  An encapsulation and its               *)
(* decapsulations, for every number of parties and threshold, every key,   *)
(* noise, randomness and change of a ciphertext.                           *)
(***************************************************************************)
EXTENDS Kem, Serialize, ArithmeticProofs

-----------------------------------------------------------------------------
(* Bytes.  The digits of neighbouring coefficients do not mix.             *)

LEMMA TwelveBits ==
  ASSUME NEW x \in Int, x >= 0, x <= 4095, NEW y \in Int, y >= 0, y <= 4095,
         NEW b0 \in Int, NEW b1 \in Int, NEW b2 \in Int,
         b0 = x % 256, b1 = (x \div 256) + ((y * 16) % 256), b2 = y \div 16
  PROVE  (b0 + 256 * b1) % 4096 = x /\ ((b1 \div 16) + 16 * b2) % 4096 = y
BY SMT

LEMMA TenBits1 ==
  ASSUME NEW t1 \in Int, t1 >= 0, t1 <= 1023, NEW t2 \in Int, t2 >= 0, t2 <= 1023,
         NEW r1 \in Int, NEW r2 \in Int,
         r1 = t1 % 256, r2 = (t1 \div 256) + ((t2 * 4) % 256)
  PROVE  (r1 + 256 * r2) % 1024 = t1
BY SMT

LEMMA TenBits2 ==
  ASSUME NEW t1 \in Int, t1 >= 0, t1 <= 1023, NEW t2 \in Int, t2 >= 0, t2 <= 1023,
         NEW t3 \in Int, t3 >= 0, t3 <= 1023,
         NEW r2 \in Int, NEW r3 \in Int,
         r2 = (t1 \div 256) + ((t2 * 4) % 256), r3 = (t2 \div 64) + ((t3 * 16) % 256)
  PROVE  ((r2 \div 4) + 64 * r3) % 1024 = t2
BY SMT

LEMMA TenBits3 ==
  ASSUME NEW t2 \in Int, t2 >= 0, t2 <= 1023, NEW t3 \in Int, t3 >= 0, t3 <= 1023,
         NEW t4 \in Int, t4 >= 0, t4 <= 1023,
         NEW r3 \in Int, NEW r4 \in Int,
         r3 = (t2 \div 64) + ((t3 * 16) % 256), r4 = (t3 \div 16) + ((t4 * 64) % 256)
  PROVE  ((r3 \div 16) + 16 * r4) % 1024 = t3
BY SMT

LEMMA TenBits4 ==
  ASSUME NEW t3 \in Int, t3 >= 0, t3 <= 1023, NEW t4 \in Int, t4 >= 0, t4 <= 1023,
         NEW r4 \in Int, NEW r5 \in Int,
         r4 = (t3 \div 16) + ((t4 * 64) % 256), r5 = t4 \div 4
  PROVE  ((r4 \div 64) + 4 * r5) % 1024 = t4
BY SMT

LEMMA FourBits ==
  ASSUME NEW t1 \in 0..15, NEW t2 \in 0..15, NEW r \in Int, r = t1 + 16 * t2
  PROVE  r % 16 = t1 /\ r \div 16 = t2
BY SMT

LEMMA CoefficientBounds ==
  ASSUME NEW c \in Coefficient
  PROVE  c \in Int /\ c >= -1664 /\ c <= 1664 /\ c >= -3328 /\ c <= 3328
<1>1. KYBER_Q \div 2 = 1664
  BY SMT DEF KYBER_Q
<1>2. c \in Int /\ c >= -1664 /\ c <= 1664
  BY <1>1, SMT DEF Coefficient
<1> QED BY <1>2, SMT

LEMMA CanonicalIs ==
  ASSUME NEW c \in Coefficient
  PROVE  /\ Canonical(c) \in Int /\ Canonical(c) >= 0 /\ Canonical(c) <= 3328
         /\ Canonical(c) - c = 0 \/ Canonical(c) - c = 3329
BY CoefficientBounds, SMT DEF Canonical, KYBER_Q

LEMMA BytesArrive ==
  ASSUME NEW c \in [1..2 -> Coefficient]
  PROVE  poly_frombytes(poly_tobytes(c)) = <<Canonical(c[1]), Canonical(c[2])>>
<1> DEFINE x  == Canonical(c[1])
           y  == Canonical(c[2])
           b0 == x % 256
           b1 == (x \div 256) + ((y * 16) % 256)
           b2 == y \div 16
<1>1. poly_tobytes(c) = <<b0, b1, b2>>
  BY DEF poly_tobytes
<1>2. x \in Int /\ x >= 0 /\ x <= 3328 /\ y \in Int /\ y >= 0 /\ y <= 3328
  <2>1. c[1] \in Coefficient /\ c[2] \in Coefficient
    OBVIOUS
  <2> QED BY <2>1, CanonicalIs
<1> HIDE DEF x, y
<1>3. x <= 4095 /\ y <= 4095
  BY <1>2, SMT
<1>4. b0 \in Int /\ b1 \in Int /\ b2 \in Int
  BY <1>2, SMT
<1>5. b0 = x % 256 /\ b1 = (x \div 256) + ((y * 16) % 256) /\ b2 = y \div 16
  OBVIOUS
<1> HIDE DEF b0, b1, b2
<1>6. (b0 + 256 * b1) % 4096 = x /\ ((b1 \div 16) + 16 * b2) % 4096 = y
  BY <1>2, <1>3, <1>4, <1>5, TwelveBits
<1>7. poly_frombytes(<<b0, b1, b2>>)
        = <<(b0 + 256 * b1) % 4096, ((b1 \div 16) + 16 * b2) % 4096>>
  BY DEF poly_frombytes
<1> QED BY <1>1, <1>6, <1>7 DEF x, y

LEMMA DuArrives ==
  ASSUME NEW c \in [1..4 -> Coefficient]
  PROVE  polyvec_decompress(polyvec_compress(c))
           = [i \in 1..4 |-> Decompress10(Compress10(c[i]))]
<1> DEFINE t1 == Compress10(c[1])
           t2 == Compress10(c[2])
           t3 == Compress10(c[3])
           t4 == Compress10(c[4])
           r1 == t1 % 256
           r2 == (t1 \div 256) + ((t2 * 4) % 256)
           r3 == (t2 \div 64) + ((t3 * 16) % 256)
           r4 == (t3 \div 16) + ((t4 * 64) % 256)
           r5 == t4 \div 4
<1>1. polyvec_compress(c) = <<r1, r2, r3, r4, r5>>
  BY DEF polyvec_compress
<1>2. t1 \in 0..1023 /\ t2 \in 0..1023 /\ t3 \in 0..1023 /\ t4 \in 0..1023
  <2>1. ASSUME NEW x \in Coefficient PROVE Compress10(x) \in 0..1023
    <3>1. x \in Int /\ x >= -3328 /\ x <= 3328
      BY CoefficientBounds
    <3> QED BY <3>1, Compress10Error
  <2>2. c[1] \in Coefficient /\ c[2] \in Coefficient /\ c[3] \in Coefficient
          /\ c[4] \in Coefficient
    OBVIOUS
  <2> QED BY <2>1, <2>2
<1> HIDE DEF t1, t2, t3, t4
<1>3. /\ r1 = t1 % 256
      /\ r2 = (t1 \div 256) + ((t2 * 4) % 256)
      /\ r3 = (t2 \div 64) + ((t3 * 16) % 256)
      /\ r4 = (t3 \div 16) + ((t4 * 64) % 256)
      /\ r5 = t4 \div 4
  OBVIOUS
<1>4. /\ t1 \in Int /\ t2 \in Int /\ t3 \in Int /\ t4 \in Int
      /\ t1 >= 0 /\ t1 <= 1023 /\ t2 >= 0 /\ t2 <= 1023
      /\ t3 >= 0 /\ t3 <= 1023 /\ t4 >= 0 /\ t4 <= 1023
  BY <1>2
<1>5. r1 \in Int /\ r2 \in Int /\ r3 \in Int /\ r4 \in Int /\ r5 \in Int
  <2>1. r1 \in Int /\ r2 \in Int
    BY <1>4, SMT
  <2>2. r3 \in Int /\ r4 \in Int /\ r5 \in Int
    BY <1>4, SMT
  <2> QED BY <2>1, <2>2
<1> HIDE DEF r1, r2, r3, r4, r5
<1> DEFINE u == <<r1 + 256 * r2, (r2 \div 4) + 64 * r3,
                  (r3 \div 16) + 16 * r4, (r4 \div 64) + 4 * r5>>
<1>6. polyvec_decompress(<<r1, r2, r3, r4, r5>>)
        = [i \in 1..4 |-> Decompress10(u[i] % 1024)]
  BY DEF polyvec_decompress
<1>7. (r1 + 256 * r2) % 1024 = t1
  BY ONLY <1>3, <1>4, <1>5, TenBits1
<1>8. ((r2 \div 4) + 64 * r3) % 1024 = t2
  BY ONLY <1>3, <1>4, <1>5, TenBits2
<1>9. ((r3 \div 16) + 16 * r4) % 1024 = t3
  BY ONLY <1>3, <1>4, <1>5, TenBits3
<1>10. ((r4 \div 64) + 4 * r5) % 1024 = t4
  BY ONLY <1>3, <1>4, <1>5, TenBits4
<1>11. u[1] % 1024 = t1 /\ u[2] % 1024 = t2 /\ u[3] % 1024 = t3 /\ u[4] % 1024 = t4
  BY <1>7, <1>8, <1>9, <1>10
<1> HIDE DEF u
<1>12. ASSUME NEW i \in 1..4
       PROVE  Decompress10(u[i] % 1024) = Decompress10(Compress10(c[i]))
  <2>1. i = 1 \/ i = 2 \/ i = 3 \/ i = 4
    OBVIOUS
  <2> QED BY <1>11, <2>1 DEF t1, t2, t3, t4
<1> QED BY <1>1, <1>6, <1>12

LEMMA DvArrives ==
  ASSUME NEW c \in [1..2 -> Coefficient]
  PROVE  poly_decompress(poly_compress(c))
           = <<Decompress4(Compress4(c[1])), Decompress4(Compress4(c[2]))>>
<1> DEFINE t1 == Compress4(c[1])
           t2 == Compress4(c[2])
           r  == t1 + 16 * t2
<1>1. t1 \in 0..15 /\ t2 \in 0..15
  <2>1. c[1] \in Coefficient /\ c[2] \in Coefficient
    OBVIOUS
  <2> QED BY <2>1, CoefficientBounds, Compress4Error
<1>2. poly_compress(c) = <<r>>
  BY DEF poly_compress
<1>3. r = t1 + 16 * t2
  OBVIOUS
<1> HIDE DEF t1, t2, r
<1>4. r \in Int
  BY <1>1, <1>3, SMT
<1>5. r % 16 = t1 /\ r \div 16 = t2
  BY <1>1, <1>3, <1>4, FourBits
<1>6. poly_decompress(<<r>>) = <<Decompress4(r % 16), Decompress4(r \div 16)>>
  BY DEF poly_decompress
<1> QED BY <1>2, <1>5, <1>6 DEF t1, t2

-----------------------------------------------------------------------------
(* Messages.                                                               *)

LEMMA PowersOfTwo ==
  /\ 2^(1 - 1) = 1 /\ 2^(2 - 1) = 2 /\ 2^(3 - 1) = 4 /\ 2^(4 - 1) = 8
  /\ 2^(5 - 1) = 16 /\ 2^(6 - 1) = 32 /\ 2^(7 - 1) = 64 /\ 2^(8 - 1) = 128
BY SMT

LEMMA PowerOfTwo ==
  ASSUME NEW i \in 1..8
  PROVE  2^(i - 1) \in {1, 2, 4, 8, 16, 32, 64, 128}
<1>1. CASE i = 1
  BY <1>1, PowersOfTwo
<1>2. CASE i = 2
  BY <1>2, PowersOfTwo
<1>3. CASE i = 3
  BY <1>3, PowersOfTwo
<1>4. CASE i = 4
  BY <1>4, PowersOfTwo
<1>5. CASE i = 5
  BY <1>5, PowersOfTwo
<1>6. CASE i = 6
  BY <1>6, PowersOfTwo
<1>7. CASE i = 7
  BY <1>7, PowersOfTwo
<1>8. CASE i = 8
  BY <1>8, PowersOfTwo
<1>9. i = 1 \/ i = 2 \/ i = 3 \/ i = 4 \/ i = 5 \/ i = 6 \/ i = 7 \/ i = 8
  OBVIOUS
<1> QED BY <1>1, <1>2, <1>3, <1>4, <1>5, <1>6, <1>7, <1>8, <1>9

LEMMA BitsOfByte ==
  ASSUME NEW byte \in 0..255, NEW i \in 1..8
  PROVE  Bits(byte)[i] = 0 \/ Bits(byte)[i] = 1
<1>1. Bits(byte)[i] = (byte \div 2^(i - 1)) % 2
  BY DEF Bits
<1>3. ASSUME NEW p \in {1, 2, 4, 8, 16, 32, 64, 128}
      PROVE  (byte \div p) % 2 = 0 \/ (byte \div p) % 2 = 1
  BY SMT
<1>4. 2^(i - 1) \in {1, 2, 4, 8, 16, 32, 64, 128}
  BY PowerOfTwo
<1> QED BY <1>1, <1>3, <1>4

(* An encoded bit comes back when the noise is below a quarter of q.       *)
LEMMA BitArrives ==
  ASSUME NEW b, b = 0 \/ b = 1, NEW e \in Int, e >= -832, e <= 831
  PROVE  ToBit(Centred(FromBit(b) + e)) = b
<1> DEFINE x == FromBit(b) + e
           y == Centred(x)
<1>1. CASE b = 0
  <2>1. x = e
    BY <1>1, SMT DEF FromBit, KYBER_Q
  <2>2. y = e
    <3>1. KYBER_Q = 3329 /\ KYBER_Q \div 2 = 1664
      BY SMT DEF KYBER_Q
    <3>2. CASE e >= 0
      <4>1. e % 3329 = e
        BY <3>2, SMT
      <4> QED BY <2>1, <3>1, <3>2, <4>1, SMT DEF Centred
    <3>3. CASE e < 0
      <4>1. e % 3329 = e + 3329
        BY <3>3, SMT
      <4> QED BY <2>1, <3>1, <3>3, <4>1, SMT DEF Centred
    <3> QED BY <3>2, <3>3
  <2> HIDE DEF y
  <2>3. ToBit(e) = 0
    <3>1. e >= -1664 /\ e <= 1664
      BY SMT
    <3> QED BY <3>1, ToBitDecides
  <2> QED BY <1>1, <2>2, <2>3 DEF y
<1>2. CASE b = 1
  <2>1. x = 1665 + e
    BY <1>2, SMT DEF FromBit, KYBER_Q
  <2> HIDE DEF x
  <2>2. KYBER_Q = 3329 /\ KYBER_Q \div 2 = 1664 /\ x % 3329 = x
    BY <2>1, SMT DEF KYBER_Q
  <2>3. /\ x > 1664 => y = x - 3329
        /\ x <= 1664 => y = x
    BY <2>1, <2>2, SMT DEF Centred
  <2> HIDE DEF y
  <2>4. y \in Int /\ y >= -1664 /\ y <= 1664
    BY <2>1, <2>3, SMT
  <2>5. y <= -833 \/ y >= 833
    BY <2>1, <2>3, SMT
  <2>6. ToBit(y) = 1
    BY <2>4, <2>5, ToBitDecides
  <2> QED BY <1>2, <2>6 DEF x, y
<1> QED BY <1>1, <1>2

LEMMA MessageArrives ==
  ASSUME NEW byte \in 0..255, NEW e \in [1..8 -> Coefficient],
         \A i \in 1..8 : e[i] \in -832..831
  PROVE  poly_tomsg([i \in 1..8 |-> Centred(poly_frommsg(<<byte>>)[i] + e[i])]) = <<byte>>
<1> DEFINE w == poly_frommsg(<<byte>>)
           c == [i \in 1..8 |-> Centred(w[i] + e[i])]
           term == [i \in 1..8 |-> Bits(byte)[i] * 2^(i - 1)]
<1>1. ASSUME NEW i \in 1..8 PROVE ToBit(c[i]) = Bits(byte)[i]
  <2> DEFINE b == Bits(byte)[i]
             x == e[i]
  <2>1. b = 0 \/ b = 1
    BY BitsOfByte
  <2>2. x \in Int /\ x >= -832 /\ x <= 831
    <3>1. x \in -832..831
      OBVIOUS
    <3> HIDE DEF x
    <3> QED BY <3>1, SMT
  <2>3. c[i] = Centred(FromBit(b) + x)
    BY DEF poly_frommsg
  <2> HIDE DEF b, x, c
  <2>4. ToBit(Centred(FromBit(b) + x)) = b
    BY <2>1, <2>2, BitArrives
  <2> QED BY <2>3, <2>4 DEF b
<1>2. ASSUME NEW i \in 1..8 PROVE term[i] \in Int
  <2>2. 2^(i - 1) \in {1, 2, 4, 8, 16, 32, 64, 128}
    BY PowerOfTwo
  <2>3. Bits(byte)[i] = 0 \/ Bits(byte)[i] = 1
    BY BitsOfByte
  <2>4. \A x \in {0, 1}, p \in {1, 2, 4, 8, 16, 32, 64, 128} : x * p \in Int
    BY SMT
  <2> QED BY <2>2, <2>3, <2>4
<1>3. term \in [1..8 -> Int]
  BY <1>2
<1>4. PICK f \in [0..8 -> Int] : f = [i \in 0..8 |-> IF i = 0 THEN 0 ELSE f[i - 1] + term[i]]
  <2>1. 8 \in Nat
    OBVIOUS
  <2> HIDE DEF term
  <2> QED BY <1>3, <2>1, SumExists
<1> HIDE DEF c
<1> DEFINE sum[i \in 0..8] == IF i = 0 THEN 0 ELSE sum[i - 1] + ToBit(c[i]) * 2^(i - 1)
<1>5. f = [i \in 0..8 |-> IF i = 0 THEN 0 ELSE f[i - 1] + ToBit(c[i]) * 2^(i - 1)]
  <2>1. ASSUME NEW i \in 0..8, i # 0 PROVE term[i] = ToBit(c[i]) * 2^(i - 1)
    <3>1. i \in 1..8
      BY <2>1
    <3>2. ToBit(c[i]) = Bits(byte)[i]
      BY <1>1, <3>1
    <3> QED BY <3>1, <3>2
  <2>2. ASSUME NEW i \in 0..8
        PROVE  f[i] = IF i = 0 THEN 0 ELSE f[i - 1] + ToBit(c[i]) * 2^(i - 1)
    <3>1. f[i] = IF i = 0 THEN 0 ELSE f[i - 1] + term[i]
      <4> HIDE DEF term
      <4> QED BY <1>4, Zenon
    <3> HIDE DEF term
    <3> QED BY <2>1, <3>1, Zenon
  <2> HIDE DEF term
  <2> QED BY <2>2, Zenon
<1>6. sum = [i \in 0..8 |-> IF i = 0 THEN 0 ELSE sum[i - 1] + ToBit(c[i]) * 2^(i - 1)]
  <2> HIDE DEF term
  <2>1. \E g : g = [i \in 0..8 |-> IF i = 0 THEN 0 ELSE g[i - 1] + ToBit(c[i]) * 2^(i - 1)]
    BY <1>5, Zenon
  <2> QED BY <2>1, Zenon
<1>7. poly_tomsg(c) = <<sum[8]>>
  BY DEF poly_tomsg
<1> HIDE DEF sum
<1>8. sum = [i \in 0..8 |-> IF i = 0 THEN 0 ELSE sum[i - 1] + term[i]]
  <2>1. ASSUME NEW i \in 0..8
        PROVE  (IF i = 0 THEN 0 ELSE sum[i - 1] + ToBit(c[i]) * 2^(i - 1))
                 = IF i = 0 THEN 0 ELSE sum[i - 1] + term[i]
    <3>1. i # 0 => i \in 1..8
      OBVIOUS
    <3>2. i # 0 => term[i] = ToBit(c[i]) * 2^(i - 1)
      BY <1>1, <3>1
    <3> HIDE DEF term
    <3> QED BY <3>2, Zenon
  <2> HIDE DEF term
  <2> QED BY <1>6, <2>1, Zenon
<1>9. /\ term[1] = ((byte \div 1) % 2) * 1   /\ term[2] = ((byte \div 2) % 2) * 2
       /\ term[3] = ((byte \div 4) % 2) * 4   /\ term[4] = ((byte \div 8) % 2) * 8
       /\ term[5] = ((byte \div 16) % 2) * 16 /\ term[6] = ((byte \div 32) % 2) * 32
       /\ term[7] = ((byte \div 64) % 2) * 64 /\ term[8] = ((byte \div 128) % 2) * 128
  BY PowersOfTwo DEF Bits
<1> HIDE DEF term
<1>10. sum[8] = term[1] + term[2] + term[3] + term[4] + term[5] + term[6] + term[7] + term[8]
  BY ONLY <1>3, <1>8, SumOfEight
<1>11. sum[8] = byte
  <2> DEFINE p1 == ((byte \div 1) % 2) * 1   p2 == ((byte \div 2) % 2) * 2
             p3 == ((byte \div 4) % 2) * 4   p4 == ((byte \div 8) % 2) * 8
             p5 == ((byte \div 16) % 2) * 16 p6 == ((byte \div 32) % 2) * 32
             p7 == ((byte \div 64) % 2) * 64 p8 == ((byte \div 128) % 2) * 128
  <2>1. p1 + p2 + p3 + p4 + p5 + p6 + p7 + p8 = byte
    <3>1. byte \in Int /\ byte >= 0 /\ byte <= 255
      OBVIOUS
    <3> QED BY ONLY <3>1, SMT
  <2>2. term[1] = p1 /\ term[2] = p2 /\ term[3] = p3 /\ term[4] = p4 /\ term[5] = p5
          /\ term[6] = p6 /\ term[7] = p7 /\ term[8] = p8
    BY <1>9
  <2> HIDE DEF p1, p2, p3, p4, p5, p6, p7, p8
  <2> QED BY ONLY <1>10, <2>1, <2>2
<1> QED BY <1>7, <1>11 DEF c

LEMMA DistanceWithin ==
  ASSUME NEW z \in Int, NEW c \in Int, NEW b \in Int, b >= 0, b <= 1664, Within(z, c, b)
  PROVE  Distance(z, c) <= b
<1>1. PICK d \in Int, k \in Int : -b <= d /\ d <= b /\ z = c + d + k * KYBER_Q
  BY DEF Within
<1> DEFINE r == (z - c) % KYBER_Q
<1>2. KYBER_Q = 3329 /\ KYBER_Q \div 2 = 1664
  BY SMT DEF KYBER_Q
<1>3. z - c = d + k * 3329
  BY <1>1, <1>2, SMT
<1>4. r \in Int /\ (r - d = 0 \/ r - d = 3329)
  <2>1. r = (z - c) % 3329
    BY <1>2
  <2> HIDE DEF r
  <2>2. r \in Int /\ r >= 0 /\ r <= 3328
    BY <2>1, SMT
  <2>3. (z - c) = r + 3329 * ((z - c) \div 3329) /\ (z - c) \div 3329 \in Int
    BY <2>1, SMT
  <2> DEFINE j == (z - c) \div 3329
  <2>4. j \in Int /\ r - d = 3329 * (k - j)
    BY <1>3, <2>2, <2>3, SMT
  <2> HIDE DEF j
  <2>5. k - j = 0 \/ k - j = 1
    BY <1>1, <2>2, <2>4, SMT
  <2> QED BY <2>2, <2>4, <2>5, SMT
<1>5. Distance(z, c) = IF r > 1664 THEN 3329 - r ELSE r
  BY <1>2 DEF Distance
<1> HIDE DEF r
<1> QED BY <1>1, <1>4, <1>5, SMT

-----------------------------------------------------------------------------
(* The wire holds what the codec made of the coefficients, and the         *)
(* receiver what the codec made of the wire.                               *)

Packed(k, c) ==
  CASE k = "bytes" -> poly_tobytes(c)
    [] k = "du"    -> polyvec_compress(c)
    [] k = "dv"    -> poly_compress(c)

Unpacked(k, w) ==
  CASE k = "bytes" -> poly_frombytes(w)
    [] k = "du"    -> polyvec_decompress(w)
    [] k = "dv"    -> poly_decompress(w)

WireInv ==
  /\ kind \in {"bytes", "du", "dv", "msg"}
  /\ stage \in {"send", "sent", "received"}
  /\ kind # "msg" /\ stage # "send" => coeffs \in Groups[kind] /\ wire = Packed(kind, coeffs)
  /\ kind # "msg" /\ stage = "received" => out = Unpacked(kind, Packed(kind, coeffs))
  /\ kind = "msg" /\ stage # "send" =>
       \E byte \in Messages : coeffs = <<byte>> /\ wire = poly_frommsg(<<byte>>)
  /\ kind = "msg" /\ stage = "received" =>
       /\ noise \in Noises
       /\ out = poly_tomsg([i \in 1..8 |-> Centred(wire[i] + noise[i])])

LEMMA WireInitially == WireInit => WireInv
BY DEF WireInit, WireInv

LEMMA WireStep == WireInv /\ [WireNext]_wireVars => WireInv'
<1> SUFFICES ASSUME WireInv, [WireNext]_wireVars PROVE WireInv'
  OBVIOUS
<1>1. CASE SendGroup
  <2>1. /\ stage = "send" /\ stage' = "sent" /\ kind # "msg" /\ kind' = kind
        /\ coeffs' \in Groups[kind] /\ wire' = Packed(kind, coeffs')
    BY <1>1 DEF SendGroup, Packed
  <2> QED BY <2>1, Zenon DEF WireInv
<1>2. CASE ReceiveGroup
  <2>1. /\ stage = "sent" /\ stage' = "received" /\ kind # "msg" /\ kind' = kind
        /\ coeffs' = coeffs /\ wire' = wire /\ out' = Unpacked(kind, wire)
    BY <1>2 DEF ReceiveGroup, Unpacked
  <2>2. coeffs \in Groups[kind] /\ wire = Packed(kind, coeffs)
    BY <2>1, Zenon DEF WireInv
  <2>3. kind \in {"bytes", "du", "dv", "msg"}
    BY DEF WireInv
  <2> QED BY <2>1, <2>2, <2>3, Zenon DEF WireInv
<1>3. CASE SendMessage
  <2>1. /\ stage = "send" /\ stage' = "sent" /\ kind = "msg" /\ kind' = kind
        /\ \E byte \in Messages : wire' = poly_frommsg(<<byte>>) /\ coeffs' = <<byte>>
    BY <1>3 DEF SendMessage
  <2> QED BY <2>1, Zenon DEF WireInv
<1>4. CASE ReceiveMessage
  <2>1. /\ stage = "sent" /\ stage' = "received" /\ kind = "msg" /\ kind' = kind
        /\ coeffs' = coeffs /\ wire' = wire /\ noise' \in Noises
        /\ out' = poly_tomsg([i \in 1..8 |-> Centred(wire[i] + noise'[i])])
    BY <1>4 DEF ReceiveMessage
  <2>2. out' = poly_tomsg([i \in 1..8 |-> Centred(wire[i] + noise[i])])'
    BY <2>1
  <2>3. \E byte \in Messages : coeffs = <<byte>> /\ wire = poly_frommsg(<<byte>>)
    BY <2>1, Zenon DEF WireInv
  <2> QED BY <2>1, <2>2, <2>3, Zenon DEF WireInv
<1>5. CASE UNCHANGED wireVars
  <2>1. /\ kind' = kind /\ stage' = stage /\ coeffs' = coeffs /\ noise' = noise
        /\ wire' = wire /\ out' = out
    BY <1>5 DEF wireVars
  <2> QED BY <2>1 DEF WireInv
<1> QED BY <1>1, <1>2, <1>3, <1>4, <1>5 DEF WireNext

LEMMA WireInvariant == WireSpec => []WireInv
BY WireInitially, WireStep, PTL DEF WireSpec

-----------------------------------------------------------------------------
LEMMA ExactWhenReceived == WireInv => ExactOnWire
<1> SUFFICES ASSUME WireInv, stage = "received", kind = "bytes", NEW i \in 1..2
             PROVE  out[i] \in 0..(KYBER_Q - 1) /\ (out[i] - coeffs[i]) % KYBER_Q = 0
  BY DEF ExactOnWire
<1>1. coeffs \in Groups["bytes"] /\ out = Unpacked("bytes", Packed("bytes", coeffs))
  BY Zenon DEF WireInv
<1>2. coeffs \in [1..2 -> Coefficient]
  BY <1>1, SerializeAssumption
<1>3. out = poly_frombytes(poly_tobytes(coeffs))
  BY <1>1 DEF Packed, Unpacked
<1>4. out = <<Canonical(coeffs[1]), Canonical(coeffs[2])>>
  BY <1>2, <1>3, BytesArrive
<1>5. coeffs[i] \in Coefficient /\ out[i] = Canonical(coeffs[i])
  BY <1>2, <1>4
<1> DEFINE c == coeffs[i]
           z == Canonical(c)
<1>6. z \in Int /\ z >= 0 /\ z <= 3328 /\ (z - c = 0 \/ z - c = 3329) /\ c \in Int
  BY <1>5, CanonicalIs, CoefficientBounds
<1>7. out[i] = z
  BY <1>5
<1> HIDE DEF z, c
<1>8. KYBER_Q = 3329
  BY DEF KYBER_Q
<1>9. (z - c) % 3329 = 0
  BY <1>6, SMT
<1>10. z \in 0..(3329 - 1)
  BY <1>6, SMT
<1> QED BY <1>7, <1>8, <1>9, <1>10 DEF c

LEMMA BoundedWhenReceived == WireInv => CompressionError
<1> SUFFICES ASSUME WireInv, stage = "received" PROVE CompressionError
  BY DEF CompressionError
<1>1. KYBER_Q = 3329
  BY DEF KYBER_Q
<1>2. ASSUME NEW c \in Coefficient
      PROVE  /\ Decompress10(Compress10(c)) \in 0..KYBER_Q
             /\ Distance(Decompress10(Compress10(c)), c) <= 2
             /\ Decompress4(Compress4(c)) \in 0..KYBER_Q
             /\ Distance(Decompress4(Compress4(c)), c) <= 104
  <2> DEFINE z == Decompress10(Compress10(c))
             y == Decompress4(Compress4(c))
  <2>1. c \in Int /\ c >= -3328 /\ c <= 3328
    BY CoefficientBounds
  <2>2. z \in Int /\ z >= 0 /\ z <= 3329 /\ Within(z, c, 2)
    BY <2>1, Compress10Error
  <2>3. y \in Int /\ y >= 0 /\ y <= 3329 /\ Within(y, c, 104)
    BY <2>1, Compress4Error
  <2> HIDE DEF y, z
  <2>4. Distance(z, c) <= 2
    BY <2>1, <2>2, DistanceWithin
  <2>5. Distance(y, c) <= 104
    BY <2>1, <2>3, DistanceWithin
  <2>6. z \in 0..KYBER_Q /\ y \in 0..KYBER_Q
    BY <1>1, <2>2, <2>3, SMT
  <2> QED BY <2>4, <2>5, <2>6 DEF y, z
<1>3. ASSUME kind = "du", NEW i \in 1..4
      PROVE  out[i] \in 0..KYBER_Q /\ Distance(out[i], coeffs[i]) <= 2
  <2>1. coeffs \in Groups["du"] /\ out = Unpacked("du", Packed("du", coeffs))
    BY <1>3, Zenon DEF WireInv
  <2>2. coeffs \in [1..4 -> Coefficient]
    BY <2>1, SerializeAssumption
  <2>3. out = polyvec_decompress(polyvec_compress(coeffs))
    BY <2>1 DEF Packed, Unpacked
  <2>4. out[i] = Decompress10(Compress10(coeffs[i])) /\ coeffs[i] \in Coefficient
    BY <2>2, <2>3, DuArrives
  <2> QED BY <1>2, <2>4
<1>4. ASSUME kind = "dv", NEW i \in 1..2
      PROVE  out[i] \in 0..KYBER_Q /\ Distance(out[i], coeffs[i]) <= 104
  <2>1. coeffs \in Groups["dv"] /\ out = Unpacked("dv", Packed("dv", coeffs))
    BY <1>4, Zenon DEF WireInv
  <2>2. coeffs \in [1..2 -> Coefficient]
    BY <2>1, SerializeAssumption
  <2>3. out = poly_decompress(poly_compress(coeffs))
    BY <2>1 DEF Packed, Unpacked
  <2>4. out = <<Decompress4(Compress4(coeffs[1])), Decompress4(Compress4(coeffs[2]))>>
    BY <2>2, <2>3, DvArrives
  <2>5. out[i] = Decompress4(Compress4(coeffs[i])) /\ coeffs[i] \in Coefficient
    BY <2>2, <2>4
  <2> QED BY <1>2, <2>5
<1> QED BY <1>3, <1>4 DEF CompressionError

LEMMA DecodedWhenReceived == WireInv => MessageSurvives
<1> SUFFICES ASSUME WireInv, stage = "received", kind = "msg", \A i \in 1..8 : noise[i] \in -832..831
             PROVE  out = coeffs
  BY DEF MessageSurvives
<1>1. /\ noise \in Noises
      /\ out = poly_tomsg([i \in 1..8 |-> Centred(wire[i] + noise[i])])
  BY Zenon DEF WireInv
<1>2. PICK byte \in Messages : coeffs = <<byte>> /\ wire = poly_frommsg(<<byte>>)
  BY Zenon DEF WireInv
<1>3. byte \in 0..255 /\ noise \in [1..8 -> Coefficient]
  BY <1>1, SerializeAssumption
<1>4. out = poly_tomsg([i \in 1..8 |-> Centred(poly_frommsg(<<byte>>)[i] + noise[i])])
  BY <1>1, <1>2
<1> QED BY <1>2, <1>3, <1>4, MessageArrives

(* A key, share or partial decryption arrives in [0, q), exactly, whatever *)
(* its coefficients (poly_tobytes and poly_frombytes, poly.c).             *)
THEOREM AlwaysExactOnWire == WireSpec => []ExactOnWire
BY WireInvariant, ExactWhenReceived, PTL

(* A ciphertext's coefficients arrive within half a step, whatever they    *)
(* are: 32-bit products, wrapped, and rounded-down reciprocals included    *)
(* (polyvec_compress and poly_compress).                                   *)
THEOREM CompressionAlwaysBounded == WireSpec => []CompressionError
BY WireInvariant, BoundedWhenReceived, PTL

(* Every message byte survives every noise in -832..831, added to each of  *)
(* its eight coefficients independently (poly_frommsg and poly_tomsg).     *)
THEOREM MessageAlwaysSurvives == WireSpec => []MessageSurvives
BY WireInvariant, DecodedWhenReceived, PTL

-----------------------------------------------------------------------------
(* Kyber's modulus is prime: no factor up to its square root.              *)

LEMMA NoSmallFactor ==
  ASSUME NEW x \in 2..57, NEW y \in Nat
  PROVE  x * y # 3329
<1>1. \/ x \in {2, 3, 4, 5, 6, 7, 8, 9, 10, 11, 12, 13, 14, 15, 16, 17, 18, 19, 20,
                21, 22, 23, 24, 25, 26, 27, 28, 29}
      \/ x \in {30, 31, 32, 33, 34, 35, 36, 37, 38, 39, 40, 41, 42, 43, 44, 45, 46,
                47, 48, 49, 50, 51, 52, 53, 54, 55, 56, 57}
  OBVIOUS
<1>2. \A z \in {2, 3, 4, 5, 6, 7, 8, 9, 10, 11, 12, 13, 14, 15, 16, 17, 18, 19, 20,
                21, 22, 23, 24, 25, 26, 27, 28, 29} : z * y # 3329
  OBVIOUS
<1>3. \A z \in {30, 31, 32, 33, 34, 35, 36, 37, 38, 39, 40, 41, 42, 43, 44, 45, 46,
                47, 48, 49, 50, 51, 52, 53, 54, 55, 56, 57} : z * y # 3329
  OBVIOUS
<1> QED BY <1>1, <1>2, <1>3

LEMMA KyberPrime == QIsPrime
<1> SUFFICES ASSUME NEW x \in Nat, NEW y \in Nat, x * y = 3329
             PROVE  x = 1 \/ y = 1
  BY KemAssumption DEF QIsPrime, KYBER_Q
<1>1. CASE x \in 2..57
  BY <1>1, NoSmallFactor
<1>2. CASE y \in 2..57
  <2>1. y * x = 3329
    OBVIOUS
  <2> QED BY <1>2, <2>1, NoSmallFactor
<1>3. CASE x >= 58 /\ y >= 58
  <2>1. x * y >= 58 * y
    BY <1>3
  <2> QED BY <1>3, <2>1
<1>4. CASE x = 0 \/ y = 0
  BY <1>4
<1> QED BY <1>1, <1>2, <1>3, <1>4

-----------------------------------------------------------------------------
(* Kyber's numbers: centred residues, and what the codecs do to them.      *)

LEMMA KyberQ == Q = 3329 /\ Q = KYBER_Q /\ Q \div 2 = 1664
BY KemAssumption, SMT DEF KYBER_Q

LEMMA CentredBounds ==
  ASSUME NEW x \in Int
  PROVE  center_q(x) \in Int /\ center_q(x) >= -1664 /\ center_q(x) <= 1664
<1> DEFINE c == center_q(x)
<1>1. c \in Int /\ c \in -(Q \div 2)..(Q \div 2)
  BY CenterQCong, CenterQHalf
<1> HIDE DEF c
<1>2. c \in -1664..1664
  BY <1>1, KyberQ
<1>3. c >= -1664 /\ c <= 1664
  BY <1>1, <1>2, SMT
<1> QED BY <1>1, <1>3 DEF c

InHalves(x) == x >= -1664 /\ x <= 1664

LEMMA CentredInHalves ==
  ASSUME NEW x \in Int
  PROVE  InHalves(center_q(x))
<1> DEFINE c == center_q(x)
<1>1. c >= -1664 /\ c <= 1664
  BY CentredBounds
<1> HIDE DEF c
<1>2. InHalves(c)
  BY ONLY <1>1 DEF InHalves
<1> QED BY <1>2 DEF c

LEMMA CentredUnique ==
  ASSUME NEW x \in Int, NEW y \in Int, x >= -1664, x <= 1664, y >= -1664, y <= 1664,
         Cong(x, y)
  PROVE  x = y
<1>1. PICK k \in Int : x - y = k * Q
  BY DEF Cong
<1>2. x - y = k * 3329
  BY <1>1, KyberQ
<1>3. k < 1 /\ k > -1
  BY <1>2, SMT
<1>4. k = 0
  BY <1>3, SMT
<1> QED BY <1>2, <1>4, SMT

LEMMA WithinCong ==
  ASSUME NEW x \in Int, NEW z \in Int, NEW b \in Int, Within(z, center_q(x), b)
  PROVE  \E d \in Int : -b <= d /\ d <= b /\ Cong(z, x + d)
<1> DEFINE c == center_q(x)
<1>1. c \in Int /\ Cong(c, x)
  BY CenterQCong
<1> HIDE DEF c
<1>2. Within(z, c, b)
  BY DEF c
<1>3. PICK d \in Int, k \in Int : -b <= d /\ d <= b /\ z = c + d + k * KYBER_Q
  BY <1>2 DEF Within
<1> DEFINE kq == k * Q
           cd == c + d
           xd == x + d
<1>4. z = c + d + kq
  BY <1>3, KyberQ
<1>5. kq \in Int /\ cd \in Int /\ xd \in Int
  BY <1>1, QAssumption
<1>6. z - cd = kq
  <2> HIDE DEF kq
  <2> QED BY <1>1, <1>4, <1>5
<1>7. Cong(z, cd)
  BY <1>6 DEF Cong
<1>8. Cong(cd, xd)
  BY <1>1, CongShift
<1> HIDE DEF cd, xd
<1>9. Cong(z, xd)
  BY <1>5, <1>7, <1>8, CongTrans
<1> QED BY <1>3, <1>9 DEF xd

LEMMA Through10 ==
  ASSUME NEW x \in Int
  PROVE  /\ Compress10(center_q(x)) \in 0..1023
         /\ Decompress10(Compress10(center_q(x))) \in Int
         /\ \E d \in Int : /\ -2 <= d /\ d <= 2
                           /\ Cong(Decompress10(Compress10(center_q(x))), x + d)
<1> DEFINE c == center_q(x)
           z == Decompress10(Compress10(c))
           b == 2
<1>1. c \in Int /\ c >= -3328 /\ c <= 3328
  <2>1. c \in Int /\ c >= -1664 /\ c <= 1664
    BY CentredBounds
  <2> HIDE DEF c
  <2> QED BY <2>1, SMT
<1>2. Compress10(c) \in 0..1023 /\ z \in Int /\ Within(z, c, b)
  <2> HIDE DEF c
  <2> QED BY <1>1, Compress10Error
<1>3. b \in Int
  OBVIOUS
<1>4. \E d \in Int : -b <= d /\ d <= b /\ Cong(z, x + d)
  <2> HIDE DEF z, b
  <2> QED BY <1>2, <1>3, WithinCong
<1> QED BY <1>2, <1>4

LEMMA Through4 ==
  ASSUME NEW x \in Int
  PROVE  /\ Compress4(center_q(x)) \in 0..15
         /\ Decompress4(Compress4(center_q(x))) \in Int
         /\ \E d \in Int : /\ -104 <= d /\ d <= 104
                           /\ Cong(Decompress4(Compress4(center_q(x))), x + d)
<1> DEFINE c == center_q(x)
           z == Decompress4(Compress4(c))
           b == 104
<1>1. c \in Int /\ c >= -3328 /\ c <= 3328
  <2>1. c \in Int /\ c >= -1664 /\ c <= 1664
    BY CentredBounds
  <2> HIDE DEF c
  <2> QED BY <2>1, SMT
<1>2. Compress4(c) \in 0..15 /\ z \in Int /\ Within(z, c, b)
  <2> HIDE DEF c
  <2> QED BY <1>1, Compress4Error
<1>3. b \in Int
  OBVIOUS
<1>4. \E d \in Int : -b <= d /\ d <= b /\ Cong(z, x + d)
  <2> HIDE DEF z, b
  <2> QED BY <1>2, <1>3, WithinCong
<1> QED BY <1>2, <1>4

-----------------------------------------------------------------------------
(* Decryption: what is left of v after the product with the secret is the  *)
(* encoded bit and a noise far below a quarter of the modulus.             *)

LEMMA SmallProduct ==
  ASSUME NEW x \in -2..2, NEW y \in Int, -2 <= y, y <= 2
  PROVE  x * y \in Int /\ -4 <= x * y /\ x * y <= 4
<1>1. x = 0 \/ x = 1 \/ x = 2 \/ x + 1 = 0 \/ x + 2 = 0
  BY SMT
<1>2. CASE x = 0
  BY <1>2, SMT
<1>3. CASE x = 1
  BY <1>3, SMT
<1>4. CASE x = 2
  BY <1>4, SMT
<1>5. CASE x + 1 = 0
  BY <1>5, SMT
<1>6. CASE x + 2 = 0
  BY <1>6, SMT
<1> QED BY <1>1, <1>2, <1>3, <1>4, <1>5, <1>6

LEMMA BitSurvives ==
  ASSUME NEW m \in {0, 1}, NEW w \in Int, -118 <= w, w <= 118, NEW x \in Int,
         Cong(x, FromBit(m) + w)
  PROVE  ToBit(center_q(x)) = m
<1> DEFINE y == center_q(x)
<1>1. y \in Int /\ y >= -1664 /\ y <= 1664
  BY CentredBounds
<1>2. Cong(y, x)
  BY CenterQCong
<1> HIDE DEF y
<1>3. CASE m = 0
  <2>1. FromBit(m) + w = w
    BY <1>3, SMT DEF FromBit, KYBER_Q
  <2>2. Cong(x, w)
    BY <2>1
  <2>3. Cong(y, w)
    BY <1>1, <1>2, <2>2, CongTrans
  <2>4. w >= -1664 /\ w <= 1664
    BY SMT
  <2>5. y = w
    BY <1>1, <2>3, <2>4, CentredUnique
  <2>6. y >= -832 /\ y <= 831
    BY <2>5, SMT
  <2>7. ToBit(y) = 0
    BY <1>1, <2>6, ToBitDecides
  <2> QED BY <1>3, <2>7 DEF y
<1>4. CASE m = 1
  <2> DEFINE h == w + 1665
             l == w - 1664
  <2>1. FromBit(m) = 1665
    BY <1>4, SMT DEF FromBit, KYBER_Q
  <2>2. FromBit(m) + w = h /\ h \in Int /\ l \in Int /\ h - l = 3329
    BY <2>1, SMT
  <2>3. h = w + 1665 /\ l = w - 1664
    OBVIOUS
  <2> HIDE DEF h, l
  <2>4. Cong(x, h)
    BY <2>2
  <2>5. Cong(y, h)
    BY <1>1, <1>2, <2>2, <2>4, CongTrans
  <2>6. Cong(h, l)
    <3>1. PICK o \in Int : o = 1
      OBVIOUS
    <3>2. o * Q = 3329
      BY <3>1, KyberQ
    <3> QED BY <2>2, <3>1, <3>2 DEF Cong
  <2>7. Cong(y, l)
    BY <1>1, <2>2, <2>5, <2>6, CongTrans
  <2>8. y = h \/ y = l
    <3>1. CASE h <= 1664
      <4>1. h >= -1664
        BY <2>3, SMT
      <4> QED BY <1>1, <2>2, <2>5, <3>1, <4>1, CentredUnique
    <3>2. CASE ~(h <= 1664)
      <4>1. l >= -1664 /\ l <= 1664
        BY <2>2, <2>3, <3>2, SMT
      <4> QED BY <1>1, <2>2, <2>7, <4>1, CentredUnique
    <3> QED BY <3>1, <3>2
  <2>9. y <= -833 \/ y >= 833
    BY <2>2, <2>3, <2>8, SMT
  <2>10. ToBit(y) = 1
    BY <1>1, <2>9, ToBitDecides
  <2> QED BY <1>4, <2>10 DEF y
<1> QED BY <1>3, <1>4

(* (a s + e) r - s (a r + f) = e r - s f.                                  *)
LEMMA NoiseAlgebra ==
  ASSUME NEW a \in Int, NEW s \in Int, NEW e \in Int, NEW r \in Int, NEW f \in Int
  PROVE  (a * s + e) * r - s * (a * r + f) = e * r - s * f
<1>1. (a * s + e) * r = (a * s) * r + e * r
  BY SMT
<1>2. s * (a * r + f) = s * (a * r) + s * f
  BY SMT
<1>3. (a * s) * r = s * (a * r)
  BY SMT
<1> DEFINE x == (a * s) * r
           y == e * r
           z == s * f
<1>4. x \in Int /\ y \in Int /\ z \in Int
  BY SMT
<1>5. (a * s + e) * r = x + y /\ s * (a * r + f) = x + z
  BY <1>1, <1>2, <1>3
<1> HIDE DEF x, y, z
<1>6. (x + y) - (x + z) = y - z
  BY <1>4
<1> QED BY <1>5, <1>6 DEF y, z

-----------------------------------------------------------------------------
(* What is known when: the key and its sharing; the message in the         *)
(* ciphertext, which has been hashed; the ciphertext on the wire; what the *)
(* whole key decapsulated, whose message has been hashed too.              *)

KeyOk ==
  \E a \in Uniform, s \in Noise, e \in Noise :
    dk = [s |-> mod_q(s), ek |-> [t |-> mod_q(a * s + e), a |-> a]]

Shared ==
  \E poly \in [1..Threshold -> Int] :
    poly[1] = mod_q(dk.s) /\ shares = SplitShares(N, poly)

Encapsulated ==
  \E m \in {0, 1} :
    m \in DOMAIN coins /\ sent = Encrypt(m, dk.ek, coins[m]) /\ ss = Key(m, dk.ek)

Decapsulated ==
  LET m == Decrypt(ct, dk.s) IN
  m \in DOMAIN coins /\ direct = Completed(m, ct, dk.ek, coins)

KemInv ==
  /\ pc \in {"keypair", "split", "encaps", "wire", "decaps", "combine", "done"}
  /\ coins \in [DOMAIN coins -> Coins]
  /\ pc # "keypair" => KeyOk
  /\ pc \in {"encaps", "wire", "decaps", "combine", "done"} => Shared
  /\ pc \in {"wire", "decaps", "combine", "done"} => Encapsulated
  /\ pc \in {"decaps", "combine", "done"} => ct[1] \in 0..1023 /\ ct[2] \in 0..15
  /\ pc \in {"combine", "done"} => Decapsulated
  /\ pc = "done" => combined = direct

(* Hashing a message adds it to the table and leaves the others as drawn.  *)
LEMMA HashKeeps ==
  ASSUME NEW m, Hash(m), coins \in [DOMAIN coins -> Coins]
  PROVE  /\ coins' \in [DOMAIN coins' -> Coins]
         /\ m \in DOMAIN coins'
         /\ \A x \in DOMAIN coins : x \in DOMAIN coins' /\ coins'[x] = coins[x]
         /\ m \in DOMAIN coins => coins' = coins
<1>1. CASE m \in DOMAIN coins
  BY <1>1 DEF Hash
<1>2. CASE m \notin DOMAIN coins
  <2>1. PICK c \in Coins :
          coins' = [x \in DOMAIN coins \cup {m} |-> IF x = m THEN c ELSE coins[x]]
    BY <1>2 DEF Hash
  <2> QED BY <1>2, <2>1
<1> QED BY <1>1, <1>2

LEMMA EncapsulatedKept ==
  ASSUME NEW m, Hash(m), coins \in [DOMAIN coins -> Coins], Encapsulated,
         UNCHANGED <<dk, sent, ss>>
  PROVE  Encapsulated'
<1>1. PICK n \in {0, 1} :
        n \in DOMAIN coins /\ sent = Encrypt(n, dk.ek, coins[n]) /\ ss = Key(n, dk.ek)
  BY DEF Encapsulated
<1>2. n \in DOMAIN coins' /\ coins'[n] = coins[n]
  BY <1>1, HashKeeps
<1> QED BY <1>1, <1>2 DEF Encapsulated, Encrypt

LEMMA CoinsSmall ==
  ASSUME NEW c \in Coins
  PROVE  /\ c.r \in Int /\ c.e1 \in Int /\ c.e2 \in Int
         /\ c.r \in -2..2 /\ c.e1 \in -2..2 /\ c.e2 \in -2..2
<1>1. Noise \subseteq -2..2
  BY KemAssumption
<1>2. c.r \in Noise /\ c.e1 \in Noise /\ c.e2 \in Noise
  BY DEF Coins
<1>3. c.r \in -2..2 /\ c.e1 \in -2..2 /\ c.e2 \in -2..2
  BY <1>1, <1>2
<1>4. \A x \in -2..2 : x \in Int
  OBVIOUS
<1> QED BY ONLY <1>3, <1>4

LEMMA SharesAre ==
  ASSUME NEW r \in [2..Threshold -> Coeffs], NEW x \in Int
  PROVE  \E poly \in [1..Threshold -> Int] :
           poly[1] = mod_q(x) /\ SplitShares(N, Deal(Threshold, x, r)) = SplitShares(N, poly)
<1>1. Threshold \in Nat /\ 1 \in 1..Threshold
  BY KemAssumption, QAssumption
<1>2. mod_q(x) \in Int
  BY ModQCong
<1>3. \A j \in 1..Threshold : j # 1 => r[j] \in Int
  <2>1. \A j \in 1..Threshold : j # 1 => j \in 2..Threshold
    BY <1>1
  <2>2. Coeffs \subseteq 0..(Q - 1)
    BY KemAssumption
  <2>3. 0..(Q - 1) \subseteq Int
    BY QAssumption
  <2>4. \A j \in 2..Threshold : r[j] \in Coeffs
    OBVIOUS
  <2> QED BY <2>1, <2>2, <2>3, <2>4
<1>4. Deal(Threshold, x, r) \in [1..Threshold -> Int] /\ Deal(Threshold, x, r)[1] = mod_q(x)
  BY <1>1, <1>2, <1>3 DEF Deal
<1> QED BY <1>4

LEMMA KeyIsInt ==
  ASSUME KeyOk
  PROVE  /\ dk.s \in 0..(Q - 1) /\ dk.s \in Int
         /\ dk.ek.t \in Int /\ dk.ek.a \in Int
<1>1. PICK a \in Uniform, s \in Noise, e \in Noise :
        dk = [s |-> mod_q(s), ek |-> [t |-> mod_q(a * s + e), a |-> a]]
  BY DEF KeyOk
<1>2. a \in Int /\ s \in Int /\ e \in Int
  BY KemAssumption, QAssumption
<1>3. a * s + e \in Int
  BY ONLY <1>2
<1>4. mod_q(s) \in 0..(Q - 1) /\ mod_q(s) \in Int /\ mod_q(a * s + e) \in Int
  BY <1>2, <1>3, ModQRange, ModQCong
<1> QED BY <1>1, <1>2, <1>4

(* What the holders combine is what the whole key computes: the centred    *)
(* product of the secret and the ciphertext.                               *)
LEMMA CombinedProduct ==
  ASSUME KeyOk, Shared, NEW k \in Threshold..N, NEW xs \in [1..k -> 1..N],
         \A i, j \in 1..k : i # j => xs[i] # xs[j], ct[1] \in 0..1023
  PROVE  CombineAt(xs, [i \in 1..k |-> Partial(shares[xs[i]], ct)])
           = center_q(dk.s * Decompress10(ct[1]))
<1> DEFINE d == Decompress10(ct[1])
           values == [i \in 1..k |-> Partial(shares[xs[i]], ct)]
           result == CombineAt(xs, values)
<1>1. PICK poly \in [1..Threshold -> Int] :
        poly[1] = mod_q(dk.s) /\ shares = SplitShares(N, poly)
  BY DEF Shared
<1>2. d \in Int
  <2> DEFINE c1 == ct[1]
  <2>1. c1 \in Int
    <3>1. \A x \in 0..1023 : x \in Int
      OBVIOUS
    <3> QED BY ONLY <3>1, ct[1] \in 0..1023
  <2> HIDE DEF c1
  <2>2. Decompress10(c1) \in Int
    BY <2>1, SMT DEF Decompress10, KYBER_Q
  <2> QED BY <2>2 DEF c1
<1>3. values = Answers(N, poly, xs, d)
  <2>1. DOMAIN xs = 1..k
    OBVIOUS
  <2> QED BY <1>1, <2>1 DEF Answers, Partial
<1>4. N \in 0..(Q - 1) /\ Threshold \in Nat \ {0} /\ k \in Nat /\ Threshold <= k
  BY KemAssumption, QAssumption
<1> HIDE DEF d, values
<1>5. result = CombineAt(xs, Answers(N, poly, xs, d))
  BY <1>3
<1> HIDE DEF result
<1>6. /\ result \in -(Q \div 2)..(Q \div 2) /\ result \in Int
      /\ Cong(result, poly[1] * d)
  <2>1. xs \in [1..k -> 1..N] /\ \A i, j \in 1..k : i # j => xs[i] # xs[j]
    OBVIOUS
  <2>2. poly \in [1..Threshold -> Int]
    OBVIOUS
  <2> QED BY ONLY <1>2, <1>4, <1>5, <2>1, <2>2, KyberPrime, SharedProduct
<1>7. poly[1] = dk.s /\ dk.s \in Int
  BY <1>1, KeyIsInt, ModQOfResidue
<1> DEFINE p == dk.s * d
           c == center_q(p)
<1>8. p \in Int
  BY ONLY <1>2, <1>7
<1>9. Cong(result, p)
  BY <1>6, <1>7
<1> HIDE DEF p
<1>10. c \in Int /\ Cong(p, c) /\ c >= -1664 /\ c <= 1664
  <2>1. c \in Int /\ Cong(p, c)
    BY <1>8, CenterQCong
  <2>2. InHalves(c)
    BY ONLY <1>8, CentredInHalves, Zenon
  <2>3. c >= -1664 /\ c <= 1664
    BY ONLY <2>2 DEF InHalves
  <2> QED BY ONLY <2>1, <2>3
<1> HIDE DEF c
<1>11. Cong(result, c)
  BY <1>6, <1>8, <1>9, <1>10, CongTrans
<1>12. result >= -1664 /\ result <= 1664
  <2>1. result \in -1664..1664
    BY <1>6, KyberQ
  <2> QED BY <1>6, <2>1, SMT
<1>13. result = c
  BY <1>6, <1>10, <1>11, <1>12, CentredUnique
<1> QED BY <1>13 DEF result, c, p, d, values

(* Decryption with the whole key returns the message that was encrypted:   *)
(* what is left of it and of the key is at most 118.                       *)
LEMMA Decrypts ==
  ASSUME KeyOk, NEW m \in {0, 1}, NEW coin \in Coins
  PROVE  Decrypt(Encrypt(m, dk.ek, coin), dk.s) = m
<1>1. PICK a \in Uniform, s \in Noise, e \in Noise :
        dk = [s |-> mod_q(s), ek |-> [t |-> mod_q(a * s + e), a |-> a]]
  BY DEF KeyOk
<1> DEFINE r  == coin.r
           e1 == coin.e1
           e2 == coin.e2
           S  == mod_q(s)
           T  == a * s + e
           t  == mod_q(T)
           b  == FromBit(m)
           x  == a * r + e1
           y  == t * r + e2 + b
           dx == Decompress10(Compress10(center_q(x)))
           dy == Decompress4(Compress4(center_q(y)))
           p  == center_q(S * dx)
<1>2. Decrypt(Encrypt(m, dk.ek, coin), dk.s) = ToBit(center_q(dy - p))
  BY <1>1 DEF Decrypt, Finish, Encrypt
<1>3. a \in Int /\ s \in -2..2 /\ e \in -2..2 /\ s \in Int /\ e \in Int
  <2>1. a \in 0..(Q - 1) /\ s \in -2..2 /\ e \in -2..2
    BY KemAssumption
  <2>2. 0..(Q - 1) \subseteq Int /\ \A z \in -2..2 : z \in Int
    BY QAssumption
  <2> QED BY ONLY <2>1, <2>2
<1>4. /\ r \in Int /\ e1 \in Int /\ e2 \in Int /\ b \in Int
      /\ r \in -2..2 /\ e1 \in -2..2 /\ e2 \in -2..2
  <2>1. b \in Int
    BY SMT DEF FromBit, KYBER_Q
  <2> QED BY <2>1, CoinsSmall
<1> HIDE DEF r, e1, e2, b
<1>5. T \in Int
  BY ONLY <1>3
<1>6. S \in Int /\ Cong(S, s)
  BY <1>3, ModQCong
<1>7. t \in Int /\ Cong(t, T)
  <2> HIDE DEF T
  <2> QED BY <1>5, ModQCong
<1> HIDE DEF S, t
<1>8. x \in Int
  BY ONLY <1>3, <1>4
<1>9. y \in Int
  <2>1. t * r \in Int
    BY ONLY <1>4, <1>7
  <2> QED BY ONLY <1>4, <2>1
<1> DEFINE Y == T * r + e2 + b
<1>10. Y \in Int /\ Cong(y, Y)
  <2> DEFINE tr == t * r
             Tr == T * r
             w == e2 + b
  <2>1. tr \in Int /\ Tr \in Int /\ w \in Int
    <3> HIDE DEF T
    <3>1. tr \in Int
      BY ONLY <1>4, <1>7
    <3>2. Tr \in Int
      BY ONLY <1>4, <1>5
    <3> QED BY ONLY <1>4, <3>1, <3>2
  <2>2. Cong(tr, Tr)
    <3> HIDE DEF T
    <3> QED BY <1>4, <1>5, <1>7, CongScale
  <2>3. y = tr + e2 + b /\ Y = Tr + e2 + b /\ w = e2 + b
    OBVIOUS
  <2> HIDE DEF tr, Tr, w, y, Y
  <2>4. y = tr + w /\ Y = Tr + w
    BY <1>4, <2>1, <2>3
  <2>5. Cong(tr + w, Tr + w)
    BY <2>1, <2>2, CongShift
  <2>6. Tr + w \in Int
    BY ONLY <2>1
  <2> QED BY <2>4, <2>5, <2>6
<1> HIDE DEF x, y, Y, T
<1>11. PICK d1 \in Int : -2 <= d1 /\ d1 <= 2 /\ Cong(dx, x + d1)
  BY <1>8, Through10
<1>12. PICK d2 \in Int : -104 <= d2 /\ d2 <= 104 /\ Cong(dy, y + d2)
  BY <1>9, Through4
<1>13. dx \in Int /\ dy \in Int
  BY <1>8, <1>9, Through10, Through4
<1> HIDE DEF dx, dy
<1> DEFINE xd == x + d1
           yd == y + d2
           Yd == Y + d2
           sx == s * xd
<1>14. xd \in Int /\ yd \in Int /\ Yd \in Int
  BY ONLY <1>8, <1>9, <1>10, d1 \in Int, d2 \in Int
<1>15. sx \in Int
  <2> HIDE DEF xd
  <2> QED BY ONLY <1>3, <1>14
<1>16. p \in Int /\ Cong(p, sx)
  <2> DEFINE q == S * dx
  <2>1. q \in Int
    BY ONLY <1>6, <1>13
  <2>2. Cong(q, sx)
    <3>1. Cong(dx, xd)
      BY <1>11
    <3> HIDE DEF xd
    <3> QED BY <1>3, <1>6, <1>13, <1>14, <3>1, CongMul
  <2> HIDE DEF q, sx
  <2>3. center_q(q) \in Int /\ Cong(center_q(q), q)
    BY <2>1, CenterQCong
  <2>4. Cong(center_q(q), sx)
    BY <1>15, <2>1, <2>2, <2>3, CongTrans
  <2> QED BY <2>3, <2>4 DEF q
<1>17. Cong(dy, Yd)
  <2>1. Cong(yd, Yd)
    BY <1>9, <1>10, CongShift
  <2>2. Cong(dy, yd)
    BY <1>12
  <2> HIDE DEF yd, Yd
  <2> QED BY <1>13, <1>14, <2>1, <2>2, CongTrans
<1> HIDE DEF p
<1> DEFINE w == e * r + e2 + d2 - s * e1 - s * d1
           z == dy - p
<1>18. Cong(z, Yd - sx) /\ z \in Int
  <2> DEFINE np == -p
             nx == -sx
  <2>1. np \in Int /\ nx \in Int
    BY ONLY <1>15, <1>16
  <2>2. Cong(np, nx)
    <3> HIDE DEF sx
    <3> QED BY <1>15, <1>16, CongNeg
  <2>3. z = dy + np /\ Yd - sx = Yd + nx
    <3> HIDE DEF sx, Yd
    <3> QED BY <1>13, <1>14, <1>15, <1>16
  <2> HIDE DEF np, nx, Yd, sx
  <2>4. Cong(dy + np, Yd + nx)
    BY <1>13, <1>14, <1>17, <2>1, <2>2, CongAdd
  <2>5. dy + np \in Int
    BY ONLY <1>13, <2>1
  <2> QED BY <2>3, <2>4, <2>5
<1>19. Yd - sx = b + w
  <2> DEFINE f == e1 + d1
             P == T * r
             R == s * (a * r + f)
             er == e * r
             sf == s * f
             se == s * e1
             sd == s * d1
  <2>1. f \in Int /\ er \in Int /\ se \in Int /\ sd \in Int
    BY ONLY <1>3, <1>4, d1 \in Int
  <2>2. P - R = er - sf
    <3> HIDE DEF f
    <3> QED BY <1>3, <1>4, <2>1, NoiseAlgebra DEF T
  <2>3. sf = se + sd
    BY <1>3, <1>4
  <2>4. a * r + f = xd
    <3> DEFINE ar == a * r
    <3>1. ar \in Int
      BY ONLY <1>3, <1>4
    <3>2. xd = ar + e1 + d1
      BY DEF x
    <3> HIDE DEF ar
    <3>3. ar + (e1 + d1) = ar + e1 + d1
      BY ONLY <1>4, <3>1, d1 \in Int
    <3> QED BY <3>2, <3>3 DEF ar
  <2>5. R = sx
    BY <2>4
  <2>6. Yd = P + e2 + b + d2
    BY DEF Y
  <2>7. w = er + e2 + d2 - se - sd
    OBVIOUS
  <2>8. P \in Int
    <3>1. P \in Int
      BY ONLY <1>4, <1>5
    <3> QED BY <3>1
  <2> HIDE DEF P, R, er, sf, se, sd, w, Yd, sx, f
  <2>9. R \in Int
    BY <1>15, <2>5
  <2> QED BY <1>4, <2>1, <2>2, <2>3, <2>5, <2>6, <2>7, <2>8, <2>9
<1>20. w \in Int /\ -118 <= w /\ w <= 118
  <2> DEFINE er == e * r
             se == s * e1
             sd == s * d1
  <2>1. er \in Int /\ -4 <= er /\ er <= 4
    BY <1>3, <1>4, SmallProduct
  <2>2. se \in Int /\ -4 <= se /\ se <= 4
    BY <1>3, <1>4, SmallProduct
  <2>3. sd \in Int /\ -4 <= sd /\ sd <= 4
    BY <1>3, <1>11, SmallProduct
  <2>4. e2 >= -2 /\ e2 <= 2
    BY <1>4
  <2>5. w = er + e2 + d2 - se - sd
    OBVIOUS
  <2> HIDE DEF er, se, sd, w
  <2> QED BY <1>4, <1>12, <2>1, <2>2, <2>3, <2>4, <2>5
<1> HIDE DEF w, z, Yd, sx
<1>21. Cong(z, FromBit(m) + w)
  BY <1>18, <1>19 DEF b
<1>22. ToBit(center_q(z)) = m
  BY <1>18, <1>20, <1>21, BitSurvives
<1> QED BY <1>2, <1>22 DEF z

LEMMA KemInit == Init => KemInv
BY DEF Init, KemInv

LEMMA KeypairInv ==
  ASSUME KemInv, Keypair
  PROVE  KemInv'
<1>1. KeyOk'
  BY DEF Keypair, KeyOk
<1> QED BY <1>1 DEF Keypair, KemInv

LEMMA SplitInv ==
  ASSUME KemInv, Split
  PROVE  KemInv'
<1>1. pc = "split" /\ KeyOk /\ KeyOk' /\ dk' = dk
  BY DEF KemInv, Split, KeyOk
<1>2. PICK r \in [2..Threshold -> Coeffs] :
        shares' = SplitShares(N, Deal(Threshold, dk.s, r))
  BY DEF Split
<1>3. dk.s \in Int
  BY <1>1, KeyIsInt
<1>4. Shared'
  BY <1>1, <1>2, <1>3, SharesAre DEF Shared
<1> QED BY <1>1, <1>4 DEF Split, KemInv

LEMMA EncapsInv ==
  ASSUME KemInv, Encaps
  PROVE  KemInv'
<1>1. PICK m \in {0, 1} :
        Hash(m) /\ sent' = Encrypt(m, dk.ek, coins'[m]) /\ ss' = Key(m, dk.ek)
  BY DEF Encaps
<1>2. coins' \in [DOMAIN coins' -> Coins] /\ m \in DOMAIN coins'
  BY <1>1, HashKeeps DEF KemInv
<1>3. dk' = dk /\ shares' = shares /\ pc = "encaps" /\ pc' = "wire"
  BY DEF Encaps
<1>4. Encapsulated'
  BY <1>1, <1>2, <1>3 DEF Encapsulated, Encrypt
<1>5. KeyOk' /\ Shared'
  BY <1>3 DEF KemInv, KeyOk, Shared
<1> QED BY <1>2, <1>3, <1>4, <1>5 DEF KemInv

LEMMA SentInRange ==
  ASSUME NEW m \in {0, 1}, NEW ek, ek.t \in Int, ek.a \in Int, NEW c \in Coins
  PROVE  Encrypt(m, ek, c)[1] \in 0..1023 /\ Encrypt(m, ek, c)[2] \in 0..15
<1> DEFINE x == ek.a * c.r + c.e1
           y == ek.t * c.r + c.e2 + FromBit(m)
<1>1. c.r \in Int /\ c.e1 \in Int /\ c.e2 \in Int
  BY CoinsSmall
<1>2. x \in Int
  BY ONLY <1>1, ek.a \in Int
<1>3. y \in Int
  <2>1. ek.t * c.r + c.e2 \in Int
    BY ONLY <1>1, ek.t \in Int
  <2>2. FromBit(m) \in Int
    BY SMT DEF FromBit, KYBER_Q
  <2> QED BY ONLY <2>1, <2>2
<1>4. Encrypt(m, ek, c) = <<Compress10(center_q(x)), Compress4(center_q(y))>>
  BY DEF Encrypt
<1> HIDE DEF x, y
<1>5. Compress10(center_q(x)) \in 0..1023 /\ Compress4(center_q(y)) \in 0..15
  BY <1>2, <1>3, Through10, Through4
<1> QED BY <1>4, <1>5

LEMMA DeliverInv ==
  ASSUME KemInv, Deliver
  PROVE  KemInv'
<1>1. PICK flip \in Flips :
       ct' = <<(sent[1] + flip[1]) % 1024, (sent[2] + flip[2]) % 16>>
  BY DEF Deliver
<1>2. UNCHANGED <<dk, shares, coins, sent, ss>> /\ pc = "wire" /\ pc' = "decaps"
  BY DEF Deliver
<1>3. KeyOk' /\ Shared' /\ Encapsulated'
  BY <1>2 DEF KemInv, KeyOk, Shared, Encapsulated, Encrypt
<1>4. sent[1] \in Int /\ sent[2] \in Int
  <2>1. PICK m \in {0, 1} : m \in DOMAIN coins /\ sent = Encrypt(m, dk.ek, coins[m])
    BY <1>2 DEF KemInv, Encapsulated
  <2>2. coins[m] \in Coins /\ dk.ek.t \in Int /\ dk.ek.a \in Int
    BY <1>2, <2>1, KeyIsInt DEF KemInv
  <2> DEFINE ek == dk.ek
             c  == coins[m]
  <2>3. ek.t \in Int /\ ek.a \in Int /\ c \in Coins /\ sent = Encrypt(m, ek, c)
    BY <2>1, <2>2
  <2> HIDE DEF ek, c
  <2>4. sent[1] \in 0..1023 /\ sent[2] \in 0..15
    BY <2>3, SentInRange
  <2> QED BY <2>4
<1>5. flip[1] \in Int /\ flip[2] \in Int
  BY KemAssumption
<1>6. ct'[1] \in 0..1023 /\ ct'[2] \in 0..15
  BY <1>1, <1>4, <1>5
<1> QED BY <1>2, <1>3, <1>6 DEF KemInv

LEMMA DecapsInv ==
  ASSUME KemInv, Decaps
  PROVE  KemInv'
<1> DEFINE m == Decrypt(ct, dk.s)
<1>1. /\ Hash(m) /\ direct' = Completed(m, ct, dk.ek, coins')
      /\ UNCHANGED <<dk, shares, sent, ss, ct>> /\ pc = "decaps" /\ pc' = "combine"
  BY DEF Decaps
<1>2. coins' \in [DOMAIN coins' -> Coins] /\ m \in DOMAIN coins'
  <2> HIDE DEF m
  <2> QED BY <1>1, HashKeeps DEF KemInv
<1>3. KeyOk' /\ Shared'
  BY <1>1 DEF KemInv, KeyOk, Shared
<1>4. Encapsulated'
  <2> HIDE DEF m
  <2> QED BY <1>1, EncapsulatedKept DEF KemInv
<1>5. Decapsulated'
  BY <1>1, <1>2 DEF Decapsulated
<1> QED BY <1>1, <1>2, <1>3, <1>4, <1>5 DEF KemInv

LEMMA ThresholdDecapsInv ==
  ASSUME KemInv, ThresholdDecaps
  PROVE  KemInv'
<1>1. PICK k \in Threshold..N : \E xs \in [1..k -> 1..N] :
        /\ \A i, j \in 1..k : i # j => xs[i] # xs[j]
        /\ LET m == Finish(ct, CombineAt(xs, [i \in 1..k |-> Partial(shares[xs[i]], ct)]))
           IN  Hash(m) /\ combined' = Completed(m, ct, dk.ek, coins')
  BY DEF ThresholdDecaps
<1>2. PICK xs \in [1..k -> 1..N] :
        /\ \A i, j \in 1..k : i # j => xs[i] # xs[j]
        /\ LET m == Finish(ct, CombineAt(xs, [i \in 1..k |-> Partial(shares[xs[i]], ct)]))
           IN  Hash(m) /\ combined' = Completed(m, ct, dk.ek, coins')
  BY <1>1
<1>3. /\ UNCHANGED <<dk, shares, sent, ss, ct, direct>> /\ pc = "combine" /\ pc' = "done"
      /\ KeyOk /\ Shared /\ Encapsulated /\ Decapsulated
      /\ ct[1] \in 0..1023 /\ ct[2] \in 0..15
  BY DEF ThresholdDecaps, KemInv
<1> DEFINE m == Decrypt(ct, dk.s)
<1>4. CombineAt(xs, [i \in 1..k |-> Partial(shares[xs[i]], ct)])
        = center_q(dk.s * Decompress10(ct[1]))
  BY <1>2, <1>3, CombinedProduct
<1>5. Hash(m) /\ combined' = Completed(m, ct, dk.ek, coins')
  BY <1>2, <1>4 DEF Decrypt
<1>6. m \in DOMAIN coins /\ direct = Completed(m, ct, dk.ek, coins)
  BY <1>3 DEF Decapsulated
<1>7. coins' = coins
  BY <1>5, <1>6 DEF Hash
<1>8. combined' = direct'
  BY <1>3, <1>5, <1>6, <1>7
<1>9. KeyOk' /\ Shared' /\ Encapsulated' /\ Decapsulated'
  BY <1>3, <1>7 DEF KeyOk, Shared, Encapsulated, Decapsulated
<1> QED BY <1>3, <1>7, <1>8, <1>9 DEF KemInv

LEMMA KemInvariant == Spec => []KemInv
<1>1. KemInv /\ [Next]_vars => KemInv'
  <2> SUFFICES ASSUME KemInv, [Next]_vars PROVE KemInv'
    OBVIOUS
  <2>1. CASE Keypair
    BY <2>1, KeypairInv
  <2>2. CASE Split
    BY <2>2, SplitInv
  <2>3. CASE Encaps
    BY <2>3, EncapsInv
  <2>4. CASE Deliver
    BY <2>4, DeliverInv
  <2>5. CASE Decaps
    BY <2>5, DecapsInv
  <2>6. CASE ThresholdDecaps
    BY <2>6, ThresholdDecapsInv
  <2>7. CASE UNCHANGED vars
    BY <2>7 DEF vars, KemInv, KeyOk, Shared, Encapsulated, Decapsulated
  <2> QED BY <2>1, <2>2, <2>3, <2>4, <2>5, <2>6, <2>7 DEF Next
<1> QED BY KemInit, <1>1, PTL DEF Spec

(* Whichever holders decapsulate, however many above the threshold and in  *)
(* whatever order, they get what the whole key gets, for every key, every  *)
(* sharing of it and every ciphertext (kem.h; threshold.c:146-186).        *)
THEOREM ThresholdAlwaysAgrees == Spec => []ThresholdAgrees
<1>1. KemInv => ThresholdAgrees
  BY DEF KemInv, ThresholdAgrees
<1> QED BY KemInvariant, <1>1, PTL

(* An untouched ciphertext decapsulates to the key it was made with        *)
(* (kem.c:53-73).  In the ring of one coefficient that Kem models, the     *)
(* decryption noise never reaches a quarter of the modulus, compression of *)
(* the ciphertext included; in the code's ring it nearly never does.       *)
THEOREM RoundTripAlways == Spec => []RoundTrip
<1>1. KemInv => RoundTrip
  <2> SUFFICES ASSUME KemInv, pc \in {"combine", "done"}, ct = sent
               PROVE  direct = ss
    BY DEF RoundTrip
  <2>1. PICK m \in {0, 1} :
          m \in DOMAIN coins /\ sent = Encrypt(m, dk.ek, coins[m]) /\ ss = Key(m, dk.ek)
    BY DEF KemInv, Encapsulated
  <2>2. KeyOk /\ coins[m] \in Coins
    BY <2>1 DEF KemInv
  <2> DEFINE n == Decrypt(ct, dk.s)
             coin == coins[m]
  <2>3. direct = Completed(n, ct, dk.ek, coins)
    BY DEF KemInv, Decapsulated
  <2>4. n = Decrypt(Encrypt(m, dk.ek, coin), dk.s) /\ coin \in Coins
    BY <2>1, <2>2
  <2> HIDE DEF n, coin
  <2>5. n = m
    BY <2>2, <2>4, Decrypts
  <2> QED BY <2>1, <2>3, <2>5 DEF Completed
<1> QED BY KemInvariant, <1>1, PTL

(* No changed ciphertext is decapsulated to the key of the one sent,       *)
(* whatever the noise and whatever the change (kem.c:63).                  *)
THEOREM ChangedAlwaysRejected == Spec => []ChangedIsRejected
<1>1. KemInv => ChangedIsRejected
  <2> SUFFICES ASSUME KemInv, pc \in {"combine", "done"}, direct = ss
               PROVE  ct = sent
    BY DEF ChangedIsRejected
  <2>1. PICK m \in {0, 1} :
          m \in DOMAIN coins /\ sent = Encrypt(m, dk.ek, coins[m]) /\ ss = Key(m, dk.ek)
    BY DEF KemInv, Encapsulated
  <2> DEFINE n == Decrypt(ct, dk.s)
  <2>2. direct = Completed(n, ct, dk.ek, coins)
    BY DEF KemInv, Decapsulated
  <2> HIDE DEF n
  <2>3. Encrypt(n, dk.ek, coins[n]) = ct /\ direct = Key(n, dk.ek)
    <3>1. Reject(ct) # Key(m, dk.ek)
      BY DEF Reject, Key
    <3> QED BY <2>1, <2>2, <3>1 DEF Completed
  <2>4. n = m
    <3>1. Key(n, dk.ek).m = Key(m, dk.ek).m
      BY <2>1, <2>3
    <3> QED BY <3>1 DEF Key
  <2> QED BY <2>1, <2>3, <2>4
<1> QED BY KemInvariant, <1>1, PTL
=============================================================================
