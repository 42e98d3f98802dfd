------------------------------- MODULE Codec -------------------------------
(***************************************************************************)
(* How coefficients travel (src/kyber/poly.c, polyvec.c): the exact 12-bit *)
(* packing of keys, shares and partial decryptions, the lossy 10-bit and   *)
(* 4-bit compressions of a ciphertext, and the message encoding.  The C    *)
(* loops repeat the group of coefficients modelled here.                   *)
(***************************************************************************)
EXTENDS Reduce

(* "map to [0, q)" of a value in [-q, q): add q to a negative one.         *)
Canonical(c) == IF c < 0 THEN c + KYBER_Q ELSE c

(* (x * recip) >> shift, three digits of recip at a time, so that no       *)
(* intermediate value leaves TLC's integers.                               *)
MulShift(x, recip, shift) ==
  LET low  == (x * (recip % 512)) \div 512
      mid  == (low + x * ((recip \div 512) % 512)) \div 512
      high == mid + x * (recip \div 262144)
  IN high \div 2^(shift - 18)

(* round_div_q multiplies uint32 values, so that the product wraps at 2^32 *)
(* and 4 bits are left after the shift by 28.                              *)
round_div_q(x, recip, shift) == MulShift(x, recip, shift) % 2^(32 - shift)

-----------------------------------------------------------------------------
(* One coefficient.                                                        *)

(* The reciprocals of q, 2^28 / q and 2^32 / q rounded down.               *)
Recip28 == 80635
Recip32 == 1290167

(* Mutants: no rounding term.                                              *)
Compress4Truncating(c)  == round_div_q(Canonical(c) * 16, Recip28, 28)
Compress10Truncating(c) == MulShift(Canonical(c) * 1024, Recip32, 32) % 1024

Compress4(c)  == round_div_q(Canonical(c) * 16 + 1665, Recip28, 28)
Compress10(c) == MulShift(Canonical(c) * 1024 + 1665, Recip32, 32) % 1024

Decompress4(t)  == (t * KYBER_Q + 8) \div 16
Decompress10(t) == (t * KYBER_Q + 512) \div 1024

FromBit(b) == b * ((KYBER_Q + 1) \div 2)

(* Mutant of ToBit: rounded down.                                          *)
ToBitTruncating(c) == round_div_q(c * 2, Recip28, 28) % 2

ToBit(c) == round_div_q(c * 2 + 1665, Recip28, 28) % 2

-----------------------------------------------------------------------------
(* Groups of coefficients that share bytes.                                *)

(* Mutant of poly_tobytes: the second coefficient is not mapped.           *)
TobytesUnmapped(c) ==
  LET t0 == Canonical(c[1]) t1 == c[2] % 65536 IN
  <<t0 % 256, ((t0 \div 256) + ((t1 * 16) % 256)) % 256, (t1 \div 16) % 256>>

(* Two coefficients in three bytes.                                        *)
poly_tobytes(c) ==
  LET t0 == Canonical(c[1]) t1 == Canonical(c[2]) IN
  <<t0 % 256, (t0 \div 256) + ((t1 * 16) % 256), t1 \div 16>>

poly_frombytes(r) ==
  <<(r[1] + 256 * r[2]) % 4096, ((r[2] \div 16) + 16 * r[3]) % 4096>>

(* Two coefficients in a byte.                                             *)
poly_compress(c) == <<Compress4(c[1]) + 16 * Compress4(c[2])>>

poly_decompress(r) == <<Decompress4(r[1] % 16), Decompress4(r[1] \div 16)>>

(* Four coefficients in five bytes.                                        *)
polyvec_compress(c) ==
  LET t == [i \in 1..4 |-> Compress10(c[i])] IN
  <<t[1] % 256,
    (t[1] \div 256) + ((t[2] * 4) % 256),
    (t[2] \div 64) + ((t[3] * 16) % 256),
    (t[3] \div 16) + ((t[4] * 64) % 256),
    t[4] \div 4>>

polyvec_decompress(r) ==
  LET t == <<r[1] + 256 * r[2], r[2] \div 4 + 64 * r[3],
             r[3] \div 16 + 16 * r[4], r[4] \div 64 + 4 * r[5]>>
  IN [i \in 1..4 |-> Decompress10(t[i] % 1024)]

(* Eight bits in a byte.                                                   *)
Bits(byte) == [i \in 1..8 |-> (byte \div 2^(i - 1)) % 2]

poly_frommsg(r) == [i \in 1..8 |-> FromBit(Bits(r[1])[i])]

poly_tomsg(c) ==
  LET sum[i \in 0..8] == IF i = 0 THEN 0 ELSE sum[i - 1] + ToBit(c[i]) * 2^(i - 1)
  IN <<sum[8]>>
=============================================================================
