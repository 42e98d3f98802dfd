------------------------------- MODULE Reduce -------------------------------
(***************************************************************************)
(* src/kyber/reduce.c: Montgomery and Barrett reduction on int16 values.   *)
(* A cast to int16 keeps the low 16 bits; >> of a negative value rounds    *)
(* down, as \div does.                                                     *)
(***************************************************************************)
EXTENDS Integers

KYBER_Q    == 3329
KYBER_QINV == -3327
KYBER_MONT == -1044

(* (int16_t)x for an int32 x.                                              *)
Wrap16(x) == ((x + 32768) % 65536) - 32768

montgomery_reduce(a) ==
  LET t == Wrap16(Wrap16(a) * KYBER_QINV) IN Wrap16((a - t * KYBER_Q) \div 65536)

(* round(2^26 / q)                                                         *)
BarrettV == (67108864 + (KYBER_Q \div 2)) \div KYBER_Q

(* Mutant of barrett_reduce: the quotient is not rounded.                  *)
BarrettFloor(a) == Wrap16(a - ((BarrettV * a) \div 67108864) * KYBER_Q)

barrett_reduce(a) ==
  LET t == (BarrettV * a + 33554432) \div 67108864 IN Wrap16(a - t * KYBER_Q)

fq_mul(a, b) == montgomery_reduce(a * b)
=============================================================================
