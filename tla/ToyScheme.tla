----------------------------- MODULE ToyScheme -----------------------------
(***************************************************************************)
(* The scalar prototype's arithmetic: the LWE scheme of toy_crypto.c, the  *)
(* sharing of shamir.c and the interpolation of lagrange.c, which the toy  *)
(* deployment uses unchanged.  Its mod() and its Euclid loop are those of  *)
(* FieldArith, its split is that of ShamirArith without the centring.      *)
(***************************************************************************)
EXTENDS ShamirArith

CONSTANTS
  VectorDim,   \* VECTOR_DIM
  NParties,    \* N_PARTIES
  Threshold,   \* THRESHOLD
  NoiseBound,  \* NOISE_BOUND
  Secrets,     \* secret vectors to try
  Coeffs,      \* coefficient vectors of the sharing polynomials to try
  Us           \* ciphertext vectors to try

Vector == [1..VectorDim -> 0..(Q - 1)]

(* The noise stays below the modulus: params.h has 2 and 97.               *)
ASSUME ToyAssumption ==
  /\ VectorDim \in Nat \ {0} /\ NoiseBound \in 1..(Q - 1)
  /\ NParties \in 1..(Q - 1) /\ Threshold \in 1..NParties
  /\ Secrets \subseteq Vector /\ Coeffs \subseteq Vector /\ Us \subseteq Vector

message == 1

(* mod.                                                                    *)
mod[n \in Int] == mod_q(n)

Dot(v, w) ==
  LET dot[i \in 0..VectorDim] ==
        IF i = 0 THEN 0 ELSE mod[dot[i - 1] + v[i] * w[i]]
  IN  dot[VectorDim]

(* rand() % (2 * NOISE_BOUND) - NOISE_BOUND.                               *)
NoiseValues == -NoiseBound..(NoiseBound - 1)

EncryptV(s, u, noise) == mod[Dot(s, u) + noise + message]

(* Mutant of PartialDot: the sign of the product is lost.                  *)
PartialPositive(share, u) == mod[Dot(share, u)]

(* partial_decrypt.                                                        *)
PartialDot(share, u) == mod[-Dot(share, u)]

(* shamir_split of every dimension: party x gets one value of each of the  *)
(* polynomials, r[j] holding their coefficients of degree j - 1.           *)
SplitVector(s, r) ==
  [x \in 1..NParties |-> [d \in 1..VectorDim |->
     EvalPoly([j \in 1..Threshold |-> IF j = 1 THEN mod[s[d]] ELSE r[j][d]], x)]]

Sharings == [2..Threshold -> Coeffs]

(* mod_inverse gives up on a common factor.                                *)
mod_inverse(n) ==
  LET e == EuclidLoop[EuclidInit(n)] IN IF e.r > 1 THEN -1 ELSE mod[e.t]

(* Mutant of lagrange_interpolate_zero: the numerator keeps xj's sign.     *)
InterpolateUnsigned(shares) ==
  LET n == Len(shares)
      sum[i \in 0..n] ==
        IF i = 0 THEN 0
        ELSE LET num == Product([j \in 1..n |-> shares[j].x], i)
                 den == Product([j \in 1..n |-> shares[i].x - shares[j].x], i)
             IN  mod[sum[i - 1] + mod[mod[shares[i].y * num] * mod_inverse(den)]]
  IN  sum[n]

lagrange_interpolate_zero(shares) ==
  LET n == Len(shares)
      sum[i \in 0..n] ==
        IF i = 0 THEN 0
        ELSE LET num == Product([j \in 1..n |-> -shares[j].x], i)
                 den == Product([j \in 1..n |-> shares[i].x - shares[j].x], i)
             IN  mod[sum[i - 1] + mod[mod[shares[i].y * num] * mod_inverse(den)]]
  IN  sum[n]

(* The tail of a trial: the value that is compared with the message.       *)
Recovered(v, partials) == mod[v + lagrange_interpolate_zero(partials)]
=============================================================================
