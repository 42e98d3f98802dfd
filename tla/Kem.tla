-------------------------------- MODULE Kem --------------------------------
(***************************************************************************)
(* One key encapsulation and its two decapsulations: kyber_decaps with the *)
(* whole key, and threshold_decaps with the partial decryptions of some    *)
(* holders (src/kyber/indcpa.c, kem.c, threshold.c).  The ring is cut down *)
(* to one coefficient, Z_q itself, with Kyber's q and its codecs; what the *)
(* transforms do for 256 coefficients is module Ntt.  Hashes are symbolic: *)
(* the key of a message and the rejection key of a ciphertext are records, *)
(* and the encryption coins of a message are drawn when it is first hashed.*)
(***************************************************************************)
EXTENDS ShamirArith, Codec, FiniteSets

CONSTANTS
  N, Threshold,  \* parties, and shares that recover
  Uniform,       \* values of the public matrix's coefficient to try
  Noise,         \* values of the centred binomial noise to try
  Coeffs,        \* values of rand_mod_q to try
  Flips          \* changes of a ciphertext's two fields on the way

ASSUME KemAssumption ==
  /\ Q = KYBER_Q
  /\ N \in 1..(Q - 1) /\ Threshold \in 1..N
  /\ Uniform \subseteq 0..(Q - 1) /\ Noise \subseteq -2..2
  /\ Coeffs \subseteq 0..(Q - 1)
  /\ Flips \subseteq (0..1023) \X (0..15)

VARIABLES
  pc,        \* "keypair", "split", "encaps", "wire", "decaps", "combine", "done"
  dk,        \* the decapsulation key: its PKE part and the ek inside it
  shares,    \* the holders' shares
  coins,     \* the second half of G(m || H(ek)), for the messages hashed so far
  sent,      \* the ciphertext kyber_encaps_derand returned
  ss,        \* the key it returned
  ct,        \* the ciphertext that arrived
  direct,    \* kyber_decaps' key
  combined   \* threshold_decaps' key

vars == <<pc, dk, shares, coins, sent, ss, ct, direct, combined>>

Coins == [r : Noise, e1 : Noise, e2 : Noise]

Key(m, ek) == [kind |-> "shared", m |-> m, ek |-> ek]
Reject(c)  == [kind |-> "rejected", z |-> "z", ct |-> c]
None       == [kind |-> "none"]

-----------------------------------------------------------------------------
(* indcpa_enc: u = a r + e1, v = t r + e2 + round(q/2) m, both compressed. *)
Encrypt(m, ek, c) ==
  LET u == center_q(ek.a * c.r + c.e1)
      v == center_q(ek.t * c.r + c.e2 + FromBit(m))
  IN <<Compress10(u), Compress4(v)>>

(* The tail of indcpa_dec and of threshold_decaps: v less the product.     *)
Finish(c, product) == ToBit(center_q(Decompress4(c[2]) - product))

(* indcpa_dec.                                                             *)
Decrypt(c, s) == Finish(c, center_q(s * Decompress10(c[1])))

(* Mutant of Partial: a holder takes the ciphertext still compressed.      *)
PartialCompressed(share, c) == mod_q(share * c[1])

(* threshold_partial_decrypt of the decompressed vector part, as the wire  *)
(* carries it.                                                             *)
Partial(share, c) == mod_q(share * Decompress10(c[1]))

(* Mutant of Completed: only the scalar part of the ciphertexts compared.  *)
CompletedOnScalar(m, c, ek, table) ==
  IF Encrypt(m, ek, table[m])[2] = c[2] THEN Key(m, ek) ELSE Reject(c)

(* Mutant of Completed: the rejection key is taken on success.             *)
CompletedSwapped(m, c, ek, table) ==
  IF Encrypt(m, ek, table[m]) = c THEN Reject(c) ELSE Key(m, ek)

(* kyber_decaps_from_m: encrypt again, compare, key or rejection key.      *)
Completed(m, c, ek, table) ==
  IF Encrypt(m, ek, table[m]) = c THEN Key(m, ek) ELSE Reject(c)

(* The hash of m: drawn now if nobody hashed it before.                    *)
Hash(m) ==
  IF m \in DOMAIN coins THEN coins' = coins
  ELSE \E c \in Coins :
         coins' = [x \in DOMAIN coins \cup {m} |-> IF x = m THEN c ELSE coins[x]]

-----------------------------------------------------------------------------
Init ==
  /\ pc = "keypair" /\ dk = None /\ shares = << >> /\ coins = << >>
  /\ sent = << >> /\ ct = << >>
  /\ ss = None /\ direct = None /\ combined = None

(* kyber_keypair_derand: t = a s + e, ek = (t, a), dk = (s, ek, ...), s in *)
(* the canonical range that polyvec_tobytes leaves it in.                  *)
Keypair ==
  /\ pc = "keypair"
  /\ \E a \in Uniform, s \in Noise, e \in Noise :
       dk' = [s |-> mod_q(s), ek |-> [t |-> mod_q(a * s + e), a |-> a]]
  /\ pc' = "split"
  /\ UNCHANGED <<shares, coins, sent, ss, ct, direct, combined>>

(* threshold_split_secret of the key's PKE part.                           *)
Split ==
  /\ pc = "split"
  /\ \E r \in [2..Threshold -> Coeffs] :
       shares' = SplitShares(N, Deal(Threshold, dk.s, r))
  /\ pc' = "encaps"
  /\ UNCHANGED <<dk, coins, sent, ss, ct, direct, combined>>

(* kyber_encaps_derand of a random message.                                *)
Encaps ==
  /\ pc = "encaps"
  /\ \E m \in {0, 1} :
       /\ Hash(m)
       /\ sent' = Encrypt(m, dk.ek, coins'[m])
       /\ ss' = Key(m, dk.ek)
  /\ pc' = "wire"
  /\ UNCHANGED <<dk, shares, ct, direct, combined>>

(* The ciphertext arrives, as it was sent or changed.                      *)
Deliver ==
  /\ pc = "wire"
  /\ \E flip \in Flips :
       ct' = <<(sent[1] + flip[1]) % 1024, (sent[2] + flip[2]) % 16>>
  /\ pc' = "decaps"
  /\ UNCHANGED <<dk, shares, coins, sent, ss, direct, combined>>

(* kyber_decaps, with the whole key.                                       *)
Decaps ==
  /\ pc = "decaps"
  /\ LET m == Decrypt(ct, dk.s) IN
       /\ Hash(m)
       /\ direct' = Completed(m, ct, dk.ek, coins')
  /\ pc' = "combine"
  /\ UNCHANGED <<dk, shares, sent, ss, ct, combined>>

(* Some holders, in some order, compute their partials; threshold_decaps   *)
(* combines them.                                                          *)
ThresholdDecaps ==
  /\ pc = "combine"
  /\ \E k \in Threshold..N : \E xs \in [1..k -> 1..N] :
       /\ \A i, j \in 1..k : i # j => xs[i] # xs[j]
       /\ LET partials == [i \in 1..k |-> Partial(shares[xs[i]], ct)]
              m == Finish(ct, CombineAt(xs, partials))
          IN /\ Hash(m)
             /\ combined' = Completed(m, ct, dk.ek, coins')
  /\ pc' = "done"
  /\ UNCHANGED <<dk, shares, sent, ss, ct, direct>>

Next == Keypair \/ Split \/ Encaps \/ Deliver \/ Decaps \/ ThresholdDecaps

Spec == Init /\ [][Next]_vars
-----------------------------------------------------------------------------
(* An untouched ciphertext decapsulates to the key it was made with.       *)
RoundTrip == (pc \in {"combine", "done"} /\ ct = sent) => direct = ss

(* A changed ciphertext never yields that key: re-encryption is compared   *)
(* in full (kem.c:63).                                                     *)
ChangedIsRejected == (pc \in {"combine", "done"} /\ ct # sent) => direct # ss

(* Whichever holders decapsulate, in whatever order, the result is the one *)
(* the whole key gives, on accepted and on rejected ciphertexts alike      *)
(* (kem.h: "written once so it can't drift").                              *)
ThresholdAgrees == pc = "done" => combined = direct
=============================================================================
