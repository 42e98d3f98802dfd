-------------------------- MODULE ThresholdShamir --------------------------
(***************************************************************************)
(* src/kyber/threshold.c for one coefficient: split a secret coefficient   *)
(* into N shares, let K holders apply the same linear map to their shares, *)
(* combine the results at zero.  threshold_split_secret and                *)
(* threshold_combine do this for every coefficient independently; the      *)
(* partial decryption is linear in the share (a product with the public    *)
(* vector b), so multiplication by one public factor stands for it.        *)
(***************************************************************************)
EXTENDS ShamirArith, FiniteSets

CONSTANTS
  N,          \* n, the number of parties
  Threshold,  \* k of threshold_split_secret
  Ks,         \* how many partials the coordinator combines
  Secrets,    \* secret coefficients to try, centred
  Coeffs,     \* values of rand_mod_q to try
  Factors     \* public factors to try

ASSUME ShamirAssumption ==
  /\ N \in 1..(Q - 1)
  /\ Threshold \in 1..N
  /\ Ks \subseteq 1..N
  /\ Secrets \subseteq Int /\ Coeffs \subseteq 0..(Q - 1) /\ Factors \subseteq 0..(Q - 1)

VARIABLES
  pc,        \* "split", "ask", "combine", "done"
  secret,    \* the coefficient being shared
  coeffs,    \* the polynomial: coeffs[1] is its value at 0
  shares,    \* shares_out[i]
  factor,    \* the public factor of this decryption
  xs,        \* the points of the partials, in the order they arrived
  partials,  \* the partials, as poly_frombytes delivers them: in [0, Q)
  out        \* the combined coefficient

vars == <<pc, secret, coeffs, shares, factor, xs, partials, out>>

Points == 1..N

(* threshold_split_secret for one coefficient.                             *)
Split ==
  /\ pc = "split"
  /\ \E sec \in Secrets, r \in [2..Threshold -> Coeffs] :
       /\ secret' = sec
       /\ coeffs' = Deal(Threshold, sec, r)
  /\ shares' = SplitShares(N, coeffs')
  /\ pc' = "ask"
  /\ UNCHANGED <<factor, xs, partials, out>>

(* Some holders answer, in some order, possibly one of them twice; each    *)
(* multiplies its share, and the wire carries the canonical residue.       *)
PartialDecrypt ==
  /\ pc = "ask"
  /\ \E k \in Ks : \E list \in [1..k -> Points], f \in Factors :
       /\ xs' = list
       /\ factor' = f
       /\ partials' = [i \in 1..k |-> mod_q(shares[list[i]] * f)]
  /\ pc' = "combine"
  /\ UNCHANGED <<secret, coeffs, shares, out>>

Combine ==
  /\ pc = "combine"
  /\ out' = CombineAt(xs, partials)
  /\ pc' = "done"
  /\ UNCHANGED <<secret, coeffs, shares, factor, xs, partials>>

Init ==
  /\ pc = "split" /\ secret = 0 /\ coeffs = << >> /\ shares = << >>
  /\ factor = 0 /\ xs = << >> /\ partials = << >> /\ out = 0

Next == Split \/ PartialDecrypt \/ Combine

Spec == Init /\ [][Next]_vars
-----------------------------------------------------------------------------
DistinctPoints(list) == \A i, j \in 1..Len(list) : i # j => list[i] # list[j]

(* Any k >= Threshold different holders, in any order, give the product of *)
(* the secret and the public factor back, in the centred range             *)
(* (threshold.h; threshold.c:75-144).                                      *)
CombineRecovers ==
  (pc = "done" /\ DistinctPoints(xs) /\ Len(xs) >= Threshold) =>
    /\ out \in -(Q \div 2)..(Q \div 2)
    /\ (out - secret * factor) % Q = 0

(* Threshold - 1 holders learn nothing of the secret: for every secret     *)
(* there is a choice of the random coefficients that gives them the shares *)
(* they hold (threshold.c:52-54, 84-88).                                   *)
BelowThresholdHides ==
  pc = "ask" =>
    \A P \in {S \in SUBSET Points : Cardinality(S) = Threshold - 1} :
      \A sec \in Secrets : \E r \in [2..Threshold -> Coeffs] :
        LET other == SplitShares(N, Deal(Threshold, sec, r)) IN \A i \in P : other[i] = shares[i]
=============================================================================
