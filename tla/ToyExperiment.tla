--------------------------- MODULE ToyExperiment ---------------------------
(***************************************************************************)
(* main.c: the prototype in one process.  It generates and splits a secret *)
(* vector, then runs trials with the first Threshold shares.               *)
(***************************************************************************)
EXTENDS ToyScheme

CONSTANT ExperimentTrials  \* 200

VARIABLES
  xpc,      \* "keygen", "trials", "done", "crashed"
  xsecret,  \* s
  xshares,  \* shares[i]
  xrows     \* the lines of results.csv

xVars == <<xpc, xsecret, xshares, xrows>>

XIdle == xsecret = << >> /\ xshares = << >> /\ xrows = << >>

XInit == xpc = "keygen" /\ XIdle

(* fopen, whose failure nobody looks at; then the key and its split.       *)
XKeygen ==
  /\ xpc = "keygen"
  /\ \/ xpc' = "crashed" /\ UNCHANGED <<xsecret, xshares>>
     \/ /\ xpc' = "trials"
        /\ \E s \in Secrets, r \in Sharings :
             /\ xsecret' = s
             /\ xshares' = SplitVector(s, r)
  /\ UNCHANGED xrows

XTrial ==
  /\ xpc = "trials" /\ Len(xrows) < ExperimentTrials
  /\ \E u \in Us, noise \in NoiseValues :
       LET v == EncryptV(xsecret, u, noise)
           partials == [i \in 1..Threshold |-> [x |-> i, y |-> PartialDot(xshares[i], u)]]
           recovered == Recovered(v, partials)
       IN  xrows' = Append(xrows, [noise |-> noise, recovered |-> recovered,
                                   success |-> recovered = message])
  /\ UNCHANGED <<xpc, xsecret, xshares>>

XDone ==
  /\ xpc = "trials" /\ Len(xrows) = ExperimentTrials
  /\ xpc' = "done"
  /\ UNCHANGED <<xsecret, xshares, xrows>>

XNext == XKeygen \/ XTrial \/ XDone

XSpec == XInit /\ [][XNext]_xVars
-----------------------------------------------------------------------------
(* The shares cancel the product of secret and ciphertext: what a trial    *)
(* writes is the message with its noise, so that it succeeds exactly when  *)
(* the noise drawn was zero (main.c:55-63).                                *)
ExperimentRecovers ==
  \A i \in 1..Len(xrows) :
    /\ xrows[i].recovered = (message + xrows[i].noise) % Q
    /\ xrows[i].success <=> xrows[i].noise = 0
=============================================================================
