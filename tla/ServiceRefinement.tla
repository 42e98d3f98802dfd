-------------------------- MODULE ServiceRefinement --------------------------
(***************************************************************************)
(* ThresholdKem implements ShareService.  A store takes effect when the    *)
(* handler has its body and begins to overwrite g_share: the one thread of *)
(* the server keeps every read of that buffer away until it is complete.   *)
(***************************************************************************)
EXTENDS ThresholdKemInv

(* The deployment names every host once and combines enough partials.      *)
ASSUME DeploymentAssumption == HostsDistinct /\ K >= Threshold

(* The keypair of the share h will next be able to use, or uses now.       *)
HeldKeypair(h) ==
  IF storing[h] # {} THEN (CHOOSE m \in storing[h] : TRUE).share.ep
  ELSE IF g_ready[h] THEN g_share[h].ep ELSE 0

placedAt == [h \in Hosts |-> {s.ep : s \in seen[h]}]
heldBy   == [h \in Hosts |-> HeldKeypair(h)]

(* ci and got belong to a trial only while hosts are asked.                *)
InTrial == cpc \in {"collect", "wait"}

askedHosts == IF InTrial THEN ci - 1 ELSE 0
lastAnswer == {r.share.ep : r \in {r \in reply : r.code = 200}}
gotAnswers == IF InTrial THEN [i \in 1..Len(got) |-> got[i].share.ep] ELSE << >>
rowResults == [i \in 1..Len(rows) |-> [kem |-> rows[i].kem, aes |-> rows[i].aes]]

Service == INSTANCE ShareService WITH
  Order    <- coordHosts,
  Quorum   <- K,
  Keypairs <- Epochs,
  dealt    <- epoch,
  placed   <- placedAt,
  holds    <- heldBy,
  key      <- cek,
  asked    <- askedHosts,
  answer   <- lastAnswer,
  answers  <- gotAnswers,
  results  <- rowResults

(* Stores, answers and trials happen as if each took one step: a share     *)
(* reaches a host at most once, a host answers with the share it holds at  *)
(* that moment, no host is counted twice in a trial, and a trial recovers  *)
(* the key exactly when k answers are of the keypair it encapsulated to.   *)
ImplementsService == Service!Spec
=============================================================================
