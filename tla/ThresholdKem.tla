---------------------------- MODULE ThresholdKem ----------------------------
(***************************************************************************)
(* The deployment of docker-compose.yml: one dealer run at a time, the     *)
(* shareholders, a coordinator, and the coordinators beside it that write  *)
(* the same results file, interleaved.  Coordinators are gated on the      *)
(* dealer's exit code; nothing keeps a dealer that is started again from   *)
(* running beside one of them.                                             *)
(***************************************************************************)
EXTENDS Dealer, Shareholder, Coordinator

vars == <<wireVars, dealerVars, shareholderVars, coordVars, resultsVars>>

Init == WireInit /\ DealerInit /\ ShareholderInit /\ CoordInit /\ ResultsInit

(* depends_on: dealer: condition: service_completed_successfully           *)
Gate == dpc = "exit0"

GatedStart == Gate /\ CoordStart(epoch)

DealerStep ==
  DealerNext /\ UNCHANGED <<shareholderVars, coordVars, resultsVars>>
ShareholderStep ==
  ShareholderNext /\ UNCHANGED <<dealerVars, coordVars, resultsVars>>
CoordStep ==
  (GatedStart \/ CoordRun) /\ UNCHANGED <<dealerVars, shareholderVars>>

(* `docker compose run --rm coordinator` starts a coordinator whether one  *)
(* runs or not.                                                            *)
BesideStep ==
  /\ \E b \in Beside : (Gate /\ OtherStart(b)) \/ OtherRun(b)
  /\ UNCHANGED <<wireVars, dealerVars, shareholderVars, coordVars>>

Next == DealerStep \/ ShareholderStep \/ CoordStep \/ BesideStep

Spec == Init /\ [][Next]_vars

(* Both programs are loops whose every wait is bounded by a timeout, so    *)
(* each goes on by itself.  Nothing is assumed of the shareholders or of   *)
(* the network.                                                            *)
Fairness ==
  /\ WF_vars(DealerRun /\ UNCHANGED <<shareholderVars, coordVars, resultsVars>>)
  /\ WF_vars(CoordRun /\ UNCHANGED <<dealerVars, shareholderVars>>)

FairSpec == Spec /\ Fairness
-----------------------------------------------------------------------------
(* Every variable of the three programs and of the wire has its type.      *)
TypeOK ==
  WireTypeOK /\ DealerTypeOK /\ ShareholderTypeOK /\ CoordTypeOK /\ ResultsTypeOK

Distinct(list) == \A i, j \in 1..Len(list) : i # j => list[i] # list[j]

(* The hosts of the deployment are named once each.                        *)
HostsDistinct == Distinct(dealerHosts) /\ Distinct(coordHosts)

(* A trial that is over and failed to recover the encapsulated key.        *)
FailedRows == {i \in 1..Len(rows) : ~rows[i].kem}

(* A 200 the dealer got for share i means that the host holds that share   *)
(* and answers with its x, until the container dies, the next dealer run   *)
(* starts, or a request its dealer had given up overwrites the share.      *)
AckedShareHeld ==
  Distinct(dealerHosts) =>
    \A i \in Points :
      LET h == dealerHosts[i] IN
      (dack[i] = "ok" /\ g_ready[h] /\ storing[h] = {} /\ ~late[h])
         => g_share[h] = [ep |-> epoch, pt |-> i] /\ g_x[h] = i

(* A partial decryption is computed from a whole share that belongs to the *)
(* x sent along with it, never from a buffer a new share is half copied    *)
(* into: the handlers of one shareholder do not overlap.                   *)
WholePartial ==
  \A r \in reply : r.code = 200 => r.share # Blank /\ r.x = r.share.pt

(* With one keypair ever dealt, lost shares, crashes, timeouts and killed  *)
(* dealers can only leave a trial short of k answers: whenever k hosts     *)
(* answer, whichever they are, the trial recovers the key.                 *)
SingleDealingRecovers ==
  (epoch = 1 /\ HostsDistinct /\ K >= Threshold) =>
    \A i \in 1..Len(rows) : Len(rows[i].used) = K => rows[i].kem /\ rows[i].aes

(* A failed trial was either short, and then more hosts failed than the    *)
(* deployment has to spare, or it combined a share of another keypair than *)
(* that of the coordinator's ek.                                           *)
FailedTrialExplained ==
  (HostsDistinct /\ K >= Threshold) =>
    \A i \in FailedRows :
      IF Len(rows[i].used) < K
      THEN rows[i].failed > Len(coordHosts) - K
      ELSE \E j \in 1..K : rows[i].used[j].share.ep # rows[i].ek

(* The coordinator holds the ek and the z of the same keypair, the last    *)
(* one dealt, unless the dealer was started again meanwhile: the compose   *)
(* gate, the truncating fopen and the dealer's exit codes see to it.       *)
KeyFilesMatch ==
  (cek # 0 /\ cz # 0 /\ epoch = cepoch) => cek = epoch /\ cz = epoch

(* Fewer than Threshold shareholders never learn Threshold points of one   *)
(* polynomial, over all dealer runs and all requests that were delivered.  *)
CoalitionBelowThreshold ==
  Distinct(dealerHosts) =>
    \A S \in SUBSET Hosts : Cardinality(S) < Threshold =>
      \A e \in Epochs :
        Cardinality({s.pt : s \in {t \in UNION {seen[h] : h \in S} : t.ep = e}})
          < Threshold

(* What the results file holds once a run has opened it: rows of that run  *)
(* in their own places, all under its one ek, and no row an earlier run    *)
(* left; and exactly the rows it has flushed, unless another coordinator   *)
(* opened or wrote the file meanwhile.                                     *)
ResultsAsWritten ==
  cpc \in {"trial", "collect", "wait", "exit0"} =>
    /\ \A i \in 1..Len(rows) : rows[i].ek = cek
    /\ flushed <= Len(rows)
    /\ \A i \in 1..Len(results) :
         results[i] = Foreign \/ (results[i] = cruns /\ i <= flushed)
    /\ ~disturbed => results = [i \in 1..flushed |-> cruns]

(* The dealer's closing line says that all shares are distributed; it is   *)
(* printed exactly when it exits 0 (dealer.c:207).                         *)
AllSharesDistributed == dpc = "exit0" => \A i \in Points : dack[i] = "ok"

(* The dealer gives a shareholder up as never healthy only when it is not  *)
(* up (dealer.c:102 and the step comment dealer.c:179).                    *)
WarnsOnlyAboutDown == [][\A h \in dwarned' \ dwarned : ~up[h]]_vars

(* The points threshold_combine is given are distinct, so that every       *)
(* denominator it inverts is nonzero (threshold.c:27-29), as long as no    *)
(* host is named twice: nothing checks USE_HOSTS for that.                 *)
CombinesDistinctPoints ==
  (HostsDistinct /\ cpc = "collect" /\ Len(got) = K) =>
    \A i, j \in 1..K : i # j => got[i].x # got[j].x

(* A dealer that was started exits, whatever the shareholders do.          *)
DealerExits == dpc \notin DealerStopped ~> dpc \in DealerStopped

(* A coordinator that was started exits, whatever happens to the dealer,   *)
(* to the files and to the shareholders.                                   *)
CoordExits == cpc \notin CoordStopped ~> cpc \in CoordStopped
=============================================================================
