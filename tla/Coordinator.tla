---------------------------- MODULE Coordinator ----------------------------
(***************************************************************************)
(* src/coordinator.c: load ek and z, probe k hosts, then run trials: each  *)
(* encapsulates to ek, asks the hosts one after the other for a partial    *)
(* decryption until k have answered, finishes the decapsulation, tries the *)
(* two keys on an AES-GCM message and writes one row to the results file.  *)
(* This is one of the coordinators of a deployment; what those beside it   *)
(* do to that file is in ResultsFile.                                      *)
(***************************************************************************)
EXTENDS Wire, ResultsFile

CONSTANTS
  FileTries,   \* wait_for_file opens a file this often (120)
  CoordTries,  \* wait_healthy probes a host this often (60)
  MaxCoordRuns \* bound: how often this coordinator is started

ASSUME CoordAssumption ==
  /\ FileTries \in Nat \ {0}
  /\ CoordTries \in Nat \ {0}
  /\ MaxCoordRuns \in Nat

VARIABLES
  cpc,     \* where main() is
  cruns,   \* how often it was started
  cepoch,  \* history: the dealer's epoch when this run started
  cek,     \* the ek it holds, 0 before it is read
  cz,      \* the z it holds, 0 before it is read
  ci,      \* i + 1 of the current loop over hosts
  ctries,  \* failed tries of the current wait
  got,     \* partials[] and xs[] collected so far in this trial
  failed,  \* history: hosts passed over by `continue` in this trial
  rows     \* the rows this run printed to its stream

coordVars == <<cpc, cruns, cepoch, cek, cz, ci, ctries, got, failed, rows>>

CoordStopped == {"off", "exit0", "exit1"}
CoordPCs == CoordStopped \cup
  {"ek", "z", "probe", "open", "trial", "collect", "wait"}

(* A collected partial: the x it came with, the share it was computed      *)
(* from, and (history) the place in the host list it was asked at.         *)
Partial == [x : 0..NParties, share : Share, at : Points]

(* A row: the two flags, and (history) what the trial was decided on.      *)
Row == [kem : BOOLEAN, aes : BOOLEAN, ek : Epochs,
        used : Seq(Partial), failed : 0..NParties]

CoordInit ==
  /\ cpc = "off" /\ cruns = 0 /\ cepoch = 0
  /\ cek = 0 /\ cz = 0
  /\ ci = 1 /\ ctries = 0
  /\ got = << >> /\ failed = 0
  /\ rows = << >>

CoordTypeOK ==
  /\ cpc \in CoordPCs
  /\ cruns \in 0..MaxCoordRuns
  /\ cepoch \in 0..MaxEpoch
  /\ cek \in 0..MaxEpoch
  /\ cz \in 0..MaxEpoch
  /\ ci \in 1..(NParties + 1)
  /\ ctries \in 0..(FileTries + CoordTries)
  /\ got \in Seq(Partial)
  /\ failed \in 0..NParties
  /\ rows \in Seq(Row)

(* A new process of this coordinator; with fewer hosts than k it exits 1.  *)
CoordStart(now) ==
  /\ cpc \in CoordStopped
  /\ cruns < MaxCoordRuns
  /\ cruns' = cruns + 1
  /\ cpc' = IF Len(coordHosts) < K THEN "exit1" ELSE "ek"
  /\ cepoch' = now
  /\ cek' = 0 /\ cz' = 0 /\ ci' = 1 /\ ctries' = 0
  /\ got' = << >> /\ failed' = 0
  /\ UNCHANGED <<rows, wireVars, resultsVars>>

(* One round of wait_for_file(ek): any file of the right length will do.   *)
CoordReadEk ==
  /\ cpc = "ek"
  /\ IF ekFile # 0
     THEN cek' = ekFile /\ ctries' = 0 /\ cpc' = "z"
     ELSE /\ ctries' = ctries + 1
          /\ cpc' = IF ctries + 1 = FileTries THEN "exit1" ELSE cpc
          /\ UNCHANGED cek
  /\ UNCHANGED <<cruns, cepoch, cz, ci, got, failed, rows, wireVars, resultsVars>>

CoordReadZ ==
  /\ cpc = "z"
  /\ IF zFile # 0
     THEN cz' = zFile /\ ctries' = 0 /\ cpc' = "probe"
     ELSE /\ ctries' = ctries + 1
          /\ cpc' = IF ctries + 1 = FileTries THEN "exit1" ELSE cpc
          /\ UNCHANGED cz
  /\ UNCHANGED <<cruns, cepoch, cek, ci, got, failed, rows, wireVars, resultsVars>>

(* One round of wait_healthy on the first k hosts; giving up is silent.    *)
CoordProbe ==
  /\ cpc = "probe"
  /\ LET healthy == up[coordHosts[ci]] /\ HealthCode("HEAD") = 200
     IN IF healthy \/ ctries + 1 = CoordTries
        THEN /\ ctries' = 0
             /\ ci' = IF ci < K THEN ci + 1 ELSE 1
             /\ cpc' = IF ci < K THEN "probe" ELSE "open"
        ELSE /\ ctries' = ctries + 1
             /\ UNCHANGED <<ci, cpc>>
  /\ UNCHANGED <<cruns, cepoch, cek, cz, got, failed, rows, wireVars, resultsVars>>

(* Mutant of CoordOpen: the old contents stay until they are overwritten.  *)
OpenKeepsRows ==
  /\ cpc = "open"
  /\ \/ /\ rows' = << >> /\ flushed' = 0 /\ disturbed' = FALSE
        /\ cpc' = "trial" /\ UNCHANGED <<results, others>>
     \/ cpc' = "exit1" /\ UNCHANGED <<rows, resultsVars>>
  /\ UNCHANGED <<cruns, cepoch, cek, cz, ci, ctries, got, failed, wireVars>>

(* fopen(outfile, "w") empties the results file, or ends the run.          *)
CoordOpen ==
  /\ cpc = "open"
  /\ \/ rows' = << >> /\ Truncate /\ cpc' = "trial"
     \/ cpc' = "exit1" /\ UNCHANGED <<rows, resultsVars>>
  /\ UNCHANGED <<cruns, cepoch, cek, cz, ci, ctries, got, failed, wireVars>>

(* The next trial's Encaps under ek.                                       *)
CoordEncaps ==
  /\ cpc = "trial" /\ Len(rows) < NTrials
  /\ cpc' = "collect"
  /\ ci' = 1 /\ got' = << >> /\ failed' = 0
  /\ UNCHANGED <<cruns, cepoch, cek, cz, ctries, rows, wireVars, resultsVars>>

(* After the last trial: fclose writes what is still buffered, and nobody  *)
(* notices when it cannot.                                                 *)
CoordClose ==
  /\ cpc = "trial" /\ Len(rows) >= NTrials
  /\ Flush(cruns, Len(rows))
  /\ cpc' = "exit0"
  /\ UNCHANGED <<cruns, cepoch, cek, cz, ci, ctries, got, failed, rows, wireVars>>

(* Mutant of Collecting: the first host that fails ends the collection.    *)
CollectingUntilFailure == ci <= Len(coordHosts) /\ Len(got) < K /\ failed = 0

Collecting == ci <= Len(coordHosts) /\ Len(got) < K

(* POST /partial_decrypt to host i.                                        *)
CoordAsk ==
  /\ cpc = "collect" /\ Collecting
  /\ ask' = {coordHosts[ci]} /\ reply' = {}
  /\ cpc' = "wait"
  /\ UNCHANGED <<cruns, cepoch, cek, cz, ci, ctries, got, failed, rows,
                 up, fileVars, storeVars, resultsVars>>

(* Mutant of CoordTake: the same host is asked again.                      *)
TakeKeepsHost ==
  /\ cpc = "wait"
  /\ \E r \in reply :
       /\ r.code = 200
       /\ got' = Append(got, [x |-> r.x, share |-> r.share, at |-> ci])
  /\ cpc' = "collect"
  /\ ask' = {} /\ reply' = {}
  /\ UNCHANGED <<cruns, cepoch, cek, cz, ci, ctries, failed, rows, up, fileVars, storeVars, resultsVars>>

(* A 200 arrived: its x and partial are the next collected ones.           *)
CoordTake ==
  /\ cpc = "wait"
  /\ \E r \in reply :
       /\ r.code = 200
       /\ got' = Append(got, [x |-> r.x, share |-> r.share, at |-> ci])
  /\ ci' = ci + 1
  /\ cpc' = "collect"
  /\ ask' = {} /\ reply' = {}
  /\ UNCHANGED <<cruns, cepoch, cek, cz, ctries, failed, rows, up, fileVars, storeVars, resultsVars>>

(* Mutant of CoordSkip: without a timeout only another code is a failure.  *)
SkipOnlyOnCode ==
  /\ cpc = "wait" /\ \E r \in reply : r.code # 200
  /\ ci' = ci + 1 /\ failed' = failed + 1
  /\ cpc' = "collect"
  /\ ask' = {} /\ reply' = {}
  /\ UNCHANGED <<cruns, cepoch, cek, cz, ctries, got, rows, up, fileVars, storeVars, resultsVars>>

(* Refused, reset, timed out after 5 s, or answered with another code.     *)
CoordSkip ==
  /\ cpc = "wait"
  /\ ci' = ci + 1 /\ failed' = failed + 1
  /\ cpc' = "collect"
  /\ ask' = {} /\ reply' = {}
  /\ UNCHANGED <<cruns, cepoch, cek, cz, ctries, got, rows, up, fileVars, storeVars, resultsVars>>

(* threshold_combine returns m' exactly when the k partials are values at  *)
(* k different points of one polynomial of degree < Threshold <= k, that   *)
(* of the secret ek belongs to.                                            *)
Recovers(partials, ek) ==
  /\ K >= Threshold
  /\ \A i \in 1..Len(partials) : /\ partials[i].share.ep = ek
                                 /\ partials[i].x = partials[i].share.pt
  /\ \A i, j \in 1..Len(partials) : i # j => partials[i].x # partials[j].x

(* kyber_decaps_from_m: the encapsulated key when re-encryption of m'      *)
(* gives ct, else J(z, ct).                                                *)
ThresholdDecaps(partials, ek, z) ==
  IF Recovers(partials, ek) THEN [kind |-> "shared", of |-> ek]
                            ELSE [kind |-> "rejection", of |-> z]

ZeroKey == [kind |-> "zero", of |-> 0]

(* Decapsulate if k answered, compare the keys, decrypt the AES message    *)
(* with the receiver's key (the tag fails under any other), print the row, *)
(* which fills a buffer that is written from time to time.                 *)
CoordFinish ==
  /\ cpc = "collect" /\ ~Collecting
  /\ LET full == Len(got) = K
         ss_enc == [kind |-> "shared", of |-> cek]
         ss_dec == IF full THEN ThresholdDecaps(got, cek, cz) ELSE ZeroKey
     IN rows' = Append(rows, [kem |-> full /\ ss_dec = ss_enc,
                              aes |-> ss_dec = ss_enc,
                              ek |-> cek, used |-> got, failed |-> failed])
  /\ Flush(cruns, Len(rows) + 1)
  /\ cpc' = "trial"
  /\ UNCHANGED <<cruns, cepoch, cek, cz, ci, ctries, got, failed, wireVars>>

(* The steps a started coordinator takes by itself.                        *)
CoordRun ==
  \/ CoordReadEk \/ CoordReadZ \/ CoordProbe \/ CoordOpen
  \/ CoordEncaps \/ CoordAsk \/ CoordTake \/ CoordSkip \/ CoordFinish \/ CoordClose
=============================================================================
