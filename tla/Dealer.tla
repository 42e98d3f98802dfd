------------------------------- MODULE Dealer -------------------------------
(***************************************************************************)
(* src/dealer.c: one run of the dealer generates a keypair, splits its     *)
(* secret, publishes ek and z as files, probes the shareholders and posts  *)
(* one share to each.  `docker compose run coordinator` may start it       *)
(* again, with a fresh keypair and the same shareholders.                  *)
(***************************************************************************)
EXTENDS Wire

CONSTANT DealerTries  \* wait_healthy probes a host this often (30)

ASSUME DealerTriesAssumption == DealerTries \in Nat \ {0}

VARIABLES
  dpc,      \* where main() is
  epoch,    \* keypairs generated so far; the current one
  di,       \* i + 1 of the current loop over hosts
  dtries,   \* failed probes of that host
  dack,     \* what http_post returned for each host in this run
  dready,   \* hosts wait_healthy returned on
  dwarned   \* hosts wait_healthy gave up on

dealerVars == <<dpc, epoch, di, dtries, dack, dready, dwarned>>

DealerStopped == {"off", "exit0", "exit1"}
DealerPCs == DealerStopped \cup
  {"openEk", "writeEk", "openZ", "writeZ", "probe", "post", "await"}

DealerInit ==
  /\ dpc = "off" /\ epoch = 0
  /\ di = 1 /\ dtries = 0
  /\ dack = [i \in Points |-> "none"]
  /\ dready = {} /\ dwarned = {}

DealerTypeOK ==
  /\ dpc \in DealerPCs
  /\ epoch \in 0..MaxEpoch
  /\ di \in Points
  /\ dtries \in 0..DealerTries
  /\ dack \in [Points -> {"none", "ok", "failed"}]
  /\ dready \subseteq Hosts
  /\ dwarned \subseteq Hosts

(* A new process: the host list is complete, a keypair is generated and    *)
(* its secret is split.                                                    *)
DealerStart ==
  /\ dpc \in DealerStopped
  /\ Len(dealerHosts) = NParties
  /\ epoch < MaxEpoch
  /\ dpc' = "openEk"
  /\ epoch' = epoch + 1
  /\ di' = 1 /\ dtries' = 0
  /\ dack' = [i \in Points |-> "none"]
  /\ dready' = {} /\ dwarned' = {}
  /\ UNCHANGED wireVars

(* A new process that finds too few hosts, or no entropy, and exits 1.     *)
DealerRefuse ==
  /\ dpc \in DealerStopped
  /\ dpc' = "exit1"
  /\ UNCHANGED <<epoch, di, dtries, dack, dready, dwarned, wireVars>>

(* Mutant of DealerOpen: the old contents stay until they are overwritten. *)
OpenKeepsContents ==
  /\ \/ dpc = "openEk" /\ dpc' = "writeEk"
     \/ dpc = "openZ" /\ dpc' = "writeZ"
     \/ dpc \in {"openEk", "openZ"} /\ dpc' = "exit1"
  /\ UNCHANGED <<epoch, di, dtries, dack, dready, dwarned, wireVars>>

(* fopen(path, "wb") truncates the file, or fails and ends the run.        *)
DealerOpen ==
  /\ \/ /\ dpc = "openEk"
        /\ dpc' = "writeEk" /\ ekFile' = 0 /\ UNCHANGED zFile
     \/ /\ dpc = "openZ"
        /\ dpc' = "writeZ" /\ zFile' = 0 /\ UNCHANGED ekFile
     \/ /\ dpc \in {"openEk", "openZ"}
        /\ dpc' = "exit1" /\ UNCHANGED fileVars
  /\ UNCHANGED <<epoch, di, dtries, dack, dready, dwarned, up, storeVars, askVars>>

(* fwrite and fclose.  A short fwrite ends the run; a flush that fails in  *)
(* fclose goes unnoticed and leaves the file short.                        *)
DealerWrite ==
  /\ \E flushed \in BOOLEAN :
       \/ /\ dpc = "writeEk"
          /\ dpc' = "openZ"
          /\ ekFile' = IF flushed THEN epoch ELSE ekFile
          /\ UNCHANGED zFile
       \/ /\ dpc = "writeZ"
          /\ dpc' = "probe"
          /\ zFile' = IF flushed THEN epoch ELSE zFile
          /\ UNCHANGED ekFile
       \/ /\ dpc \in {"writeEk", "writeZ"}
          /\ ~flushed
          /\ dpc' = "exit1"
          /\ UNCHANGED fileVars
  /\ UNCHANGED <<epoch, di, dtries, dack, dready, dwarned, up, storeVars, askVars>>

(* Mutant of NextHost: the loop runs once more than there are hosts.       *)
NextHostPastEnd(here, done) ==
  IF di <= NParties THEN dpc' = here /\ di' = di + 1
                    ELSE dpc' = done /\ di' = 1

(* The loops over hosts: go on with the next one, or to the next phase.    *)
NextHost(here, done) ==
  IF di < NParties THEN dpc' = here /\ di' = di + 1
                   ELSE dpc' = done /\ di' = 1

(* One round of wait_healthy.  CURLOPT_NOBODY makes the probe a HEAD.      *)
DealerProbe ==
  /\ dpc = "probe"
  /\ LET h == dealerHosts[di]
         healthy == up[h] /\ HealthCode("HEAD") = 200
     IN IF healthy
        THEN /\ dready' = dready \cup {h}
             /\ dtries' = 0
             /\ NextHost("probe", "post")
             /\ UNCHANGED dwarned
        ELSE /\ UNCHANGED dready
             /\ IF dtries + 1 = DealerTries
                THEN /\ dwarned' = dwarned \cup {h}
                     /\ dtries' = 0
                     /\ NextHost("probe", "post")
                ELSE /\ dtries' = dtries + 1
                     /\ UNCHANGED <<dpc, di, dwarned>>
  /\ UNCHANGED <<epoch, dack, wireVars>>

(* Mutants of DealerPost: the x of the next share; the previous host.      *)
PostNextX ==
  /\ dpc = "post"
  /\ LET m == [to |-> dealerHosts[di], x |-> di,
               share |-> [ep |-> epoch, pt |-> IF di < NParties THEN di + 1 ELSE 1]]
     IN posting' = {m} /\ posts' = IF up[m.to] THEN posts \cup {m} ELSE posts
  /\ answered' = FALSE
  /\ dpc' = "await"
  /\ UNCHANGED <<epoch, di, dtries, dack, dready, dwarned, up, fileVars, askVars>>

PostToPreviousHost ==
  /\ dpc = "post"
  /\ LET m == [to |-> dealerHosts[IF di = 1 THEN 1 ELSE di - 1], x |-> di,
               share |-> [ep |-> epoch, pt |-> di]]
     IN posting' = {m} /\ posts' = IF up[m.to] THEN posts \cup {m} ELSE posts
  /\ answered' = FALSE
  /\ dpc' = "await"
  /\ UNCHANGED <<epoch, di, dtries, dack, dready, dwarned, up, fileVars, askVars>>

(* http_post of share i with x = i + 1 to hosts[i].  A host that does not  *)
(* listen refuses the connection: nothing is on its way to it then.        *)
DealerPost ==
  /\ dpc = "post"
  /\ LET m == [to |-> dealerHosts[di], x |-> di,
               share |-> [ep |-> epoch, pt |-> di]]
     IN /\ posting' = {m}
        /\ posts' = IF up[m.to] THEN posts \cup {m} ELSE posts
  /\ answered' = FALSE
  /\ dpc' = "await"
  /\ UNCHANGED <<epoch, di, dtries, dack, dready, dwarned, up, fileVars, askVars>>

(* Mutants of DealerReturn: every return counts as a 200; no timeout.      *)
ReturnAlwaysOk ==
  /\ dpc = "await"
  /\ dack' = [dack EXCEPT ![di] = "ok"]
  /\ NextHost("post", "exit0")
  /\ posting' = {} /\ answered' = FALSE
  /\ UNCHANGED <<epoch, dtries, dready, dwarned, up, posts, fileVars, askVars>>

ReturnOnlyAnswered ==
  /\ dpc = "await" /\ answered
  /\ dack' = [dack EXCEPT ![di] = "ok"]
  /\ NextHost("post", "exit0")
  /\ posting' = {} /\ answered' = FALSE
  /\ UNCHANGED <<epoch, dtries, dready, dwarned, up, posts, fileVars, askVars>>

(* http_post returns: 200, or -1 after a refusal, a reset or the 5 s       *)
(* timeout, which can expire while the request or its answer is still      *)
(* travelling.  main() prints the code and goes on in every case.          *)
DealerReturn ==
  /\ dpc = "await"
  /\ \/ answered /\ dack' = [dack EXCEPT ![di] = "ok"]
     \/ dack' = [dack EXCEPT ![di] = "failed"]
  /\ NextHost("post", "exit0")
  /\ posting' = {} /\ answered' = FALSE
  /\ UNCHANGED <<epoch, dtries, dready, dwarned, up, posts, fileVars, askVars>>

(* The container is killed; what it sent stays on its way.                 *)
DealerKill ==
  /\ dpc \notin DealerStopped
  /\ dpc' = "exit1"
  /\ posting' = {} /\ answered' = FALSE
  /\ UNCHANGED <<epoch, di, dtries, dack, dready, dwarned, up, posts, fileVars, askVars>>

(* The steps a started dealer takes by itself.                             *)
DealerRun == DealerOpen \/ DealerWrite \/ DealerProbe \/ DealerPost \/ DealerReturn

DealerNext == DealerStart \/ DealerRefuse \/ DealerRun \/ DealerKill
=============================================================================
