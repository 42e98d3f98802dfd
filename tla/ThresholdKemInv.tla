-------------------------- MODULE ThresholdKemInv --------------------------
(***************************************************************************)
(* The inductive invariants behind the safety properties of ThresholdKem,  *)
(* as conjunctions of named parts.  TLC checks them on small deployments;  *)
(* ThresholdKemProofs proves that every step keeps them.                   *)
(***************************************************************************)
EXTENDS ThresholdKem

(* ---- Types: where the loop indices stand. ----------------------------- *)

DealerActive == DealerPCs \ DealerStopped

DealerBounds ==
  /\ dpc \in DealerActive => epoch # 0
  /\ epoch # 0 => Len(dealerHosts) = NParties
  /\ dtries < DealerTries

CoordBounds ==
  /\ cpc \notin CoordStopped => K <= Len(coordHosts)
  /\ cpc \in {"ek", "z"} => ctries < FileTries /\ ci = 1
  /\ cpc \in {"ek", "z", "probe"} => got = << >>
  /\ cpc = "probe" => ctries < CoordTries /\ ci <= K
  /\ cpc \in {"z", "probe", "open", "trial", "collect", "wait"} => cek # 0
  /\ cpc \in {"collect", "wait"} =>
       ci <= Len(coordHosts) + 1 /\ failed + Len(got) = ci - 1 /\ Len(got) <= K
  /\ cpc = "wait" => ci <= Len(coordHosts) /\ Len(got) < K

TInv == TypeOK /\ DealerBounds /\ CoordBounds

(* ---- Shares: what is on its way, and what the hosts hold. ------------- *)

(* A store request carries point x of the polynomial of some dealer run to *)
(* the host that list position x names.                                    *)
GoodPost(m) ==
  /\ m.x <= Len(dealerHosts) /\ m.to = dealerHosts[m.x]
  /\ m.share.pt = m.x
  /\ m.share.ep <= epoch

GoodPosts ==
  /\ \A m \in posts : GoodPost(m) /\ \A h \in Hosts : m \notin storing[h]
  /\ \A h \in Hosts : \A m, n \in storing[h] : GoodPost(m) /\ m.to = h /\ m = n

(* What the dealer has done so far in this run.                            *)
DealerProgress ==
  /\ dpc \in {"openEk", "writeEk", "openZ", "writeZ", "probe"} =>
       \A i \in Points : dack[i] = "none"
  /\ dpc \in {"post", "await"} => \A i \in di..NParties : dack[i] = "none"
  /\ epoch = 0 => \A i \in Points : dack[i] = "none"
  /\ dpc # "await" => posting = {} /\ ~answered
  /\ dpc = "await" => posting = {[to |-> dealerHosts[di], x |-> di,
                                  share |-> [ep |-> epoch, pt |-> di]]}

(* A request of the current run that no handler has finished is one the    *)
(* dealer has sent and has no 200 for.                                     *)
Unanswered(m) ==
  m.share.ep = epoch =>
    /\ dpc \notin {"openEk", "writeEk", "openZ", "writeZ", "probe"}
    /\ dpc = "post" => m.x < di
    /\ dpc = "await" => m.x <= di /\ (m.x = di => ~answered)
    /\ dack[m.x] # "ok"

PendingUnanswered ==
  /\ \A m \in posts : Unanswered(m)
  /\ \A h \in Hosts : \A m \in storing[h] : Unanswered(m)

(* h holds this share under this x, if it holds one it was given in time.  *)
Holds(h, share, x) ==
  (g_ready[h] /\ storing[h] = {} /\ ~late[h]) => g_share[h] = share /\ g_x[h] = x

AnsweredHeld ==
  Distinct(dealerHosts) =>
    /\ answered => \A m \in posting : Holds(m.to, m.share, m.x)
    /\ \A i \in Points : dack[i] = "ok" =>
         Holds(dealerHosts[i], [ep |-> epoch, pt |-> i], i)

DealInv == GoodPosts /\ DealerProgress /\ PendingUnanswered /\ AnsweredHeld

(* x is the host's place in the dealer's list, the share is point x of the *)
(* polynomial of one of the first e dealer runs.                           *)
GoodShare(e, h, x, share) ==
  /\ x \in 1..Len(dealerHosts) /\ dealerHosts[x] = h
  /\ share.pt = x /\ share.ep \in 1..e

SharesBound ==
  \A h \in Hosts : (g_ready[h] /\ storing[h] = {}) => GoodShare(epoch, h, g_x[h], g_share[h])

SeenOwn ==
  \A h \in Hosts : \A s \in seen[h] :
    s.pt <= Len(dealerHosts) /\ dealerHosts[s.pt] = h

(* A request that is still on its way has reached nobody; what reached a   *)
(* host in this dealer run is what the loop over hosts has sent so far.    *)
SentOnce ==
  /\ \A m \in posts : m.share \notin seen[m.to]
  /\ \A h \in Hosts : \A s \in seen[h] :
       /\ s.ep <= epoch
       /\ s.ep = epoch =>
            /\ dpc \notin {"openEk", "writeEk", "openZ", "writeZ", "probe"}
            /\ dpc = "post" => s.pt < di
            /\ dpc = "await" => s.pt <= di

(* ---- Trials: what the coordinator collects. --------------------------- *)

RepliesBound ==
  /\ cpc = "wait" => ask = {coordHosts[ci]}
  /\ cpc # "wait" => ask = {} /\ reply = {}
  /\ \A r \in reply : r.code = 200 => \A h \in ask : GoodShare(epoch, h, r.x, r.share)

GoodPartial(e, p) ==
  p.at <= Len(coordHosts) /\ GoodShare(e, coordHosts[p.at], p.x, p.share)

(* The partials of a trial come from places further and further down the   *)
(* host list.                                                              *)
Collected(e, partials) ==
  /\ \A i \in 1..Len(partials) : GoodPartial(e, partials[i])
  /\ \A i, j \in 1..Len(partials) : i < j => partials[i].at < partials[j].at

GoodRow(e, r) ==
  /\ Collected(e, r.used)
  /\ r.ek <= e
  /\ Len(r.used) <= K
  /\ Len(r.used) < K => r.failed + Len(r.used) = Len(coordHosts)
  /\ (Len(r.used) = K /\ Recovers(r.used, r.ek)) => r.kem /\ r.aes

TrialInv ==
  /\ RepliesBound
  /\ Collected(epoch, got)
  /\ \A i \in 1..Len(got) : got[i].at < ci
  /\ \A i \in 1..Len(rows) : GoodRow(epoch, rows[i])
  /\ ekFile <= epoch /\ cek <= epoch

(* ---- Key files: which epoch they are of. ------------------------------ *)

FilesInv ==
  /\ dpc = "writeEk" => ekFile = 0
  /\ dpc = "writeZ" => zFile = 0
  /\ dpc \in {"openZ", "writeZ", "probe", "post", "await", "exit0"} => ekFile \in {0, epoch}
  /\ dpc \in {"probe", "post", "await", "exit0"} => zFile \in {0, epoch}
  /\ cepoch <= epoch
  /\ cpc = "off" => cek = 0
  /\ (cpc # "off" /\ cepoch = epoch) =>
       /\ dpc \in {"exit0", "exit1"}
       /\ {ekFile, zFile, cek, cz} \subseteq {0, epoch}

ProtocolInv ==
  TInv /\ DealInv /\ SharesBound /\ SeenOwn /\ SentOnce /\ TrialInv /\ FilesInv
=============================================================================
