--------------------------- MODULE ToyDeployment ---------------------------
(***************************************************************************)
(* The prototype in containers (shamir-docker): a dealer that posts a      *)
(* share vector to each host, shareholders that keep one in memory, and a  *)
(* coordinator that runs trials.  The compose file only orders the starts: *)
(* trials may run before, while and after the shares are dealt, and        *)
(* `docker compose run coordinator` starts a dealer that has exited again. *)
(* The coordinator is any one of those that run: they ask the hosts, which *)
(* /partial_decrypt leaves as they are, and have only the results file in  *)
(* common, of which rows is what this one printed.                         *)
(***************************************************************************)
EXTENDS ToyScheme, FiniteSets

CONSTANTS
  HostList,      \* SHAREHOLDER_HOSTS of the dealer
  UseLists,      \* what USE_HOSTS may be when a coordinator is started
  Ks,            \* what THRESHOLD may be in its environment
  NTrials,       \* N_TRIALS
  LateHosts,     \* bound: hosts that do not listen from the start
  MaxDealings,   \* bound: how often the dealer is started
  MaxRuns,       \* bound: how often the coordinator is started
  MaxDeaths      \* bound: how many containers die

Hosts == {HostList[i] : i \in 1..Len(HostList)}

(* The dealer checks the length of its list, nothing checks USE_HOSTS, in  *)
(* which a name may be unknown or come twice, and the environment's        *)
(* THRESHOLD may be any number.                                            *)
ASSUME ToyDeploymentAssumption ==
  /\ HostList \in Seq(STRING) /\ Len(HostList) = NParties
  /\ UseLists \subseteq Seq(STRING) /\ Ks \subseteq Int
  /\ LateHosts \subseteq Hosts
  /\ NTrials \in Nat /\ MaxDealings \in Nat /\ MaxRuns \in Nat /\ MaxDeaths \in Nat

VARIABLES
  dpc, di,     \* the dealer: where it is, and i + 1 of the loop over hosts
  dealings,    \* the secret and the shares of every run (history but the last)
  posts,       \* store requests under way, those the dealer gave up included
  up,          \* up[h]: the server listens
  stored,      \* stored[h]: g_x and g_share_vec, {} while g_ready is 0
  deaths,
  cpc, ci,     \* the coordinator: where it is, and i + 1 of its loops
  runs,
  k, hosts,    \* its environment: how many partials it needs, and from whom
  trial, total_success,
  ct,          \* u, v and the noise of the current trial
  partials,    \* partials[], and (history) of which dealing and which place
  rows,        \* the lines this run printed
  skipped      \* history: how many hosts failed in each trial skipped

dealerVars == <<dpc, di, dealings>>
hostVars   == <<up, stored, deaths>>
coordVars  ==
  <<cpc, ci, runs, k, hosts, trial, total_success, ct, partials, rows, skipped>>
toyVars    == <<dealerVars, hostVars, coordVars, posts>>

Stopped == {"off", "exit0", "exit1", "overrun"}

ToyIdle ==
  /\ di = 1 /\ dealings = << >> /\ posts = {}
  /\ up = [h \in Hosts |-> h \notin LateHosts] /\ stored = [h \in Hosts |-> {}] /\ deaths = 0
  /\ cpc = "off" /\ ci = 1 /\ runs = 0 /\ k = 0 /\ hosts = << >> /\ trial = 0 /\ total_success = 0
  /\ ct = << >> /\ partials = << >> /\ rows = << >> /\ skipped = << >>

ToyInit == dpc = "off" /\ ToyIdle

-----------------------------------------------------------------------------
(* dealer.c.                                                               *)

ToyDealerStart ==
  /\ dpc \in Stopped /\ Len(dealings) < MaxDealings
  /\ dpc' = "probe" /\ di' = 1
  /\ \E s \in Secrets, r \in Sharings :
       dealings' = Append(dealings, [secret |-> s, shares |-> SplitVector(s, r)])
  /\ UNCHANGED <<posts, hostVars, coordVars>>

(* wait_healthy for every host: HEADs, which no server answers with 200,   *)
(* so that all the tries are used up.                                      *)
ToyDealerProbe ==
  /\ dpc = "probe" /\ dpc' = "post"
  /\ UNCHANGED <<di, dealings, posts, hostVars, coordVars>>

(* The share of party i with x = i + 1 is posted to hosts[i], nowhere when *)
(* nobody listens there.  http_post returns after at most 5 s, whether the *)
(* request was served, lost or is still under way, and main() goes on.     *)
ToyDealerPost ==
  /\ dpc = "post"
  /\ LET e == Len(dealings)
         m == [to |-> HostList[di], x |-> di, of |-> e, ys |-> dealings[e].shares[di]]
     IN  posts' = IF up[m.to] THEN posts \cup {m} ELSE posts
  /\ IF di < NParties THEN di' = di + 1 /\ UNCHANGED dpc
                      ELSE di' = 1 /\ dpc' = "exit0"
  /\ UNCHANGED <<dealings, hostVars, coordVars>>

-----------------------------------------------------------------------------
(* shareholder.c: its handlers run one at a time, on one thread.           *)

ToyListen(h) ==
  /\ ~up[h]
  /\ up' = [up EXCEPT ![h] = TRUE]
  /\ UNCHANGED <<dealerVars, posts, stored, deaths, coordVars>>

(* /store_shares.                                                          *)
ToyStore(h) ==
  /\ up[h]
  /\ \E m \in posts :
       /\ m.to = h
       /\ stored' = [stored EXCEPT ![h] = {[x |-> m.x, ys |-> m.ys, of |-> m.of]}]
       /\ posts' = posts \ {m}
  /\ UNCHANGED <<dealerVars, up, deaths, coordVars>>

(* The container dies, with its share and the requests at it; restart: no  *)
(* keeps it down until compose is asked to run a service again.            *)
ToyDie(h) ==
  /\ up[h] /\ deaths < MaxDeaths
  /\ deaths' = deaths + 1
  /\ up' = [up EXCEPT ![h] = FALSE]
  /\ stored' = [stored EXCEPT ![h] = {}]
  /\ posts' = {m \in posts : m.to # h}
  /\ UNCHANGED <<dealerVars, coordVars>>

-----------------------------------------------------------------------------
(* coordinator.c.                                                          *)

(* depends_on: [dealer], which orders the starts and no more.              *)
ToyCoordStart ==
  /\ cpc \in Stopped /\ runs < MaxRuns /\ dpc # "off"
  /\ runs' = runs + 1
  /\ k' \in Ks /\ hosts' \in UseLists
  /\ cpc' = IF Len(hosts') < k' THEN "exit1" ELSE "probe"
  /\ ci' = 1 /\ trial' = 0 /\ total_success' = 0
  /\ partials' = << >> /\ rows' = << >> /\ skipped' = << >>
  /\ UNCHANGED <<ct, dealerVars, posts, hostVars>>

(* wait_for_shares for the first k hosts, HEADs again.                     *)
ToyCoordProbe ==
  /\ cpc = "probe" /\ cpc' = "open"
  /\ UNCHANGED <<ci, runs, k, hosts, trial, total_success, ct, partials, rows, skipped,
                 dealerVars, posts, hostVars>>

ToyCoordOpen ==
  /\ cpc = "open" /\ cpc' \in {"trial", "exit1"}
  /\ UNCHANGED <<ci, runs, k, hosts, trial, total_success, ct, partials, rows, skipped,
                 dealerVars, posts, hostVars>>

(* encrypt() under s_zero: v has no part of the dealt secret in it.        *)
ToyEncrypt ==
  /\ cpc = "trial"
  /\ IF trial < NTrials
     THEN /\ cpc' = "collect"
          /\ \E u \in Us, noise \in NoiseValues :
               ct' = [u |-> u, noise |-> noise,
                      v |-> EncryptV([d \in 1..VectorDim |-> 0], u, noise)]
     ELSE cpc' = "exit0" /\ UNCHANGED ct
  /\ ci' = 1 /\ partials' = << >>
  /\ UNCHANGED <<runs, k, hosts, trial, total_success, rows, skipped, dealerVars, posts, hostVars>>

(* Mutant of ToyCollecting: only the hosts that were probed are asked.     *)
CollectingFirstK == ci <= k /\ Len(partials) < k

ToyCollecting == ci <= Len(hosts) /\ Len(partials) < k

(* What the host in place ci holds at that moment, nothing when nobody     *)
(* listens under that name.                                                *)
Answering == IF hosts[ci] \in Hosts /\ up[hosts[ci]] THEN stored[hosts[ci]] ELSE {}

(* It answers /partial_decrypt.                                            *)
ToyTake ==
  /\ cpc = "collect" /\ ToyCollecting /\ Len(partials) < Threshold
  /\ \E share \in Answering :
       partials' = Append(partials, [x |-> share.x, y |-> PartialDot(share.ys, ct.u),
                                     of |-> share.of, at |-> ci])
  /\ ci' = ci + 1
  /\ UNCHANGED <<cpc, runs, k, hosts, trial, total_success, ct, rows, skipped,
                 dealerVars, posts, hostVars>>

(* A k above the compiled THRESHOLD: the answer is written behind the end  *)
(* of partials[THRESHOLD][2], and nothing can be said of the run any more. *)
ToyOverrun ==
  /\ cpc = "collect" /\ ToyCollecting /\ Len(partials) >= Threshold
  /\ Answering # {}
  /\ cpc' = "overrun"
  /\ UNCHANGED <<ci, runs, k, hosts, trial, total_success, ct, partials, rows, skipped,
                 dealerVars, posts, hostVars>>

(* Refused, reset, timed out, or a 409.                                    *)
ToyPass ==
  /\ cpc = "collect" /\ ToyCollecting
  /\ ci' = ci + 1
  /\ UNCHANGED <<cpc, runs, k, hosts, trial, total_success, ct, partials, rows, skipped,
                 dealerVars, posts, hostVars>>

(* continue: no row for this trial.                                        *)
ToySkip ==
  /\ cpc = "collect" /\ ~ToyCollecting /\ Len(partials) < k
  /\ skipped' = Append(skipped, ci - 1 - Len(partials))
  /\ trial' = trial + 1 /\ cpc' = "trial"
  /\ UNCHANGED <<ci, runs, k, hosts, total_success, ct, partials, rows,
                 dealerVars, posts, hostVars>>

ToyRow ==
  /\ cpc = "collect" /\ ~ToyCollecting /\ Len(partials) >= k
  /\ LET recovered == Recovered(ct.v, partials) IN
       /\ rows' = Append(rows, [noise |-> ct.noise, recovered |-> recovered,
                                u |-> ct.u, used |-> partials])
       /\ total_success' = total_success + (IF recovered = message THEN 1 ELSE 0)
  /\ trial' = trial + 1 /\ cpc' = "trial"
  /\ UNCHANGED <<ci, runs, k, hosts, ct, partials, skipped,
                 dealerVars, posts, hostVars>>

ToyNext ==
  \/ ToyDealerStart \/ ToyDealerProbe \/ ToyDealerPost
  \/ \E h \in Hosts : ToyListen(h) \/ ToyStore(h) \/ ToyDie(h)
  \/ ToyCoordStart \/ ToyCoordProbe \/ ToyCoordOpen \/ ToyEncrypt
  \/ ToyTake \/ ToyOverrun \/ ToyPass \/ ToySkip \/ ToyRow

ToySpec == ToyInit /\ [][ToyNext]_toyVars
-----------------------------------------------------------------------------
(* What a trial measures: with Threshold partials of one dealing at        *)
(* different points, whichever hosts answered and whatever died or arrived *)
(* late meanwhile, the row holds the message with its noise less the       *)
(* product of that dealing's secret and u, a product that no part of v     *)
(* cancels (coordinator.c:160-166, 206).                                   *)
Complete(ps) ==
  /\ Len(ps) = Threshold
  /\ \A i, j \in 1..Len(ps) : i # j => ps[i].x # ps[j].x

RowHoldsProduct ==
  \A i \in 1..Len(rows) :
    Complete(rows[i].used) =>
      \A e \in {rows[i].used[j].of : j \in 1..Threshold} :
        (\A j \in 1..Threshold : rows[i].used[j].of = e) =>
          rows[i].recovered =
            (message + rows[i].noise - Dot(dealings[e].secret, rows[i].u)) % Q

(* The partials come from different places of the list, in its order, each *)
(* at the point that was dealt to the host of that name.                   *)
FromPlaces(ps) ==
  /\ \A j \in 1..Len(ps) :
       ps[j].at \in 1..Len(hosts) /\ hosts[ps[j].at] = HostList[ps[j].x]
  /\ \A i, j \in 1..Len(ps) : i < j => ps[i].at < ps[j].at

(* Every trial is a row or was skipped, a skipped one had more failures    *)
(* than there are hosts to spare, a row used the answers of k places of    *)
(* the list, and the closing line counts the rows that gave the message,   *)
(* with any list of names, repeated ones included, and any k.              *)
TrialsAccounted ==
  cpc \in {"trial", "collect", "exit0"} =>
    /\ trial = Len(rows) + Len(skipped)
    /\ cpc = "exit0" => trial = NTrials
    /\ \A i \in 1..Len(skipped) : skipped[i] > Len(hosts) - k
    /\ \A i \in 1..Len(rows) :
         FromPlaces(rows[i].used) /\ Len(rows[i].used) = IF k > 0 THEN k ELSE 0
    /\ total_success = Cardinality({i \in 1..Len(rows) : rows[i].recovered = message})

(* The coordinator mirrors main.c (coordinator.c:8), whose trials write    *)
(* the message with its noise (ToyExperiment!ExperimentRecovers); any 3 of *)
(* the 5 should always work (README.md:54).                                *)
MirrorsOriginal ==
  Len(dealings) = 1 =>
    \A i \in 1..Len(rows) :
      Complete(rows[i].used) => rows[i].recovered = (message + rows[i].noise) % Q
=============================================================================
