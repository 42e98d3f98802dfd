-------------------------------- MODULE Wire --------------------------------
(***************************************************************************)
(* What the three programs of the deployment share: the environment they   *)
(* are configured by, the two files in the bind-mounted data directory,    *)
(* and the HTTP exchanges between them.  Dealer, Shareholder and           *)
(* Coordinator extend this module; ThresholdKem composes them.             *)
(*                                                                         *)
(* A keypair is identified by the number of the dealer run that made it    *)
(* (its "epoch"); a Shamir share by its keypair and its evaluation point.  *)
(***************************************************************************)
EXTENDS Integers, Sequences, FiniteSets

CONSTANTS
  Hosts,             \* the shareholder services (sh1 .. sh5)
  ShareholderHosts,  \* SHAREHOLDER_HOSTS of the dealer, a sequence of hosts
  UseHosts,          \* USE_HOSTS of the coordinator, a sequence of hosts
  NParties,          \* N_PARTIES, compiled in
  Threshold,         \* THRESHOLD, compiled into the dealer
  K,                 \* the coordinator's k, from its THRESHOLD variable
  MaxEpoch           \* bound: how many keypairs the dealer generates

ASSUME HostListAssumption ==
  /\ IsFiniteSet(Hosts)
  /\ ShareholderHosts \in Seq(Hosts)
  /\ UseHosts \in Seq(Hosts)

ASSUME SizeAssumption ==
  /\ NParties \in Nat \ {0}
  /\ Threshold \in Nat \ {0}
  /\ K \in Nat \ {0}
  /\ MaxEpoch \in Nat

(* parse_hosts: the comma-separated list, cut after NParties names.        *)
ParseHosts(csv) ==
  SubSeq(csv, 1, IF Len(csv) < NParties THEN Len(csv) ELSE NParties)

dealerHosts == ParseHosts(ShareholderHosts)
coordHosts  == ParseHosts(UseHosts)

Epochs == 1..MaxEpoch
Points == 1..NParties

(* The contents of a g_share buffer: a share, or bytes that are no share   *)
(* (zero after start, half overwritten while a new share is copied in).    *)
Share == [ep : 0..MaxEpoch, pt : 0..NParties]
Blank == [ep |-> 0, pt |-> 0]

(* POST /store_share {"x": x, "share_hex": share} to one host.             *)
StorePost == [to : Hosts, x : Points, share : [ep : Epochs, pt : Points]]

(* The answer to POST /partial_decrypt: 409, or 200 with x and a partial,  *)
(* which is what the share it was computed from makes it.                  *)
Reply == [code : {200, 409}, x : 0..NParties, share : Share]

(* The health route compares the method with "GET".                        *)
HealthCode(method) == IF method = "GET" THEN 200 ELSE 404

VARIABLES
  up,        \* up[h]: the server of h is listening
  ekFile,    \* epoch of the whole ek.bin, 0 when absent or short
  zFile,     \* epoch of the whole z.bin, 0 when absent or short
  posts,     \* store_share requests sent and not yet taken by a handler
  posting,   \* the request the dealer is blocked on: {} or a singleton
  answered,  \* the request in posting has been answered with 200
  ask,       \* host the coordinator is blocked on: {} or a singleton
  reply      \* the answer on that connection: {} or a singleton

fileVars == <<ekFile, zFile>>
storeVars == <<posts, posting, answered>>
askVars == <<ask, reply>>
wireVars == <<up, fileVars, storeVars, askVars>>

(* Files are absent; a container that is started may not listen yet.       *)
WireInit ==
  /\ up \in [Hosts -> BOOLEAN]
  /\ ekFile = 0 /\ zFile = 0
  /\ posts = {} /\ posting = {} /\ answered = FALSE
  /\ ask = {} /\ reply = {}

WireTypeOK ==
  /\ up \in [Hosts -> BOOLEAN]
  /\ ekFile \in 0..MaxEpoch
  /\ zFile \in 0..MaxEpoch
  /\ posts \subseteq StorePost
  /\ posting \subseteq StorePost
  /\ answered \in BOOLEAN
  /\ ask \subseteq Hosts
  /\ reply \subseteq Reply
=============================================================================
