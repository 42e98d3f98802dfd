---------------------------- MODULE Shareholder ----------------------------
(***************************************************************************)
(* src/shareholder.c: an HTTP server whose whole state is four globals.    *)
(* MHD_USE_INTERNAL_POLLING_THREAD gives it one thread, so its handlers    *)
(* run one after the other; storing a share is nevertheless several        *)
(* assignments, and the model keeps the state between them.                *)
(***************************************************************************)
EXTENDS Wire

CONSTANT MaxCrash  \* bound: how often shareholder containers die in all

ASSUME MaxCrashAssumption == MaxCrash \in Nat

VARIABLES
  g_share,  \* g_share[h], Blank when the buffer holds no whole share
  g_x,      \* g_x[h], 0 at start
  g_ready,  \* g_ready[h]
  storing,  \* storing[h]: the request /store_share is working on, or {}
  late,     \* history: the last share h stored came from a request its
            \* dealer had already given up
  seen,     \* history: the shares that ever reached h
  crashes   \* how often a container died

shareholderVars == <<g_share, g_x, g_ready, storing, late, seen, crashes>>

ShareholderInit ==
  /\ g_share = [h \in Hosts |-> Blank]
  /\ g_x = [h \in Hosts |-> 0]
  /\ g_ready = [h \in Hosts |-> FALSE]
  /\ storing = [h \in Hosts |-> {}]
  /\ late = [h \in Hosts |-> FALSE]
  /\ seen = [h \in Hosts |-> {}]
  /\ crashes = 0

ShareholderTypeOK ==
  /\ g_share \in [Hosts -> Share]
  /\ g_x \in [Hosts -> 0..NParties]
  /\ g_ready \in [Hosts -> BOOLEAN]
  /\ storing \in [Hosts -> SUBSET StorePost]
  /\ late \in [Hosts -> BOOLEAN]
  /\ seen \in [Hosts -> SUBSET [ep : Epochs, pt : Points]]
  /\ crashes \in 0..MaxCrash

(* The one thread of h is free to run a handler.                           *)
Idle(h) == up[h] /\ storing[h] = {}

(* /store_share has the whole body and starts to overwrite g_share.        *)
StoreBegin(h) ==
  /\ Idle(h)
  /\ \E m \in posts :
       /\ m.to = h
       /\ posts' = posts \ {m}
       /\ storing' = [storing EXCEPT ![h] = {m}]
       /\ seen' = [seen EXCEPT ![h] = @ \cup {m.share}]
  /\ g_share' = [g_share EXCEPT ![h] = Blank]
  /\ UNCHANGED <<g_x, g_ready, late, crashes, up, posting, answered, fileVars, askVars>>

(* The copy is complete; g_x and g_ready are set and 200 is sent.          *)
StoreEnd(h) ==
  /\ \E m \in storing[h] :
       /\ g_share' = [g_share EXCEPT ![h] = m.share]
       /\ g_x' = [g_x EXCEPT ![h] = m.x]
       /\ answered' = (answered \/ m \in posting)
       /\ late' = [late EXCEPT ![h] = m \notin posting]
  /\ g_ready' = [g_ready EXCEPT ![h] = TRUE]
  /\ storing' = [storing EXCEPT ![h] = {}]
  /\ UNCHANGED <<seen, crashes, up, posts, posting, fileVars, askVars>>

(* Mutant of PartialDecrypt: a thread per connection, handlers overlap.    *)
PartialDecryptConcurrent(h) ==
  /\ up[h]
  /\ h \in ask /\ reply = {}
  /\ reply' = IF g_ready[h]
              THEN {[code |-> 200, x |-> g_x[h], share |-> g_share[h]]}
              ELSE {[code |-> 409, x |-> 0, share |-> Blank]}
  /\ UNCHANGED <<shareholderVars, up, fileVars, storeVars, ask>>

(* /partial_decrypt: 409 without a share, else x and the partial.          *)
PartialDecrypt(h) ==
  /\ Idle(h)
  /\ h \in ask /\ reply = {}
  /\ reply' = IF g_ready[h]
              THEN {[code |-> 200, x |-> g_x[h], share |-> g_share[h]]}
              ELSE {[code |-> 409, x |-> 0, share |-> Blank]}
  /\ UNCHANGED <<shareholderVars, up, fileVars, storeVars, ask>>

(* The container dies: memory and connections are gone.                    *)
Crash(h) ==
  /\ up[h]
  /\ crashes < MaxCrash
  /\ crashes' = crashes + 1
  /\ up' = [up EXCEPT ![h] = FALSE]
  /\ g_share' = [g_share EXCEPT ![h] = Blank]
  /\ g_x' = [g_x EXCEPT ![h] = 0]
  /\ g_ready' = [g_ready EXCEPT ![h] = FALSE]
  /\ storing' = [storing EXCEPT ![h] = {}]
  /\ late' = [late EXCEPT ![h] = FALSE]
  /\ posts' = {m \in posts : m.to # h}
  /\ UNCHANGED <<seen, posting, answered, fileVars, askVars>>

(* MHD_start_daemon: the server of a (re)started container listens.        *)
Listen(h) ==
  /\ ~up[h]
  /\ up' = [up EXCEPT ![h] = TRUE]
  /\ UNCHANGED <<shareholderVars, fileVars, storeVars, askVars>>

ShareholderNext ==
  \E h \in Hosts :
    StoreBegin(h) \/ StoreEnd(h) \/ PartialDecrypt(h) \/ Crash(h) \/ Listen(h)
=============================================================================
