----------------------------- MODULE ShareServer -----------------------------
(***************************************************************************)
(* What a shareholder promises the clients of its HTTP interface: every    *)
(* request is read whole and answered in one step, once, by what its       *)
(* client sent and by the share of the last good store before it.          *)
(* RequestBody, where bodies arrive in pieces in buffers that may be too   *)
(* small and connections take turns, is shown to implement this            *)
(* (RequestRefinement).                                                    *)
(***************************************************************************)
EXTENDS ShareApi

CONSTANTS
  Conns,       \* connections
  Requests,    \* what the clients may send
  ShareBytes,  \* bytes of a share
  CtBytes      \* bytes of a ciphertext

VARIABLES
  req,       \* req[c]: the request on the connection, {} or a singleton
  response,  \* response[c]: its answer, {} or a singleton
  held       \* the share and its x, {} before the first good store

serverVars == <<req, response, held>>

Init ==
  /\ req = [c \in Conns |-> {}] /\ response = [c \in Conns |-> {}]
  /\ held = {}

(* A client sends a request.                                               *)
Begin(c) ==
  /\ req[c] = {}
  /\ \E r \in Requests : req' = [req EXCEPT ![c] = {r}]
  /\ UNCHANGED <<response, held>>

Reply(c, answer) ==
  /\ response[c] = {}
  /\ response' = [response EXCEPT ![c] = {answer}]
  /\ UNCHANGED req

(* A store replaces the share, or changes nothing.                         *)
Store(c) ==
  \E r \in req[c] :
    /\ <<r.method, r.url>> = <<"POST", "store_share">>
    /\ IF Numbered(r) /\ StartsWith(r.hex, ShareBytes)
       THEN /\ held' = {[x |-> r.x, share |-> Decode(r.hex, ShareBytes)]}
            /\ Reply(c, Answer(200))
       ELSE UNCHANGED held /\ Reply(c, Answer(400))

(* A partial is of the ciphertext sent and the share held at that moment.  *)
Decrypt(c) ==
  /\ \E r \in req[c] :
       /\ <<r.method, r.url>> = <<"POST", "partial_decrypt">>
       /\ \/ held = {} /\ Reply(c, Answer(409))
          \/ held # {} /\ ~StartsWith(r.hex, CtBytes) /\ Reply(c, Answer(400))
          \/ /\ StartsWith(r.hex, CtBytes)
             /\ \E s \in held : Reply(c, [code |-> 200, x |-> s.x, share |-> s.share,
                                          ct |-> Decode(r.hex, CtBytes)])
  /\ UNCHANGED held

(* The health route is there for GET only.                                 *)
Other(c) ==
  /\ \E r \in req[c] :
       /\ <<r.method, r.url>> \notin {<<"POST", "store_share">>, <<"POST", "partial_decrypt">>}
       /\ Reply(c, Answer(IF <<r.method, r.url>> = <<"GET", "health">> THEN 200 ELSE 404))
  /\ UNCHANGED held

(* The connection is over, with or without an answer.                      *)
End(c) ==
  /\ req' = [req EXCEPT ![c] = {}] /\ response' = [response EXCEPT ![c] = {}]
  /\ UNCHANGED held

Next == \E c \in Conns : Begin(c) \/ Store(c) \/ Decrypt(c) \/ Other(c) \/ End(c)

Spec == Init /\ [][Next]_serverVars
=============================================================================
