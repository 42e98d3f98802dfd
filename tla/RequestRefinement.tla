-------------------------- MODULE RequestRefinement --------------------------
(***************************************************************************)
(* RequestBody implements ShareServer.  A request takes effect at the last *)
(* call of the handler; what the pieces of its body did before to the      *)
(* buffers of the connections does not show.                               *)
(***************************************************************************)
EXTENDS RequestBody

heldShare == IF g_ready THEN {[x |-> g_x, share |-> g_share]} ELSE {}

Server == INSTANCE ShareServer WITH held <- heldShare

(* Every request is answered at most once and as if its body had come in   *)
(* one piece and nothing else was going on: a refused store leaves the     *)
(* share alone, a good one is what every later partial is computed from,   *)
(* until the next, and 409 comes only before the first.                    *)
ImplementsServer == Server!Spec
=============================================================================
