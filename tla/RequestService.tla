--------------------------- MODULE RequestService ---------------------------
(***************************************************************************)
(* What the drivers may rely on when they hand a request to the controller:*)
(* a request is in the controller's hands from the call that submits it    *)
(* until it is completed, once per submission, and a thread blocked on it  *)
(* is woken by that completion and by nothing else.  Queues, nested        *)
(* activations and power states do not show.                               *)
(***************************************************************************)
CONSTANT Request

VARIABLES pending,   \* requests that belong to the controller
          blocked    \* requests whose thread waits for the completion

serviceVars == <<pending, blocked>>

Init == pending = {} /\ blocked = {}

Submit(r) ==
  /\ pending' = pending \cup {r}
  /\ blocked' \in {blocked, blocked \cup {r}}

Complete(r) ==
  /\ pending' = pending \ {r}
  /\ blocked' = blocked \ {r}

Next ==
  \/ \E r \in Request \ pending : Submit(r)
  \/ \E r \in pending : Complete(r)

Spec == Init /\ [][Next]_serviceVars

\* No thread waits for a request that the controller does not have.
BlockedArePending == blocked \subseteq pending
=============================================================================
