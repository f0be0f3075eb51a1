--------------------------- MODULE SessionContract ---------------------------
(***************************************************************************)
(* What the hub and a session promise each other, and nothing of how.       *)
(*                                                                          *)
(* A session is started once; it may be stopped at any time, also by        *)
(* itself; its end is reported once, when its socket is closed.  It hands   *)
(* requests to the hub only while it runs.  The hub drops its last          *)
(* reference, after which the identity may serve another session, only      *)
(* when the end was reported and no request of the session is left.         *)
(*                                                                          *)
(* NodeSession implements this for class Node, NodeHub for every session    *)
(* the hub keeps.                                                           *)
(***************************************************************************)
EXTENDS Naturals

VARIABLES
    phase,     \* "new", "running", "stopping" or "ended"
    open,      \* the socket is open
    pending    \* requests of the session that the hub has yet to process

vars == <<phase, open, pending>>

Init == phase = "new" /\ open = TRUE /\ pending = 0

Start == phase = "new" /\ phase' = "running" /\ UNCHANGED <<open, pending>>
Stop == phase = "running" /\ phase' = "stopping" /\ UNCHANGED <<open, pending>>
End == phase = "stopping" /\ phase' = "ended" /\ open' = FALSE /\ UNCHANGED pending
Request == phase = "running" /\ pending' = pending + 1 /\ UNCHANGED <<phase, open>>
Process == pending > 0 /\ pending' = pending - 1 /\ UNCHANGED <<phase, open>>
Drop == phase = "ended" /\ pending = 0 /\ phase' = "new" /\ open' = TRUE /\ UNCHANGED pending

Next == Start \/ Stop \/ End \/ Request \/ Process \/ Drop

Spec == Init /\ [][Next]_vars

\* A stop is always completed.
FairSpec == Spec /\ WF_vars(End)
=============================================================================
