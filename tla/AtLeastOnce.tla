---------------------------- MODULE AtLeastOnce ----------------------------
(***************************************************************************)
(* What a durable queue promises (the delivery semantics of queue/README): *)
(* a task whose Enqueue took effect stays deliverable until a worker has   *)
(* finished it, whatever crashes and however often it is delivered.        *)
(*                                                                         *)
(* A task is finished when its handler succeeded or discarded it, or when  *)
(* it was dead-lettered.  Copies of a finished task may linger, and may be *)
(* delivered again.                                                        *)
(***************************************************************************)
CONSTANT Tasks

VARIABLES
    live,      \* tasks the queue can still deliver, or deliver again
    finished   \* tasks a worker has finished

vars == <<live, finished>>

Init == live = {} /\ finished = {}

\* Enqueue takes effect.
Accept(t) ==
    /\ t \notin finished
    /\ live' = live \cup {t}
    /\ UNCHANGED finished

\* A delivery of t is handled for good.
Finish(t) ==
    /\ t \in live \cup finished
    /\ finished' = finished \cup {t}
    /\ UNCHANGED live

\* The last copy of t is acknowledged: only after t is finished.
Forget(t) ==
    /\ t \in finished
    /\ live' = live \ {t}
    /\ UNCHANGED finished

\* A worker that still holds an old delivery of t schedules one more.
Revive(t) ==
    /\ t \in finished
    /\ live' = live \cup {t}
    /\ UNCHANGED finished

Next == \E t \in Tasks : Accept(t) \/ Finish(t) \/ Forget(t) \/ Revive(t)

Spec == Init /\ [][Next]_vars

=============================================================================
