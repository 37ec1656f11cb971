---------------------------- MODULE TaskOutcome ----------------------------
(***************************************************************************)
(* How a worker settles a delivery: the part of Worker.process in          *)
(* queue/worker.go that turns what a handler returned, and the attempt the *)
(* delivery was made on, into an acknowledgement, a retry or a dead        *)
(* letter.                                                                 *)
(***************************************************************************)
EXTENDS Integers

CONSTANT MaxAttempts  \* workerConfig.maxAttempts

ASSUME MaxAttemptsAssumption == MaxAttempts \in Nat \ {0}

\* The ways a handler call ends that process tells apart: no handler is
\* registered, success, ErrDiscard, DeadLetter, RetryAfter, an error retryIf
\* accepts, an error retryIf refuses.
Outcome == {"nohandler", "nil", "discard", "deadletter", "retryafter", "failed", "refused"}

Settlement == {"ack", "retry", "dead"}

\* The attempt limit is looked at after the handler has failed, before
\* RetryAfter and retryIf are.
Decide(attempt, outcome) ==
    CASE outcome \in {"nil", "discard"} -> "ack"
      [] outcome \in {"nohandler", "deadletter", "refused"} -> "dead"
      [] outcome \in {"retryafter", "failed"} ->
            IF attempt >= MaxAttempts THEN "dead" ELSE "retry"

=============================================================================
