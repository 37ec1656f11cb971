------------------------------- MODULE Retry -------------------------------
(***************************************************************************)
(* A Jet call through the retry and the timeout middlewares: retry.DoValue *)
(* runs the attempts one after the other, each attempt runs its handler in *)
(* a goroutine and waits for it no longer than the timeout.  A handler     *)
(* that ignores its context answers late, when another attempt may be      *)
(* running.  An error is a sequence: its wrappers, outermost first, and    *)
(* its cause; "P" is the marker Permanent, "A" is After a delay and "Z"    *)
(* is After a delay of zero.                                               *)
(***************************************************************************)
EXTENDS Naturals, Sequences, Functions

CONSTANTS
    MaxAttempts,    \* c.maxAttempts
    Errors          \* the errors a handler may return

VARIABLES
    ctx,        \* the caller's context: "live", "canceled" or "deadline"
    attempt,
    pc,         \* "check", "select", "inspect", "wait" or "returned"
    handler,    \* of each attempt: "none", "running", "sending", "ended"
    answer,     \* of each attempt: what its handler returns
    finished,   \* of each attempt: the buffered channel
    result,     \* the value and the error of the last attempt
    events      \* the notifications: attempt, error, delay

vars == <<ctx, attempt, pc, handler, answer, finished, result, events>>

Attempts == 1..MaxAttempts
None == <<0, <<"none">>>>
Nil == <<"nil">>
Markers == {"P", "A", "Z"}
\* A handler's answer: its attempt, as the response, and its error.
Answers(i) == {<<i, err>> : err \in Errors \cup {Nil}}
CtxErr == <<IF ctx = "deadline" THEN "DeadlineExceeded" ELSE "Canceled">>

Init ==
    /\ ctx = "live" /\ attempt = 1 /\ pc = "check"
    /\ handler = [i \in Attempts |-> "none"]
    /\ answer = [i \in Attempts |-> None] /\ finished = [i \in Attempts |-> None]
    /\ result = <<0, Nil>> /\ events = <<>>

-----------------------------------------------------------------------------
(* The errors *)

\* errors.AsType finds the marker anywhere in the chain.
Permanent(err) == "P" \in Range(err)

\* The delay before the next attempt: the outermost override of After, or the backoff.
Delay(err) ==
    LET after == {i \in DOMAIN err : err[i] \in {"A", "Z"}}
    IN IF after = {} THEN "backoff" ELSE err[CHOOSE i \in after : \A j \in after : i <= j]

\* The root markers are removed, an error that wraps a marker stays.
Strip(err) ==
    LET causes == {k \in DOMAIN err : err[k] \notin Markers}
    IN SubSeq(err, CHOOSE k \in causes : \A j \in causes : k <= j, Len(err))

DefaultRetryIf(err) == err[Len(err)] \in {"timeout", "408", "429", "500", "599"}

-----------------------------------------------------------------------------
(* DoValue *)

Return(value, err) == result' = <<value, err>> /\ pc' = "returned"

\* The test of the context, and the call of the timeout middleware.
Check ==
    /\ pc = "check"
    /\ IF ctx # "live" THEN Return(result[1], CtxErr) /\ UNCHANGED handler
       ELSE handler' = [handler EXCEPT ![attempt] = "running"] /\ pc' = "select" /\ UNCHANGED result
    /\ UNCHANGED <<ctx, attempt, answer, finished, events>>

Precedence(err) == IF ctx # "live" THEN CtxErr ELSE err

Exhausted == attempt = MaxAttempts

MayRetry(err) == ~Permanent(err) /\ ~Exhausted /\ DefaultRetryIf(Strip(err))

\* What follows an attempt.
Inspect ==
    /\ pc = "inspect"
    /\ LET err == result[2]
       IN IF err = Nil THEN Return(result[1], Nil) /\ UNCHANGED events
          ELSE IF ctx # "live" THEN Return(result[1], Precedence(err)) /\ UNCHANGED events
          ELSE IF ~MayRetry(err) THEN Return(result[1], Strip(err)) /\ UNCHANGED events
          ELSE /\ events' = Append(events, <<attempt, Strip(err), Delay(err)>>)
               /\ pc' = "wait" /\ UNCHANGED result
    /\ UNCHANGED <<ctx, attempt, handler, answer, finished>>

\* The timer of wait fires: it may have won against the end of the context.  A delay of
\* zero sets no timer.
Waited ==
    /\ pc = "wait" /\ (events[Len(events)][3] = "Z" => ctx = "live")
    /\ pc' = "check" /\ attempt' = attempt + 1
    /\ UNCHANGED <<ctx, handler, answer, finished, result, events>>

WaitEnds ==
    /\ pc = "wait" /\ ctx # "live" /\ Return(result[1], CtxErr)
    /\ UNCHANGED <<ctx, attempt, handler, answer, finished, events>>

-----------------------------------------------------------------------------
(* The timeout middleware *)

\* Mutant: one channel for all calls.
ReceiveShared(i) == \E j \in Attempts : finished[j] # None /\ result' = finished[j]

Receive(i) == finished[i] # None /\ result' = finished[i]

Finished ==
    /\ pc = "select" /\ Receive(attempt) /\ pc' = "inspect"
    /\ UNCHANGED <<ctx, attempt, handler, answer, finished, events>>

\* The timeout of the attempt passes, or the caller's context ends.
Done ==
    /\ pc = "select" /\ pc' = "inspect"
    /\ result' = <<0, IF ctx = "canceled" THEN <<"Canceled">> ELSE <<"timeout">>>>
    /\ UNCHANGED <<ctx, attempt, handler, answer, finished, events>>

HandlerReturns(i) ==
    /\ handler[i] = "running"
    /\ \E a \in Answers(i) : answer' = [answer EXCEPT ![i] = a]
    /\ handler' = [handler EXCEPT ![i] = "sending"]
    /\ UNCHANGED <<ctx, attempt, pc, finished, result, events>>

\* The channel has room for the one result.
Room(i) == finished[i] = None

HandlerSends(i) ==
    /\ handler[i] = "sending" /\ Room(i)
    /\ finished' = [finished EXCEPT ![i] = answer[i]]
    /\ handler' = [handler EXCEPT ![i] = "ended"]
    /\ UNCHANGED <<ctx, attempt, pc, answer, result, events>>

\* External: the caller's context ends.
ContextEnds ==
    /\ ctx = "live" /\ pc # "returned" /\ \E c \in {"canceled", "deadline"} : ctx' = c
    /\ UNCHANGED <<attempt, pc, handler, answer, finished, result, events>>

-----------------------------------------------------------------------------
Next ==
    \/ Check \/ Inspect \/ Waited \/ WaitEnds \/ Finished \/ Done \/ ContextEnds
    \/ \E i \in Attempts : HandlerReturns(i) \/ HandlerSends(i)

Spec == Init /\ [][Next]_vars

-----------------------------------------------------------------------------
(* Properties *)

\* The response is the one of the last attempt: a late answer of an abandoned one is
\* never returned.
ResponseOfLastAttempt ==
    pc \in {"inspect", "wait", "returned"} =>
        \/ result[1] = 0
        \/ result[1] \in Attempts /\ \A i \in Attempts : handler[i] # "none" <=> i <= result[1]

=============================================================================
