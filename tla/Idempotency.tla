----------------------------- MODULE Idempotency -----------------------------
(***************************************************************************)
(* idempotency.Executor (idempotency/executor.go, value.go) over a store:  *)
(* concurrent Do or DoValue calls for one key.  A call claims the key,     *)
(* runs its handler, and completes or aborts the claim.  Claims and        *)
(* results expire, requests to the store or their answers are lost, and a  *)
(* process can die while it holds a claim.                                 *)
(***************************************************************************)
EXTENDS Naturals, FiniteSets

CONSTANTS
    Calls,          \* the calls; a call is its own token, and the value it makes
    Fingerprints,   \* what calls are fingerprinted with, Empty for none
    MaxExpiries,    \* bound on expiries of the record
    MaxFaults       \* bound on store errors and crashes

\* The empty string.
Empty == "empty"

Absent == [status |-> "absent", token |-> Empty, fingerprint |-> Empty, data |-> Empty]

ASSUME IdempotencyAssumption == Empty \notin Calls /\ MaxExpiries \in Nat /\ MaxFaults \in Nat

VARIABLES
    rec,        \* the record of the key
    pc,         \* where each call is, or what it returned
    fp,         \* its fingerprint
    value,      \* the value it returns, Empty if none
    produced,   \* history: the calls whose handler succeeded
    claimant,   \* history: the call that acquired the key last
    expiries, faults

vars == <<rec, pc, fp, value, produced, claimant, expiries, faults>>

Running == {"begun", "run", "encode", "complete", "abort"}
Returned == {"in_progress", "conflict", "replayed", "nil", "failed", "lost", "error", "crashed"}

\* A record is claimed by a call, completed with a call's value, or absent.
Claim == [status : {"in_progress"}, token : Calls, fingerprint : Fingerprints, data : {Empty}]
Result == [status : {"completed"}, token : {Empty}, fingerprint : Fingerprints, data : Calls]

TypeOK ==
    /\ rec \in {Absent} \cup Claim \cup Result
    /\ pc \in [Calls -> {"new"} \cup Running \cup Returned]
    /\ fp \in [Calls -> Fingerprints]
    /\ value \in [Calls -> Calls \cup {Empty}]
    /\ produced \subseteq Calls /\ claimant \in Calls \cup {Empty}
    /\ expiries \in 0..MaxExpiries /\ faults \in 0..MaxFaults

Init ==
    /\ rec = Absent
    /\ pc = [c \in Calls |-> "new"]
    /\ fp \in [Calls -> Fingerprints]
    /\ value = [c \in Calls |-> Empty]
    /\ produced = {} /\ claimant = Empty /\ expiries = 0 /\ faults = 0

Goto(c, label) == pc' = [pc EXCEPT ![c] = label]
Fault == faults < MaxFaults /\ faults' = faults + 1

-----------------------------------------------------------------------------
(* The record: the Lua scripts of idempotency/redis/store.go, which are also *)
(* the bodies of the methods of idempotency/memory/store.go               *)

\* A call without a fingerprint matches every record.
Conflict(r, print) == r.status # "absent" /\ print # Empty /\ print # r.fingerprint

\* What Begin answers ...
BeginStatus(r, print) ==
    IF r.status = "absent" THEN "acquired"
    ELSE IF Conflict(r, print) THEN "conflict" ELSE r.status

\* ... and the record it leaves.
Begun(r, token, print) ==
    IF r.status = "absent" THEN [status |-> "in_progress", token |-> token, fingerprint |-> print, data |-> Empty]
    ELSE r

\* Mutant: any caller may finish an active claim.
OwnsAny(r, token) == r.status = "in_progress"

\* The guard of Complete and Abort; without it they answer ErrClaimLost.
Owns(r, token) == r.status = "in_progress" /\ r.token = token

Completed(r, token, v) ==
    IF Owns(r, token) THEN [r EXCEPT !.status = "completed", !.token = Empty, !.data = v] ELSE r

Aborted(r, token) == IF Owns(r, token) THEN Absent ELSE r

-----------------------------------------------------------------------------
(* Executor.begin *)

Claimed(c) ==
    /\ rec' = Begun(rec, c, fp[c])
    /\ claimant' = IF BeginStatus(rec, fp[c]) = "acquired" THEN c ELSE claimant

\* The store answers: the claim, the result to replay, or an error.
Begin(c) ==
    /\ pc[c] = "new"
    /\ Claimed(c)
    /\ LET status == BeginStatus(rec, fp[c]) IN
         /\ Goto(c, CASE status = "acquired" -> "begun" [] status = "completed" -> "replayed"
                      [] OTHER -> status)
         /\ value' = [value EXCEPT ![c] = IF status = "completed" THEN rec.data ELSE Empty]
    /\ UNCHANGED <<fp, produced, expiries, faults>>

\* The request or its answer is lost, and with the answer the claim.
BeginFails(c) ==
    /\ pc[c] = "new"
    /\ Fault
    /\ Claimed(c) \/ UNCHANGED <<rec, claimant>>
    /\ Goto(c, "error")
    /\ UNCHANGED <<fp, value, produced, expiries>>

\* The caller's context is looked at before and after the store.
Cancelled(c) ==
    /\ pc[c] \in {"new", "begun"}
    /\ Goto(c, IF pc[c] = "new" THEN "error" ELSE "abort")
    /\ UNCHANGED <<rec, fp, value, produced, claimant, expiries, faults>>

StartHandler(c) ==
    /\ pc[c] = "begun"
    /\ Goto(c, "run")
    /\ UNCHANGED <<rec, fp, value, produced, claimant, expiries, faults>>

-----------------------------------------------------------------------------
(* The handler and the end of the claim *)

HandlerSucceeds(c) ==
    /\ pc[c] = "run"
    /\ produced' = produced \cup {c}
    /\ value' = [value EXCEPT ![c] = c]
    /\ Goto(c, "encode")
    /\ UNCHANGED <<rec, fp, claimant, expiries, faults>>

HandlerFails(c) ==
    /\ pc[c] = "run"
    /\ Goto(c, "abort")
    /\ UNCHANGED <<rec, fp, value, produced, claimant, expiries, faults>>

\* Mutant: the claim is aborted although the handler has run.
EncodeAborts(c) ==
    /\ pc[c] = "encode"
    /\ Goto(c, "complete") \/ Goto(c, "abort")
    /\ UNCHANGED <<rec, fp, value, produced, claimant, expiries, faults>>

\* A value that cannot be encoded leaves the claim to its TTL.
Encode(c) ==
    /\ pc[c] = "encode"
    /\ Goto(c, "complete") \/ Goto(c, "error")
    /\ UNCHANGED <<rec, fp, value, produced, claimant, expiries, faults>>

Complete(c) ==
    /\ pc[c] = "complete"
    /\ rec' = Completed(rec, c, value[c])
    /\ Goto(c, IF Owns(rec, c) THEN "nil" ELSE "lost")
    /\ UNCHANGED <<fp, value, produced, claimant, expiries, faults>>

Abort(c) ==
    /\ pc[c] = "abort"
    /\ rec' = Aborted(rec, c)
    /\ Goto(c, "failed")
    /\ UNCHANGED <<fp, value, produced, claimant, expiries, faults>>

\* The store does not answer within the finalization timeout.
FinalizeFails(c) ==
    /\ pc[c] \in {"complete", "abort"}
    /\ Fault
    /\ rec' \in {rec, IF pc[c] = "complete" THEN Completed(rec, c, value[c]) ELSE Aborted(rec, c)}
    /\ Goto(c, "error")
    /\ UNCHANGED <<fp, value, produced, claimant, expiries>>

\* The process dies, or the handler panics.
Crash(c) ==
    /\ pc[c] \in Running
    /\ Fault
    /\ Goto(c, "crashed")
    /\ UNCHANGED <<rec, fp, value, produced, claimant, expiries>>

\* The TTL of a claim or a result ends.
Expire ==
    /\ rec # Absent
    /\ expiries < MaxExpiries
    /\ expiries' = expiries + 1
    /\ rec' = Absent
    /\ UNCHANGED <<pc, fp, value, produced, claimant, faults>>

-----------------------------------------------------------------------------
Step(c) == \/ Begin(c) \/ BeginFails(c) \/ Cancelled(c) \/ StartHandler(c)
           \/ HandlerSucceeds(c) \/ HandlerFails(c) \/ Encode(c)
           \/ Complete(c) \/ Abort(c) \/ FinalizeFails(c)

Next == Expire \/ \E c \in Calls : Step(c) \/ Crash(c)

Spec == Init /\ [][Next]_vars

-----------------------------------------------------------------------------
(* Properties *)

\* The work of a key is done once, and once more for each time its record expired:
\* crashes, lost answers, aborts and late finishers add nothing.
WorkedOncePerExpiry == Cardinality(produced) <= 1 + expiries

\* Callers that report success report the same value, unless the record expired.
OneResult ==
    expiries = 0 => \A c, d \in Calls :
        pc[c] \in {"nil", "replayed"} /\ pc[d] \in {"nil", "replayed"} => value[c] = value[d]

\* A replayed value was made by a handler that succeeded, for the same fingerprint.
ReplayedWasProduced ==
    \A c \in Calls : pc[c] = "replayed" =>
        value[c] \in produced /\ fp[c] \in {Empty, fp[value[c]]}

\* A call that lost its claim to expiry cannot touch the claim or the result of
\* the one that holds the key now.
LateFinisherHarmless ==
    /\ rec.status = "in_progress" => rec.token = claimant
    /\ rec.status = "completed" => rec.data = claimant

\* A handler error, or a cancelled context, frees the key for the next call.
FailureFreesKey == \A c \in Calls : pc[c] = "failed" => rec.token # c

=============================================================================
