-------------------------- MODULE EventDispatcher --------------------------
(***************************************************************************)
(* event.Dispatcher for one event type: Subscribe and Unsubscribe change   *)
(* the list of listeners while Dispatch calls the listeners of a snapshot, *)
(* serially or by a bounded number of workers, up to the first error or to *)
(* the end.  Dispatches do not influence one another, so there is one.     *)
(***************************************************************************)
EXTENDS Naturals, Sequences, Functions

CONSTANTS
    Listeners,      \* each subscribed by a call of its own
    MaxWorkers,     \* bound on the concurrency of the dispatch
    Callers         \* callers of Unsubscribe

Workers == 1..MaxWorkers

VARIABLES
    listeners,      \* the list of the dispatcher
    sub,            \* each subscription: "new", "active" or "inactive"
    unsub,          \* each Unsubscribe: its place and its subscription
    d,              \* the dispatch: see Init
    w               \* its workers: place and index

vars == <<listeners, sub, unsub, d, w>>

Init ==
    /\ listeners = <<>> /\ sub = [l \in Listeners |-> "new"]
    /\ unsub = [u \in Callers |-> <<"new", "none">>]
    /\ \E n \in Workers, c \in BOOLEAN :
         d = [pc |-> "new",         \* "new", "run", "nil" or "error"
              concurrency |-> n, continue |-> c,
              entries |-> <<>>,     \* the snapshot
              next |-> 0,           \* nextIndex
              ctx |-> FALSE,        \* the caller's context is done
              stop |-> FALSE,       \* runCtx is done
              called |-> <<>>,      \* history: the handlers begun
              failed |-> {}]        \* the handlers that failed
    /\ w = [x \in Workers |-> <<"idle", 0>>]

-----------------------------------------------------------------------------
(* Subscriptions *)

Subscribe(l) ==
    /\ sub[l] = "new"
    /\ listeners' = Append(listeners, l)
    /\ sub' = [sub EXCEPT ![l] = "active"]
    /\ UNCHANGED <<unsub, d, w>>

Deactivate(l) == sub' = [sub EXCEPT ![l] = "inactive"]

\* The compare-and-swap of Unsubscribe.
Unsubscribe(u, l) ==
    /\ unsub[u][1] = "new" /\ sub[l] # "new"
    /\ IF sub[l] = "active"
         THEN Deactivate(l) /\ unsub' = [unsub EXCEPT ![u] = <<"remove", l>>]
         ELSE unsub' = [unsub EXCEPT ![u] = <<"false", l>>] /\ UNCHANGED sub
    /\ UNCHANGED <<listeners, d, w>>

\* An entry is in the list once.
Without(l) ==
    IF l \notin Range(listeners) THEN listeners
    ELSE LET i == CHOOSE i \in DOMAIN listeners : listeners[i] = l
         IN  SubSeq(listeners, 1, i - 1) \o SubSeq(listeners, i + 1, Len(listeners))

\* It reports true: the entry is its own, and only it deletes it.
RemoveEntry(u) ==
    /\ unsub[u][1] = "remove"
    /\ listeners' = Without(unsub[u][2])
    /\ unsub' = [unsub EXCEPT ![u][1] = "true"]
    /\ sub' = [sub EXCEPT ![unsub[u][2]] = "inactive"]
    /\ UNCHANGED <<d, w>>

-----------------------------------------------------------------------------
(* Dispatch *)

WorkerCount == IF d.concurrency < Len(listeners) THEN d.concurrency ELSE Len(listeners)

Dispatch ==
    /\ d.pc = "new"
    /\ d' = [d EXCEPT !.pc = IF d.ctx THEN "error" ELSE IF listeners = <<>> THEN "nil" ELSE "run",
                      !.entries = listeners]
    /\ w' = [x \in Workers |-> IF ~d.ctx /\ x <= WorkerCount THEN <<"check", 0>> ELSE <<"exit", 0>>]
    /\ UNCHANGED <<listeners, sub, unsub>>

Cancel ==
    /\ d.pc \in {"new", "run"} /\ ~d.ctx
    /\ d' = [d EXCEPT !.ctx = TRUE, !.stop = TRUE]
    /\ UNCHANGED <<listeners, sub, unsub, w>>

Go(x, place, index) == w' = [w EXCEPT ![x] = <<place, index>>]

Check(x) ==
    /\ w[x][1] = "check"
    /\ Go(x, IF d.stop THEN "exit" ELSE "claim", w[x][2])
    /\ UNCHANGED <<listeners, sub, unsub, d>>

\* nextIndex.Add(1)
Index(x) == d.next + 1

Entry(i) == d.entries[i]

Claim(x) ==
    /\ w[x][1] = "claim"
    /\ d' = [d EXCEPT !.next = @ + 1]
    /\ IF Index(x) <= Len(d.entries) /\ ~d.stop THEN Go(x, "begin", Index(x)) ELSE Go(x, "exit", 0)
    /\ UNCHANGED <<listeners, sub, unsub>>

Begin(x) ==
    /\ w[x][1] = "begin"
    /\ d' = [d EXCEPT !.called = Append(@, Entry(w[x][2]))]
    /\ Go(x, "call", w[x][2])
    /\ UNCHANGED <<listeners, sub, unsub>>

Succeeds(x) ==
    /\ w[x][1] = "call"
    /\ Go(x, "check", w[x][2])
    /\ UNCHANGED <<listeners, sub, unsub, d>>

\* Without ContinueOnError the first error cancels runCtx.
Fails(x) ==
    /\ w[x][1] = "call"
    /\ d' = [d EXCEPT !.failed = @ \cup {d.entries[w[x][2]]}, !.stop = @ \/ ~d.continue]
    /\ Go(x, IF d.continue THEN "check" ELSE "exit", w[x][2])
    /\ UNCHANGED <<listeners, sub, unsub>>

\* Mutant: the result is that of the handlers alone.
ResultOwn == IF d.failed = {} THEN "nil" ELSE "error"

\* joinErrors of the handlers' errors and of the cause of the context
Result == IF d.failed = {} /\ ~d.ctx THEN "nil" ELSE "error"

Return ==
    /\ d.pc = "run" /\ \A x \in Workers : w[x][1] = "exit"
    /\ d' = [d EXCEPT !.pc = Result]
    /\ UNCHANGED <<listeners, sub, unsub, w>>

-----------------------------------------------------------------------------
Work(x) == Check(x) \/ Claim(x) \/ Begin(x) \/ Succeeds(x) \/ Fails(x)

Next ==
    \/ \E l \in Listeners : Subscribe(l)
    \/ \E u \in Callers : RemoveEntry(u) \/ \E l \in Listeners : Unsubscribe(u, l)
    \/ Dispatch \/ Cancel \/ Return \/ \E x \in Workers : Work(x)

Spec == Init /\ [][Next]_vars

-----------------------------------------------------------------------------
(* Properties *)

\* Dispatch returns nil only if every handler of its snapshot was called and succeeded
\* before the context was done, whatever its workers and Unsubscribe did meanwhile.
NilMeansAllCalled ==
    d.pc = "nil" => Range(d.called) = Range(d.entries) /\ d.failed = {} /\ ~d.ctx

=============================================================================
