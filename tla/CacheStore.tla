----------------------------- MODULE CacheStore -----------------------------
(***************************************************************************)
(* The cache repository (cache/repository.go, typed.go, utils.go) over the *)
(* Redis store (cache/redis/store.go): Add, which is SET NX or a check     *)
(* followed by a write, Remember, which loads a missing value and writes   *)
(* it, Put, Forget, expiry, and Flush, which scans page by page and        *)
(* deletes what it found.  A write may go unconfirmed.                     *)
(***************************************************************************)
EXTENDS Naturals, Sequences, FiniteSets

CONSTANTS
    Keys,
    Clients,    \* one Add or Remember each, whose value is the client
    Pages,      \* the keys in the order SCAN returns them, page by page
    Addable,    \* whether the store has an Add of its own
    MaxEvents   \* bound on Put, Forget, expiry and failed writes

VARIABLES
    val,        \* the value of each key, "none" if there is none
    op, key,    \* what each client calls, for which key
    pc, got,    \* its place or outcome, and the value it returns
    removals,   \* history: how often each key was removed
    flush, page, found,     \* Flush: its place, the next page, the keys to delete
    untouched,  \* history: keys there when Flush began and not written since
    events

vars == <<val, op, key, pc, got, removals, flush, page, found, untouched, events>>
flushVars == <<flush, page, found>>

Init ==
    /\ val = [k \in Keys |-> "none"]
    /\ op \in [Clients -> {"add", "remember"}] /\ key \in [Clients -> Keys]
    /\ pc = [c \in Clients |-> "new"] /\ got = [c \in Clients |-> "none"]
    /\ removals = [k \in Keys |-> 0]
    /\ flush = "idle" /\ page = 1 /\ found = {} /\ untouched = {} /\ events = 0

Goto(c, label) == pc' = [pc EXCEPT ![c] = label]
Event == events < MaxEvents /\ events' = events + 1
Missing(k) == val[k] = "none"

Write(k, v) == val' = [val EXCEPT ![k] = v] /\ untouched' = untouched \ {k}

Remove(ks) ==
    /\ val' = [k \in Keys |-> IF k \in ks THEN "none" ELSE val[k]]
    /\ removals' = [k \in Keys |-> IF k \in ks /\ ~Missing(k) THEN removals[k] + 1 ELSE removals[k]]

-----------------------------------------------------------------------------
(* Add *)

AddWins(c) == Missing(key[c])

Add(c) ==
    /\ op[c] = "add" /\ pc[c] = "new" /\ Addable
    /\ IF AddWins(c) THEN Write(key[c], c) /\ Goto(c, "true")
                     ELSE UNCHANGED <<val, untouched>> /\ Goto(c, "false")
    /\ UNCHANGED <<op, key, got, removals, flushVars, events>>

\* The fallback: Missing, then Set.
AddChecks(c) ==
    /\ op[c] = "add" /\ pc[c] = "new" /\ ~Addable
    /\ Goto(c, IF AddWins(c) THEN "missing" ELSE "false")
    /\ UNCHANGED <<val, op, key, got, removals, flushVars, untouched, events>>

AddSets(c) ==
    /\ pc[c] = "missing"
    /\ Write(key[c], c)
    /\ Goto(c, "true")
    /\ UNCHANGED <<op, key, got, removals, flushVars, events>>

-----------------------------------------------------------------------------
(* Remember *)

Get(c) ==
    /\ op[c] = "remember" /\ pc[c] = "new"
    /\ Goto(c, IF Missing(key[c]) THEN "load" ELSE "hit")
    /\ got' = [got EXCEPT ![c] = val[key[c]]]
    /\ UNCHANGED <<val, op, key, removals, flushVars, untouched, events>>

LoadFails(c) ==
    /\ pc[c] = "load"
    /\ Goto(c, "loader")
    /\ UNCHANGED <<val, op, key, got, removals, flushVars, untouched, events>>

Load(c) ==
    /\ pc[c] = "load"
    /\ Goto(c, "write")
    /\ got' = [got EXCEPT ![c] = c]
    /\ UNCHANGED <<val, op, key, removals, flushVars, untouched, events>>

Set(c) ==
    /\ pc[c] = "write"
    /\ Write(key[c], c)
    /\ Goto(c, "nil")
    /\ UNCHANGED <<op, key, got, removals, flushVars, events>>

\* The write is not confirmed, or fails with or without effect.
SetFails(c) ==
    /\ pc[c] \in {"missing", "write"} /\ Event
    /\ Write(key[c], c) \/ UNCHANGED <<val, untouched>>
    /\ Goto(c, "error") \/ Goto(c, IF pc[c] = "write" THEN "unconfirmed" ELSE "false")
    /\ UNCHANGED <<op, key, got, removals, flushVars>>

-----------------------------------------------------------------------------
(* Other writers, and Flush *)

Put(k) ==
    /\ Event
    /\ Write(k, "put")
    /\ UNCHANGED <<op, key, pc, got, removals, flushVars>>

\* Forget, or the end of the TTL.
Forget(k) ==
    /\ ~Missing(k) /\ Event
    /\ Remove({k})
    /\ UNCHANGED <<op, key, pc, got, flushVars, untouched>>

Flush ==
    /\ flush = "idle"
    /\ flush' = "scan"
    /\ untouched' = {k \in Keys : ~Missing(k)}
    /\ UNCHANGED <<val, op, key, pc, got, removals, page, found, events>>

\* Mutant: the cursor is tested before the page is deleted.
LastPageBefore == page >= Len(Pages)

\* The cursor has come round.
LastPage == page > Len(Pages)

Scan ==
    /\ flush = "scan" /\ page <= Len(Pages)
    /\ found' = {k \in Pages[page] : ~Missing(k)}
    /\ page' = page + 1
    /\ flush' = "delete"
    /\ UNCHANGED <<val, op, key, pc, got, removals, untouched, events>>

Deleted == found

Delete ==
    /\ flush = "delete"
    /\ Remove(Deleted)
    /\ found' = {}
    /\ flush' = IF LastPage THEN "done" ELSE "scan"
    /\ UNCHANGED <<op, key, pc, got, page, untouched, events>>

\* A failing SCAN or DEL ends the pass.
FlushFails ==
    /\ flush \in {"scan", "delete"} /\ Event
    /\ flush' = "failed"
    /\ UNCHANGED <<val, op, key, pc, got, removals, page, found, untouched>>

-----------------------------------------------------------------------------
Step(c) == Add(c) \/ AddChecks(c) \/ AddSets(c) \/ Get(c) \/ Load(c) \/ LoadFails(c) \/ Set(c) \/ SetFails(c)

Next ==
    \/ \E c \in Clients : Step(c)
    \/ \E k \in Keys : Put(k) \/ Forget(k)
    \/ Flush \/ Scan \/ Delete \/ FlushFails

Spec == Init /\ [][Next]_vars

-----------------------------------------------------------------------------
(* Properties *)

Winners(k) == {c \in Clients : key[c] = k /\ pc[c] = "true"}

\* With a store that has Add, one Add succeeds for each time the key was removed.
OneAddWins == Addable => \A k \in Keys : Cardinality(Winners(k)) <= 1 + removals[k]

\* A Flush that succeeds has removed every key that was there when it began and
\* was not written meanwhile, whatever was written or removed between its pages.
FlushRemovesOld == flush = "done" => \A k \in untouched : Missing(k)

\* Neither the clients' Adds nor Flush are misled by what the others do meanwhile.
CacheIsSound == OneAddWins /\ FlushRemovesOld

=============================================================================
