---------------------------- MODULE ObjectStore ----------------------------
(***************************************************************************)
(* The S3 and OSS drivers of package filesystem.  Each operation is one or *)
(* more requests to the bucket; a request is atomic there, but may fail    *)
(* before or after it took effect.  Clients share the bucket.  A key is    *)
(* the sequence of its segments; a last segment "" ends it with a slash,   *)
(* which marks a directory and is written by other tools.                  *)
(***************************************************************************)
EXTENDS Naturals, Sequences, FiniteSets, SequencesExt

CONSTANTS
    Clients,
    Keys,       \* the sequence of all keys, in lexical order
    Initial,    \* the keys of the objects there are at first
    Ops,        \* the operations called: op, path and dst
    Limit,      \* the entries of a page
    MaxCalls, MaxFaults

VARIABLES
    bucket,     \* the content of each key, 0 for no object
    call,       \* the call of each client
    always,     \* history: the keys of the objects there throughout the call
    calls, faults

vars == <<bucket, call, always, calls, faults>>

KeySet == ToSet(Keys)
Present == {k \in KeySet : bucket[k] # 0}
Idle == [op |-> "none", path |-> <<>>, dst |-> <<>>, step |-> "done", err |-> "nil", listed |-> <<>>, cursor |-> 0]

Init ==
    /\ bucket = [k \in KeySet |-> IF k \in Initial THEN 1 ELSE 0]
    /\ call = [c \in Clients |-> Idle] /\ always = [c \in Clients |-> {}]
    /\ calls = 0 /\ faults = 0

Call(c, o) ==
    /\ call[c].step = "done" /\ calls < MaxCalls
    /\ calls' = calls + 1
    /\ call' = [call EXCEPT ![c] = [Idle EXCEPT !.op = o.op, !.path = o.path, !.dst = o.dst, !.step = "request"]]
    /\ always' = [always EXCEPT ![c] = Present]
    /\ UNCHANGED <<bucket, faults>>

-----------------------------------------------------------------------------
(* The answers of the bucket *)

Answer(c, step, err) == call' = [call EXCEPT ![c].step = step, ![c].err = err]
Store(k, value) ==
    /\ bucket' = [bucket EXCEPT ![k] = value]
    /\ always' = [c \in Clients |-> IF value = 0 THEN always[c] \ {k} ELSE always[c]]

\* The request has no effect, or its answer is lost.
Fault == faults < MaxFaults /\ faults' = faults + 1

PutObject(c) ==
    /\ call[c].op = "put" /\ call[c].step = "request"
    /\ Store(call[c].path, calls + 1) /\ Answer(c, "done", "nil")
    /\ UNCHANGED <<calls, faults>>

\* Deleting a key without an object succeeds.
DeleteObject(c) ==
    /\ \/ call[c].op = "delete" /\ call[c].step = "request"
       \/ call[c].step = "delete"
    /\ Store(call[c].path, 0) /\ Answer(c, "done", "nil")
    /\ UNCHANGED <<calls, faults>>

\* Move deletes the source after a copy that succeeded.
AfterCopy(c) == IF call[c].op = "move" /\ bucket[call[c].path] # 0 THEN "delete" ELSE "done"

CopyObject(c) ==
    /\ call[c].op \in {"copy", "move"} /\ call[c].step = "request"
    /\ IF bucket[call[c].path] = 0 THEN UNCHANGED <<bucket, always>>
       ELSE Store(call[c].dst, bucket[call[c].path])
    /\ Answer(c, AfterCopy(c), IF bucket[call[c].path] = 0 THEN "ErrNotFound" ELSE "nil")
    /\ UNCHANGED <<calls, faults>>

\* Mutant: an answer that is lost is taken for success.
AfterFailureGoesOn(c) == IF call[c].op = "move" /\ call[c].step = "request" THEN "delete" ELSE "done"

AfterFailure(c) == "done"

RequestFails(c) ==
    /\ call[c].step # "done" /\ Fault
    /\ Answer(c, AfterFailure(c), "error")
    /\ UNCHANGED <<bucket, always, calls>>

AnswerIsLost(c) ==
    /\ call[c].op \in {"put", "delete", "copy", "move"} /\ call[c].step # "done" /\ Fault
    /\ \/ call[c].op = "put" /\ Store(call[c].path, calls + 1)
       \/ (call[c].op = "delete" \/ call[c].step = "delete") /\ Store(call[c].path, 0)
       \/ /\ call[c].op \in {"copy", "move"} /\ call[c].step = "request" /\ bucket[call[c].path] # 0
          /\ Store(call[c].dst, bucket[call[c].path])
    /\ Answer(c, AfterFailure(c), "error")
    /\ UNCHANGED calls

-----------------------------------------------------------------------------
(* Stat and ListFiles *)

Below(dir, k) == Len(k) > Len(dir) /\ SubSeq(k, 1, Len(dir)) = dir

hasChildren(path) == \E k \in Present : Below(path, k)

\* HeadObject; without an object the prefix is listed.
StatHead(c) ==
    /\ call[c].op = "stat" /\ call[c].step = "request"
    /\ IF bucket[call[c].path] # 0 THEN Answer(c, "done", "file") ELSE Answer(c, "children", "nil")
    /\ UNCHANGED <<bucket, always, calls, faults>>

GetObject(c) ==
    /\ call[c].op = "open" /\ call[c].step = "request"
    /\ Answer(c, "done", IF bucket[call[c].path] # 0 THEN "file" ELSE "ErrNotFound")
    /\ UNCHANGED <<bucket, always, calls, faults>>

StatChildren(c) ==
    /\ call[c].op = "stat" /\ call[c].step = "children"
    /\ Answer(c, "done", IF hasChildren(call[c].path) THEN "directory" ELSE "ErrNotFound")
    /\ UNCHANGED <<bucket, always, calls, faults>>

\* ListFiles without Recursive: deeper keys are common prefixes.
Matches(path, k) == Below(path, k) /\ Len(k) = Len(path) + 1

\* entries: a key that ends with a slash is no file.
EntryOf(k) == IF Last(k) = "" THEN <<>> ELSE <<k>>

\* Only an empty cursor ends the listing.
More(keys, entries) == keys # <<>>

\* The keys after the cursor; the bucket counts markers and common prefixes, and answers
\* with a cursor while there are more keys.
ListPage(c) ==
    /\ call[c].op = "list" /\ call[c].step = "request"
    /\ LET below == SelectSeq(Keys, LAMBDA k : k \in Present /\ Below(call[c].path, k))
           ahead == SelectSeq(below, LAMBDA k : \E i \in DOMAIN Keys : Keys[i] = k /\ i > call[c].cursor)
           keys == SubSeq(ahead, 1, IF Limit < Len(ahead) THEN Limit ELSE Len(ahead))
           entries == FlattenSeq([i \in DOMAIN keys |-> IF Matches(call[c].path, keys[i]) THEN EntryOf(keys[i]) ELSE <<>>])
           more == Len(ahead) > Limit /\ More(keys, entries)
       IN call' = [call EXCEPT ![c].listed = @ \o entries,
                               ![c].cursor = IF more THEN CHOOSE i \in DOMAIN Keys : Keys[i] = Last(keys) ELSE 0,
                               ![c].step = IF more THEN "request" ELSE "done"]
    /\ UNCHANGED <<bucket, always, calls, faults>>

-----------------------------------------------------------------------------
Request(c) ==
    \/ PutObject(c) \/ DeleteObject(c) \/ CopyObject(c) \/ GetObject(c) \/ StatHead(c) \/ StatChildren(c) \/ ListPage(c)
    \/ RequestFails(c) \/ AnswerIsLost(c)

Next == \E c \in Clients : Request(c) \/ \E o \in Ops : Call(c, o)

Spec == Init /\ [][Next]_vars

-----------------------------------------------------------------------------
(* Properties *)

\* Where objects are only moved and copied, none is lost: whatever request of a Move
\* fails, and whoever else moves the object, its content is at the source or the target.
MoveLosesNothing == \E k \in Present : bucket[k] = 1

\* Open and Stat do not answer that nothing is there when an object (for Stat also one
\* below the path) was there throughout the call, although Stat takes two requests.
StatIsJustified ==
    \A c \in Clients : call[c].op \in {"open", "stat"} /\ call[c].step = "done" /\ call[c].err = "ErrNotFound" =>
        \A k \in always[c] : k # call[c].path /\ (call[c].op = "stat" => ~Below(call[c].path, k))

\* A listing taken page by page while objects come and go has every file that was there
\* throughout, once, and no other kind of key.
ListingIsComplete ==
    \A c \in Clients :
        LET files == {k \in KeySet : Below(call[c].path, k) /\ Len(k) = Len(call[c].path) + 1 /\ Last(k) # ""}
        IN call[c].op = "list" /\ call[c].step = "done" /\ call[c].err = "nil" =>
               /\ always[c] \cap files \subseteq ToSet(call[c].listed) /\ ToSet(call[c].listed) \subseteq files
               /\ IsInjective(call[c].listed)

=============================================================================
