----------------------------- MODULE LocalFiles -----------------------------
(***************************************************************************)
(* The local driver of package filesystem under Repository, which copies   *)
(* with Stat, Open and Put because the driver has no Copy of its own.      *)
(* Names point to files (hard links share one); a file is the sequence of  *)
(* blocks written to it, each marked with the Put it comes from.           *)
(***************************************************************************)
EXTENDS Naturals, Sequences, FiniteSets, SequencesExt

CONSTANTS
    Names,      \* the sequence of all names in the directory, in lexical order
    Clients,
    Ops,        \* the operations called: op, src, dst and the size put
    Limit,      \* options.Limit
    MaxCalls, MaxFaults

VARIABLES
    file,       \* the file of each name, 0 for none
    data,       \* the blocks of each file
    call,       \* the call of each client
    clean,      \* history: no other call has written to the files of the call
    always,     \* history: the names there throughout the call
    calls, faults

vars == <<file, data, call, clean, always, calls, faults>>

NameSet == ToSet(Names)
Files == 1..(MaxCalls + 1)
Present == {n \in NameSet : file[n] # 0}
Idle == [op |-> "none", src |-> "", dst |-> "", step |-> "done", err |-> "nil", n |-> 0, size |-> 0,
         from |-> 0, to |-> 0, written |-> 0, want |-> <<>>, names |-> <<>>, listed |-> <<>>, cursor |-> 0]

\* One file of two blocks, under the first name.
Init ==
    /\ file = [n \in NameSet |-> IF n = Names[1] THEN 1 ELSE 0]
    /\ data = [f \in Files |-> IF f = 1 THEN <<1, 1>> ELSE <<>>]
    /\ call = [c \in Clients |-> Idle] /\ clean = [c \in Clients |-> TRUE]
    /\ always = [c \in Clients |-> {}] /\ calls = 1 /\ faults = 0

At(c, op, step) == call[c].op \in op /\ call[c].step = step
Return(c, err) == [call EXCEPT ![c].step = "done", ![c].err = err]

Call(c, o) ==
    /\ call[c].step = "done" /\ calls < MaxCalls
    /\ calls' = calls + 1
    /\ call' = [call EXCEPT ![c] = [Idle EXCEPT !.op = o.op, !.src = o.src, !.dst = o.dst, !.n = calls + 1, !.size = o.size,
                                                !.step = IF o.op = "copy" THEN "stat" ELSE "open",
                                                !.want = [i \in 1..o.size |-> calls + 1]]]
    /\ clean' = [clean EXCEPT ![c] = TRUE] /\ always' = [always EXCEPT ![c] = Present]
    /\ UNCHANGED <<file, data, faults>>

\* The files that a call reads or writes, or will.
FilesOf(d) == {call[d].to, call[d].from} \cup {file[n] : n \in NameSet \cap {call[d].src, call[d].dst}}

\* The blocks and the names after c wrote to f.
Write(c, f, blocks, names) ==
    /\ data' = [data EXCEPT ![f] = blocks] /\ file' = names
    /\ clean' = [d \in Clients |-> IF d # c /\ call[d].step # "done" /\ f \in FilesOf(d) THEN FALSE ELSE clean[d]]
    /\ always' = [d \in Clients |-> {n \in always[d] : names[n] # 0}]

-----------------------------------------------------------------------------
(* Repository.Copy: the size comes from Stat, the blocks from Open *)

CopyStat(c) ==
    /\ At(c, {"copy"}, "stat")
    /\ call' = IF file[call[c].src] = 0 THEN Return(c, "ErrNotFound")
               ELSE [call EXCEPT ![c].step = "source", ![c].size = Len(data[file[call[c].src]]), ![c].want = data[file[call[c].src]]]
    /\ UNCHANGED <<file, data, clean, always, calls, faults>>

CopyOpen(c) ==
    /\ At(c, {"copy"}, "source")
    /\ call' = IF file[call[c].src] = 0 THEN Return(c, "ErrNotFound")
               ELSE [call EXCEPT ![c].step = "open", ![c].from = file[call[c].src]]
    /\ UNCHANGED <<file, data, clean, always, calls, faults>>

-----------------------------------------------------------------------------
(* Put *)

\* O_CREATE and O_TRUNC.
PutOpen(c) ==
    /\ At(c, {"put", "copy"}, "open")
    /\ LET dst == call[c].dst
           f == IF file[dst] # 0 THEN file[dst] ELSE call[c].n
       IN Write(c, f, <<>>, [file EXCEPT ![dst] = f]) /\ call' = [call EXCEPT ![c].step = "write", ![c].to = f]
    /\ UNCHANGED <<calls, faults>>

\* The block that the reader gives next, if any.
NextBlock(c) ==
    IF call[c].op = "put" THEN call[c].n
    ELSE IF call[c].written < Len(data[call[c].from]) THEN data[call[c].from][call[c].written + 1] ELSE 0

\* A write at the offset of the descriptor; a gap that another Put left reads as zeros.
WriteAt(blocks, offset, b) ==
    [i \in 1..(IF offset > Len(blocks) THEN offset ELSE Len(blocks)) |->
        IF i = offset THEN b ELSE IF i <= Len(blocks) THEN blocks[i] ELSE 0]

\* The LimitReader of the content length.
WithinLength(c) == call[c].written < call[c].size

PutWrite(c) ==
    /\ At(c, {"put", "copy"}, "write") /\ WithinLength(c) /\ NextBlock(c) # 0
    /\ Write(c, call[c].to, WriteAt(data[call[c].to], call[c].written + 1, NextBlock(c)), file)
    /\ call' = [call EXCEPT ![c].written = @ + 1]
    /\ UNCHANGED <<calls, faults>>

\* Mutant: a short copy is a success.
WrittenShort(c) == "nil"

\* written is compared to the content length.
Written(c) == IF call[c].written # call[c].size THEN "UnexpectedEOF" ELSE "nil"

PutReturns(c) ==
    /\ At(c, {"put", "copy"}, "write") /\ (call[c].written = call[c].size \/ NextBlock(c) = 0)
    /\ call' = Return(c, Written(c))
    /\ UNCHANGED <<file, data, clean, always, calls, faults>>

\* The context ends, or the disk is full.
PutFails(c) ==
    /\ At(c, {"put", "copy"}, "write") /\ faults < MaxFaults /\ faults' = faults + 1
    /\ call' = Return(c, "error")
    /\ UNCHANGED <<file, data, clean, always, calls>>

-----------------------------------------------------------------------------
(* Operations of one system call *)

Rename(src, dst) == IF src = dst THEN file ELSE [file EXCEPT ![src] = 0, ![dst] = file[src]]

MoveResult(src, dst) == Rename(src, dst)

\* One system call: it fails without an effect, or gives the names new files.
OneCall(c, op, fails, names) ==
    /\ At(c, {op}, "open")
    /\ call' = Return(c, IF fails THEN "error" ELSE "nil")
    /\ file' = (IF fails THEN file ELSE names)
    /\ clean' = [d \in Clients |-> clean[d] /\ \A n \in NameSet \cap {call[d].src, call[d].dst} : file'[n] = file[n]]
    /\ always' = [d \in Clients |-> {n \in always[d] : file'[n] # 0}]
    /\ UNCHANGED <<data, calls, faults>>

Move(c) == OneCall(c, "move", file[call[c].src] = 0, MoveResult(call[c].src, call[c].dst))

Link(c) ==
    OneCall(c, "link", file[call[c].src] = 0 \/ file[call[c].dst] # 0, [file EXCEPT ![call[c].dst] = file[call[c].src]])

\* A name without a file is no error.
Delete(c) == OneCall(c, "delete", FALSE, [file EXCEPT ![call[c].src] = 0])

-----------------------------------------------------------------------------
(* ListFiles *)

ReadDir(c) ==
    /\ At(c, {"list"}, "open")
    /\ call' = [call EXCEPT ![c].names = SelectSeq(Names, LAMBDA n : file[n] # 0), ![c].written = 0, ![c].step = "entries"]
    /\ UNCHANGED <<file, data, clean, always, calls, faults>>

\* Stat of one name; one that is gone is an error of the listing.
StatEntry(c) ==
    /\ At(c, {"list"}, "entries") /\ call[c].names # <<>>
    /\ call' = IF file[Head(call[c].names)] = 0 THEN Return(c, "ErrNotFound")
               ELSE [call EXCEPT ![c].names = Tail(@), ![c].want = Append(@, Head(call[c].names))]
    /\ UNCHANGED <<file, data, clean, always, calls, faults>>

\* The entries whose path is greater than the cursor.
Start(entries, cursor) == SelectSeq(entries, LAMBDA n : \E i \in DOMAIN Names : Names[i] = n /\ i > cursor)

Paginate(c) ==
    /\ At(c, {"list"}, "entries") /\ call[c].names = <<>>
    /\ LET rest == Start(call[c].want, call[c].cursor)
           page == SubSeq(rest, 1, IF Limit < Len(rest) THEN Limit ELSE Len(rest))
           more == Len(rest) > Limit
       IN call' = [call EXCEPT ![c].listed = @ \o page, ![c].want = <<>>, ![c].step = IF more THEN "open" ELSE "done",
                               ![c].cursor = IF more THEN CHOOSE i \in DOMAIN Names : Names[i] = Last(page) ELSE 0]
    /\ UNCHANGED <<file, data, clean, always, calls, faults>>

-----------------------------------------------------------------------------
Step(c) ==
    \/ CopyStat(c) \/ CopyOpen(c) \/ PutOpen(c) \/ PutWrite(c) \/ PutReturns(c) \/ PutFails(c)
    \/ Move(c) \/ Link(c) \/ Delete(c) \/ ReadDir(c) \/ StatEntry(c) \/ Paginate(c)

Next == \E c \in Clients : Step(c) \/ \E o \in Ops : Call(c, o)

Spec == Init /\ [][Next]_vars

-----------------------------------------------------------------------------
(* Properties *)

\* In every step, a Put or Copy that returns nil, and whose files nobody else wrote to meanwhile, has
\* left exactly the content given to it; a Copy onto its own source, which is cut off
\* before it is read, does not return nil.
NilMeansExact ==
    \A c \in Clients : call[c].step = "write" /\ call'[c].step = "done" /\ call'[c].err = "nil" /\ clean[c] =>
        data[call[c].to] = call[c].want

\* A listing taken page by page, while files come and go, has every name that was there
\* throughout, once.
ListingIsComplete ==
    \A c \in Clients : At(c, {"list"}, "done") /\ call[c].err = "nil" => always[c] \subseteq ToSet(call[c].listed) /\ IsInjective(call[c].listed)

=============================================================================
