------------------------------ MODULE JetClient ------------------------------
(***************************************************************************)
(* hyperf/jet Client: Invoke appends the middlewares of the call to those  *)
(* of the client, chains them around the request, and sends it: pack,      *)
(* format, send, parse, unpack. append writes into the array of the        *)
(* client's slice while there is room, and that array is shared by the     *)
(* calls of all goroutines. A remote error crosses the wire as JSON.       *)
(***************************************************************************)
EXTENDS Naturals, Sequences, FiniteSets, SequencesExt

CONSTANTS
    Goroutines,
    Middlewares,
    MaxUses,      \* bound of the calls of Use
    MaxCalls,     \* bound of the calls of Invoke
    None          \* no middleware: in an array, or of a call

VARIABLES
    array,   \* the array of the client's slice
    length,  \* and the slice's length
    own,     \* history: the middlewares given to the client
    calls,   \* the Invoke of every goroutine
    count    \* the number of calls so far

vars == <<array, length, own, calls, count>>

Stages == <<"pack", "format", "send", "parse", "unpack">>
\* The kinds of data of a remote error: none, an error without JSON of its
\* own, an error that marshals itself, to JSON or to null.
ErrorData == {"none", "text", "json", "null"}
Answers == [status : {"ok", "failed"}, body : {"result"} \cup ErrorData]

Idle == [pc |-> "idle", own |-> None, slice |-> <<>>, shared |-> FALSE, chain |-> <<>>, stage |-> 1,
         answer |-> [status |-> "ok", body |-> "result"], result |-> "none"]

\* NewClient, with or without WithMiddleware.
Init ==
    /\ \E n \in 0..1, m \in Middlewares : array = [k \in 1..n |-> m] /\ length = n /\ own = array
    /\ calls = [g \in Goroutines |-> Idle] /\ count = 0

\* Use is called while the client is set up.
Use(m) ==
    /\ \A g \in Goroutines : calls[g].pc = "idle"
    /\ count = 0 /\ Len(own) <= MaxUses
    /\ own' = Append(own, m) /\ length' = length + 1
    /\ IF length < Len(array) THEN array' = [array EXCEPT ![length + 1] = m]
       ELSE array' = Append(array, m) \o [k \in 1..(IF length = 0 THEN 0 ELSE length - 1) |-> None]
    /\ UNCHANGED <<calls, count>>

\* The slice of the client has the length it had.
Keep(m) == UNCHANGED length

AppendOwn(g, m) ==
    /\ calls[g].pc = "idle" /\ count < MaxCalls /\ count' = count + 1
    /\ \/ /\ m # None /\ length < Len(array)
          /\ array' = [array EXCEPT ![length + 1] = m] /\ Keep(m)
          /\ calls' = [calls EXCEPT ![g] = [Idle EXCEPT !.pc = "appended", !.own = m, !.shared = TRUE]]
       \/ /\ m = None \/ length = Len(array)
          /\ calls' = [calls EXCEPT ![g] = [Idle EXCEPT !.pc = "appended", !.own = m,
                           !.slice = SubSeq(array, 1, length) \o (IF m = None THEN <<>> ELSE <<m>>)]]
          /\ UNCHANGED <<array, length>>
    /\ UNCHANGED own

\* From the last to the first, each around what there is: seen from inside.
Chain(ms) == Reverse(ms)

\* The slice is read, and the handler wrapped.
Wrap(g) ==
    /\ calls[g].pc = "appended"
    /\ calls' = [calls EXCEPT ![g].pc = "invoke", ![g].chain =
                     Chain(IF calls[g].shared THEN SubSeq(array, 1, length + 1) ELSE calls[g].slice)]
    /\ UNCHANGED <<array, length, own, count>>

-----------------------------------------------------------------------------
(* The wire *)

\* Mutant: an error without JSON of its own is sent as an empty object.
MarshalEmpty(data) == CASE data = "none" -> "absent" [] data = "text" -> "{}" [] data = "json" -> "json" [] data = "null" -> "null"

\* JSONRPCFormatterResponseError: the text replaces an empty object.
MarshalJSON(data) == CASE data = "none" -> "absent" [] data = "text" -> "text" [] data = "json" -> "json" [] data = "null" -> "null"

\* Absent data and null are no data; the rest keeps its JSON, which is also
\* how it marshals again, and a JSON string reads as its text.
UnmarshalJSON(raw) == IF raw \in {"absent", "null"} THEN "none" ELSE raw

\* isHTTPTransporterServerFailed
Send(answer) == answer.status = "ok"

\* The outcome of a stage, "" for success.
Outcome(stage, answer) ==
    CASE stage = "send" -> IF Send(answer) THEN "" ELSE "send"
      [] stage = "parse" -> IF answer.body = "result" THEN "" ELSE UnmarshalJSON(MarshalJSON(answer.body))
      [] OTHER -> ""

\* One stage of invoke; each may fail by itself, and the answer comes with send.
Invoke(g, answer, fails) ==
    /\ calls[g].pc = "invoke"
    /\ LET stage == Stages[calls[g].stage]
           got == IF stage = "send" THEN answer ELSE calls[g].answer
           error == IF fails THEN stage ELSE Outcome(stage, got)
       IN calls' = [calls EXCEPT ![g].answer = got, ![g].stage = @ + 1,
                        ![g].pc = IF error # "" \/ stage = "unpack" THEN "done" ELSE @,
                        ![g].result = IF error # "" THEN error ELSE IF stage = "unpack" THEN "result" ELSE @]
    /\ UNCHANGED <<array, length, own, count>>

Return(g) ==
    /\ calls[g].pc = "done" /\ calls' = [calls EXCEPT ![g] = Idle]
    /\ UNCHANGED <<array, length, own, count>>

Next ==
    \/ \E m \in Middlewares : Use(m)
    \/ \E g \in Goroutines :
           \/ \E m \in Middlewares \cup {None} : AppendOwn(g, m)
           \/ Wrap(g) \/ Return(g)
           \/ \E answer \in Answers, fails \in BOOLEAN : Invoke(g, answer, fails)

Spec == Init /\ [][Next]_vars

-----------------------------------------------------------------------------

\* The calls of all goroutines leave the client the middlewares it was given,
\* although they write into its array.
ClientKeeps == length = Len(own) /\ SubSeq(array, 1, length) = own

\* A call runs through the middlewares of the client and then its own, from
\* the outermost inwards.
OwnMiddlewares ==
    \A g \in Goroutines : calls[g].pc \in {"invoke", "done"} =>
        Reverse(calls[g].chain) = own \o (IF calls[g].own = None THEN <<>> ELSE <<calls[g].own>>)

\* A call that returns the result has had an answer with a good status and a
\* result, and a call with an error has none: the stages after it do not run.
ResultIsAnswered ==
    \A g \in Goroutines : calls[g].pc = "done" =>
        /\ calls[g].result = "result" => calls[g].answer = [status |-> "ok", body |-> "result"] /\ calls[g].stage = 6
        /\ calls[g].answer.status = "failed" => calls[g].result \in {"pack", "format", "send"}

\* The caller sees the data of a remote error, and would see it as well if the
\* server had relayed it from another one.
ErrorSurvivesRelay ==
    \A g \in Goroutines : calls[g].pc = "done" /\ calls[g].stage = 5 /\ calls[g].result # "parse" =>
        /\ calls[g].result = (IF calls[g].answer.body = "null" THEN "none" ELSE calls[g].answer.body)
        /\ UnmarshalJSON(MarshalJSON(calls[g].result)) = calls[g].result
=============================================================================
