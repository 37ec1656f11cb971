--------------------------- MODULE ExecutorProofs ---------------------------
(***************************************************************************)
(* Proofs about the components that run callbacks for concurrent callers:  *)
(* Idempotency, Debouncer, Retry, Pool, MapStream and GroupRun. They do    *)
(* not interact: the module extends the first, and the others are          *)
(* instances with variables of their own. Every theorem holds for all      *)
(* values of the constants that meet its hypotheses, which are those the   *)
(* constructors enforce.                                                   *)
(*                                                                         *)
(* WorkedOncePerExpiry of Idempotency is not inductive: a call whose claim *)
(* expired may still run its handler while the next one does. Budget       *)
(* counts the calls that have done the work or may still do it, except the *)
(* one the record belongs to; only an expiry takes the record away from    *)
(* such a call.                                                            *)
(***************************************************************************)
EXTENDS Idempotency, Sequences, FiniteSetTheorems, TLAPS

-----------------------------------------------------------------------------
(* Idempotency *)



\* The call the record belongs to, if any.
Owner == {c \in Calls : rec.token = c \/ rec.data = c}

\* The calls whose handler has succeeded, or may.
Workers == produced \cup {c \in Calls : pc[c] \in {"begun", "run"}}

Budget == IsFiniteSet(Workers \ Owner) /\ Cardinality(Workers \ Owner) <= expiries

\* The record belongs to the call that acquired the key last, with its
\* fingerprint; a result was produced.
RecordIsClaimants ==
    /\ \A c \in Owner : c = claimant /\ rec.fingerprint = fp[c]
    /\ \A c \in Calls : rec.data = c => c \in produced

\* What the place of a call says of its work.
PlaceTells == \A c \in Calls :
    /\ pc[c] \in {"encode", "complete", "nil"} => c \in produced /\ value[c] = c
    /\ pc[c] \in {"new", "begun", "run", "abort", "failed"} => c \notin produced
    /\ pc[c] \in {"new", "failed"} => rec.token # c
    /\ pc[c] = "replayed" => value[c] \in produced /\ fp[c] \in {Empty, fp[value[c]]}

IInv == TypeOK /\ RecordIsClaimants /\ PlaceTells /\ Budget

\* A record is absent, a claim or a result.
LEMMA RecordCases ==
    ASSUME TypeOK
    PROVE  \/ rec = Absent /\ rec.status = "absent" /\ Owner = {} /\ rec.token = Empty /\ rec.data = Empty
           \/ rec.status = "in_progress" /\ rec.token \in Calls /\ rec.data = Empty /\ Owner = {rec.token}
           \/ rec.status = "completed" /\ rec.token = Empty /\ rec.data \in Calls /\ Owner = {rec.data}
<1> USE IdempotencyAssumption
<1>1. CASE rec = Absent
  BY Zenon, <1>1 DEF Absent, Owner
<1>2. CASE rec \in Claim
  BY Zenon, <1>2 DEF Claim, Owner
<1>3. CASE rec \in Result
  BY Zenon, <1>3 DEF Result, Owner
<1> QED
  BY Zenon, <1>1, <1>2, <1>3 DEF TypeOK

\* The inductive invariant holds of an absent record.
LEMMA InitIInv == Init => IInv
<1> SUFFICES ASSUME Init PROVE IInv
  BY Zenon
<1> USE IdempotencyAssumption DEF Init
<1>1. TypeOK
  <2>1. pc \in [Calls -> {"new"} \cup Running \cup Returned] /\ value \in [Calls -> Calls \cup {Empty}]
    BY Zenon
  <2>2. expiries \in 0..MaxExpiries /\ faults \in 0..MaxFaults
    OBVIOUS
  <2> QED
    BY Zenon, <2>1, <2>2 DEF TypeOK
<1>2. Owner = {} /\ Workers = {}
  BY Zenon DEF Owner, Workers, Absent
<1>3. Budget
  <2>1. IsFiniteSet({}) /\ Cardinality({}) = 0 /\ Workers \ Owner = {} /\ expiries = 0
    BY Zenon, <1>2, FS_EmptySet
  <2>2. IsFiniteSet(Workers \ Owner) /\ Cardinality(Workers \ Owner) = 0
    BY <2>1, Zenon
  <2> QED
    BY <2>1, <2>2 DEF Budget
<1>4. RecordIsClaimants /\ PlaceTells
  BY Zenon, <1>2 DEF RecordIsClaimants, PlaceTells, Absent
<1> QED
  BY Zenon, <1>1, <1>3, <1>4 DEF IInv

\* What the store does to the record keeps its type.
LEMMA RecordType ==
    ASSUME TypeOK, NEW c \in Calls
    PROVE  /\ Begun(rec, c, fp[c]) \in {Absent} \cup Claim \cup Result
           /\ Aborted(rec, c) \in {Absent} \cup Claim \cup Result
           /\ value[c] \in Calls => Completed(rec, c, value[c]) \in {Absent} \cup Claim \cup Result
<1>1. rec \in {Absent} \cup Claim \cup Result /\ fp[c] \in Fingerprints
  BY Zenon DEF TypeOK
<1>2. Begun(rec, c, fp[c]) \in {Absent} \cup Claim \cup Result
  BY Zenon, <1>1 DEF Begun, Claim
<1>3. Aborted(rec, c) \in {Absent} \cup Claim \cup Result
  BY Zenon, <1>1 DEF Aborted
<1>4. ASSUME value[c] \in Calls PROVE Completed(rec, c, value[c]) \in {Absent} \cup Claim \cup Result
  <2>1. CASE Owns(rec, c)
    <3>1. Absent.status = "absent" /\ \A r \in Result : r.status = "completed"
      BY Zenon DEF Absent, Result
    <3>2. rec \in Claim
      BY Zenon, <1>1, <2>1, <3>1 DEF Owns
    <3>3. [rec EXCEPT !.status = "completed", !.token = Empty, !.data = value[c]] \in Result
      BY Zenon, <1>4, <3>2 DEF Claim, Result
    <3> QED
      BY Zenon, <2>1, <3>3 DEF Completed
  <2>2. CASE ~Owns(rec, c)
    BY Zenon, <1>1, <2>2 DEF Completed
  <2> QED
    BY Zenon, <2>1, <2>2
<1> QED
  BY Zenon, <1>2, <1>3, <1>4

\* Every step keeps the types.
LEMMA TypeStep == TypeOK /\ PlaceTells /\ [Next]_vars => TypeOK'
<1> SUFFICES ASSUME TypeOK, PlaceTells, [Next]_vars PROVE TypeOK'
  BY Zenon
<1> DEFINE R == {Absent} \cup Claim \cup Result
           P == {"new"} \cup Running \cup Returned
<1>0. ASSUME NEW c \in Calls, Fault \/ UNCHANGED faults PROVE faults' \in 0..MaxFaults
  BY <1>0, IdempotencyAssumption DEF Fault, TypeOK
<1>1. ASSUME NEW c \in Calls, Begin(c) PROVE TypeOK'
  <2>1. rec' \in R
    BY Zenon, <1>1, RecordType DEF Begin, Claimed
  <2>2. pc' \in [Calls -> P]
    <3>1. BeginStatus(rec, fp[c]) \in {"acquired", "completed", "in_progress", "conflict"}
      BY Zenon, RecordCases DEF BeginStatus
    <3> QED
      BY Zenon, <1>1, <3>1 DEF Begin, Goto, TypeOK, Running, Returned
  <2>3. value' \in [Calls -> Calls \cup {Empty}]
    BY Zenon, <1>1, RecordCases DEF Begin, TypeOK
  <2> QED
    BY Zenon, <1>1, <2>1, <2>2, <2>3 DEF Begin, Claimed, TypeOK
<1>2. ASSUME NEW c \in Calls, BeginFails(c) PROVE TypeOK'
  <2>1. rec' \in R
    BY Zenon, <1>2, RecordType DEF BeginFails, Claimed, TypeOK
  <2>2. pc' \in [Calls -> P]
    BY Zenon, <1>2 DEF BeginFails, Goto, TypeOK, Returned
  <2>3. claimant' \in Calls \cup {Empty}
    BY Zenon, <1>2 DEF BeginFails, Claimed, TypeOK
  <2> QED
    BY Zenon, <1>0, <1>2, <2>1, <2>2, <2>3 DEF BeginFails, TypeOK
<1>3. ASSUME NEW c \in Calls, Cancelled(c) \/ StartHandler(c) \/ HandlerFails(c) \/ Encode(c)
      PROVE  TypeOK'
  <2>1. pc' \in [Calls -> P]
    BY <1>3 DEF Cancelled, StartHandler, HandlerFails, Encode, Goto, TypeOK, Running, Returned
  <2> QED
    BY Zenon, <1>3, <2>1 DEF Cancelled, StartHandler, HandlerFails, Encode, TypeOK
<1>4. ASSUME NEW c \in Calls, HandlerSucceeds(c) PROVE TypeOK'
  BY Zenon, <1>4 DEF HandlerSucceeds, Goto, TypeOK, Running
<1>5. ASSUME NEW c \in Calls, Complete(c) PROVE TypeOK'
  <2>1. rec' \in R
    BY Zenon, <1>5, RecordType DEF Complete, PlaceTells
  <2>2. pc' \in [Calls -> P]
    BY Zenon, <1>5 DEF Complete, Goto, TypeOK, Returned
  <2> QED
    BY Zenon, <1>5, <2>1, <2>2 DEF Complete, TypeOK
<1>6. ASSUME NEW c \in Calls, Abort(c) PROVE TypeOK'
  <2>1. rec' \in R /\ pc' \in [Calls -> P]
    BY Zenon, <1>6, RecordType DEF Abort, Goto, TypeOK, Returned
  <2> QED
    BY Zenon, <1>6, <2>1 DEF Abort, TypeOK
<1>7. ASSUME NEW c \in Calls, FinalizeFails(c) PROVE TypeOK'
  <2>1. rec' \in R
    BY <1>7, RecordType DEF FinalizeFails, PlaceTells, TypeOK
  <2>2. pc' \in [Calls -> P]
    BY Zenon, <1>7 DEF FinalizeFails, Goto, TypeOK, Returned
  <2> QED
    BY Zenon, <1>0, <1>7, <2>1, <2>2 DEF FinalizeFails, TypeOK
<1>8. ASSUME NEW c \in Calls, Crash(c) PROVE TypeOK'
  <2>1. pc' \in [Calls -> P]
    BY Zenon, <1>8 DEF Crash, Goto, TypeOK, Returned
  <2> QED
    BY Zenon, <1>0, <1>8, <2>1 DEF Crash, TypeOK
<1>9. CASE Expire
  BY <1>9, IdempotencyAssumption DEF Expire, TypeOK
<1>10. CASE UNCHANGED vars
  BY Zenon, <1>10 DEF vars, TypeOK
<1> QED
  BY Zenon, <1>1, <1>2, <1>3, <1>4, <1>5, <1>6, <1>7, <1>8, <1>9, <1>10 DEF Next, Step

-----------------------------------------------------------------------------
(* What a step may do to the record *)

Taken(c) ==
    /\ rec.token = Empty /\ rec.data = Empty
    /\ rec'.token = c /\ rec'.data = Empty /\ rec'.fingerprint = fp[c]
Finished(c) ==
    /\ rec.token = c
    /\ rec'.token = Empty /\ rec'.data = c /\ rec'.fingerprint = rec.fingerprint
Freed == rec'.token = Empty /\ rec'.data = Empty

\* Begin leaves the record alone or takes it.
LEMMA BegunRecord ==
    ASSUME TypeOK, NEW c \in Calls, Claimed(c)
    PROVE  \/ rec' = rec /\ claimant' = claimant /\ BeginStatus(rec, fp[c]) # "acquired"
           \/ Taken(c) /\ claimant' = c /\ BeginStatus(rec, fp[c]) = "acquired"
<1>1. CASE rec.status = "absent"
  <2>1. rec.token = Empty /\ rec.data = Empty
    BY Zenon, <1>1, RecordCases
  <2> QED
    BY Zenon, <1>1, <2>1 DEF Claimed, Begun, BeginStatus, Taken
<1>2. CASE rec.status # "absent"
  BY Zenon, <1>2, RecordCases DEF Claimed, Begun, BeginStatus
<1> QED
  BY Zenon, <1>1, <1>2

\* Complete leaves it alone or turns the caller's claim into its result.
LEMMA CompletedRecord ==
    ASSUME TypeOK, NEW c \in Calls, rec' = Completed(rec, c, c)
    PROVE  rec' = rec \/ Finished(c)
<1>1. CASE Owns(rec, c)
  <2>1. Absent.status = "absent" /\ \A r \in Result : r.status = "completed"
    BY Zenon DEF Absent, Result
  <2>2. rec \in Claim
    BY Zenon, <1>1, <2>1 DEF Owns, TypeOK
  <2> QED
    BY Zenon, <1>1, <2>2 DEF Completed, Owns, Finished, Claim
<1>2. CASE ~Owns(rec, c)
  BY Zenon, <1>2 DEF Completed
<1> QED
  BY Zenon, <1>1, <1>2

\* Abort leaves it alone or frees the caller's claim, and the caller has none then.
LEMMA AbortedRecord ==
    ASSUME TypeOK, NEW c \in Calls, rec' = Aborted(rec, c)
    PROVE  /\ rec' = rec \/ (rec.token = c /\ Freed)
           /\ rec'.token # c
<1>1. CASE Owns(rec, c)
  BY Zenon, <1>1, IdempotencyAssumption DEF Aborted, Owns, Freed, Absent
<1>2. CASE ~Owns(rec, c)
  <2>1. rec.token # c
    BY Zenon, <1>2, RecordCases, IdempotencyAssumption DEF Owns
  <2> QED
    BY Zenon, <1>2, <2>1 DEF Aborted
<1> QED
  BY Zenon, <1>1, <1>2

\* Whatever a step does to the record, it still belongs to the last claimant.
LEMMA RecordKept ==
    ASSUME TypeOK, RecordIsClaimants, fp' = fp, produced \subseteq produced',
           \/ rec' = rec /\ claimant' = claimant
           \/ \E c \in Calls : Taken(c) /\ claimant' = c
           \/ \E c \in Calls : Finished(c) /\ c \in produced /\ claimant' = claimant
           \/ Freed
    PROVE  RecordIsClaimants'
<1> USE IdempotencyAssumption DEF RecordIsClaimants, Owner
<1>1. CASE rec' = rec /\ claimant' = claimant
  BY Zenon, <1>1
<1>2. ASSUME NEW c \in Calls, Taken(c), claimant' = c PROVE RecordIsClaimants'
  BY Zenon, <1>2 DEF Taken
<1>3. ASSUME NEW c \in Calls, Finished(c), c \in produced, claimant' = claimant PROVE RecordIsClaimants'
  BY Zenon, <1>3 DEF Finished
<1>4. CASE Freed
  BY Zenon, <1>4 DEF Freed
<1> QED
  BY Zenon, <1>1, <1>2, <1>3, <1>4

\* Every step keeps the record with the last claimant.
LEMMA RecordStep ==
    TypeOK /\ RecordIsClaimants /\ PlaceTells /\ [Next]_vars => RecordIsClaimants'
<1> SUFFICES ASSUME TypeOK, RecordIsClaimants, PlaceTells, [Next]_vars PROVE RecordIsClaimants'
  BY Zenon
<1>1. ASSUME NEW c \in Calls, Begin(c) \/ BeginFails(c) PROVE RecordIsClaimants'
  <2>1. Claimed(c) \/ UNCHANGED <<rec, claimant>>
    BY Zenon, <1>1 DEF Begin, BeginFails
  <2>2. fp' = fp /\ produced' = produced
    BY Zenon, <1>1 DEF Begin, BeginFails
  <2> QED
    BY Zenon, <2>1, <2>2, BegunRecord, RecordKept
<1>2. ASSUME NEW c \in Calls,
             Cancelled(c) \/ StartHandler(c) \/ HandlerSucceeds(c) \/ HandlerFails(c) \/ Encode(c) \/ Crash(c)
      PROVE  RecordIsClaimants'
  BY Zenon, <1>2, RecordKept DEF Cancelled, StartHandler, HandlerSucceeds, HandlerFails, Encode, Crash
<1>3. ASSUME NEW c \in Calls, Complete(c) \/ Abort(c) \/ FinalizeFails(c) PROVE RecordIsClaimants'
  <2>1. UNCHANGED <<fp, produced, claimant>>
    BY Zenon, <1>3 DEF Complete, Abort, FinalizeFails
  <2>2. CASE rec' = rec
    BY Zenon, <2>1, <2>2, RecordKept
  <2>3. CASE rec' = Completed(rec, c, value[c]) /\ pc[c] = "complete"
    <3>1. c \in produced /\ value[c] = c
      BY Zenon, <2>3 DEF PlaceTells
    <3> QED
      BY Zenon, <2>1, <2>3, <3>1, CompletedRecord, RecordKept
  <2>4. CASE rec' = Aborted(rec, c)
    BY Zenon, <2>1, <2>4, AbortedRecord, RecordKept
  <2> QED
    BY Zenon, <1>3, <2>2, <2>3, <2>4 DEF Complete, Abort, FinalizeFails
<1>4. CASE Expire
  <2>1. Freed /\ fp' = fp /\ produced' = produced
    BY Zenon, <1>4 DEF Expire, Freed, Absent
  <2> QED
    BY Zenon, <2>1, RecordKept
<1>5. CASE UNCHANGED vars
  BY Zenon, <1>5, RecordKept DEF vars
<1> QED
  BY Zenon, <1>1, <1>2, <1>3, <1>4, <1>5 DEF Next, Step

\* Every step keeps what the places of the calls say.
LEMMA PlaceStep ==
    TypeOK /\ RecordIsClaimants /\ PlaceTells /\ [Next]_vars => PlaceTells'
<1> SUFFICES ASSUME TypeOK, RecordIsClaimants, PlaceTells, [Next]_vars PROVE PlaceTells'
  BY Zenon
<1> USE IdempotencyAssumption
<1>1. ASSUME NEW c \in Calls, Begin(c) PROVE PlaceTells'
  <2>1. /\ pc[c] = "new" /\ pc' = [pc EXCEPT ![c] = pc'[c]] /\ UNCHANGED <<fp, produced>>
        /\ \A d \in Calls \ {c} : pc'[d] = pc[d] /\ value'[d] = value[d]
    BY Zenon, <1>1 DEF Begin, Goto, TypeOK
  <2>2. pc'[c] \in {"begun", "replayed", "in_progress", "conflict"}
    <3>1. BeginStatus(rec, fp[c]) \in {"acquired", "completed", "in_progress", "conflict"}
      BY Zenon, RecordCases DEF BeginStatus
    <3> QED
      BY Zenon, <1>1, <3>1 DEF Begin, Goto, TypeOK
  <2>3. \A d \in Calls \ {c} : rec'.token = d => rec.token = d
    BY Zenon, <1>1, BegunRecord DEF Begin, Taken
  <2>4. c \notin produced
    BY Zenon, <2>1 DEF PlaceTells
  <2>5. ASSUME pc'[c] = "replayed" PROVE value'[c] \in produced /\ fp[c] \in {Empty, fp[value'[c]]}
    <3>1. BeginStatus(rec, fp[c]) = "completed" /\ value'[c] = rec.data
      BY Zenon, <1>1, <2>5, RecordCases DEF Begin, Goto, TypeOK, BeginStatus
    <3>2. rec.status = "completed" /\ (fp[c] = Empty \/ fp[c] = rec.fingerprint)
      BY Zenon, <3>1, RecordCases DEF BeginStatus, Conflict
    <3>3. rec.data \in Calls /\ rec.data \in Owner
      BY Zenon, <3>2, RecordCases
    <3> QED
      BY Zenon, <3>1, <3>2, <3>3 DEF RecordIsClaimants
  <2> QED
    BY <2>1, <2>2, <2>3, <2>4, <2>5 DEF PlaceTells
<1>2. ASSUME NEW c \in Calls, BeginFails(c) PROVE PlaceTells'
  <2>1. /\ pc'[c] = "error" /\ UNCHANGED <<fp, produced, value>>
        /\ \A d \in Calls \ {c} : pc'[d] = pc[d]
    BY Zenon, <1>2 DEF BeginFails, Goto, TypeOK
  <2>2. \A d \in Calls \ {c} : rec'.token = d => rec.token = d
    BY Zenon, <1>2, BegunRecord DEF BeginFails, Taken
  <2> QED
    BY <2>1, <2>2 DEF PlaceTells
<1>3. ASSUME NEW c \in Calls, Cancelled(c) \/ StartHandler(c) \/ HandlerFails(c) \/ Encode(c) \/ Crash(c)
      PROVE  PlaceTells'
  <2>1. /\ UNCHANGED <<rec, fp, produced, value>> /\ \A d \in Calls \ {c} : pc'[d] = pc[d]
    BY Zenon, <1>3 DEF Cancelled, StartHandler, HandlerFails, Encode, Crash, Goto, TypeOK
  <2>2. \/ pc'[c] \in {"error", "crashed"}
        \/ pc[c] = "begun" /\ pc'[c] \in {"run", "abort"}
        \/ pc[c] = "run" /\ pc'[c] = "abort"
        \/ pc[c] = "encode" /\ pc'[c] = "complete"
    BY Zenon, <1>3 DEF Cancelled, StartHandler, HandlerFails, Encode, Crash, Goto, TypeOK
  <2> QED
    BY <2>1, <2>2 DEF PlaceTells
<1>4. ASSUME NEW c \in Calls, HandlerSucceeds(c) PROVE PlaceTells'
  <2>1. /\ UNCHANGED <<rec, fp>> /\ produced' = produced \cup {c}
        /\ pc'[c] = "encode" /\ value'[c] = c
        /\ \A d \in Calls \ {c} : pc'[d] = pc[d] /\ value'[d] = value[d]
    BY Zenon, <1>4 DEF HandlerSucceeds, Goto, TypeOK
  <2> QED
    BY <2>1 DEF PlaceTells
<1>5. ASSUME NEW c \in Calls, Complete(c) PROVE PlaceTells'
  <2>1. /\ UNCHANGED <<fp, produced, value>> /\ pc[c] = "complete" /\ pc'[c] \in {"nil", "lost"}
        /\ \A d \in Calls \ {c} : pc'[d] = pc[d]
    BY Zenon, <1>5 DEF Complete, Goto, TypeOK
  <2>2. rec' = Completed(rec, c, c)
    BY Zenon, <1>5 DEF Complete, PlaceTells
  <2>3. \A d \in Calls : rec'.token = d => rec.token = d
    BY Zenon, <2>2, CompletedRecord DEF Finished
  <2> QED
    BY <2>1, <2>3 DEF PlaceTells
<1>6. ASSUME NEW c \in Calls, Abort(c) PROVE PlaceTells'
  <2>1. /\ UNCHANGED <<fp, produced, value>> /\ pc[c] = "abort" /\ pc'[c] = "failed"
        /\ \A d \in Calls \ {c} : pc'[d] = pc[d]
    BY Zenon, <1>6 DEF Abort, Goto, TypeOK
  <2>2. rec'.token # c /\ \A d \in Calls : rec'.token = d => rec.token = d
    BY Zenon, <1>6, AbortedRecord DEF Abort, Freed
  <2> QED
    BY <2>1, <2>2 DEF PlaceTells
<1>7. ASSUME NEW c \in Calls, FinalizeFails(c) PROVE PlaceTells'
  <2>1. /\ UNCHANGED <<fp, produced, value>> /\ pc'[c] = "error"
        /\ \A d \in Calls \ {c} : pc'[d] = pc[d]
    BY Zenon, <1>7 DEF FinalizeFails, Goto, TypeOK
  <2>2. rec' = rec \/ rec' = Completed(rec, c, c) \/ rec' = Aborted(rec, c)
    BY Zenon, <1>7 DEF FinalizeFails, PlaceTells
  <2>3. \A d \in Calls : rec'.token = d => rec.token = d
    BY Zenon, <2>2, CompletedRecord, AbortedRecord DEF Finished, Freed
  <2> QED
    BY <2>1, <2>3 DEF PlaceTells
<1>8. CASE Expire
  <2>1. UNCHANGED <<pc, fp, value, produced>> /\ rec'.token = Empty
    BY Zenon, <1>8 DEF Expire, Absent
  <2> QED
    BY Zenon, <2>1 DEF PlaceTells
<1>9. CASE UNCHANGED vars
  BY Zenon, <1>9 DEF vars, PlaceTells
<1> QED
  BY Zenon, <1>1, <1>2, <1>3, <1>4, <1>5, <1>6, <1>7, <1>8, <1>9 DEF Next, Step

\* A step after which no further call counts stays within the budget.
LEMMA BudgetKept ==
    ASSUME TypeOK, TypeOK', Budget, Workers' \ Owner' \subseteq Workers \ Owner, expiries' = expiries
    PROVE  Budget'
<1> DEFINE S == Workers \ Owner
           T == Workers' \ Owner'
<1>1. IsFiniteSet(S) /\ Cardinality(S) <= expiries /\ T \in SUBSET S
  BY Zenon DEF Budget
<1> HIDE DEF S, T
<1>2. IsFiniteSet(T) /\ Cardinality(T) <= Cardinality(S)
  BY Zenon, <1>1, FS_Subset
<1>3. Cardinality(S) \in Nat /\ Cardinality(T) \in Nat
  BY Zenon, <1>1, <1>2, FS_CardinalityType
<1>4. expiries \in Nat
  BY DEF TypeOK
<1>5. IsFiniteSet(T) /\ Cardinality(T) <= expiries'
  BY <1>1, <1>2, <1>3, <1>4
<1> QED
  BY Zenon, <1>5 DEF Budget, T

\* An expiry lets one more call do the work: the one the record belonged to.
LEMMA BudgetExpire ==
    ASSUME TypeOK, Budget, Expire
    PROVE  Budget'
<1> DEFINE S == Workers \ Owner
           T == Workers' \ Owner'
<1>1. IsFiniteSet(S) /\ Cardinality(S) <= expiries
  BY Zenon DEF Budget
<1>2. \E o \in Calls : Owner = {o}
  BY Zenon, RecordCases DEF Expire
<1>3. Workers' = Workers
  BY Zenon DEF Expire, Workers
<1>4. PICK o : T \in SUBSET (S \cup {o})
  BY Zenon, <1>2, <1>3
<1>5. expiries \in Nat /\ expiries' = expiries + 1
  BY DEF TypeOK, Expire
<1> HIDE DEF S, T
<1>6. IsFiniteSet(S \cup {o}) /\ Cardinality(S \cup {o}) <= Cardinality(S) + 1 /\ Cardinality(S) \in Nat
  BY <1>1, FS_AddElement, FS_CardinalityType
<1>7. IsFiniteSet(T) /\ Cardinality(T) <= Cardinality(S \cup {o})
  BY Zenon, <1>4, <1>6, FS_Subset
<1>8. Cardinality(T) \in Nat /\ Cardinality(S \cup {o}) \in Nat
  BY Zenon, <1>6, <1>7, FS_CardinalityType
<1>9. IsFiniteSet(T) /\ Cardinality(T) <= expiries'
  BY <1>1, <1>5, <1>6, <1>7, <1>8
<1> QED
  BY Zenon, <1>9 DEF Budget, T

\* Every step stays within the budget.
LEMMA BudgetStep == IInv /\ TypeOK' /\ [Next]_vars => Budget'
<1> SUFFICES ASSUME IInv, TypeOK', [Next]_vars PROVE Budget'
  BY Zenon
<1> USE IdempotencyAssumption DEF IInv
<1>1. ASSUME NEW c \in Calls, Begin(c) PROVE Budget'
  <2>1. /\ produced' = produced /\ expiries' = expiries /\ \A d \in Calls \ {c} : pc'[d] = pc[d]
        /\ pc'[c] = "begun" \/ pc'[c] # "run"
    BY Zenon, <1>1, RecordCases DEF Begin, Goto, TypeOK, BeginStatus
  <2>2. CASE Taken(c)
    <3>1. Workers' \subseteq Workers \cup {c}
      BY Zenon, <2>1 DEF Workers
    <3>2. c \in Owner' /\ Owner = {}
      BY Zenon, <2>2 DEF Taken, Owner
    <3> QED
      BY Zenon, <2>1, <3>1, <3>2, BudgetKept
  <2>3. CASE rec' = rec /\ BeginStatus(rec, fp[c]) # "acquired"
    <3>1. pc'[c] \notin {"begun", "run"}
      BY Zenon, <1>1, <2>3, RecordCases DEF Begin, Goto, TypeOK, BeginStatus
    <3>2. Workers' \subseteq Workers /\ Owner' = Owner
      BY Zenon, <2>1, <2>3, <3>1 DEF Workers, Owner
    <3> QED
      BY Zenon, <2>1, <3>2, BudgetKept
  <2> QED
    BY Zenon, <1>1, <2>2, <2>3, BegunRecord DEF Begin
<1>2. ASSUME NEW c \in Calls, BeginFails(c) PROVE Budget'
  <2>1. Workers' \subseteq Workers /\ expiries' = expiries
    BY Zenon, <1>2 DEF BeginFails, Goto, TypeOK, Workers
  <2>2. CASE Taken(c)
    <3>1. Owner = {}
      BY Zenon, <2>2 DEF Taken, Owner
    <3> QED
      BY Zenon, <2>1, <3>1, BudgetKept
  <2>3. CASE rec' = rec
    <3>1. Owner' = Owner
      BY Zenon, <2>3 DEF Owner
    <3> QED
      BY Zenon, <2>1, <3>1, BudgetKept
  <2> QED
    BY Zenon, <1>2, <2>2, <2>3, BegunRecord DEF BeginFails
<1>3. ASSUME NEW c \in Calls,
             Cancelled(c) \/ StartHandler(c) \/ HandlerSucceeds(c) \/ HandlerFails(c) \/ Encode(c) \/ Crash(c)
      PROVE  Budget'
  <2>1. Owner' = Owner /\ expiries' = expiries
    BY Zenon, <1>3 DEF Cancelled, StartHandler, HandlerSucceeds, HandlerFails, Encode, Crash, Owner
  <2>2. Workers' \subseteq Workers
    <3>1. CASE HandlerSucceeds(c)
      BY Zenon, <3>1 DEF HandlerSucceeds, Goto, TypeOK, Workers
    <3>2. CASE Cancelled(c) \/ StartHandler(c) \/ HandlerFails(c) \/ Encode(c) \/ Crash(c)
      <4>1. produced' = produced /\ \A d \in Calls \ {c} : pc'[d] = pc[d]
        BY Zenon, <3>2 DEF Cancelled, StartHandler, HandlerFails, Encode, Crash, Goto, TypeOK
      <4>2. pc'[c] \in {"begun", "run"} => pc[c] \in {"begun", "run"}
        BY Zenon, <3>2 DEF Cancelled, StartHandler, HandlerFails, Encode, Crash, Goto, TypeOK
      <4> QED
        BY Zenon, <4>1, <4>2 DEF Workers
    <3> QED
      BY Zenon, <1>3, <3>1, <3>2
  <2> QED
    BY Zenon, <2>1, <2>2, BudgetKept
<1>4. ASSUME NEW c \in Calls, Complete(c) \/ Abort(c) \/ FinalizeFails(c) PROVE Budget'
  <2>1. Workers' \subseteq Workers /\ expiries' = expiries
    <3>1. /\ produced' = produced /\ expiries' = expiries /\ \A d \in Calls \ {c} : pc'[d] = pc[d]
          /\ pc'[c] \notin {"begun", "run"}
      BY Zenon, <1>4 DEF Complete, Abort, FinalizeFails, Goto, TypeOK
    <3> QED
      BY Zenon, <3>1 DEF Workers
  <2>2. CASE rec' = rec
    <3>1. Owner' = Owner
      BY Zenon, <2>2 DEF Owner
    <3> QED
      BY Zenon, <2>1, <3>1, BudgetKept
  <2>3. CASE Finished(c)
    <3>1. c \in Owner' /\ Owner = {c}
      BY Zenon, <2>3, RecordCases DEF Finished, Owner
    <3> QED
      BY Zenon, <2>1, <3>1, BudgetKept
  <2>4. CASE rec.token = c /\ Freed /\ pc[c] = "abort"
    <3>1. Owner = {c} /\ c \notin Workers
      BY Zenon, <2>4, RecordCases DEF Workers, PlaceTells
    <3> QED
      BY Zenon, <2>1, <3>1, BudgetKept
  <2>5. \/ rec' = rec
        \/ pc[c] = "complete" /\ rec' = Completed(rec, c, c)
        \/ pc[c] = "abort" /\ rec' = Aborted(rec, c)
    BY Zenon, <1>4 DEF Complete, Abort, FinalizeFails, PlaceTells
  <2> QED
    BY Zenon, <2>2, <2>3, <2>4, <2>5, CompletedRecord, AbortedRecord
<1>5. CASE Expire
  BY Zenon, <1>5, BudgetExpire
<1>6. CASE UNCHANGED vars
  <2>1. Workers' = Workers /\ Owner' = Owner /\ expiries' = expiries
    BY Zenon, <1>6 DEF vars, Workers, Owner
  <2> QED
    BY Zenon, <2>1, BudgetKept
<1> QED
  BY Zenon, <1>1, <1>2, <1>3, <1>4, <1>5, <1>6 DEF Next, Step

-----------------------------------------------------------------------------
(* The theorems *)

\* The executor and its store always satisfy the inductive invariant.
THEOREM Invariant == Spec => []IInv
<1>1. Init => IInv
  BY Zenon, InitIInv
<1>2. IInv /\ [Next]_vars => IInv'
  BY Zenon, TypeStep, RecordStep, PlaceStep, BudgetStep DEF IInv
<1> QED
  BY <1>1, <1>2, PTL DEF Spec

\* Do runs the work of a key once, and at most once more for each expiry of its
\* record, whatever crashes and whichever request to the store is lost.
THEOREM WorkOnce == Spec => []WorkedOncePerExpiry
<1>1. IInv => WorkedOncePerExpiry
  <2> SUFFICES ASSUME IInv PROVE Cardinality(produced) <= 1 + expiries
    BY Zenon DEF WorkedOncePerExpiry
  <2> DEFINE S == Workers \ Owner
  <2>1. IsFiniteSet(S) /\ Cardinality(S) <= expiries /\ expiries \in Nat
    BY DEF IInv, Budget, TypeOK
  <2>2. PICK o : produced \in SUBSET (S \cup {o})
    <3>1. Owner = {} \/ \E o : Owner = {o}
      BY Zenon, RecordCases DEF IInv
    <3> QED
      BY Zenon, <3>1 DEF Workers
  <2> HIDE DEF S
  <2>3. IsFiniteSet(S \cup {o}) /\ Cardinality(S \cup {o}) <= Cardinality(S) + 1 /\ Cardinality(S) \in Nat
    BY <2>1, FS_AddElement, FS_CardinalityType
  <2>4. IsFiniteSet(produced) /\ Cardinality(produced) <= Cardinality(S \cup {o})
    BY Zenon, <2>2, <2>3, FS_Subset
  <2>5. Cardinality(produced) \in Nat /\ Cardinality(S \cup {o}) \in Nat
    BY Zenon, <2>3, <2>4, FS_CardinalityType
  <2> QED
    BY <2>1, <2>3, <2>4, <2>5
<1> QED
  BY <1>1, Invariant, PTL

\* Callers that report success agree on the value while the record lives.
THEOREM Agreement == Spec => []OneResult
<1>1. IInv => OneResult
  <2> SUFFICES ASSUME IInv, expiries = 0, NEW c \in Calls, NEW d \in Calls,
                      pc[c] \in {"nil", "replayed"}, pc[d] \in {"nil", "replayed"}
               PROVE  value[c] = value[d]
    BY Zenon DEF OneResult
  <2>1. value[c] \in produced /\ value[d] \in produced
    BY Zenon DEF IInv, PlaceTells
  <2>2. Workers \ Owner = {}
    <3>1. IsFiniteSet(Workers \ Owner) /\ Cardinality(Workers \ Owner) <= 0
      BY Zenon DEF IInv, Budget
    <3>2. Cardinality(Workers \ Owner) \in Nat
      BY Zenon, <3>1, FS_CardinalityType
    <3>3. Cardinality(Workers \ Owner) = 0
      BY <3>1, <3>2
    <3> QED
      BY <3>1, <3>3, FS_EmptySet, Zenon
  <2>3. Owner = {} \/ \E o : Owner = {o}
    BY Zenon, RecordCases DEF IInv
  <2> QED
    BY <2>1, <2>2, <2>3 DEF Workers
<1> QED
  BY <1>1, Invariant, PTL

\* A late Complete or Abort never touches another call's claim or result.
THEOREM LateFinish == Spec => []LateFinisherHarmless
<1>1. IInv => LateFinisherHarmless
  BY Zenon, RecordCases DEF IInv, LateFinisherHarmless, RecordIsClaimants
<1> QED
  BY <1>1, Invariant, PTL

\* What is replayed was produced by a handler, for a fingerprint that matches.
THEOREM Replay == Spec => []ReplayedWasProduced
<1>1. IInv => ReplayedWasProduced
  BY Zenon DEF IInv, PlaceTells, ReplayedWasProduced
<1> QED
  BY <1>1, Invariant, PTL

\* A call that returned the handler's error has no claim on the key.
THEOREM FailureFrees == Spec => []FailureFreesKey
<1>1. IInv => FailureFreesKey
  BY Zenon DEF IInv, PlaceTells, FailureFreesKey
<1> QED
  BY <1>1, Invariant, PTL

-----------------------------------------------------------------------------
(* Debouncer *)

CONSTANTS Flushers, MaxTriggers
VARIABLES latestOf, done, pending, ready, running, due, handed, latest, wake, loop, timer, closing, context,
          fpc, flushed, retry, seen, closer
Debounce == INSTANCE Debouncer WITH
    value <- latestOf, ran <- handed, wpc <- loop, armed <- timer, closed <- closing, cancelled <- context,
    call <- flushed

\* The handler has got x, or a later value.
HasRun(x) == \E i \in 1..Len(handed) : handed[i] >= x

\* The debouncer: every variable has the values its place allows.
DebounceTypeOK ==
    /\ latestOf \in Seq(Nat) /\ done \in Seq({"no", "ran", "closed"}) /\ Len(done) = Len(latestOf)
    /\ pending \in 0..Len(latestOf) /\ ready \in 0..Len(latestOf) /\ running \in 0..Len(latestOf)
    /\ latest \in Nat /\ handed \in Seq(Nat)
    /\ loop \in {"next", "select", "execute", "stop", "exited"}
    /\ fpc \in [Flushers -> {"new", "select", "wait", "ran", "closed", "context"}]
    /\ flushed \in [Flushers -> Nat] /\ retry \in [Flushers -> BOOLEAN] /\ seen \in [Flushers -> Nat]

\* An invocation is in one of the three slots, and only the pending one changes its value.
Slots ==
    /\ pending # 0 => pending # ready /\ pending # running /\ done[pending] = "no"
    /\ ready # 0 => ready # running
    /\ loop = "execute" <=> running # 0
    /\ running # 0 => HasRun(latestOf[running])
    /\ \A i \in 1..Len(latestOf) : done[i] = "ran" => HasRun(latestOf[i])

\* The latest value is in the first slot that is taken, or has run.
LatestAt ==
    /\ pending # 0 => latestOf[pending] = latest
    /\ ~closing /\ pending = 0 /\ ready # 0 => latestOf[ready] = latest
    /\ ~closing /\ pending = 0 /\ ready = 0 /\ running # 0 => latestOf[running] = latest
    /\ ~closing /\ pending = 0 /\ ready = 0 /\ running = 0 => latest = 0 \/ HasRun(latest)
    /\ closing => pending = 0 /\ ready = 0

\* A Flush waits for an invocation that has the value it has seen, unless it looks again.
Waiting(f) ==
    /\ fpc[f] \in {"select", "wait"} => seen[f] <= latest
    /\ fpc[f] = "wait" =>
         /\ flushed[f] \in 1..Len(latestOf) /\ flushed[f] # pending
         /\ ~retry[f] => latestOf[flushed[f]] >= seen[f]
    /\ fpc[f] = "ran" => seen[f] = 0 \/ HasRun(seen[f])

\* The inductive invariant.
DebounceInv == DebounceTypeOK /\ Slots /\ LatestAt /\ \A f \in Flushers : Waiting(f)

\* A value has run when a later one has: the handler gets the latest.
LEMMA RunIsCumulative ==
    ASSUME handed \in Seq(Nat)
    PROVE  \A x, y \in Nat : HasRun(x) /\ y <= x => HasRun(y)
<1>1. \A i \in 1..Len(handed) : handed[i] \in Nat
  OBVIOUS
<1>2. \A m, x, y \in Nat : m >= x /\ y <= x => m >= y
  OBVIOUS
<1> QED BY Zenon, <1>1, <1>2 DEF HasRun

\* Nothing has been triggered at first.
LEMMA DebounceInit == Debounce!Init => DebounceInv
<1> SUFFICES ASSUME Debounce!Init PROVE DebounceInv
  BY Zenon
<1> USE DEF Debounce!Init
<1>1. DebounceTypeOK
  <2>1. latestOf \in Seq(Nat) /\ done \in Seq({"no", "ran", "closed"}) /\ Len(done) = Len(latestOf) /\ handed \in Seq(Nat)
    OBVIOUS
  <2> QED BY <2>1 DEF DebounceTypeOK
<1>2. Slots /\ LatestAt
  BY DEF Slots, LatestAt
<1>3. \A f \in Flushers : Waiting(f)
  BY Zenon DEF Waiting
<1> QED BY Zenon, <1>1, <1>2, <1>3 DEF DebounceInv

\* A trigger replaces the value of the pending invocation, or makes one.
LEMMA DebounceTrigger == DebounceInv /\ Debounce!Trigger => DebounceInv'
<1> SUFFICES ASSUME DebounceInv, Debounce!Trigger PROVE DebounceInv'
  BY Zenon
<1> USE DEF DebounceInv, Debounce!Trigger, Debounce!Slot, Debounce!Restart, Debounce!Notify, Debounce!flushVars,
            Debounce!Shut
<1>1. /\ latest' = latest + 1 /\ latest \in Nat /\ ~closing
      /\ UNCHANGED <<ready, running, handed, loop, closing, fpc, flushed, retry, seen>>
  BY Zenon DEF DebounceTypeOK
<1>2. \A x : HasRun(x)' = HasRun(x)
  BY Zenon, <1>1 DEF HasRun
<1>a. DebounceTypeOK /\ Slots /\ LatestAt /\ \A f \in Flushers : Waiting(f)
  BY Zenon
<1>3. CASE pending = 0
  <2>1. /\ latestOf' = Append(latestOf, latest') /\ done' = Append(done, "no") /\ pending' = Len(latestOf')
    BY Zenon, <1>3
  <2> HIDE DEF DebounceInv, Debounce!Trigger
  <2>2. /\ latestOf' \in Seq(Nat) /\ done' \in Seq({"no", "ran", "closed"})
        /\ Len(latestOf') = Len(latestOf) + 1 /\ Len(done') = Len(latestOf) + 1
        /\ \A i \in 1..Len(latestOf) : latestOf'[i] = latestOf[i] /\ done'[i] = done[i]
        /\ latestOf'[Len(latestOf) + 1] = latest' /\ done'[Len(latestOf) + 1] = "no"
    <3>1. latest' \in Nat
      BY <1>1
    <3>2. /\ latestOf' \in Seq(Nat) /\ Len(latestOf') = Len(latestOf) + 1
          /\ \A i \in 1..Len(latestOf) : latestOf'[i] = latestOf[i]
          /\ latestOf'[Len(latestOf) + 1] = latest'
      BY <1>a, <2>1, <3>1 DEF DebounceTypeOK
    <3>3. /\ done' \in Seq({"no", "ran", "closed"}) /\ Len(done') = Len(latestOf) + 1
          /\ \A i \in 1..Len(latestOf) : done'[i] = done[i]
          /\ done'[Len(latestOf) + 1] = "no"
      <4>1. done \in Seq({"no", "ran", "closed"}) /\ Len(done) = Len(latestOf) /\ done' = Append(done, "no")
        BY Zenon, <1>a, <2>1 DEF DebounceTypeOK
      <4> QED BY <4>1
    <3> QED BY Zenon, <3>2, <3>3
  <2>3. DebounceTypeOK'
    BY <1>a, <1>1, <2>1, <2>2 DEF DebounceTypeOK
  <2>4. Slots'
    BY <1>a, <1>1, <1>2, <2>1, <2>2 DEF Slots, DebounceTypeOK
  <2>5. LatestAt'
    BY <1>a, <1>1, <2>1, <2>2 DEF LatestAt, DebounceTypeOK
  <2>6. ASSUME NEW f \in Flushers PROVE Waiting(f)'
    BY <1>a, <1>1, <1>2, <2>1, <2>2 DEF Waiting, DebounceTypeOK
  <2> QED BY Zenon, <2>3, <2>4, <2>5, <2>6 DEF DebounceInv
<1>4. CASE pending # 0
  <2>1. latestOf' = [latestOf EXCEPT ![pending] = latest'] /\ UNCHANGED <<done, pending>>
    BY Zenon, <1>4
  <2> HIDE DEF DebounceInv, Debounce!Trigger
  <2>2. /\ latestOf' \in Seq(Nat) /\ Len(latestOf') = Len(latestOf)
        /\ \A i \in 1..Len(latestOf) : i # pending => latestOf'[i] = latestOf[i]
        /\ latestOf'[pending] = latest'
    BY <1>a, <1>1, <1>4, <2>1 DEF DebounceTypeOK
  <2>3. DebounceTypeOK'
    BY <1>a, <1>1, <2>1, <2>2 DEF DebounceTypeOK
  <2>4. Slots'
    BY <1>a, <1>1, <1>2, <1>4, <2>1, <2>2 DEF Slots, DebounceTypeOK
  <2>5. LatestAt'
    BY <1>a, <1>1, <1>4, <2>1, <2>2 DEF LatestAt, DebounceTypeOK
  <2>6. ASSUME NEW f \in Flushers PROVE Waiting(f)'
    BY <1>a, <1>1, <1>2, <1>4, <2>1, <2>2 DEF Waiting, DebounceTypeOK
  <2> QED BY Zenon, <2>3, <2>4, <2>5, <2>6 DEF DebounceInv
<1> QED BY Zenon, <1>3, <1>4

\* The worker takes an invocation out of its slot and hands its value to the handler.
LEMMA DebounceBegins ==
    ASSUME DebounceInv, NEW i \in {pending, ready}, i # 0, loop = "next", ~closing, Debounce!Begin(i),
           \/ i = ready /\ ready' = 0 /\ UNCHANGED pending
           \/ i = pending /\ ready = 0 /\ pending' = 0 /\ UNCHANGED ready,
           UNCHANGED <<latestOf, done, latest, closing, Debounce!flushVars>>
    PROVE  DebounceInv'
<1> USE DEF DebounceInv, Debounce!Begin, Debounce!flushVars
<1>1. /\ running = 0 /\ i \in 1..Len(latestOf)
      /\ running' = i /\ loop' = "execute"
      /\ UNCHANGED <<latestOf, done, latest, closing, fpc, flushed, retry, seen>>
  BY DEF DebounceTypeOK, Slots
<1>2. /\ handed' \in Seq(Nat) /\ Len(handed') = Len(handed) + 1 /\ handed'[Len(handed) + 1] = latestOf[i]
      /\ \A j \in 1..Len(handed) : handed'[j] = handed[j]
  BY <1>1 DEF DebounceTypeOK
<1>3. \A x : HasRun(x) => HasRun(x)'
  BY <1>2 DEF HasRun, DebounceTypeOK
<1>4. HasRun(latestOf[i])'
  <2>1. latestOf[i] \in Nat /\ latestOf'[i] = latestOf[i] /\ Len(handed) + 1 \in 1..Len(handed')
    BY <1>1, <1>2 DEF DebounceTypeOK
  <2> QED BY <1>2, <2>1 DEF HasRun
<1>5. DebounceTypeOK'
  BY Zenon, <1>1, <1>2 DEF DebounceTypeOK
<1>6. Slots'
  BY Zenon, <1>1, <1>3, <1>4 DEF Slots, DebounceTypeOK
<1>7. LatestAt'
  BY <1>1 DEF LatestAt, DebounceTypeOK
<1>8. ASSUME NEW f \in Flushers PROVE Waiting(f)'
  BY <1>1, <1>3 DEF Waiting, DebounceTypeOK
<1> QED BY Zenon, <1>5, <1>6, <1>7, <1>8

\* Stop closes the invocations that are not running.
LEMMA DebounceStops ==
    ASSUME DebounceInv, Debounce!Stop, loop' # "execute" <=> loop # "execute",
           loop' \in {"next", "select", "execute", "stop", "exited"},
           UNCHANGED <<latestOf, running, handed, latest, Debounce!flushVars>>
    PROVE  DebounceInv'
<1> USE DEF DebounceInv, Debounce!Stop, Debounce!flushVars, Debounce!Invocations
<1>1. CASE closing
  BY Zenon, <1>1 DEF DebounceTypeOK, Slots, LatestAt, Waiting, HasRun
<1>2. CASE ~closing
  <2>1. /\ closing' = TRUE /\ pending' = 0 /\ ready' = 0
        /\ done' = [i \in 1..Len(latestOf) |-> IF i \in Debounce!Discarded THEN "closed" ELSE done[i]]
        /\ UNCHANGED <<latestOf, running, handed, latest, fpc, flushed, retry, seen>>
    BY Zenon, <1>2
  <2>2. /\ done' \in Seq({"no", "ran", "closed"}) /\ Len(done') = Len(latestOf)
        /\ \A i \in 1..Len(latestOf) : done'[i] = "ran" => done[i] = "ran"
    BY <2>1 DEF DebounceTypeOK
  <2>3. \A x : HasRun(x)' = HasRun(x)
    BY Zenon, <2>1 DEF HasRun
  <2>4. DebounceTypeOK'
    BY <2>1, <2>2 DEF DebounceTypeOK
  <2>5. Slots' /\ LatestAt'
    BY Zenon, <2>1, <2>2, <2>3 DEF Slots, LatestAt
  <2>6. ASSUME NEW f \in Flushers PROVE Waiting(f)'
    BY <2>1, <2>3 DEF Waiting
  <2> QED BY Zenon, <2>4, <2>5, <2>6
<1> QED BY Zenon, <1>1, <1>2

\* The steps of a Flush: it waits for the invocation that has the latest value.
LEMMA DebounceFlush ==
    ASSUME DebounceInv, NEW f \in Flushers,
           Debounce!Flush(f) \/ Debounce!SelectFlush(f) \/ Debounce!FlushReturns(f) \/ Debounce!FlushGivesUp(f)
    PROVE  DebounceInv'
<1> USE DEF DebounceInv, Debounce!otherVars
<1>1. UNCHANGED <<latestOf, done, running, handed, latest, loop, closing>>
  BY Zenon DEF Debounce!Flush, Debounce!SelectFlush, Debounce!FlushReturns, Debounce!FlushGivesUp
<1>2. \A x : HasRun(x)' = HasRun(x)
  BY Zenon, <1>1 DEF HasRun
<1>3. CASE Debounce!Flush(f)
  <2> USE <1>3 DEF Debounce!Flush
  <2>0. DebounceTypeOK'
    <3>1. /\ fpc' = [fpc EXCEPT ![f] = "select"] /\ seen' = [seen EXCEPT ![f] = latest]
          /\ UNCHANGED <<pending, ready, flushed, retry>>
      BY Zenon
    <3>2. fpc' \in [Flushers -> {"new", "select", "wait", "ran", "closed", "context"}] /\ seen' \in [Flushers -> Nat]
      BY Zenon, <3>1 DEF DebounceTypeOK
    <3> QED BY Zenon, <1>1, <3>1, <3>2 DEF DebounceTypeOK
  <2>2. UNCHANGED <<pending, ready, flushed, retry>> /\ latest <= latest
    BY DEF DebounceTypeOK
  <2>1. Slots' /\ LatestAt'
    <3> HIDE <1>3
    <3> QED BY Zenon, <1>1, <1>2, <2>2 DEF Slots, LatestAt
  <2>3. fpc'[f] = "select" /\ seen'[f] = latest
    BY Zenon DEF DebounceTypeOK
  <2>4. Waiting(f)'
    BY Zenon, <1>1, <2>2, <2>3 DEF Waiting
  <2>5. ASSUME NEW g \in Flushers, g # f PROVE Waiting(g)'
    <3>1. fpc'[g] = fpc[g] /\ seen'[g] = seen[g]
      BY Zenon, <2>5 DEF DebounceTypeOK
    <3> QED BY Zenon, <1>1, <1>2, <2>2, <3>1 DEF Waiting
  <2> QED BY Zenon, <2>0, <2>1, <2>4, <2>5
<1>4. CASE Debounce!SelectFlush(f)
  <2>1. /\ fpc[f] = "select" /\ seen' = seen
    BY Zenon, <1>4 DEF Debounce!SelectFlush
  <2>2. CASE Debounce!Shut
    <3>1. fpc' = [fpc EXCEPT ![f] = "closed"] /\ UNCHANGED <<flushed, retry, pending, ready>>
      BY Zenon, <1>4, <2>2 DEF Debounce!SelectFlush
    <3>2. DebounceTypeOK' /\ Slots' /\ LatestAt'
      BY Zenon, <1>1, <1>2, <2>1, <3>1 DEF DebounceTypeOK, Slots, LatestAt
    <3>3. ASSUME NEW g \in Flushers PROVE Waiting(g)'
      BY Zenon, <1>1, <1>2, <2>1, <3>1 DEF DebounceTypeOK, Waiting
    <3> QED BY Zenon, <3>2, <3>3
  <2>3. CASE ~Debounce!Shut
    <3>1. ~closing
      BY Zenon, <2>3 DEF Debounce!Shut
    <3>2. PICK i \in 0..Len(latestOf), again \in BOOLEAN :
            /\ flushed' = [flushed EXCEPT ![f] = i] /\ retry' = [retry EXCEPT ![f] = again]
            /\ fpc' = [fpc EXCEPT ![f] = IF i = 0 THEN "ran" ELSE "wait"]
            /\ \/ ready # 0 /\ i = ready /\ again = (pending # 0) /\ UNCHANGED <<pending, ready>>
               \/ ready = 0 /\ pending # 0 /\ i = pending /\ ~again /\ ready' = pending /\ pending' = 0
               \/ ready = 0 /\ pending = 0 /\ i = running /\ ~again /\ UNCHANGED <<pending, ready>>
      BY Zenon, <1>4, <2>3 DEF Debounce!SelectFlush, Debounce!WaitFor, Debounce!Again, DebounceTypeOK
    <3>3. DebounceTypeOK'
      <4>1. /\ flushed \in [Flushers -> Nat] /\ retry \in [Flushers -> BOOLEAN]
            /\ fpc \in [Flushers -> {"new", "select", "wait", "ran", "closed", "context"}]
        BY Zenon DEF DebounceTypeOK
      <4>2. i \in Nat /\ pending' \in 0..Len(latestOf) /\ ready' \in 0..Len(latestOf)
        BY <3>2 DEF DebounceTypeOK
      <4>3. /\ flushed' \in [Flushers -> Nat] /\ retry' \in [Flushers -> BOOLEAN]
            /\ fpc' \in [Flushers -> {"new", "select", "wait", "ran", "closed", "context"}]
        BY Zenon, <3>2, <4>1, <4>2
      <4> QED BY Zenon, <1>1, <2>1, <4>2, <4>3 DEF DebounceTypeOK
    <3>4. Slots' /\ LatestAt'
      BY Zenon, <1>1, <1>2, <3>1, <3>2 DEF DebounceTypeOK, Slots, LatestAt
    <3>5. ASSUME NEW g \in Flushers, g # f PROVE Waiting(g)'
      <4>1. fpc'[g] = fpc[g] /\ flushed'[g] = flushed[g] /\ retry'[g] = retry[g] /\ pending' \in {pending, 0}
        BY Zenon, <3>2, <3>5 DEF DebounceTypeOK
      <4>2. \A k \in 1..Len(latestOf) : k # 0
        OBVIOUS
      <4> QED BY Zenon, <1>1, <1>2, <2>1, <4>1, <4>2 DEF Waiting
    <3>6. i # 0 => i # pending' /\ (~again => latestOf[i] = latest)
      BY <3>1, <3>2 DEF LatestAt, Slots
    <3>7. i = 0 => latest = 0 \/ HasRun(latest)
      BY Zenon, <3>1, <3>2 DEF LatestAt
    <3>8. seen[f] \in Nat /\ seen[f] <= latest /\ latest \in Nat
      BY Zenon, <2>1 DEF Waiting, DebounceTypeOK
    <3>9. HasRun(latest) => HasRun(seen[f])
      BY Zenon, <3>8, RunIsCumulative DEF DebounceTypeOK
    <3>10. /\ flushed'[f] = i /\ retry'[f] = again /\ fpc'[f] = IF i = 0 THEN "ran" ELSE "wait"
      BY Zenon, <3>2 DEF DebounceTypeOK
    <3>11. Waiting(f)'
      BY <1>1, <1>2, <2>1, <3>6, <3>7, <3>8, <3>9, <3>10 DEF Waiting
    <3> QED BY Zenon, <3>3, <3>4, <3>5, <3>11
  <2> QED BY Zenon, <2>2, <2>3
<1>5. CASE Debounce!FlushReturns(f) \/ Debounce!FlushGivesUp(f)
  <2> USE <1>5 DEF Debounce!FlushReturns, Debounce!FlushGivesUp, Debounce!Forget
  <2>1. DebounceTypeOK'
    <3>1. fpc[f] = "wait" => done[flushed[f]] \in {"no", "ran", "closed"}
      BY DEF DebounceTypeOK, Waiting
    <3>2. fpc' \in [Flushers -> {"new", "select", "wait", "ran", "closed", "context"}]
      BY Zenon, <3>1 DEF DebounceTypeOK
    <3>3. flushed' \in [Flushers -> Nat] /\ retry' \in [Flushers -> BOOLEAN] /\ seen' \in [Flushers -> Nat]
      <4>1. /\ flushed' = [flushed EXCEPT ![f] = 0] /\ retry' = [retry EXCEPT ![f] = FALSE]
            /\ seen' \in {seen, [seen EXCEPT ![f] = 0]}
        BY Zenon
      <4>2. flushed \in [Flushers -> Nat] /\ retry \in [Flushers -> BOOLEAN] /\ seen \in [Flushers -> Nat]
        BY Zenon DEF DebounceTypeOK
      <4> HIDE <1>5 DEF DebounceInv
      <4> QED BY <4>1, <4>2
    <3>4. UNCHANGED <<pending, ready>>
      BY Zenon
    <3> QED BY Zenon, <1>1, <3>2, <3>3, <3>4 DEF DebounceTypeOK
  <2>2. Slots' /\ LatestAt'
    BY Zenon, <1>1, <1>2 DEF DebounceTypeOK, Slots, LatestAt
  <2>3. ASSUME NEW g \in Flushers, g # f PROVE Waiting(g)'
    BY Zenon, <1>1, <1>2, <2>3 DEF DebounceTypeOK, Waiting
  <2>4. \A x, y \in Nat : HasRun(x) /\ y <= x => HasRun(y)
    BY Zenon, RunIsCumulative DEF DebounceTypeOK
  <2>5. Waiting(f)'
    BY <1>1, <1>2, <2>4 DEF DebounceTypeOK, Waiting, Slots
  <2> QED BY Zenon, <2>1, <2>2, <2>3, <2>5
<1> QED BY Zenon, <1>3, <1>4, <1>5

\* Every step keeps the invariant.
LEMMA DebounceStep == DebounceInv /\ [Debounce!Next]_(Debounce!vars) => DebounceInv'
<1> SUFFICES ASSUME DebounceInv, [Debounce!Next]_(Debounce!vars) PROVE DebounceInv'
  BY Zenon
<1> USE DEF Debounce!flushVars, Debounce!history
<1>1. CASE Debounce!Elapse \/ Debounce!CancelContext \/ Debounce!CloseReturns \/ Debounce!Wake \/ UNCHANGED Debounce!vars
  <2>1. /\ UNCHANGED <<latestOf, done, pending, ready, running, handed, latest, closing, fpc, flushed, retry, seen>>
        /\ loop' = "execute" <=> loop = "execute"
        /\ loop' \in {loop, "next"}
    BY Zenon, <1>1 DEF Debounce!Elapse, Debounce!CancelContext, Debounce!CloseReturns, Debounce!Wake, Debounce!vars
  <2> QED BY <2>1 DEF DebounceInv, DebounceTypeOK, Slots, LatestAt, Waiting, HasRun
<1>2. CASE Debounce!WorkerNext
  <2>1. CASE Debounce!Shut
    BY <1>2, <2>1 DEF Debounce!WorkerNext, DebounceInv, DebounceTypeOK, Slots, LatestAt, Waiting, HasRun
  <2>2. CASE ~Debounce!Shut /\ ready # 0
    BY Zenon, <1>2, <2>2, DebounceBegins DEF Debounce!WorkerNext, Debounce!PendingTurn, Debounce!Shut
  <2>3. CASE ~Debounce!Shut /\ Debounce!PendingTurn
    BY Zenon, <1>2, <2>3, DebounceBegins DEF Debounce!WorkerNext, Debounce!PendingTurn, Debounce!Shut
  <2>4. CASE ~Debounce!Shut /\ ready = 0 /\ ~Debounce!PendingTurn
    BY Zenon, <1>2, <2>4 DEF Debounce!WorkerNext, DebounceInv, DebounceTypeOK, Slots, LatestAt, Waiting, HasRun
  <2> QED BY Zenon, <2>1, <2>2, <2>3, <2>4 DEF Debounce!PendingTurn
<1>3. CASE Debounce!HandlerReturns
  <2> USE <1>3 DEF Debounce!HandlerReturns, DebounceInv
  <2>1. running \in 1..Len(latestOf)
    BY DEF DebounceTypeOK, Slots
  <2>2. /\ done' \in Seq({"no", "ran", "closed"}) /\ Len(done') = Len(latestOf) /\ done'[running] = "ran"
        /\ \A i \in 1..Len(latestOf) : i # running => done'[i] = done[i]
    BY <2>1 DEF DebounceTypeOK
  <2>3. \A x : HasRun(x)' = HasRun(x)
    BY Zenon DEF HasRun
  <2>4. DebounceTypeOK'
    BY <2>2 DEF DebounceTypeOK
  <2>5. Slots' /\ LatestAt'
    BY <2>1, <2>2, <2>3 DEF DebounceTypeOK, Slots, LatestAt
  <2>6. ASSUME NEW f \in Flushers PROVE Waiting(f)'
    BY Zenon, <2>3 DEF Waiting
  <2> QED BY Zenon, <2>4, <2>5, <2>6
<1>4. CASE Debounce!ContextStop \/ Debounce!WorkerExits \/ Debounce!Close
  <2>1. loop \in {"next", "select", "execute", "stop", "exited"}
    BY Zenon DEF DebounceInv, DebounceTypeOK
  <2>2. /\ Debounce!Stop /\ (loop' # "execute" <=> loop # "execute")
        /\ loop' \in {"next", "select", "execute", "stop", "exited"}
        /\ UNCHANGED <<latestOf, running, handed, latest, Debounce!flushVars>>
    BY Zenon, <1>4, <2>1 DEF Debounce!ContextStop, Debounce!WorkerExits, Debounce!Close
  <2> QED BY Zenon, <2>2, DebounceStops
<1>5. ASSUME NEW f \in Flushers,
             Debounce!Flush(f) \/ Debounce!SelectFlush(f) \/ Debounce!FlushReturns(f) \/ Debounce!FlushGivesUp(f)
      PROVE  DebounceInv'
  BY Zenon, <1>5, DebounceFlush
<1> QED BY Zenon, <1>1, <1>2, <1>3, <1>4, <1>5, DebounceTrigger DEF Debounce!Next, Debounce!Worker

\* Debouncer: a Flush with an outcome has covered the values triggered before it.
FlushCoversLatest == Debounce!FlushCoversLatest

\* Debouncer.Flush: when it returns nil the handler has got the value that was latest
\* when Flush was called, or a later one, for any number of flushers and triggers.
THEOREM DebounceCovers == Debounce!Spec => []FlushCoversLatest
<1>1. DebounceInv => Debounce!FlushCoversLatest
  BY Zenon DEF DebounceInv, Waiting, HasRun, Debounce!FlushCoversLatest
<1> QED BY DebounceInit, DebounceStep, <1>1, PTL DEF Debounce!Spec, FlushCoversLatest

-----------------------------------------------------------------------------
(* Retry *)

CONSTANTS MaxAttempts, Errors
VARIABLES ctx, attempt, retryPc, handler, answer, channel, response, events
Retrying == INSTANCE Retry WITH pc <- retryPc, finished <- channel, result <- response

\* The last attempt that has begun.
LastBegun == IF handler[attempt] = "none" THEN attempt - 1 ELSE attempt

\* The call: every variable has the values its place allows.
RetryTypeOK ==
    /\ attempt \in 1..MaxAttempts
    /\ retryPc \in {"check", "select", "inspect", "wait", "returned"}
    /\ handler \in [1..MaxAttempts -> {"none", "running", "sending", "ended"}]
    /\ DOMAIN answer = 1..MaxAttempts /\ DOMAIN channel = 1..MaxAttempts
    /\ answer = [i \in 1..MaxAttempts |-> answer[i]] /\ channel = [i \in 1..MaxAttempts |-> channel[i]]

\* Attempts begin in their order, and each answers for itself.
InTurn ==
    /\ \A i \in 1..MaxAttempts : handler[i] # "none" <=> i <= LastBegun
    /\ retryPc = "check" => handler[attempt] = "none"
    /\ retryPc \in {"select", "inspect", "wait"} => handler[attempt] # "none"
    /\ retryPc = "wait" => attempt < MaxAttempts
    /\ \A i \in 1..MaxAttempts : answer[i][1] \in {0, i} /\ channel[i][1] \in {0, i}
    /\ retryPc # "select" => response[1] \in {0, LastBegun}

\* The inductive invariant.
RetryInv == RetryTypeOK /\ InTurn

\* No attempt has begun at first.
LEMMA RetryInit == ASSUME MaxAttempts \in Nat \ {0} PROVE Retrying!Init => RetryInv
  BY DEF Retrying!Init, Retrying!Attempts, Retrying!None, RetryInv, RetryTypeOK, InTurn, LastBegun

\* Every step of the call, of a handler and of the context keeps it: each attempt has
\* its own channel.
LEMMA RetryStep == ASSUME MaxAttempts \in Nat \ {0} PROVE RetryInv /\ [Retrying!Next]_(Retrying!vars) => RetryInv'
<1> SUFFICES ASSUME RetryInv, [Retrying!Next]_(Retrying!vars) PROVE RetryInv'
  BY Zenon
<1> USE DEF RetryInv, RetryTypeOK, InTurn, LastBegun, Retrying!Attempts
<1>1. CASE Retrying!Check
  <2>1. retryPc = "check" /\ UNCHANGED <<attempt, answer, channel>>
    BY Zenon, <1>1 DEF Retrying!Check
  <2>2. CASE ctx # "live"
    <3>1. response'[1] = response[1] /\ retryPc' = "returned" /\ handler' = handler
      BY <1>1, <2>2 DEF Retrying!Check, Retrying!Return
    <3> QED BY <2>1, <3>1
  <2>3. CASE ctx = "live"
    <3>1. handler' = [handler EXCEPT ![attempt] = "running"] /\ retryPc' = "select" /\ response' = response
      BY Zenon, <1>1, <2>3 DEF Retrying!Check
    <3> QED BY <2>1, <3>1
  <2> QED BY Zenon, <2>2, <2>3
<1>2. CASE Retrying!Inspect
  BY <1>2 DEF Retrying!Inspect, Retrying!Return, Retrying!MayRetry, Retrying!Exhausted
<1>3. CASE Retrying!Waited
  <2>1. retryPc = "wait" /\ retryPc' = "check" /\ attempt' = attempt + 1 /\ UNCHANGED <<handler, answer, channel, response>>
    BY Zenon, <1>3 DEF Retrying!Waited
  <2> QED BY <2>1
<1>4. CASE Retrying!WaitEnds
  BY Zenon, <1>4 DEF Retrying!WaitEnds, Retrying!Return
<1>5. CASE Retrying!Finished \/ Retrying!Done
  BY <1>5 DEF Retrying!Finished, Retrying!Done, Retrying!Receive
<1>6. CASE Retrying!ContextEnds \/ UNCHANGED Retrying!vars
  BY Zenon, <1>6 DEF Retrying!ContextEnds, Retrying!vars
<1>7. ASSUME NEW i \in 1..MaxAttempts, Retrying!HandlerReturns(i) \/ Retrying!HandlerSends(i) PROVE RetryInv'
  <2>1. CASE Retrying!HandlerReturns(i)
    <3>1. PICK a \in Retrying!Answers(i) : answer' = [answer EXCEPT ![i] = a]
      BY Zenon, <2>1 DEF Retrying!HandlerReturns
    <3>2. a[1] = i
      BY DEF Retrying!Answers
    <3> QED BY Zenon, <2>1, <3>1, <3>2 DEF Retrying!HandlerReturns
  <2>2. CASE Retrying!HandlerSends(i)
    BY Zenon, <2>2 DEF Retrying!HandlerSends
  <2> QED BY Zenon, <1>7, <2>1, <2>2
<1> QED BY Zenon, <1>1, <1>2, <1>3, <1>4, <1>5, <1>6, <1>7 DEF Retrying!Next

\* Retry: a late answer of an abandoned attempt is never returned.
ResponseOfLastAttempt == Retrying!ResponseOfLastAttempt

\* retry.DoValue over the timeout middleware: the response is the one of the last
\* attempt, however many attempts there are and however late an abandoned one answers.
THEOREM RetryAnswers ==
  ASSUME MaxAttempts \in Nat \ {0}
  PROVE  Retrying!Spec => []ResponseOfLastAttempt
<1>1. RetryInv => Retrying!ResponseOfLastAttempt
  <2> SUFFICES ASSUME RetryInv PROVE Retrying!ResponseOfLastAttempt
    BY Zenon
  <2> QED BY DEF RetryInv, RetryTypeOK, InTurn, LastBegun, Retrying!ResponseOfLastAttempt, Retrying!Attempts
<1> QED BY RetryInit, RetryStep, <1>1, PTL DEF Retrying!Spec, ResponseOfLastAttempt

-----------------------------------------------------------------------------
(* Pool *)

CONSTANTS PoolCalls, TryCalls, PoolWorkers, QueueSize, Stops, NoCall
VARIABLES call, cancelled, queue, tasksClosed, closed, worker, item, ran, stopper, stop
Pool == INSTANCE Pool WITH Calls <- PoolCalls, Workers <- PoolWorkers

\* The pool: every variable has the values its place allows.
PoolTypeOK ==
    /\ call \in [PoolCalls -> {"new", "wait", "accepted", "done", "cancelled", "closed", "full"}]
    /\ queue \in Seq(PoolCalls)
    /\ tasksClosed \in BOOLEAN /\ closed \in BOOLEAN
    /\ worker \in [PoolWorkers -> {"recv", "got", "run", "exited"}]
    /\ item \in [PoolWorkers -> PoolCalls \cup {NoCall}]
    /\ stopper \in {"none", "submitters", "workers", "done"}
    /\ stop \in [Stops -> {"new", "wait", "nil", "gaveup"}]

\* A task is in the queue, or a worker has it.
InHand(s) ==
    \/ \E i \in 1..Len(queue) : queue[i] = s
    \/ \E w \in PoolWorkers : worker[w] \in {"got", "run"} /\ item[w] = s

\* A pool closes in order: submitters first, then the workers, then done.
PoolClosing ==
    /\ stopper # "none" => closed
    /\ tasksClosed <=> stopper \in {"workers", "done"}
    /\ tasksClosed => Pool!SubmittersGone
    /\ \A w \in PoolWorkers : worker[w] = "exited" => Pool!Drained
    /\ stopper = "done" => Pool!WorkersGone
    /\ \A k \in Stops : stop[k] = "nil" => stopper = "done"

\* No accepted task is dropped: until it is done somebody has it.
AcceptedInHand == \A s \in PoolCalls : call[s] = "accepted" => InHand(s)

PoolInv == PoolTypeOK /\ PoolClosing /\ AcceptedInHand

\* A new pool has accepted nothing.
LEMMA PoolInit == Pool!Init => PoolInv
<1> SUFFICES ASSUME Pool!Init PROVE PoolInv
  BY Zenon
<1>1. PoolTypeOK
  <2>1. queue \in Seq(PoolCalls)
    BY DEF Pool!Init
  <2> QED BY Zenon, <2>1 DEF Pool!Init, PoolTypeOK
<1>2. PoolClosing
  BY Zenon DEF Pool!Init, PoolClosing
<1>3. AcceptedInHand
  BY Zenon DEF Pool!Init, AcceptedInHand
<1> QED BY Zenon, <1>1, <1>2, <1>3 DEF PoolInv

\* Every step keeps the types.
LEMMA PoolTypes == PoolInv /\ [Pool!Next]_(Pool!vars) => PoolTypeOK'
<1> SUFFICES ASSUME PoolInv, [Pool!Next]_(Pool!vars) PROVE PoolTypeOK'
  BY Zenon
<1> USE DEF PoolInv, PoolTypeOK
<1>1. ASSUME NEW s \in PoolCalls, Pool!Cancel(s) \/ Pool!Submit(s) \/ Pool!SubmitFails(s) PROVE PoolTypeOK'
  BY Zenon, <1>1 DEF Pool!Cancel, Pool!Submit, Pool!SubmitFails, Pool!Becomes, Pool!Admission
<1>2. ASSUME NEW s \in PoolCalls, Pool!Push(s), UNCHANGED <<tasksClosed, closed, stopper, stop>> PROVE PoolTypeOK'
  <2>1. queue' \in Seq(PoolCalls)
    BY <1>2 DEF Pool!Push
  <2> QED BY <1>2, <2>1 DEF Pool!Push, Pool!Becomes, Pool!Answer
<1>3. ASSUME NEW s \in PoolCalls, Pool!Send(s) PROVE PoolTypeOK'
  BY Zenon, <1>2, <1>3 DEF Pool!Send
<1>4. ASSUME NEW s \in PoolCalls, Pool!TrySubmit(s) PROVE PoolTypeOK'
  <2>1. CASE Pool!Push(s)
    BY Zenon, <1>2, <1>4, <2>1 DEF Pool!TrySubmit
  <2>2. CASE ~Pool!Push(s)
    BY Zenon, <1>4, <2>2 DEF Pool!TrySubmit, Pool!Becomes, Pool!Admission
  <2> QED BY Zenon, <2>1, <2>2
<1>5. ASSUME NEW w \in PoolWorkers, Pool!WorkerStep(w) PROVE PoolTypeOK'
  <2>1. CASE Pool!Take(w)
    <3>1. queue' \in Seq(PoolCalls) /\ Head(queue) \in PoolCalls
      BY <2>1 DEF Pool!Take
    <3> QED BY Zenon, <2>1, <3>1 DEF Pool!Take
  <2>2. CASE Pool!Execute(w) \/ Pool!TaskReturns(w) \/ Pool!Exit(w)
    BY Zenon, <2>2 DEF Pool!Execute, Pool!TaskReturns, Pool!Exit, Pool!Complete, Pool!Becomes
  <2> QED BY Zenon, <1>5, <2>1, <2>2 DEF Pool!WorkerStep
<1>6. ASSUME NEW k \in Stops, Pool!Shutdown(k) \/ Pool!ShutdownReturns(k) PROVE PoolTypeOK'
  BY Zenon, <1>6 DEF Pool!Shutdown, Pool!ShutdownReturns
<1>7. CASE Pool!CloseTasks \/ Pool!CloseDone
  BY Zenon, <1>7 DEF Pool!CloseTasks, Pool!CloseDone
<1>8. CASE UNCHANGED Pool!vars
  BY Zenon, <1>8 DEF Pool!vars
<1> QED BY Zenon, <1>1, <1>3, <1>4, <1>5, <1>6, <1>7, <1>8 DEF Pool!Next

\* Every step keeps the order in which the pool closes.
LEMMA PoolCloses == PoolInv /\ [Pool!Next]_(Pool!vars) => PoolClosing'
<1> SUFFICES ASSUME PoolInv, [Pool!Next]_(Pool!vars) PROVE PoolClosing'
  BY Zenon
<1> USE DEF PoolInv, PoolTypeOK, PoolClosing, Pool!SubmittersGone, Pool!Drained, Pool!WorkersGone
<1>1. ASSUME NEW s \in PoolCalls, Pool!Cancel(s) \/ Pool!Submit(s) \/ Pool!SubmitFails(s) PROVE PoolClosing'
  BY <1>1 DEF Pool!Cancel, Pool!Submit, Pool!SubmitFails, Pool!Becomes, Pool!Admission
<1>2. ASSUME NEW s \in PoolCalls, Pool!Push(s), UNCHANGED <<tasksClosed, closed, stopper, stop>> PROVE PoolClosing'
  BY Zenon, <1>2 DEF Pool!Push, Pool!Becomes, Pool!Answer
<1>3. ASSUME NEW s \in PoolCalls, Pool!Send(s) PROVE PoolClosing'
  BY Zenon, <1>2, <1>3 DEF Pool!Send
<1>4. ASSUME NEW s \in PoolCalls, Pool!TrySubmit(s) PROVE PoolClosing'
  <2>1. CASE Pool!Push(s)
    BY Zenon, <1>2, <1>4, <2>1 DEF Pool!TrySubmit
  <2>2. CASE ~Pool!Push(s)
    BY Zenon, <1>4, <2>2 DEF Pool!TrySubmit, Pool!Becomes, Pool!Admission
  <2> QED BY Zenon, <2>1, <2>2
<1>5. ASSUME NEW w \in PoolWorkers, Pool!WorkerStep(w) PROVE PoolClosing'
  <2>1. CASE Pool!Take(w)
    BY Zenon, <2>1 DEF Pool!Take
  <2>2. CASE Pool!Execute(w) \/ Pool!TaskReturns(w)
    BY <2>2 DEF Pool!Execute, Pool!TaskReturns, Pool!Complete, Pool!Becomes
  <2>3. CASE Pool!Exit(w)
    BY Zenon, <2>3 DEF Pool!Exit
  <2> QED BY Zenon, <1>5, <2>1, <2>2, <2>3 DEF Pool!WorkerStep
<1>6. ASSUME NEW k \in Stops, Pool!Shutdown(k) \/ Pool!ShutdownReturns(k) PROVE PoolClosing'
  BY <1>6 DEF Pool!Shutdown, Pool!ShutdownReturns
<1>7. CASE Pool!CloseTasks \/ Pool!CloseDone
  BY Zenon, <1>7 DEF Pool!CloseTasks, Pool!CloseDone
<1>8. CASE UNCHANGED Pool!vars
  BY Zenon, <1>8 DEF Pool!vars
<1> QED BY Zenon, <1>1, <1>3, <1>4, <1>5, <1>6, <1>7, <1>8 DEF Pool!Next

\* Every step keeps accepted tasks in the queue or with a worker: the last worker
\* leaves only when the closed queue is empty.
LEMMA PoolKeeps == PoolInv /\ [Pool!Next]_(Pool!vars) => AcceptedInHand'
<1> SUFFICES ASSUME PoolInv, [Pool!Next]_(Pool!vars), NEW t \in PoolCalls, call'[t] = "accepted" PROVE InHand(t)'
  BY Zenon DEF AcceptedInHand
<1> USE DEF PoolInv, PoolTypeOK, AcceptedInHand, InHand
<1>1. ASSUME NEW s \in PoolCalls, Pool!Cancel(s) \/ Pool!Submit(s) \/ Pool!SubmitFails(s) PROVE InHand(t)'
  BY <1>1 DEF Pool!Cancel, Pool!Submit, Pool!SubmitFails, Pool!Becomes, Pool!Admission
<1>2. ASSUME NEW s \in PoolCalls, Pool!Push(s) PROVE InHand(t)'
  <2>1. t # s => InHand(t)
    BY <1>2 DEF Pool!Push, Pool!Becomes
  <2>2. CASE queue' = Append(queue, s) /\ UNCHANGED <<worker, item>>
    <3>1. CASE t = s
      <4>1. Len(queue') \in 1..Len(queue') /\ queue'[Len(queue')] = s
        BY <2>2
      <4> QED BY Zenon, <3>1, <4>1
    <3>2. CASE t # s
      <4>1. \A i \in 1..Len(queue) : i \in 1..Len(queue') /\ queue'[i] = queue[i]
        BY <2>2
      <4> QED BY Zenon, <2>1, <2>2, <3>2, <4>1
    <3> QED BY Zenon, <3>1, <3>2
  <2>3. ASSUME NEW w \in PoolWorkers, worker[w] = "recv", worker' = [worker EXCEPT ![w] = "got"],
               item' = [item EXCEPT ![w] = s], UNCHANGED queue
        PROVE  InHand(t)'
    <3>1. worker'[w] = "got" /\ item'[w] = s
      BY <2>3
    <3>2. \A v \in PoolWorkers : v # w => worker'[v] = worker[v] /\ item'[v] = item[v]
      BY <2>3
    <3> QED BY <2>1, <2>3, <3>1, <3>2
  <2> QED BY Zenon, <1>2, <2>2, <2>3 DEF Pool!Push
<1>3. ASSUME NEW s \in PoolCalls, Pool!Send(s) PROVE InHand(t)'
  BY Zenon, <1>2, <1>3 DEF Pool!Send
<1>4. ASSUME NEW s \in PoolCalls, Pool!TrySubmit(s) PROVE InHand(t)'
  <2>1. CASE Pool!Push(s)
    BY Zenon, <1>2, <2>1
  <2>2. CASE ~Pool!Push(s)
    BY <1>4, <2>2 DEF Pool!TrySubmit, Pool!Becomes, Pool!Admission
  <2> QED BY Zenon, <2>1, <2>2
<1>5. ASSUME NEW w \in PoolWorkers, Pool!Take(w) PROVE InHand(t)'
  <2>1. InHand(t)
    BY Zenon, <1>5 DEF Pool!Take
  <2>2. worker'[w] = "got" /\ item'[w] = queue[1]
    BY <1>5 DEF Pool!Take
  <2>3. \A v \in PoolWorkers : v # w => worker'[v] = worker[v] /\ item'[v] = item[v]
    BY <1>5 DEF Pool!Take
  <2>4. CASE \E v \in PoolWorkers : worker[v] \in {"got", "run"} /\ item[v] = t
    BY <1>5, <2>3, <2>4 DEF Pool!Take
  <2>5. ASSUME NEW i \in 1..Len(queue), queue[i] = t PROVE InHand(t)'
    <3>1. CASE i = 1
      BY Zenon, <2>2, <2>5, <3>1
    <3>2. CASE i # 1
      <4>1. i - 1 \in 1..Len(queue') /\ queue'[i - 1] = t
        BY <1>5, <2>5, <3>2 DEF Pool!Take
      <4> QED BY Zenon, <4>1
    <3> QED BY Zenon, <3>1, <3>2
  <2> QED BY Zenon, <2>1, <2>4, <2>5
<1>6. ASSUME NEW w \in PoolWorkers, Pool!Execute(w) \/ Pool!TaskReturns(w) PROVE InHand(t)'
  BY <1>6 DEF Pool!Execute, Pool!TaskReturns, Pool!Complete, Pool!Becomes
<1>7. ASSUME NEW w \in PoolWorkers, Pool!Exit(w) PROVE InHand(t)'
  BY Zenon, <1>7 DEF Pool!Exit
<1>8. ASSUME NEW k \in Stops, Pool!Shutdown(k) \/ Pool!ShutdownReturns(k) PROVE InHand(t)'
  BY <1>8 DEF Pool!Shutdown, Pool!ShutdownReturns
<1>9. CASE Pool!CloseTasks \/ Pool!CloseDone \/ UNCHANGED Pool!vars
  BY <1>9 DEF Pool!CloseTasks, Pool!CloseDone, Pool!vars
<1> QED BY Zenon, <1>1, <1>3, <1>4, <1>5, <1>6, <1>7, <1>8, <1>9 DEF Pool!Next, Pool!WorkerStep

\* Pool: when Shutdown returns nil, every future is complete.
ShutdownNilMeansFinished == Pool!ShutdownNilMeansFinished

\* Pool.Shutdown: when it returns nil every accepted task has finished and none waits to
\* be accepted, for any number of callers and workers and any queue size.  NewPool
\* panics without a worker.
THEOREM PoolFinishes ==
  ASSUME PoolWorkers # {}
  PROVE  Pool!Spec => []ShutdownNilMeansFinished
<1>1. PoolInv => Pool!ShutdownNilMeansFinished
  BY DEF PoolInv, PoolTypeOK, PoolClosing, AcceptedInHand, InHand, Pool!SubmittersGone, Pool!Drained,
         Pool!WorkersGone, Pool!ShutdownNilMeansFinished
<1>2. PoolInv /\ [Pool!Next]_(Pool!vars) => PoolInv'
  BY Zenon, PoolTypes, PoolCloses, PoolKeeps DEF PoolInv
<1> QED BY PoolInit, <1>1, <1>2, PTL DEF Pool!Spec, ShutdownNilMeansFinished

-----------------------------------------------------------------------------
(* MapStream *)

CONSTANTS StreamWorkers, MaxInputs
VARIABLES supply, taken, next, gate, streamPc, streamValue, index, delivered, cause, stream, err
Stream == INSTANCE MapStream WITH Workers <- StreamWorkers, pc <- streamPc, value <- streamValue

\* The stream: every variable has the values its place allows.
StreamTypeOK ==
    /\ supply \in Nat /\ taken \in 0..supply /\ next \in Nat
    /\ gate \subseteq StreamWorkers
    /\ streamPc \in [StreamWorkers -> {"gate", "receive", "number", "check", "run", "deliver", "exited"}]
    /\ streamValue \in [StreamWorkers -> Nat] /\ index \in [StreamWorkers -> Nat]
    /\ cause \in {"none", "closed", "parent", "ended"}
    /\ stream \in {"open", "err", "done"}
    /\ err \in {"none", "closed", "parent"}

\* One worker at a time is behind the gate, so a number follows its input.
Gated ==
    /\ gate = {w \in StreamWorkers : streamPc[w] \in {"receive", "number"}}
    /\ \A v, w \in gate : v = w
    /\ \A w \in StreamWorkers : streamPc[w] = "number" => next = taken /\ streamValue[w] = taken /\ taken >= 1
    /\ (\A w \in StreamWorkers : streamPc[w] # "number") => next = taken + 1

\* The number of an input is its place.
Numbered ==
    /\ \A w \in StreamWorkers : streamPc[w] \in {"check", "run", "deliver"} => streamValue[w] = index[w] /\ streamValue[w] \in 1..taken
    /\ delivered \subseteq {<<i, i>> : i \in 1..taken}

\* The stream was cancelled before its workers were done.
Cut == IF stream = "open" THEN cause # "none" ELSE err # "none"

\* Inputs that were received are delivered or in the hand of a worker.
Accounted ==
    ~Cut => \A i \in 1..taken :
        <<i, i>> \in delivered \/ \E w \in StreamWorkers : streamPc[w] \in {"number", "check", "run", "deliver"} /\ streamValue[w] = i

\* A stream that is not cut ends when its workers have left, and they leave at its end.
StreamEnd ==
    /\ stream = "open" => cause # "ended"
    /\ stream # "open" => \A w \in StreamWorkers : streamPc[w] = "exited"
    /\ ~Cut => \A w \in StreamWorkers : streamPc[w] = "exited" => taken = supply

\* The inductive invariant.
StreamInv == StreamTypeOK /\ Gated /\ Numbered /\ Accounted /\ StreamEnd

\* Nothing has been received at first.
LEMMA StreamInit == ASSUME MaxInputs \in Nat PROVE Stream!Init => StreamInv
<1> SUFFICES ASSUME Stream!Init PROVE StreamInv
  BY Zenon
<1> USE DEF Stream!Init
<1>1. StreamTypeOK
  BY DEF StreamTypeOK
<1>2. Gated
  BY DEF Gated
<1>3. Numbered /\ Accounted /\ StreamEnd
  BY DEF Numbered, Accounted, StreamEnd
<1> QED BY Zenon, <1>1, <1>2, <1>3 DEF StreamInv

\* Every step of a worker, of the supplier and of the contexts keeps it.
LEMMA StreamStep == StreamInv /\ [Stream!Next]_(Stream!vars) => StreamInv'
<1> SUFFICES ASSUME StreamInv, [Stream!Next]_(Stream!vars) PROVE StreamInv'
  BY Zenon
<1> USE DEF StreamInv, StreamTypeOK, Stream!Cancelled, Stream!endVars
<1>1. ASSUME NEW w \in StreamWorkers, Stream!EnterGate(w) PROVE StreamInv'
  <2> USE <1>1 DEF Stream!EnterGate, Stream!GateFree, Stream!Goto
  <2>1. StreamTypeOK'
    BY Zenon
  <2>2. Gated'
    BY DEF Gated
  <2>3. Numbered'
    BY Zenon DEF Numbered
  <2>4. Accounted'
    BY Zenon DEF Accounted, Cut
  <2>5. StreamEnd'
    BY Zenon DEF StreamEnd, Cut
  <2> QED BY Zenon, <2>1, <2>2, <2>3, <2>4, <2>5
<1>2. ASSUME NEW w \in StreamWorkers, Stream!ReceiveValue(w) PROVE StreamInv'
  <2> USE <1>2 DEF Stream!ReceiveValue, Stream!Goto
  <2>1. StreamTypeOK'
    OBVIOUS
  <2>2. Gated'
    BY DEF Gated
  <2>3. Numbered'
    BY DEF Numbered
  <2>4. Accounted'
    <3> SUFFICES ASSUME ~Cut', NEW i \in 1..taken'
                 PROVE  \/ <<i, i>> \in delivered'
                        \/ \E v \in StreamWorkers : streamPc'[v] \in {"number", "check", "run", "deliver"} /\ streamValue'[v] = i
      BY Zenon DEF Accounted
    <3>1. CASE i = taken + 1
      BY Zenon, <3>1
    <3>2. CASE i \in 1..taken
      <4>1. \A v \in StreamWorkers : v # w => streamPc'[v] = streamPc[v] /\ streamValue'[v] = streamValue[v]
        BY Zenon
      <4> QED BY Zenon, <3>2, <4>1 DEF Accounted, Cut
    <3> QED BY <3>1, <3>2
  <2>5. StreamEnd'
    BY DEF StreamEnd, Cut
  <2> QED BY Zenon, <2>1, <2>2, <2>3, <2>4, <2>5
<1>3. ASSUME NEW w \in StreamWorkers, Stream!Number(w) PROVE StreamInv'
  <2> USE <1>3 DEF Stream!Number, Stream!Goto
  <2>1. StreamTypeOK'
    OBVIOUS
  <2>2. Gated'
    BY DEF Gated
  <2>3. Numbered'
    BY DEF Numbered, Gated
  <2>4. Accounted'
    BY Zenon DEF Accounted, Cut
  <2>5. StreamEnd'
    BY Zenon DEF StreamEnd, Cut
  <2> QED BY Zenon, <2>1, <2>2, <2>3, <2>4, <2>5
<1>4. ASSUME NEW w \in StreamWorkers, Stream!ReceiveFails(w) PROVE StreamInv'
  <2> USE <1>4 DEF Stream!ReceiveFails, Stream!Goto
  <2>1. StreamTypeOK'
    BY Zenon
  <2>2. Gated'
    BY Zenon DEF Gated
  <2>3. Numbered'
    BY Zenon DEF Numbered
  <2>4. Accounted'
    BY Zenon DEF Accounted, Cut
  <2>5. StreamEnd'
    BY Zenon DEF StreamEnd, Cut
  <2> QED BY Zenon, <2>1, <2>2, <2>3, <2>4, <2>5
<1>5. ASSUME NEW w \in StreamWorkers, Stream!Check(w) \/ Stream!CallbackReturns(w) \/ Stream!DeliverFails(w) PROVE StreamInv'
  <2> USE <1>5 DEF Stream!Check, Stream!CallbackReturns, Stream!DeliverFails, Stream!Goto
  <2>1. StreamTypeOK'
    BY Zenon
  <2>2. Gated'
    BY DEF Gated
  <2>3. Numbered'
    BY Zenon DEF Numbered
  <2>4. Accounted'
    <3>1. Cut' = Cut
      BY Zenon DEF Cut
    <3>2. ~Cut => cause = "none"
      BY Zenon DEF Cut, StreamEnd
    <3>3. ~Cut => streamPc[w] \in {"check", "run"} /\ streamPc' = [streamPc EXCEPT ![w] = IF streamPc[w] = "check" THEN "run" ELSE "deliver"]
      BY Zenon, <3>2
    <3>4. ~Cut => \A v \in StreamWorkers : streamPc[v] \in {"number", "check", "run", "deliver"}
                       => streamPc'[v] \in {"number", "check", "run", "deliver"}
      BY Zenon, <3>3
    <3>5. UNCHANGED <<taken, delivered, streamValue>>
      BY Zenon
    <3> HIDE <1>5
    <3> QED BY Zenon, <3>1, <3>4, <3>5 DEF Accounted
  <2>5. StreamEnd'
    BY Zenon DEF StreamEnd, Cut
  <2> QED BY Zenon, <2>1, <2>2, <2>3, <2>4, <2>5
<1>6. ASSUME NEW w \in StreamWorkers, Stream!Deliver(w) PROVE StreamInv'
  <2> USE <1>6 DEF Stream!Deliver, Stream!Goto
  <2>1. StreamTypeOK'
    BY Zenon
  <2>2. Gated'
    BY Zenon DEF Gated
  <2>3. Numbered'
    BY Zenon DEF Numbered
  <2>4. Accounted'
    <3> SUFFICES ASSUME ~Cut', NEW i \in 1..taken'
                 PROVE  \/ <<i, i>> \in delivered'
                        \/ \E v \in StreamWorkers : streamPc'[v] \in {"number", "check", "run", "deliver"} /\ streamValue'[v] = i
      BY Zenon DEF Accounted
    <3>1. CASE <<i, i>> \in delivered
      BY Zenon, <3>1
    <3>2. CASE streamValue[w] = i
      BY Zenon, <3>2 DEF Numbered
    <3>3. ASSUME NEW v \in StreamWorkers, v # w, streamPc[v] \in {"number", "check", "run", "deliver"}, streamValue[v] = i
          PROVE  streamPc'[v] = streamPc[v] /\ streamValue'[v] = i
      BY Zenon, <3>3
    <3> QED BY Zenon, <3>1, <3>2, <3>3 DEF Accounted, Cut
  <2>5. StreamEnd'
    BY Zenon DEF StreamEnd, Cut
  <2> QED BY Zenon, <2>1, <2>2, <2>3, <2>4, <2>5
<1>7. ASSUME NEW why \in {"closed", "parent"}, Stream!Cancel(why) PROVE StreamInv'
  <2> USE <1>7 DEF Stream!Cancel
  <2>1. StreamTypeOK' /\ Gated' /\ Numbered'
    BY Zenon DEF Gated, Numbered
  <2>2. Accounted' /\ StreamEnd'
    BY Zenon DEF Accounted, StreamEnd, Cut
  <2> QED BY Zenon, <2>1, <2>2
<1>8. CASE Stream!End \/ Stream!CloseDone
  <2> USE <1>8 DEF Stream!End, Stream!CloseDone, Stream!WorkersDone
  <2>1. StreamTypeOK' /\ Gated' /\ Numbered'
    BY Zenon DEF Gated, Numbered, StreamEnd
  <2>2. Accounted' /\ StreamEnd'
    BY Zenon DEF Accounted, StreamEnd, Cut
  <2> QED BY Zenon, <2>1, <2>2
<1>9. CASE UNCHANGED Stream!vars
  BY <1>9 DEF Stream!vars, Gated, Numbered, Accounted, StreamEnd, Cut
<1> QED BY Zenon, <1>1, <1>2, <1>3, <1>4, <1>5, <1>6, <1>7, <1>8, <1>9 DEF Stream!Next, Stream!Work

\* MapStream: nil means that every input has its result, under its number.
NilMeansAllDelivered == Stream!NilMeansAllDelivered

\* MapStream: a stream whose Wait returns nil has delivered one result for every input
\* the producer sent, with its number, for any number of workers and inputs.
THEOREM StreamDelivers ==
  ASSUME MaxInputs \in Nat, StreamWorkers # {}
  PROVE  Stream!Spec => []NilMeansAllDelivered
<1>1. StreamInv => Stream!NilMeansAllDelivered
  BY Zenon DEF StreamInv, StreamTypeOK, Numbered, Accounted, StreamEnd, Cut, Stream!NilMeansAllDelivered
<1> QED BY StreamInit, StreamStep, <1>1, PTL DEF Stream!Spec, NilMeansAllDelivered

-----------------------------------------------------------------------------
(* GroupRun *)

CONSTANTS Count, Limit
VARIABLES failFast, groupPc, groupIndex, groupCall, outcome, parent, groupCause, groupErr, result
Group == INSTANCE GroupRun WITH pc <- groupPc, index <- groupIndex, call <- groupCall, cause <- groupCause

\* The group: every variable has the values its place allows.
GroupTypeOK ==
    /\ failFast \in BOOLEAN /\ parent \in BOOLEAN
    /\ groupPc \in {"check", "go", "wait", "return"}
    /\ groupIndex \in 1..(Count + 1)
    /\ groupCall \in [1..Count -> {"none", "begin", "run", "skipped", "ok", "failed"}]
    /\ outcome \in [1..Count -> {"zero", "value", "error", "context"}]
    /\ groupCause \in 0..(Count + 1) /\ groupErr \in 0..(Count + 1) /\ result \in 0..(Count + 1)

\* The loop schedules the callbacks in their order, and stops early only for a cause.
Scheduled ==
    /\ \A i \in 1..Count : groupCall[i] = "none" <=> i >= groupIndex
    /\ groupPc = "go" => groupIndex <= Count
    /\ groupPc \in {"wait", "return"} => groupIndex > Count \/ groupCause # 0
    /\ groupPc = "return" => Group!Active = {}

\* Causes and errors are those of a callback that failed, or of the caller.
Genuine(e) ==
    /\ e \in 1..Count => groupCall[e] = "failed"
    /\ e = Count + 1 => parent

\* The errgroup has an error whenever a callback failed or was skipped.
CausesKept ==
    /\ Genuine(groupCause) /\ Genuine(groupErr)
    /\ groupCause \in 1..Count => groupErr # 0
    /\ \A i \in 1..Count : groupCall[i] \in {"failed", "skipped"} => groupErr # 0
    /\ parent => groupCause # 0

\* Before the return only callbacks that ran have an outcome.
OutcomesKept ==
    /\ groupPc # "return" => \A i \in 1..Count : outcome[i] # "context"
    /\ groupPc # "return" => \A i \in 1..Count : groupCall[i] = "ok" => outcome[i] # "zero"

\* The inductive invariant: the property with what is known before the return.
GroupInv == GroupTypeOK /\ Scheduled /\ CausesKept /\ OutcomesKept /\ Group!ErrorIsTheFirst

\* No callback has run at first.
LEMMA GroupInit == ASSUME Count \in Nat PROVE Group!Init => GroupInv
<1> SUFFICES ASSUME Group!Init PROVE GroupInv
  BY Zenon
<1> USE DEF Group!Init, Group!Callbacks
<1>1. GroupTypeOK
  <2>1. 1 \in 1..(Count + 1) /\ 0 \in 0..(Count + 1)
    OBVIOUS
  <2> QED BY Zenon, <2>1 DEF GroupTypeOK
<1>2. Scheduled /\ CausesKept /\ OutcomesKept /\ Group!ErrorIsTheFirst
  BY DEF Scheduled, CausesKept, Genuine, OutcomesKept, Group!ErrorIsTheFirst
<1> QED BY Zenon, <1>1, <1>2 DEF GroupInv

\* Every step of the loop, of a callback and of the parent context keeps it.
LEMMA GroupStep == ASSUME Count \in Nat PROVE GroupInv /\ [Group!Next]_(Group!vars) => GroupInv'
<1> SUFFICES ASSUME GroupInv, [Group!Next]_(Group!vars) PROVE GroupInv'
  BY Zenon
<1> USE DEF GroupInv, GroupTypeOK, Group!Callbacks, Group!Parent
<1>1. CASE Group!CancelParent
  <2> USE <1>1 DEF Group!CancelParent
  <2>1. GroupTypeOK'
    OBVIOUS
  <2>2. Scheduled' /\ OutcomesKept'
    BY Zenon DEF Scheduled, OutcomesKept, Group!Active
  <2>3. CausesKept'
    BY DEF CausesKept, Genuine
  <2>4. Group!ErrorIsTheFirst'
    BY Zenon DEF Group!ErrorIsTheFirst
  <2> QED BY Zenon, <2>1, <2>2, <2>3, <2>4
<1>2. CASE Group!Check \/ Group!Go
  <2> USE <1>2 DEF Group!Check, Group!Go
  <2>1. GroupTypeOK'
    BY DEF Scheduled
  <2>2. Scheduled' /\ OutcomesKept'
    BY DEF Scheduled, OutcomesKept
  <2>3. CausesKept'
    BY DEF CausesKept, Genuine, Scheduled
  <2>4. Group!ErrorIsTheFirst'
    BY Zenon DEF Group!ErrorIsTheFirst
  <2> QED BY Zenon, <2>1, <2>2, <2>3, <2>4
<1>3. ASSUME NEW i \in 1..Count, Group!CallStep(i) PROVE GroupInv'
  <2> USE <1>3 DEF Group!CallStep, Group!Begin, Group!Ok, Group!Fails, Group!Report
  <2>0. groupPc # "return"
    BY Zenon DEF Scheduled, Group!Active
  <2>1. GroupTypeOK'
    OBVIOUS
  <2>2. Scheduled'
    BY <2>0 DEF Scheduled
  <2>3. CausesKept'
    BY DEF CausesKept, Genuine
  <2>4. OutcomesKept'
    BY <2>0 DEF OutcomesKept
  <2>5. Group!ErrorIsTheFirst'
    BY Zenon, <2>0 DEF Group!ErrorIsTheFirst
  <2> QED BY Zenon, <2>1, <2>2, <2>3, <2>4, <2>5
<1>4. CASE Group!Return
  <2> USE <1>4 DEF Group!Return, Group!AllBack, Group!Returned, Group!Filled
  <2>1. GroupTypeOK'
    OBVIOUS
  <2>2. Scheduled' /\ OutcomesKept'
    BY Zenon DEF Scheduled, OutcomesKept, Group!Active
  <2>3. CausesKept'
    BY Zenon DEF CausesKept, Genuine
  <2>4. result' = 0 => \A i \in 1..Count : groupCall'[i] = "ok"
    BY DEF CausesKept, Genuine, Scheduled, Group!Active
  <2>5. Group!ErrorIsTheFirst'
    BY <2>4 DEF Group!ErrorIsTheFirst, CausesKept, Genuine, OutcomesKept
  <2> QED BY Zenon, <2>1, <2>2, <2>3, <2>5
<1>5. CASE UNCHANGED Group!vars
  BY <1>5 DEF Group!vars, Scheduled, CausesKept, Genuine, OutcomesKept, Group!ErrorIsTheFirst, Group!Active
<1> QED BY Zenon, <1>1, <1>2, <1>3, <1>4, <1>5 DEF Group!Next

\* GroupRun: what the call returns is what the callbacks and the context did.
ErrorIsTheFirst == Group!ErrorIsTheFirst

\* parallel.ForEach and Map: nil means that every callback succeeded, and an error is
\* the first one or the cause of the context, for any number of callbacks and any limit.
THEOREM GroupReturnsFirst ==
  ASSUME Count \in Nat
  PROVE  Group!Spec => []ErrorIsTheFirst
<1>1. GroupInv => Group!ErrorIsTheFirst
  BY Zenon DEF GroupInv
<1> QED BY GroupInit, GroupStep, <1>1, PTL DEF Group!Spec, ErrorIsTheFirst

=============================================================================
