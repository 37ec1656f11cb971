------------------------------ MODULE RedisLock ------------------------------
(***************************************************************************)
(* locker.Do and locker.Try (locker/handler.go) with a Redis lock          *)
(* (locker/redis/locker.go): SET NX with a TTL, retried at intervals, a    *)
(* handler that may refresh the lease, and a script that deletes the key   *)
(* only for its owner.  Requests take time, answers are lost, processes    *)
(* die, and the key expires.                                               *)
(*                                                                         *)
(* Time is counted down: ttl is what Redis has left of the key, left what  *)
(* a client may count on, measured from the moment it sent the request     *)
(* that Redis confirmed.                                                   *)
(***************************************************************************)
EXTENDS Integers, FiniteSets

CONSTANTS
    Clients,    \* one Do or Try each, with a token of its own
    Free,       \* the key does not exist
    TTL,        \* lease duration
    MaxFaults   \* bound on lost answers and crashes

ASSUME LockAssumption == Free \notin Clients /\ TTL \in Nat \ {0} /\ MaxFaults \in Nat

VARIABLES
    owner, ttl, \* the token in the key, and what is left of its TTL
    pc,         \* where each call is, or how it ended
    wait,       \* whether the call is Do, which waits, or Try
    budget,     \* TTL minus the time since the request in flight was sent
    left,       \* see above
    faults

vars == <<owner, ttl, pc, wait, budget, left, faults>>

InFlight == {"acquire", "refresh", "release"}           \* sent to Redis
Answered == {"acquired", "refused", "refreshed", "gone", "released", "lost"}
Holding == {"handler", "refresh", "refreshed", "gone"}  \* in the handler

TypeOK ==
    /\ owner \in Clients \cup {Free} /\ ttl \in 0..TTL
    /\ owner = Free <=> ttl = 0
    /\ pc \in [Clients -> {"new", "sleep", "handler", "ended"} \cup InFlight \cup Answered]
    /\ wait \in [Clients -> BOOLEAN]
    /\ budget \in [Clients -> 0..TTL] /\ left \in [Clients -> 0..TTL]
    /\ faults \in 0..MaxFaults

Init ==
    /\ owner = Free /\ ttl = 0
    /\ pc = [c \in Clients |-> "new"]
    /\ wait \in [Clients -> BOOLEAN]
    /\ budget = [c \in Clients |-> 0] /\ left = [c \in Clients |-> 0]
    /\ faults = 0

Goto(c, label) == pc' = [pc EXCEPT ![c] = label]
Fault == faults < MaxFaults /\ faults' = faults + 1

-----------------------------------------------------------------------------
(* Redis *)

\* SET key token NX PX ttl
SetNX(c) ==
    /\ pc[c] = "acquire"
    /\ IF owner = Free
         THEN owner' = c /\ ttl' = TTL /\ Goto(c, "acquired")
         ELSE UNCHANGED <<owner, ttl>> /\ Goto(c, "refused")
    /\ UNCHANGED <<wait, budget, left, faults>>

\* Both scripts compare the value of the key with the token.
Mine(c) == owner = c

RefreshScript(c) ==
    /\ pc[c] = "refresh"
    /\ ttl' = IF Mine(c) THEN TTL ELSE ttl
    /\ Goto(c, IF Mine(c) THEN "refreshed" ELSE "gone")
    /\ UNCHANGED <<owner, wait, budget, left, faults>>

\* The owner after releaseScript.
Released(c) == IF owner = c THEN Free ELSE owner

ReleaseScript(c) ==
    /\ pc[c] = "release"
    /\ owner' = Released(c)
    /\ ttl' = IF Released(c) = Free THEN 0 ELSE ttl
    /\ Goto(c, IF owner = c THEN "released" ELSE "lost")
    /\ UNCHANGED <<wait, budget, left, faults>>

\* A unit of time passes, and the key may expire.
Tick ==
    /\ ttl' = IF ttl = 0 THEN 0 ELSE ttl - 1
    /\ owner' = IF ttl' = 0 THEN Free ELSE owner
    /\ budget' = [c \in Clients |-> IF budget[c] = 0 THEN 0 ELSE budget[c] - 1]
    /\ left' = [c \in Clients |-> IF left[c] = 0 THEN 0 ELSE left[c] - 1]
    /\ UNCHANGED <<pc, wait, faults>>

-----------------------------------------------------------------------------
(* Lock and Lease *)

Send(c, request) ==
    /\ Goto(c, request)
    /\ budget' = [budget EXCEPT ![c] = TTL]
    /\ UNCHANGED <<owner, ttl, wait, left, faults>>

TryAcquire(c) == pc[c] \in {"new", "sleep"} /\ Send(c, "acquire")

\* Mutant: the lease counts from the arrival of the answer.
ConfirmedOnArrival(c) == [left EXCEPT ![c] = TTL]

\* The lease counts from the request that was confirmed.
Confirmed(c) == [left EXCEPT ![c] = budget[c]]

Receive(c) ==
    /\ pc[c] \in Answered
    /\ left' = IF pc[c] \in {"acquired", "refreshed"} THEN Confirmed(c) ELSE left
    /\ Goto(c, IF pc[c] \in {"acquired", "refreshed", "gone"} THEN "handler"
               ELSE IF pc[c] = "refused" /\ wait[c] THEN "sleep" ELSE "ended")
    /\ UNCHANGED <<owner, ttl, wait, budget, faults>>

Refresh(c) == pc[c] = "handler" /\ Send(c, "refresh")

\* The handler returns or panics; the deferred Release ignores a cancelled context.
HandlerReturns(c) == pc[c] = "handler" /\ Send(c, "release")

\* Backend errors: the request is lost before Redis or its answer after it.
LoseAnswer(c) ==
    /\ pc[c] \in InFlight \cup Answered
    /\ Fault
    /\ Goto(c, IF pc[c] \in {"refresh", "refreshed", "gone"} THEN "handler" ELSE "ended")
    /\ UNCHANGED <<owner, ttl, wait, budget, left>>

\* The context of Acquire is done while it sleeps.
Cancel(c) ==
    /\ pc[c] = "sleep"
    /\ Goto(c, "ended")
    /\ UNCHANGED <<owner, ttl, wait, budget, left, faults>>

Crash(c) ==
    /\ pc[c] # "ended"
    /\ Fault
    /\ Goto(c, "ended")
    /\ UNCHANGED <<owner, ttl, wait, budget, left>>

-----------------------------------------------------------------------------
Serve(c) == SetNX(c) \/ RefreshScript(c) \/ ReleaseScript(c)
Proceed(c) == TryAcquire(c) \/ Receive(c) \/ HandlerReturns(c)

Next ==
    \/ Tick
    \/ \E c \in Clients : Serve(c) \/ Proceed(c) \/ Refresh(c) \/ LoseAnswer(c) \/ Cancel(c) \/ Crash(c)

Spec == Init /\ [][Next]_vars

-----------------------------------------------------------------------------
(* Properties *)

\* While a client counts on its lease, from the sending of the request that Redis
\* confirmed, the key is its own: delays of requests and answers never shorten it.
LeaseIsHeld == \A c \in Clients : pc[c] \in Holding /\ left[c] > 0 => owner = c /\ ttl >= left[c]

\* Two handlers run together only when the lease of one of them is over.
Exclusion ==
    \A c, d \in Clients : c # d /\ pc[c] \in Holding /\ pc[d] \in Holding
        => left[c] = 0 \/ left[d] = 0

\* The key is taken from its owner by its own Release or by expiry only: a late
\* Release or Refresh of a lost lease does not touch the next owner.
OnlyOwnerOrExpiry == [][
    owner # Free /\ owner' # owner =>
        owner' = Free /\ (pc[owner] = "release" \/ (ttl = 1 /\ UNCHANGED pc))]_vars

=============================================================================
