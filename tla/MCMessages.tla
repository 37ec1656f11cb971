------------------------------ MODULE MCMessages -----------------------------
(***************************************************************************)
(* Instances of the components that carry messages.  They share no state:  *)
(* a behaviour chooses one of them and leaves the others in their initial  *)
(* states, so the run visits every behaviour of each.                      *)
(***************************************************************************)
EXTENDS MemoryQueue, MessageProofs, TLC

VARIABLE which    \* the component that runs

rabbitVars == <<msgs, producer, pc, channel, hand, attempt, goal, copy, handled, rabbitFaults>>
cloudVars == <<events, queue, unacked, deliveries, forwarding, forwarder, open, recv, finished, received, faults>>
hookVars == <<time, signer, verifier, wire, verdict, sends>>
allVars == <<which, memVars, rabbitVars, cloudVars, hookVars>>

RunInit ==
    /\ MemInit /\ Rabbit!Init /\ Cloud!Init /\ Hook!Init
    /\ which \in {"memory", "rabbit", "cloud", "webhook"}

OnlyMemory == UNCHANGED <<which, rabbitVars, cloudVars, hookVars>>
OnlyRabbit == UNCHANGED <<which, memVars, cloudVars, hookVars>>
OnlyCloud == UNCHANGED <<which, memVars, rabbitVars, hookVars>>
OnlyHook == UNCHANGED <<which, memVars, rabbitVars, cloudVars>>

RunNext ==
    \/ which = "memory" /\ Next /\ OnlyMemory
    \/ which = "rabbit" /\ Rabbit!Next /\ OnlyRabbit
    \/ which = "cloud" /\ Cloud!Next /\ OnlyCloud
    \/ which = "webhook" /\ Hook!Next /\ OnlyHook

RunSpec == RunInit /\ [][RunNext]_allVars

\* The names of the tasks and of the consumers of the memory queue do not matter.
Symmetry == Permutations(Tasks) \cup Permutations(Consumers)

=============================================================================
