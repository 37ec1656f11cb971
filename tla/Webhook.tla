------------------------------ MODULE Webhook ------------------------------
(***************************************************************************)
(* A producer signs messages and posts them (webhook.Signer and            *)
(* sender.Sender), a consumer verifies them (webhook.Verifier), while both *)
(* sides rotate the secret.  A delivery is delayed, repeated, reordered or *)
(* lost; an intermediary may encode its payload anew; the clocks differ.   *)
(***************************************************************************)
EXTENDS Integers, Sequences

CONSTANTS
    IDs,            \* message IDs
    Tolerance,      \* v.tolerance
    Behind,         \* how far the consumer's clock is behind
    MaxTime, MaxSends

VARIABLES
    now,
    signer,     \* the secrets of the Signer, in order
    verifier,   \* the secrets of the Verifier
    wire,       \* the requests that may arrive
    verdict,    \* the last request verified, when, and the result
    sends

vars == <<now, signer, verifier, wire, verdict, sends>>

None == [request |-> "none", at |-> 0, error |-> "none"]

Init ==
    /\ now = 0 /\ signer = <<"old">> /\ verifier = <<"old">>
    /\ wire = {} /\ verdict = None /\ sends = 0

-----------------------------------------------------------------------------
(* The producer *)

signDigest(secret, id, timestamp, payload) == <<secret, id, timestamp, payload>>

\* One signature for every secret, the primary one first.
Sign(id, timestamp, payload) ==
    [i \in DOMAIN signer |-> signDigest(signer[i], id, timestamp, payload)]

\* The signer's header replaces the one of the caller, whatever its case.
Overwrite(id, header) == <<id>>

\* The values of webhook-id in the header that the caller gives, forwarded from a
\* message of its own, or none.
CallerHeaders == {<<>>} \cup {<<id>> : id \in IDs}

\* Send: one POST, signed anew.
Send(id) ==
    /\ sends < MaxSends /\ sends' = sends + 1
    /\ \E header \in CallerHeaders :
         wire' = wire \cup {[id |-> Overwrite(id, header), of |-> id, timestamp |-> now, payload |-> "exact",
                             signatures |-> Sign(id, now, "exact"), n |-> sends]}
    /\ UNCHANGED <<now, signer, verifier, verdict>>

-----------------------------------------------------------------------------
(* The consumer *)

Fresh(r) == LET difference == now - Behind - r.timestamp
            IN difference <= Tolerance /\ difference >= -Tolerance

\* Mutant: the secrets are compared to the signatures pairwise.
MatchedPairwise(r) ==
    \E i \in DOMAIN verifier \cap DOMAIN r.signatures :
        r.signatures[i] = signDigest(verifier[i], r.id[1], r.timestamp, r.payload)

\* Some secret matches some signature.
Matched(r) ==
    \E i \in DOMAIN verifier, j \in DOMAIN r.signatures :
        r.signatures[j] = signDigest(verifier[i], r.id[1], r.timestamp, r.payload)

Verify(r) ==
    IF Len(r.id) # 1 THEN "InvalidMessageID"
    ELSE IF ~Fresh(r) THEN "TimestampOutsideTolerance"
    ELSE IF ~Matched(r) THEN "InvalidSignature"
    ELSE "ok"

\* A request arrives; it may arrive again.
Arrive(r) ==
    /\ verdict' = [request |-> r, at |-> now, error |-> Verify(r)]
    /\ UNCHANGED <<now, signer, verifier, wire, sends>>

-----------------------------------------------------------------------------
(* External: the network, time and the rotation of the secrets *)

Reencode(r) ==
    /\ r.payload = "exact" /\ wire' = (wire \ {r}) \cup {[r EXCEPT !.payload = "reencoded"]}
    /\ UNCHANGED <<now, signer, verifier, verdict, sends>>

Lose(r) ==
    /\ wire' = wire \ {r}
    /\ UNCHANGED <<now, signer, verifier, verdict, sends>>

Tick ==
    /\ now < MaxTime /\ now' = now + 1
    /\ UNCHANGED <<signer, verifier, wire, verdict, sends>>

\* Each side first holds both secrets; the previous one is removed when the other side
\* has the current one and the outstanding deliveries are too old.
RotateSigner ==
    /\ \/ signer = <<"old">> /\ signer' = <<"new", "old">>
       \/ signer = <<"new", "old">> /\ verifier # <<"old">> /\ signer' = <<"new">>
    /\ UNCHANGED <<now, verifier, wire, verdict, sends>>

RotateVerifier ==
    /\ \/ verifier = <<"old">> /\ verifier' = <<"new", "old">>
       \/ /\ verifier = <<"new", "old">> /\ signer # <<"old">> /\ verifier' = <<"new">>
          /\ \A r \in wire : Len(r.signatures) = 2 \/ r.signatures[1][1] = "new" \/ now - Behind - r.timestamp > Tolerance
    /\ UNCHANGED <<now, signer, wire, verdict, sends>>

-----------------------------------------------------------------------------
Next ==
    \/ \E id \in IDs : Send(id)
    \/ \E r \in wire : Arrive(r) \/ Reencode(r) \/ Lose(r)
    \/ Tick \/ RotateSigner \/ RotateVerifier

Spec == Init /\ [][Next]_vars

-----------------------------------------------------------------------------
(* Properties *)

\* During the rotation, in whatever order the two sides change, an exact message
\* within the tolerance is not refused.
RotationRefusesNothing ==
    verdict.error \notin {"none", "ok"} /\ verdict.request.payload = "exact" =>
        verdict.at - Behind - verdict.request.timestamp \notin -Tolerance..Tolerance

=============================================================================
