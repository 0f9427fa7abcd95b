----------------------------- MODULE WebhookDelivery -----------------------------
(***************************************************************************)
(* Signed webhooks (integrations/webhook_signing.py,                       *)
(* webhook_repository.py).  A sender signs each delivery of an event with  *)
(* its active key, a timestamp and a fresh nonce; the network delays,      *)
(* repeats and alters deliveries; accept_webhook_delivery, one transaction *)
(* under the integration's row lock, judges each arrival and appends an    *)
(* audit.                                                                  *)
(***************************************************************************)
EXTENDS Integers, FiniteSets, Sequences

CONSTANTS
    HookEvents,     \* event ids
    HookKeys,       \* signing key ids
    MaxHookAge,     \* max_age_seconds
    MaxHookTime,    \* bound: the clock
    MaxDeliveries   \* bound: signed deliveries, and arrivals

ASSUME WebhookAssumption ==
    MaxHookAge \in Nat /\ MaxHookTime \in Nat /\ MaxDeliveries \in Nat

VARIABLES
    integration,  \* the WebhookIntegration row: accepted_key_ids, active
    signerKeys,   \* accepted_key_ids of the receiver's WebhookSigner
    inFlight,     \* every delivery ever signed; the network may repeat any of them
    nonces,       \* WebhookReplayNonce rows
    audits,       \* WebhookDeliveryAudit rows
    hookClock

hookVars == <<integration, signerKeys, inFlight, nonces, audits, hookClock>>

NewIntegration(k) == [active |-> TRUE, keys |-> {k}]

HookInit ==
    /\ \E k \in HookKeys : integration = NewIntegration(k) /\ signerKeys = {k}
    /\ inFlight = {} /\ nonces = {} /\ audits = <<>> /\ hookClock = 0

\* WebhookSigner.sign: the nonce is fresh
Sign(e, k) ==
    /\ Cardinality(inFlight) < MaxDeliveries
    /\ inFlight' = inFlight \cup {[event |-> e, key |-> k, time |-> hookClock,
                                   nonce |-> Cardinality(inFlight) + 1, genuine |-> TRUE]}
    /\ UNCHANGED <<integration, signerKeys, nonces, audits, hookClock>>

\* a delivery altered on its way (its event, time, nonce or payload) does not
\* have the signature of what it says
Alter(d, e, t) ==
    /\ Cardinality(inFlight) < MaxDeliveries
    /\ inFlight' = inFlight \cup {[d EXCEPT !.event = e, !.time = t, !.genuine = FALSE]}
    /\ UNCHANGED <<integration, signerKeys, nonces, audits, hookClock>>

Age(d) == IF hookClock >= d.time THEN hookClock - d.time ELSE d.time - hookClock

\* the key check of the integration, then WebhookSigner.verify
RejectionOf(d) ==
    IF d.key \notin integration.keys \/ d.key \notin signerKeys THEN "unknown_key"
    ELSE IF Age(d) > MaxHookAge THEN "stale_timestamp"
    ELSE IF ~d.genuine THEN "signature_invalid"
    ELSE "none"

\* Mutant: only the nonce is looked up.
NeverAccepted(e) == FALSE

PriorEvent(e) == \E i \in DOMAIN audits : audits[i].event = e /\ audits[i].status = "accepted"

\* _append_audit
AuditRow(d, status) ==
    [event |-> d.event, key |-> d.key, nonce |-> d.nonce, genuine |-> d.genuine,
     age |-> Age(d), status |-> status]

NonceUsed(n) == n \in nonces

\* accept_webhook_delivery
AcceptDelivery(d) ==
    /\ integration.active
    /\ Len(audits) < MaxDeliveries
    /\ LET reason == RejectionOf(d)
           status == IF reason # "none" THEN "rejected"
                     ELSE IF PriorEvent(d.event) \/ NonceUsed(d.nonce) THEN "replayed"
                     ELSE "accepted"
       IN  /\ nonces' = IF status = "accepted" THEN nonces \cup {d.nonce} ELSE nonces
           /\ audits' = Append(audits, AuditRow(d, status))
    /\ UNCHANGED <<integration, signerKeys, inFlight, hookClock>>

\* the two lists of keys are configured apart from each other
ConfigureKeys ==
    /\ \/ \E ks \in SUBSET HookKeys \ {{}} : signerKeys' = ks /\ UNCHANGED integration
       \/ \E ks \in SUBSET HookKeys \ {{}} :
             integration' = [integration EXCEPT !.keys = ks] /\ UNCHANGED signerKeys
    /\ UNCHANGED <<inFlight, nonces, audits, hookClock>>

HookTick ==
    /\ hookClock < MaxHookTime
    /\ hookClock' = hookClock + 1
    /\ UNCHANGED <<integration, signerKeys, inFlight, nonces, audits>>

HookNext ==
    \/ \E e \in HookEvents, k \in HookKeys : Sign(e, k)
    \/ \E d \in inFlight : AcceptDelivery(d)
    \/ \E d \in inFlight, e \in HookEvents, t \in 0..MaxHookTime : Alter(d, e, t)
    \/ ConfigureKeys \/ HookTick

HookSpec == HookInit /\ [][HookNext]_hookVars

-----------------------------------------------------------------------------
(* Properties. *)

\* However often an event is signed again, delayed, repeated or altered, it is
\* accepted at most once, genuine and fresh.
EventAcceptedOnce ==
    LET accepted == {i \in DOMAIN audits : audits[i].status = "accepted"}
    IN  /\ \A i, j \in accepted : audits[i].event = audits[j].event => i = j
        /\ \A i \in accepted : audits[i].genuine /\ audits[i].age <= MaxHookAge
=============================================================================
