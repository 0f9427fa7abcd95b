----------------------------- MODULE TraceDelivery -----------------------------
(***************************************************************************)
(* The deliveries of one Run's trace to the hosted observability providers *)
(* (ObservabilityDeliveryRepository of persistence/repositories.py,        *)
(* workers/observability.py, observability/verification.py).  The          *)
(* dispatcher plans one delivery per provider in the transaction of its    *)
(* claim; workers lease a delivery, ask the provider whether the trace is  *)
(* visible, and record the answer under the fence of their lease.          *)
(*                                                                         *)
(* attempt_count and fence_token are always raised together and are one    *)
(* field; times are states: a lease is valid or due, a retry is due or     *)
(* not, the verification deadline has passed or not.                       *)
(***************************************************************************)
EXTENDS WorkerLeases

CONSTANTS
    MaxVerifications,   \* max_attempts, 30 in the code
    MaxVerifierLosses   \* bound: workers die or lose a lease only below this fence

ASSUME TraceAssumption ==
    MaxVerifications \in Nat \ {0} /\ MaxVerifierLosses \in Nat

VARIABLES
    delivery,       \* the observability_deliveries rows, by provider
    hosted,         \* what each provider shows: number of root traces, and whose
    traceDeadline,  \* has verification_deadline passed
    verifier        \* what each worker holds in memory

traceVars == <<delivery, hosted, traceDeadline, verifier>>

TraceProviders == {"langsmith", "langfuse"}
SettledDelivery == {"not_requested", "verified", "failed_terminal"}
LeasedDelivery == {"leased", "verifying"}
LeasableDelivery == {"planned", "failed_retryable", "unknown"}
DeliveryStatus == {"absent"} \cup SettledDelivery \cup LeasedDelivery \cup LeasableDelivery

DeliveryRow ==
    [status: DeliveryStatus, attempts: Nat, owner: Holder, lease: LeaseState,
     due: BOOLEAN]
VerificationAnswer == {"none", "verified", "terminal", "retry"}
Verifier ==
    [pc: {"idle", "leased", "answered"}, provider: TraceProviders, fence: Nat,
     answer: VerificationAnswer]

NotVerifying == [pc |-> "idle", provider |-> "langsmith", fence |-> 0, answer |-> "none"]

TraceInit ==
    /\ delivery = [p \in TraceProviders |->
           [status |-> "absent", attempts |-> 0, owner |-> NoWorker,
            lease |-> "none", due |-> TRUE]]
    /\ hosted = [p \in TraceProviders |-> [roots |-> 0, ours |-> FALSE]]
    /\ traceDeadline = FALSE
    /\ verifier = [w \in Workers |-> NotVerifying]

-----------------------------------------------------------------------------
(* Planning *)

\* ensure_intents: insert ... on conflict do nothing; every claim of the
\* dispatcher plans again, with the configuration its process was started with
EnsureIntents(enabled) ==
    /\ delivery' = [p \in TraceProviders |->
           IF delivery[p].status # "absent" THEN delivery[p]
           ELSE [delivery[p] EXCEPT !.status =
                    IF p \in enabled THEN "planned" ELSE "not_requested"]]
    /\ UNCHANGED <<hosted, traceDeadline, verifier>>

-----------------------------------------------------------------------------
(* Leasing *)

\* lease_owner and lease_expires_at become NULL
ClearTraceLease(r, status, due) ==
    [r EXCEPT !.status = status, !.owner = NoWorker, !.lease = "none", !.due = due]

\* recover_expired_leases, on every row
RecoveredDelivery(r) ==
    IF r.status \in LeasedDelivery /\ r.lease = "due"
    THEN ClearTraceLease(r, "unknown", TRUE) ELSE r

LeasableNow(r) == r.status \in LeasableDelivery /\ r.due

LeaseDue(w, p) ==
    LET recovered == [q \in TraceProviders |-> RecoveredDelivery(delivery[q])]
        r == recovered[p]
    IN  /\ verifier[w].pc = "idle"
        /\ LeasableNow(r)
        /\ delivery' = [recovered EXCEPT ![p] =
               [r EXCEPT !.status = IF r.status = "unknown" THEN "verifying" ELSE "leased",
                         !.attempts = r.attempts + 1, !.owner = w,
                         !.lease = "valid", !.due = FALSE]]
        /\ verifier' = [verifier EXCEPT ![w] =
               [pc |-> "leased", provider |-> p, fence |-> r.attempts + 1,
                answer |-> "none"]]
        /\ UNCHANGED <<hosted, traceDeadline>>

-----------------------------------------------------------------------------
(* execute *)

\* _budget_error: the attempt that reaches the limit is not used for a query
OutOfBudget(w) == traceDeadline \/ verifier[w].fence >= MaxVerifications

\* Mutant: whoever still holds an answer writes it.
FencedTransitionByAnyone(w, row) ==
    delivery' = [delivery EXCEPT ![verifier[w].provider] = row]

\* _fenced_transition: an update of no row when the lease is gone
FencedTransition(w, row) ==
    LET r == delivery[verifier[w].provider]
    IN  delivery' = IF /\ r.owner = w /\ r.attempts = verifier[w].fence
                       /\ r.status \in LeasedDelivery
                    THEN [delivery EXCEPT ![verifier[w].provider] = row]
                    ELSE delivery

MarkVerified(w) == FencedTransition(w,
    ClearTraceLease(delivery[verifier[w].provider], "verified", FALSE))
MarkTerminal(w) == FencedTransition(w,
    ClearTraceLease(delivery[verifier[w].provider], "failed_terminal", FALSE))
MarkRetryable(w) == FencedTransition(w,
    ClearTraceLease(delivery[verifier[w].provider], "failed_retryable", FALSE))

VerifierDone(w) ==
    /\ verifier' = [verifier EXCEPT ![w] = NotVerifying]
    /\ UNCHANGED <<hosted, traceDeadline>>

\* before the query: no budget, an unsupported event, no verifier configured
RefuseQuery(w, misconfigured) ==
    /\ verifier[w].pc = "leased"
    /\ OutOfBudget(w) \/ misconfigured
    /\ MarkTerminal(w)
    /\ VerifierDone(w)

\* _verify_langsmith looks for root traces of the Run; _verify_langfuse reads
\* the trace whose id is derived from the Run
AnswerOf(p) ==
    CASE hosted[p].roots = 0 -> "retry"
      [] p = "langsmith" /\ (hosted[p].roots > 1 \/ ~hosted[p].ours) -> "terminal"
      [] OTHER -> "verified"

\* _classify_exception: timeouts, rate limits and server errors are retried;
\* authentication and invalid requests are not
ClassifiedFailure == {"retry", "terminal"}

Query(w) ==
    /\ verifier[w].pc = "leased"
    /\ ~OutOfBudget(w)
    /\ \E answer \in {AnswerOf(verifier[w].provider)} \cup ClassifiedFailure :
          verifier' = [verifier EXCEPT ![w].pc = "answered", ![w].answer = answer]
    /\ UNCHANGED <<delivery, hosted, traceDeadline>>

\* _finish and _retry
Retry(w) == IF OutOfBudget(w) THEN MarkTerminal(w) ELSE MarkRetryable(w)

FinishVerification(w) ==
    /\ verifier[w].pc = "answered"
    /\ CASE verifier[w].answer = "verified" -> MarkVerified(w)
         [] verifier[w].answer = "terminal" -> MarkTerminal(w)
         [] OTHER -> Retry(w)
    /\ VerifierDone(w)

\* CancelledError while the query runs: the retry is shielded
CancelQuery(w) ==
    /\ verifier[w].pc = "leased"
    /\ verifier[w].fence < MaxVerifierLosses
    /\ Retry(w)
    /\ VerifierDone(w)

-----------------------------------------------------------------------------
(* Leaving, dying, and time *)

\* at shutdown: leases of this worker_id become retryable at once
ReleaseOwnedDeliveries(w) ==
    /\ verifier[w].pc # "idle"
    /\ verifier[w].fence < MaxVerifierLosses
    /\ delivery' = [p \in TraceProviders |->
           IF delivery[p].owner = w /\ delivery[p].status \in LeasedDelivery
           THEN ClearTraceLease(delivery[p], "failed_retryable", TRUE)
           ELSE delivery[p]]
    /\ VerifierDone(w)

VerifierCrash(w) ==
    /\ verifier[w].pc # "idle"
    /\ verifier[w].fence < MaxVerifierLosses
    /\ VerifierDone(w)
    /\ UNCHANGED delivery

Holds(w, p) == verifier[w].pc # "idle" /\ verifier[w].provider = p

TraceLeaseExpires(p) ==
    /\ delivery[p].lease = "valid"
    /\ \/ delivery[p].attempts < MaxVerifierLosses
       \/ \A w \in Workers : Holds(w, p) => verifier[w].fence # delivery[p].attempts
    /\ delivery' = [delivery EXCEPT ![p].lease = "due"]
    /\ UNCHANGED <<hosted, traceDeadline, verifier>>

TraceRetryDue(p) ==
    /\ delivery[p].status = "failed_retryable" /\ ~delivery[p].due
    /\ delivery' = [delivery EXCEPT ![p].due = TRUE]
    /\ UNCHANGED <<hosted, traceDeadline, verifier>>

DeadlinePasses ==
    /\ ~traceDeadline
    /\ traceDeadline' = TRUE
    /\ UNCHANGED <<delivery, hosted, verifier>>

\* a batch of callbacks reaches a provider.  At LangSmith the graph of a Run that
\* is started again adds a second root trace under the same run id, and a root
\* trace may carry another correlation id; at Langfuse the trace id is the Run's.
TraceAppears(p, ours) ==
    /\ hosted[p].roots < (IF p = "langsmith" THEN 2 ELSE 1)
    /\ ours \/ (p = "langsmith" /\ hosted[p].roots = 0)
    /\ hosted' = [hosted EXCEPT ![p] = [roots |-> @.roots + 1, ours |-> ours]]
    /\ UNCHANGED <<delivery, traceDeadline, verifier>>

VerifierStep(w) ==
    \/ \E p \in TraceProviders : LeaseDue(w, p)
    \/ RefuseQuery(w, FALSE)
    \/ Query(w)
    \/ FinishVerification(w)

TraceNext ==
    \/ \E enabled \in SUBSET TraceProviders : EnsureIntents(enabled)
    \/ \E w \in Workers :
          \/ VerifierStep(w)
          \/ RefuseQuery(w, TRUE)
          \/ CancelQuery(w)
          \/ ReleaseOwnedDeliveries(w)
          \/ VerifierCrash(w)
    \/ \E p \in TraceProviders :
          \/ TraceLeaseExpires(p)
          \/ TraceRetryDue(p)
          \/ \E ours \in BOOLEAN : TraceAppears(p, ours)
    \/ DeadlinePasses

\* A worker polls for ever; a lease and a retry time are reached by the clock.
TraceSpec ==
    /\ TraceInit /\ [][TraceNext]_traceVars
    /\ \A w \in Workers : WF_traceVars(VerifierStep(w))
    /\ \A p \in TraceProviders :
          WF_traceVars(TraceLeaseExpires(p)) /\ WF_traceVars(TraceRetryDue(p))

-----------------------------------------------------------------------------
(* Properties. *)

\* A verdict is right and final: a delivery is verified only if its provider
\* shows the trace, and a worker that answers after its lease went to another
\* does not change what was recorded meanwhile.
VerdictsStand ==
    [][\A p \in TraceProviders :
          /\ delivery[p].status \in SettledDelivery => delivery'[p] = delivery[p]
          /\ delivery'[p].status = "verified" => hosted'[p].roots > 0]_traceVars

\* Every delivery that is planned is verified or given up: crashes, expired
\* leases and retries never leave it between the two for ever.
DeliveriesEnd ==
    []<>(\A p \in TraceProviders : delivery[p].status \in {"absent"} \cup SettledDelivery)
=============================================================================
