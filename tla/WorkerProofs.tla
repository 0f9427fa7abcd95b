----------------------------- MODULE WorkerProofs ------------------------------
(***************************************************************************)
(* Theorems about the background workers, one part for each of them.  They *)
(* share no state, so each part has an invariant of its own.               *)
(***************************************************************************)
EXTENDS NotificationOutbox, MemoryOutcome, TraceDelivery, DataLifecycle, MonitorCron, TLAPS,
        FiniteSetTheorems, SequenceTheorems

-----------------------------------------------------------------------------
(***************************************************************************)
(* What was forgotten stays forgotten, and an outcome is recorded once, for *)
(* every number of workers, deletion requests and faults.                  *)
(***************************************************************************)
MemoryTypeOK ==
    /\ memory \in MemoryRow
    /\ forgetJobs \in [DeleteKeys -> ForgetJob]
    /\ eraser \in [Workers -> DeleteKeys \cup {NoDeletion}]

OutcomeTypeOK ==
    /\ observation \in ObservationRow
    /\ maturer \in [Workers -> Maturer]

\* only an outcome that is being measured has an owner, and only an owned one
\* has a lease
OwnedIsPending ==
    /\ observation.owner # NoWorker => observation.status = "pending"
    /\ observation.owner = NoWorker => observation.lease = "none"

\* the inductive invariants of the two halves of the module
MemoryInv == MemoryTypeOK /\ ForgottenStaysForgotten
OutcomeInv == OutcomeTypeOK /\ OwnedIsPending

Recorded == observation.status \in {"matured", "failed"} => observation' = observation

-----------------------------------------------------------------------------
(* The steps that write the memory and its deletion jobs. *)

LEMMA MemoryInit == MemoryOutcomeInit => MemoryInv
<1> SUFFICES ASSUME MemoryOutcomeInit PROVE MemoryInv
  OBVIOUS
<1>1. MemoryTypeOK
  BY DEF MemoryOutcomeInit, MemoryTypeOK, MemoryRow, ForgetJob, Holder, LeaseState
<1>2. ForgottenStaysForgotten
  BY DEF MemoryOutcomeInit, ForgottenStaysForgotten
<1> QED BY <1>1, <1>2 DEF MemoryInv

LEMMA MemoryWritten ==
    ASSUME MemoryInv, NEW enabled \in BOOLEAN,
           CreateMemory(enabled) \/ UpdateMemory(enabled)
    PROVE  MemoryInv'
<1> USE DEF MemoryInv
<1>1. /\ ~memory.deleted
      /\ memory' = [memory EXCEPT !.content = "text", !.enabled = enabled]
      /\ UNCHANGED <<forgetJobs, eraser>>
  BY DEF CreateMemory, UpdateMemory
<1>2. MemoryTypeOK'
  BY <1>1 DEF MemoryTypeOK, MemoryRow
<1>3. \A k \in DeleteKeys : forgetJobs[k].status # "succeeded"
  BY <1>1 DEF ForgottenStaysForgotten
<1>4. ForgottenStaysForgotten'
  BY <1>1, <1>3 DEF ForgottenStaysForgotten
<1> QED BY <1>2, <1>4

LEMMA MemoryDeletionRequested ==
    ASSUME MemoryInv, NEW k \in DeleteKeys, DeleteMemory(k)
    PROVE  MemoryInv'
<1> USE DEF MemoryInv, DeleteMemory
<1>1. MemoryTypeOK'
  BY DEF MemoryTypeOK, MemoryRow, ForgetJob
<1>2. \A j \in DeleteKeys : forgetJobs[j].status # "succeeded"
  BY DEF ForgottenStaysForgotten
<1>3. \A j \in DeleteKeys : forgetJobs'[j].status # "succeeded"
  BY <1>2 DEF MemoryTypeOK
<1>4. ForgottenStaysForgotten'
  BY <1>3 DEF ForgottenStaysForgotten
<1> QED BY <1>1, <1>4

\* a step that leaves the memory alone and lets no job succeed
LEMMA JobsMoved ==
    ASSUME MemoryInv, MemoryTypeOK', UNCHANGED memory,
           \A k \in DeleteKeys : forgetJobs'[k].status = "succeeded"
                                     => forgetJobs[k].status = "succeeded"
    PROVE  MemoryInv'
BY DEF MemoryInv, ForgottenStaysForgotten

LEMMA EraserStepSafe ==
    ASSUME MemoryInv, NEW w \in Workers, EraserStep(w)
    PROVE  MemoryInv'
<1>1. ASSUME NEW k \in DeleteKeys, ClaimForget(w, k) PROVE MemoryInv'
  <2>1. MemoryTypeOK'
    BY <1>1 DEF ClaimForget, MemoryInv, MemoryTypeOK, ForgetJob, Holder, LeaseState
  <2>2. \A j \in DeleteKeys : forgetJobs'[j].status = "succeeded"
                                  => forgetJobs[j].status = "succeeded"
    BY <1>1 DEF ClaimForget, MemoryInv, MemoryTypeOK
  <2> QED BY <1>1, <2>1, <2>2, JobsMoved DEF ClaimForget
<1>2. CASE EraseMemory(w)
  <2> DEFINE k == eraser[w]
             j == forgetJobs[k]
  <2>0. k \in DeleteKeys
    BY <1>2 DEF EraseMemory, MemoryInv, MemoryTypeOK
  <2>1. MemoryTypeOK'
    <3>1. memory' \in MemoryRow
      <4>1. [content |-> "erased", enabled |-> FALSE, deleted |-> TRUE] \in MemoryRow
        BY DEF MemoryRow
      <4>2. \/ memory' = [content |-> "erased", enabled |-> FALSE, deleted |-> TRUE]
            \/ memory' = memory
        BY <1>2 DEF EraseMemory
      <4> QED BY <4>1, <4>2 DEF MemoryInv, MemoryTypeOK
    <3>2. forgetJobs' \in [DeleteKeys -> ForgetJob]
      BY <1>2, <2>0 DEF EraseMemory, MemoryInv, MemoryTypeOK, ForgetJob, Holder, LeaseState
    <3>3. eraser' \in [Workers -> DeleteKeys \cup {NoDeletion}]
      BY <1>2 DEF EraseMemory, MemoryInv, MemoryTypeOK
    <3> QED BY <3>1, <3>2, <3>3 DEF MemoryTypeOK
  <2>2. CASE j.status = "running" /\ j.owner = w
    BY <1>2, <2>1, <2>2 DEF EraseMemory, MemoryInv, ForgottenStaysForgotten
  <2>3. CASE ~(j.status = "running" /\ j.owner = w)
    BY <1>2, <2>1, <2>3, JobsMoved DEF EraseMemory
  <2> QED BY <2>2, <2>3
<1> QED BY <1>1, <1>2 DEF EraserStep

LEMMA EraserStops ==
    ASSUME MemoryInv, NEW w \in Workers, EraserFails(w) \/ ReleaseForgets(w)
    PROVE  MemoryInv'
<1>1. CASE EraserFails(w)
  BY <1>1, JobsMoved DEF EraserFails, MemoryInv, MemoryTypeOK
<1>2. CASE ReleaseForgets(w)
  <2>1. MemoryTypeOK'
    BY <1>2 DEF ReleaseForgets, MemoryInv, MemoryTypeOK, ForgetJob, Holder, LeaseState
  <2>2. \A k \in DeleteKeys : forgetJobs'[k].status = "succeeded"
                                  => forgetJobs[k].status = "succeeded"
    BY <1>2 DEF ReleaseForgets
  <2> QED BY <1>2, <2>1, <2>2, JobsMoved DEF ReleaseForgets
<1> QED BY <1>1, <1>2

LEMMA ForgetLeaseDue ==
    ASSUME MemoryInv, NEW k \in DeleteKeys, ForgetLeaseExpires(k)
    PROVE  MemoryInv'
<1>1. MemoryTypeOK'
  BY DEF ForgetLeaseExpires, MemoryInv, MemoryTypeOK, ForgetJob, LeaseState
<1>2. \A j \in DeleteKeys : forgetJobs'[j].status = "succeeded"
                                => forgetJobs[j].status = "succeeded"
  BY DEF ForgetLeaseExpires, MemoryInv, MemoryTypeOK
<1> QED BY <1>1, <1>2, JobsMoved DEF ForgetLeaseExpires

\* every other step leaves memory, jobs and erasers alone
LEMMA MemoryUntouched ==
    ASSUME MemoryInv, UNCHANGED memoryVars PROVE MemoryInv'
BY DEF MemoryInv, MemoryTypeOK, ForgottenStaysForgotten, memoryVars

LEMMA MemoryStep ==
    ASSUME MemoryInv, [MemoryOutcomeNext]_memoryOutcomeVars PROVE MemoryInv'
<1>1. CASE \E enabled \in BOOLEAN : CreateMemory(enabled) \/ UpdateMemory(enabled)
  BY <1>1, MemoryWritten
<1>2. CASE \E k \in DeleteKeys : DeleteMemory(k) \/ ForgetLeaseExpires(k)
  BY <1>2, MemoryDeletionRequested, ForgetLeaseDue
<1>3. CASE ScheduleOutcome \/ MaturationReached \/ OutcomeLeaseExpires
  BY <1>3, MemoryUntouched DEF ScheduleOutcome, MaturationReached, OutcomeLeaseExpires
<1>4. ASSUME NEW w \in Workers,
             EraserStep(w) \/ EraserFails(w) \/ ReleaseForgets(w)
      PROVE  MemoryInv'
  BY <1>4, EraserStepSafe, EraserStops
<1>5. ASSUME NEW w \in Workers,
             \/ MaturerStep(w) \/ MaturerCrash(w) \/ ReleaseOutcomes(w)
             \/ \E committed \in BOOLEAN : FinishOutcomeRaises(w, committed)
      PROVE  MemoryInv'
  BY <1>5, MemoryUntouched
  DEF MaturerStep, ClaimOutcome, MeasureOutcome, FinishOutcome, MaturerCrash,
      ReleaseOutcomes, FinishOutcomeRaises
<1>6. CASE UNCHANGED memoryOutcomeVars
  BY <1>6, MemoryUntouched DEF memoryOutcomeVars
<1> QED BY <1>1, <1>2, <1>3, <1>4, <1>5, <1>6 DEF MemoryOutcomeNext

\* Once a deletion job has succeeded the memory stays erased and disabled: no
\* update or upsert, before, between or after the transactions of the worker,
\* brings content back.
THEOREM ForgottenStaysForgottenHolds == MemoryOutcomeSpec => []ForgottenStaysForgotten
<1>1. MemoryInv => ForgottenStaysForgotten
  BY DEF MemoryInv
<1> QED BY MemoryInit, MemoryStep, <1>1, PTL DEF MemoryOutcomeSpec

-----------------------------------------------------------------------------
(* The steps that write the outcome. *)

LEMMA OutcomeInit == MemoryOutcomeInit => OutcomeInv
<1> SUFFICES ASSUME MemoryOutcomeInit PROVE OutcomeInv
  OBVIOUS
<1>1. OutcomeTypeOK
  BY DEF MemoryOutcomeInit, OutcomeTypeOK, ObservationRow, Maturer, Holder, LeaseState
<1>2. OwnedIsPending
  BY DEF MemoryOutcomeInit, OwnedIsPending
<1> QED BY <1>1, <1>2 DEF OutcomeInv

LEMMA OutcomeUntouched ==
    ASSUME OutcomeInv, UNCHANGED outcomeVars PROVE OutcomeInv' /\ Recorded
BY DEF OutcomeInv, OutcomeTypeOK, OwnedIsPending, outcomeVars, Recorded

\* the result is written by the owner, so while the outcome is pending
LEMMA OutcomeStored ==
    ASSUME OutcomeInv, NEW w \in Workers, maturer[w] \in {"measured", "error"},
           StoreOutcome(w)
    PROVE  observation' \in ObservationRow /\ OwnedIsPending' /\ Recorded
<1> USE DEF StoreOutcome
<1>1. w # NoWorker
  BY WorkerAssumption
<1>2. CASE observation.owner = w
  <2>1. observation' \in ObservationRow
    BY <1>2 DEF OutcomeInv, OutcomeTypeOK, ObservationRow, Holder, LeaseState
  <2>2. observation'.owner = NoWorker /\ observation'.lease = "none"
    BY <1>2 DEF OutcomeInv, OutcomeTypeOK, ObservationRow
  <2>3. observation.status = "pending"
    BY <1>1, <1>2 DEF OutcomeInv, OwnedIsPending
  <2> QED BY <2>1, <2>2, <2>3 DEF OwnedIsPending, Recorded
<1>3. CASE observation.owner # w
  BY <1>3 DEF OutcomeInv, OutcomeTypeOK, OwnedIsPending, Recorded
<1> QED BY <1>2, <1>3

LEMMA MaturerSafe ==
    ASSUME OutcomeInv, NEW w \in Workers,
           \/ MaturerStep(w) \/ MaturerCrash(w) \/ ReleaseOutcomes(w)
           \/ \E committed \in BOOLEAN : FinishOutcomeRaises(w, committed)
    PROVE  OutcomeInv' /\ Recorded
<1> USE DEF OutcomeInv
<1>1. CASE ClaimOutcome(w)
  <2>1. OutcomeTypeOK'
    BY <1>1 DEF ClaimOutcome, OutcomeTypeOK, ObservationRow, Maturer, Holder, LeaseState
  <2>2. OwnedIsPending' /\ Recorded
    BY <1>1, WorkerAssumption
    DEF ClaimOutcome, OutcomeTypeOK, ObservationRow, OwnedIsPending, Recorded
  <2> QED BY <2>1, <2>2
<1>2. ASSUME NEW result \in {"measured", "error"}, MeasureOutcome(w, result)
      PROVE  OutcomeInv' /\ Recorded
  BY <1>2 DEF MeasureOutcome, OutcomeTypeOK, OwnedIsPending, Maturer, Recorded
<1>3. CASE FinishOutcome(w)
  BY <1>3, OutcomeStored DEF FinishOutcome, OutcomeTypeOK, Maturer
<1>4. ASSUME NEW committed \in BOOLEAN, FinishOutcomeRaises(w, committed)
      PROVE  OutcomeInv' /\ Recorded
  <2>1. maturer' \in [Workers -> Maturer]
    BY <1>4 DEF FinishOutcomeRaises, OutcomeTypeOK, Maturer
  <2>2. CASE committed
    BY <1>4, <2>1, <2>2, OutcomeStored DEF FinishOutcomeRaises, OutcomeTypeOK
  <2>3. CASE ~committed
    BY <1>4, <2>1, <2>3 DEF FinishOutcomeRaises, OutcomeTypeOK, OwnedIsPending, Recorded
  <2> QED BY <2>2, <2>3
<1>5. CASE MaturerCrash(w)
  BY <1>5 DEF MaturerCrash, OutcomeTypeOK, OwnedIsPending, Maturer, Recorded
<1>6. CASE ReleaseOutcomes(w)
  <2>1. OutcomeTypeOK'
    BY <1>6 DEF ReleaseOutcomes, OutcomeTypeOK, ObservationRow, Maturer, Holder, LeaseState
  <2>2. OwnedIsPending' /\ Recorded
    BY <1>6 DEF ReleaseOutcomes, OutcomeTypeOK, ObservationRow, OwnedIsPending, Recorded
  <2> QED BY <2>1, <2>2
<1> QED BY <1>1, <1>2, <1>3, <1>4, <1>5, <1>6 DEF MaturerStep

LEMMA OutcomeClock ==
    ASSUME OutcomeInv, ScheduleOutcome \/ MaturationReached \/ OutcomeLeaseExpires
    PROVE  OutcomeInv' /\ Recorded
<1> USE DEF OutcomeInv
<1>1. OutcomeTypeOK'
  BY DEF ScheduleOutcome, MaturationReached, OutcomeLeaseExpires, OutcomeTypeOK,
         ObservationRow, Holder, LeaseState
<1>2. OwnedIsPending' /\ Recorded
  BY DEF ScheduleOutcome, MaturationReached, OutcomeLeaseExpires, OutcomeTypeOK,
         ObservationRow, OwnedIsPending, Recorded
<1> QED BY <1>1, <1>2

LEMMA OutcomeStep ==
    ASSUME OutcomeInv, [MemoryOutcomeNext]_memoryOutcomeVars
    PROVE  OutcomeInv' /\ Recorded
<1>1. CASE \E enabled \in BOOLEAN : CreateMemory(enabled) \/ UpdateMemory(enabled)
  BY <1>1, OutcomeUntouched DEF CreateMemory, UpdateMemory
<1>2. CASE \E k \in DeleteKeys : DeleteMemory(k) \/ ForgetLeaseExpires(k)
  BY <1>2, OutcomeUntouched DEF DeleteMemory, ForgetLeaseExpires
<1>3. CASE ScheduleOutcome \/ MaturationReached \/ OutcomeLeaseExpires
  BY <1>3, OutcomeClock
<1>4. ASSUME NEW w \in Workers,
             EraserStep(w) \/ EraserFails(w) \/ ReleaseForgets(w)
      PROVE  OutcomeInv' /\ Recorded
  BY <1>4, OutcomeUntouched
  DEF EraserStep, ClaimForget, EraseMemory, EraserFails, ReleaseForgets
<1>5. ASSUME NEW w \in Workers,
             \/ MaturerStep(w) \/ MaturerCrash(w) \/ ReleaseOutcomes(w)
             \/ \E committed \in BOOLEAN : FinishOutcomeRaises(w, committed)
      PROVE  OutcomeInv' /\ Recorded
  BY <1>5, MaturerSafe
<1>6. CASE UNCHANGED memoryOutcomeVars
  BY <1>6, OutcomeUntouched DEF memoryOutcomeVars
<1> QED BY <1>1, <1>2, <1>3, <1>4, <1>5, <1>6 DEF MemoryOutcomeNext

\* An outcome is recorded once: whatever late or repeated write a worker makes,
\* a matured or failed observation does not change.
THEOREM OutcomeRecordedOnceHolds == MemoryOutcomeSpec => OutcomeRecordedOnce
<1>1. ASSUME OutcomeInv, [MemoryOutcomeNext]_memoryOutcomeVars
      PROVE  [Recorded]_memoryOutcomeVars
  BY <1>1, OutcomeStep
<1> QED BY OutcomeInit, OutcomeStep, <1>1, PTL
        DEF MemoryOutcomeSpec, OutcomeRecordedOnce, Recorded

-----------------------------------------------------------------------------
(***************************************************************************)
(* A verdict about a trace is right and final, for every number of         *)
(* workers, of attempts and of lost leases.                                *)
(***************************************************************************)
\* a lease that can expire belongs to a delivery under way
GoodRow(r) == r \in DeliveryRow /\ (r.lease = "valid" => r.status \in LeasedDelivery)

\* a delivery, and a worker's answer, say "verified" only of a trace that shows
TraceInv ==
    /\ delivery \in [TraceProviders -> DeliveryRow]
    /\ hosted \in [TraceProviders -> [roots: Nat, ours: BOOLEAN]]
    /\ verifier \in [Workers -> Verifier]
    /\ \A p \in TraceProviders : GoodRow(delivery[p])
    /\ \A p \in TraceProviders : delivery[p].status = "verified" => hosted[p].roots > 0
    /\ \A w \in Workers : verifier[w].answer = "verified" => hosted[verifier[w].provider].roots > 0

\* what one step may do to a delivery d1 whose provider shows `roots` traces
Lawful(d1, d2, roots) ==
    /\ GoodRow(d2)
    /\ d1.status \in SettledDelivery => d2 = d1
    /\ d2.status = "verified" => d1.status = "verified" \/ roots > 0

DeliveriesLawful ==
    /\ delivery' \in [TraceProviders -> DeliveryRow]
    /\ \A p \in TraceProviders : Lawful(delivery[p], delivery'[p], hosted[p].roots)

USE DEF SettledDelivery, LeasedDelivery, LeasableDelivery

\* ClearTraceLease keeps a row well formed, whatever the row was.
LEMMA ClearedRow ==
    ASSUME NEW r \in DeliveryRow, NEW status \in DeliveryStatus, NEW due \in BOOLEAN
    PROVE  /\ GoodRow(ClearTraceLease(r, status, due))
           /\ ClearTraceLease(r, status, due).status = status
BY DEF ClearTraceLease, GoodRow, DeliveryRow, DeliveryStatus, Holder, LeaseState

\* recover_expired_leases touches leased deliveries only, and verifies none.
LEMMA RecoveredRow ==
    ASSUME NEW r, GoodRow(r)
    PROVE  /\ GoodRow(RecoveredDelivery(r))
           /\ r.status \in SettledDelivery => RecoveredDelivery(r) = r
           /\ RecoveredDelivery(r).status = "verified" => r.status = "verified"
<1>1. CASE r.status \in LeasedDelivery /\ r.lease = "due"
  <2>1. RecoveredDelivery(r) = ClearTraceLease(r, "unknown", TRUE)
    BY <1>1 DEF RecoveredDelivery
  <2>2. GoodRow(ClearTraceLease(r, "unknown", TRUE))
        /\ ClearTraceLease(r, "unknown", TRUE).status = "unknown"
    BY ClearedRow DEF GoodRow, DeliveryStatus
  <2> QED BY <1>1, <2>1, <2>2
<1>2. CASE ~(r.status \in LeasedDelivery /\ r.lease = "due")
  BY <1>2 DEF RecoveredDelivery
<1> QED BY <1>1, <1>2

\* _fenced_transition writes a delivery under way or none, and "verified" only
\* of a trace that shows.
LEMMA FencedLawful ==
    ASSUME TraceInv, NEW w \in Workers, NEW row, GoodRow(row),
           row.status = "verified" => hosted[verifier[w].provider].roots > 0,
           FencedTransition(w, row)
    PROVE  DeliveriesLawful
<1> DEFINE p == verifier[w].provider
<1>1. p \in TraceProviders
  BY DEF TraceInv, Verifier
<1>2. CASE delivery[p].status \in LeasedDelivery /\ delivery' = [delivery EXCEPT ![p] = row]
  BY <1>1, <1>2 DEF TraceInv, DeliveriesLawful, Lawful, GoodRow
<1>3. CASE delivery' = delivery
  BY <1>3 DEF TraceInv, DeliveriesLawful, Lawful
<1> QED BY <1>2, <1>3 DEF FencedTransition

\* Terminal and retryable marks are lawful whenever they are made.
LEMMA MarksLawful ==
    ASSUME TraceInv, NEW w \in Workers, MarkTerminal(w) \/ MarkRetryable(w)
    PROVE  DeliveriesLawful
<1> DEFINE r == delivery[verifier[w].provider]
<1>1. r \in DeliveryRow
  BY DEF TraceInv, Verifier
<1>2. \A s \in {"failed_terminal", "failed_retryable"} :
          GoodRow(ClearTraceLease(r, s, FALSE)) /\ ClearTraceLease(r, s, FALSE).status = s
  BY <1>1, ClearedRow DEF DeliveryStatus
<1>3. CASE MarkTerminal(w)
  <2>1. FencedTransition(w, ClearTraceLease(r, "failed_terminal", FALSE))
    BY <1>3 DEF MarkTerminal
  <2> QED BY <2>1, <1>2, FencedLawful
<1>4. CASE MarkRetryable(w)
  <2>1. FencedTransition(w, ClearTraceLease(r, "failed_retryable", FALSE))
    BY <1>4 DEF MarkRetryable
  <2> QED BY <2>1, <1>2, FencedLawful
<1> QED BY <1>3, <1>4

\* VerifierDone forgets what the worker held.
LEMMA DoneForgets ==
    ASSUME TraceInv, NEW w \in Workers, VerifierDone(w)
    PROVE  /\ hosted' = hosted
           /\ verifier' \in [Workers -> Verifier]
           /\ \A v \in Workers : verifier'[v] = verifier[v] \/ verifier'[v].answer = "none"
BY DEF TraceInv, VerifierDone, NotVerifying, Verifier, VerificationAnswer, TraceProviders

\* A step is good if it changes deliveries lawfully, no trace disappears, and
\* an answer "verified" is about a trace that shows.
GoodStep ==
    /\ DeliveriesLawful
    /\ hosted' \in [TraceProviders -> [roots: Nat, ours: BOOLEAN]]
    /\ \A p \in TraceProviders : hosted'[p].roots >= hosted[p].roots
    /\ verifier' \in [Workers -> Verifier]
    /\ \A v \in Workers :
          \/ verifier'[v] = verifier[v]
          \/ verifier'[v].answer # "verified"
          \/ hosted'[verifier'[v].provider].roots > 0

LEMMA DoneStep ==
    ASSUME TraceInv, NEW w \in Workers, VerifierDone(w), DeliveriesLawful
    PROVE  GoodStep
<1>1. /\ hosted' = hosted
      /\ verifier' \in [Workers -> Verifier]
      /\ \A v \in Workers : verifier'[v] = verifier[v] \/ verifier'[v].answer = "none"
  BY DoneForgets
<1> QED BY <1>1 DEF GoodStep, TraceInv

LEMMA PlanStep ==
    ASSUME TraceInv, NEW enabled, EnsureIntents(enabled)
    PROVE  GoodStep
<1>1. ASSUME NEW p \in TraceProviders
      PROVE  /\ delivery'[p] \in DeliveryRow
             /\ Lawful(delivery[p], delivery'[p], hosted[p].roots)
  <2>1. PICK r : r = delivery[p]
    OBVIOUS
  <2>2. GoodRow(r) /\ (r.status = "verified" => hosted[p].roots > 0)
    BY <2>1 DEF TraceInv
  <2>3. CASE delivery'[p] = r
    BY <2>1, <2>2, <2>3 DEF Lawful, GoodRow
  <2>4. ASSUME NEW status \in {"planned", "not_requested"}, r.status = "absent",
               delivery'[p] = [r EXCEPT !.status = status]
        PROVE  /\ delivery'[p] \in DeliveryRow
               /\ Lawful(delivery[p], delivery'[p], hosted[p].roots)
    BY <2>1, <2>2, <2>4 DEF Lawful, GoodRow, DeliveryRow, DeliveryStatus
  <2> QED
    BY <2>1, <2>3, <2>4 DEF EnsureIntents
<1>2. DeliveriesLawful
  BY <1>1 DEF EnsureIntents, DeliveriesLawful
<1> QED BY <1>2 DEF GoodStep, TraceInv, EnsureIntents

\* lease_due writes a well-formed row under way.
LEMMA LeasedRow ==
    ASSUME NEW r \in DeliveryRow, NEW w \in Workers, NEW status \in LeasedDelivery,
           NEW n \in Nat
    PROVE  LET leased == [r EXCEPT !.status = status, !.attempts = n, !.owner = w,
                                   !.lease = "valid", !.due = FALSE]
           IN  GoodRow(leased) /\ leased.status \in LeasedDelivery
<1> DEFINE leased == [r EXCEPT !.status = status, !.attempts = n, !.owner = w,
                               !.lease = "valid", !.due = FALSE]
<1>1. status \in DeliveryStatus /\ w \in Holder /\ "valid" \in LeaseState
  BY DEF DeliveryStatus, Holder, LeaseState
<1>2. leased \in DeliveryRow /\ leased.status = status
  BY <1>1 DEF DeliveryRow
<1> HIDE DEF leased
<1>3. GoodRow(leased) /\ leased.status \in LeasedDelivery
  BY <1>2 DEF GoodRow
<1> QED BY <1>3 DEF leased

LEMMA LeaseStep ==
    ASSUME TraceInv, NEW w \in Workers, NEW p \in TraceProviders, LeaseDue(w, p)
    PROVE  GoodStep
<1> DEFINE recovered == [q \in TraceProviders |-> RecoveredDelivery(delivery[q])]
           r == recovered[p]
           leased == [r EXCEPT !.status = IF r.status = "unknown" THEN "verifying" ELSE "leased",
                               !.attempts = r.attempts + 1, !.owner = w,
                               !.lease = "valid", !.due = FALSE]
<1>1. \A q \in TraceProviders : Lawful(delivery[q], recovered[q], hosted[q].roots)
  BY RecoveredRow DEF TraceInv, Lawful
<1>2. delivery' = [recovered EXCEPT ![p] = leased] /\ LeasableNow(r) /\ hosted' = hosted
      /\ verifier' = [verifier EXCEPT ![w] =
               [pc |-> "leased", provider |-> p, fence |-> r.attempts + 1,
                answer |-> "none"]]
  BY DEF LeaseDue
<1>3. r \in DeliveryRow /\ r.status \in LeasableDelivery
  BY <1>1, <1>2 DEF Lawful, GoodRow, LeasableNow
<1>4. GoodRow(leased) /\ leased.status \in LeasedDelivery
  <2>1. r.attempts + 1 \in Nat
    BY <1>3 DEF DeliveryRow
  <2>2. (IF r.status = "unknown" THEN "verifying" ELSE "leased") \in LeasedDelivery
    OBVIOUS
  <2> HIDE DEF r
  <2>3. ASSUME NEW n, n = r.attempts + 1,
               NEW s, s = IF r.status = "unknown" THEN "verifying" ELSE "leased"
        PROVE  GoodRow(leased) /\ leased.status \in LeasedDelivery
    <3>1. n \in Nat /\ s \in LeasedDelivery
      BY <2>1, <2>2, <2>3
    <3>2. leased = [r EXCEPT !.status = s, !.attempts = n, !.owner = w,
                             !.lease = "valid", !.due = FALSE]
      BY <2>3
    <3> HIDE DEF leased
    <3> QED BY <1>3, <3>1, <3>2, LeasedRow
  <2> QED BY <2>3
<1>5. delivery[p].status \notin SettledDelivery
  BY <1>1, <1>3 DEF Lawful
<1> HIDE DEF leased, r
<1>6. \A q \in TraceProviders : recovered[q] \in DeliveryRow
  BY <1>1 DEF Lawful, GoodRow
<1>7. Lawful(delivery[p], leased, hosted[p].roots)
  BY <1>4, <1>5 DEF Lawful
<1> HIDE DEF recovered
<1>8. recovered \in [TraceProviders -> DeliveryRow]
  BY <1>6 DEF recovered
<1>9. DeliveriesLawful
  BY <1>1, <1>2, <1>4, <1>7, <1>8 DEF DeliveriesLawful, GoodRow
<1>10. verifier' \in [Workers -> Verifier]
       /\ \A v \in Workers : verifier'[v] = verifier[v] \/ verifier'[v].answer = "none"
  BY <1>2, <1>3 DEF TraceInv, Verifier, VerificationAnswer, DeliveryRow
<1> QED BY <1>2, <1>9, <1>10 DEF GoodStep, TraceInv

LEMMA RefuseStep ==
    ASSUME TraceInv, NEW w \in Workers, NEW m, RefuseQuery(w, m)
    PROVE  GoodStep
<1>1. MarkTerminal(w) /\ VerifierDone(w)
  BY DEF RefuseQuery
<1> QED BY <1>1, MarksLawful, DoneStep

LEMMA QueryStep ==
    ASSUME TraceInv, NEW w \in Workers, Query(w)
    PROVE  GoodStep
<1> DEFINE p == verifier[w].provider
<1>1. p \in TraceProviders
  BY DEF TraceInv, Verifier
<1>2. PICK answer \in {AnswerOf(p)} \cup ClassifiedFailure :
          verifier' = [verifier EXCEPT ![w].pc = "answered", ![w].answer = answer]
  BY DEF Query
<1>3. answer \in VerificationAnswer /\ (answer = "verified" => hosted[p].roots > 0)
  BY <1>1 DEF AnswerOf, ClassifiedFailure, VerificationAnswer, TraceInv
<1>4. verifier' \in [Workers -> Verifier]
      /\ \A v \in Workers : \/ verifier'[v] = verifier[v]
                            \/ verifier'[v].answer = answer /\ verifier'[v].provider = p
  BY <1>1, <1>2, <1>3 DEF TraceInv, Verifier
<1>5. delivery' = delivery /\ hosted' = hosted
  BY DEF Query
<1>6. DeliveriesLawful
  BY <1>5 DEF TraceInv, DeliveriesLawful, Lawful
<1> QED BY <1>3, <1>4, <1>5, <1>6 DEF GoodStep, TraceInv

LEMMA FinishStep ==
    ASSUME TraceInv, NEW w \in Workers, FinishVerification(w)
    PROVE  GoodStep
<1>1. VerifierDone(w)
  BY DEF FinishVerification
<1>2. CASE MarkTerminal(w) \/ MarkRetryable(w)
  BY <1>1, <1>2, MarksLawful, DoneStep
<1>3. CASE verifier[w].answer = "verified" /\ MarkVerified(w)
  <2> DEFINE row == ClearTraceLease(delivery[verifier[w].provider], "verified", FALSE)
  <2>1. delivery[verifier[w].provider] \in DeliveryRow
    BY DEF TraceInv, Verifier
  <2>2. GoodRow(row)
    BY <2>1, ClearedRow DEF DeliveryStatus
  <2>3. hosted[verifier[w].provider].roots > 0
    BY <1>3 DEF TraceInv
  <2>4. FencedTransition(w, row)
    BY <1>3 DEF MarkVerified
  <2>5. DeliveriesLawful
    <3> HIDE DEF row
    <3> QED BY <2>2, <2>3, <2>4, FencedLawful
  <2> QED BY <1>1, <2>5, DoneStep
<1> QED BY <1>2, <1>3 DEF FinishVerification, Retry

LEMMA CancelStep ==
    ASSUME TraceInv, NEW w \in Workers, CancelQuery(w)
    PROVE  GoodStep
<1>1. (MarkTerminal(w) \/ MarkRetryable(w)) /\ VerifierDone(w)
  BY DEF CancelQuery, Retry
<1> QED BY <1>1, MarksLawful, DoneStep

LEMMA ReleaseStep ==
    ASSUME TraceInv, NEW w \in Workers, ReleaseOwnedDeliveries(w)
    PROVE  GoodStep
<1>1. \A p \in TraceProviders :
          /\ GoodRow(ClearTraceLease(delivery[p], "failed_retryable", TRUE))
          /\ ClearTraceLease(delivery[p], "failed_retryable", TRUE).status = "failed_retryable"
  BY ClearedRow DEF TraceInv, DeliveryStatus
<1>2. VerifierDone(w)
  BY DEF ReleaseOwnedDeliveries
<1>3. DeliveriesLawful
  BY <1>1 DEF ReleaseOwnedDeliveries, TraceInv, DeliveriesLawful, Lawful, GoodRow
<1> QED BY <1>2, <1>3, DoneStep

LEMMA CrashStep ==
    ASSUME TraceInv, NEW w \in Workers, VerifierCrash(w)
    PROVE  GoodStep
<1>1. VerifierDone(w) /\ delivery' = delivery
  BY DEF VerifierCrash
<1>2. DeliveriesLawful
  BY <1>1 DEF TraceInv, DeliveriesLawful, Lawful
<1> QED BY <1>1, <1>2, DoneStep

\* A lease expires under a delivery that is under way, not under a verdict.
LEMMA ClockStep ==
    ASSUME TraceInv, NEW p \in TraceProviders, TraceLeaseExpires(p) \/ TraceRetryDue(p)
    PROVE  GoodStep
<1>1. \A q \in TraceProviders : GoodRow(delivery[q])
  BY DEF TraceInv
<1>2. DeliveriesLawful
  <2>1. CASE TraceLeaseExpires(p)
    BY <1>1, <2>1 DEF TraceInv, TraceLeaseExpires, DeliveriesLawful, Lawful, GoodRow,
                      DeliveryRow, LeaseState
  <2>2. CASE TraceRetryDue(p)
    BY <1>1, <2>2 DEF TraceInv, TraceRetryDue, DeliveriesLawful, Lawful, GoodRow,
                      DeliveryRow
  <2> QED BY <2>1, <2>2
<1> QED BY <1>2 DEF GoodStep, TraceInv, TraceLeaseExpires, TraceRetryDue

LEMMA AppearStep ==
    ASSUME TraceInv, NEW p \in TraceProviders, NEW ours \in BOOLEAN, TraceAppears(p, ours)
    PROVE  GoodStep
<1>1. DeliveriesLawful
  BY DEF TraceInv, TraceAppears, DeliveriesLawful, Lawful
<1>2. hosted' \in [TraceProviders -> [roots: Nat, ours: BOOLEAN]]
      /\ \A q \in TraceProviders : hosted'[q].roots >= hosted[q].roots
  BY DEF TraceInv, TraceAppears
<1> QED BY <1>1, <1>2 DEF GoodStep, TraceInv, TraceAppears

LEMMA DeadlineStep ==
    ASSUME TraceInv, DeadlinePasses
    PROVE  GoodStep
<1>1. DeliveriesLawful
  BY DEF TraceInv, DeadlinePasses, DeliveriesLawful, Lawful
<1> QED BY <1>1 DEF GoodStep, TraceInv, DeadlinePasses

LEMMA EveryStepGood ==
    ASSUME TraceInv, TraceNext
    PROVE  GoodStep
<1>1. ASSUME NEW w \in Workers, VerifierStep(w) PROVE GoodStep
  BY <1>1, LeaseStep, RefuseStep, QueryStep, FinishStep DEF VerifierStep
<1> QED BY <1>1, PlanStep, RefuseStep, CancelStep, ReleaseStep, CrashStep, ClockStep,
           AppearStep, DeadlineStep DEF TraceNext

\* A good step keeps the invariant and the verdicts.
LEMMA GoodStepKeeps ==
    ASSUME TraceInv, GoodStep
    PROVE  /\ TraceInv'
           /\ \A p \in TraceProviders :
                 /\ delivery[p].status \in SettledDelivery => delivery'[p] = delivery[p]
                 /\ delivery'[p].status = "verified" => hosted'[p].roots > 0
<1>1. \A p \in TraceProviders : hosted[p].roots \in Nat /\ hosted'[p].roots \in Nat
  BY DEF TraceInv, GoodStep
<1>2. \A p \in TraceProviders : hosted[p].roots > 0 => hosted'[p].roots > 0
  BY <1>1 DEF GoodStep
<1>3. \A p \in TraceProviders : delivery'[p].status = "verified" => hosted'[p].roots > 0
  BY <1>2 DEF TraceInv, GoodStep, DeliveriesLawful, Lawful
<1>4. \A w \in Workers :
          verifier'[w].answer = "verified" => hosted'[verifier'[w].provider].roots > 0
  BY <1>2 DEF TraceInv, GoodStep, Verifier
<1>5. \A p \in TraceProviders : GoodRow(delivery'[p])
  BY DEF GoodStep, DeliveriesLawful, Lawful
<1> QED BY <1>3, <1>4, <1>5 DEF TraceInv, GoodStep, DeliveriesLawful, Lawful, GoodRow

LEMMA TraceInitInv == TraceInit => TraceInv
BY DEF TraceInit, TraceInv, GoodRow, DeliveryRow, DeliveryStatus, Holder, LeaseState,
       Verifier, VerificationAnswer, NotVerifying, TraceProviders

LEMMA TraceStepInv == TraceInv /\ [TraceNext]_traceVars => TraceInv'
<1>1. CASE UNCHANGED traceVars
  BY <1>1 DEF TraceInv, traceVars, GoodRow
<1>2. ASSUME TraceInv, TraceNext PROVE TraceInv'
  BY <1>2, EveryStepGood, GoodStepKeeps
<1> QED BY <1>1, <1>2

\* VerdictsStand: what _fenced_transition recorded as a verdict is never
\* written again, and says "verified" only of a trace its provider shows.
THEOREM VerdictsStandHolds == TraceSpec => VerdictsStand
<1> DEFINE Stand == \A p \in TraceProviders :
              /\ delivery[p].status \in SettledDelivery => delivery'[p] = delivery[p]
              /\ delivery'[p].status = "verified" => hosted'[p].roots > 0
<1>1. TraceInv /\ [TraceNext]_traceVars => [Stand]_traceVars
  <2>1. ASSUME TraceInv, TraceNext PROVE Stand
    BY <2>1, EveryStepGood, GoodStepKeeps
  <2> QED BY <2>1
<1>2. VerdictsStand <=> [][Stand]_traceVars
  BY DEF VerdictsStand
<1> HIDE DEF Stand
<1> QED BY <1>1, <1>2, TraceInitInv, TraceStepInv, PTL DEF TraceSpec

-----------------------------------------------------------------------------
(***************************************************************************)
(* A deletion reports no more than was seen, for every list of systems and *)
(* every number of workers, crashes and lost leases.                       *)
(***************************************************************************)
Receipt == [system: Systems, attempt: Nat, outcome: Outcome]

LifecycleTypeOK ==
    /\ hold \in BOOLEAN
    /\ export \in ExportJob
    /\ deletion \in Job
    /\ systemStatus \in [Systems -> SystemStatus]
    /\ receipts \subseteq Receipt
    /\ data \in [Systems -> BOOLEAN]
    /\ overtaken \in BOOLEAN
    /\ remover \in [Workers -> Remover]

\* a worker that has read the job in the first transaction of its attempt
Begun(w) == remover[w].pc \in {"purge", "call", "scan", "record", "commit", "finish",
                               "close"}

\* an attempt is one worker's; the owner's is the last
Attempts(w) ==
    /\ Begun(w) => remover[w].attempt <= deletion.attempt
    /\ \A v \in Workers : v # w /\ Begun(v) /\ Begun(w) =>
           remover[v].attempt # remover[w].attempt
    /\ Owns(w, deletion) =>
           /\ \A v \in Workers : Begun(v) => (v = w <=> remover[v].attempt = deletion.attempt)
           /\ remover[w].pc = "delete" =>
                 \A r \in receipts : r.attempt # deletion.attempt

\* the receipts of a worker's attempt are about the systems it has passed
Fresh(w) ==
    /\ remover[w].pc = "purge" => \A r \in receipts : r.attempt # remover[w].attempt
    /\ remover[w].pc \in {"call", "scan", "record", "commit"} =>
          \A r \in receipts : r.attempt = remover[w].attempt => r.system < remover[w].at

\* the systems a report calls deleted were found empty, and a receipt says so
Backed(status) ==
    \A s \in Systems : status[s] = "succeeded" =>
        \E r \in receipts : /\ r.system = s
                            /\ r.outcome = "succeeded"
                            /\ <<s, r.attempt>> \in clean

Unblocked(status) == \A s \in Systems : status[s] # "blocked_legal_hold"

\* a worker that asks the other systems is at one of them
Located(w) ==
    /\ remover[w].pc \in {"call", "scan", "record", "commit"} => remover[w].at \in External
    /\ remover[w].pc = "scan" => remover[w].deleted = "succeeded"

\* what a worker carries from one step to the next, whether or not the job is
\* still its own
Carried(w) ==
    /\ Backed(remover[w].seen)
    /\ Unblocked(remover[w].seen)
    /\ Located(w)
    /\ /\ remover[w].pc \in {"record", "commit"}
       /\ SystemOutcome(remover[w].deleted, remover[w].scanned) = "succeeded"
       => /\ remover[w].scanned = "succeeded"
          /\ <<remover[w].at, remover[w].attempt>> \in clean

\* what the report says of a system was seen in this attempt
Reported(s) ==
    /\ systemStatus[s] = "succeeded" => <<s, deletion.attempt>> \in clean
    /\ \E r \in receipts : r.system = s /\ r.attempt = deletion.attempt

\* a worker in the middle of its own deletion that nobody has written over: the
\* systems it has passed are reported, and what it read is what there is
Progressing(w) ==
    Owns(w, deletion) /\ ~overtaken =>
        /\ remover[w].pc \in {"call", "scan", "record", "commit"} =>
              \A s \in Systems : s < remover[w].at => Reported(s)
        /\ remover[w].pc \in {"finish", "close"} => \A s \in Systems : Reported(s)
        /\ remover[w].pc \in {"commit", "close"} => remover[w].seen = systemStatus

LifecycleRest ==
    /\ \A w \in Workers : Attempts(w) /\ Fresh(w) /\ Carried(w) /\ Progressing(w)
    /\ \A r \in receipts : r.attempt <= deletion.attempt
    /\ deletion.status \in {"queued", "running"} => Unblocked(systemStatus)
    /\ DeletionHonest

LifecycleInv == LifecycleTypeOK /\ LifecycleRest

LEMMA SystemsKnown ==
    /\ LastSystem \in Nat /\ LastSystem >= 1
    /\ External = 1..LastSystem
    /\ Systems = 0..LastSystem
BY LifecycleAssumption DEF LastSystem, External, Systems

LEMMA OutcomeTyped ==
    ASSUME NEW d \in Outcome, NEW c \in Outcome
    PROVE  /\ SystemOutcome(d, c) \in Outcome
           /\ SystemOutcome(d, c) \in SystemStatus
           /\ SystemOutcome(d, c) # "blocked_legal_hold"
BY DEF SystemOutcome, Outcome, SystemStatus

\* the adapters without data of their own never say that they deleted anything
LEMMA FixedTyped ==
    ASSUME NEW s \in External
    PROVE  /\ FixedOutcome(Adapters[s]) \in Outcome
           /\ Adapters[s] # "concrete" =>
                 SystemOutcome(FixedOutcome(Adapters[s]), FixedOutcome(Adapters[s]))
                     # "succeeded"
BY LifecycleAssumption DEF FixedOutcome, SystemOutcome, Outcome, External

LEMMA OutcomeKnown == \A o \in {"succeeded", "failed"} : o \in Outcome
BY DEF Outcome

LEMMA AppendedReceipt ==
    ASSUME LifecycleTypeOK, NEW w \in Workers, NEW s \in Systems, NEW o \in Outcome
    PROVE  /\ AppendReceipt(w, s, o) \subseteq Receipt
           /\ receipts \subseteq AppendReceipt(w, s, o)
           /\ \A r \in AppendReceipt(w, s, o) \ receipts :
                 r.system = s /\ r.attempt = remover[w].attempt
           /\ \E r \in AppendReceipt(w, s, o) :
                 r.system = s /\ r.attempt = remover[w].attempt
           /\ (\A r \in receipts : r.system = s => r.attempt # remover[w].attempt) =>
                 \E r \in AppendReceipt(w, s, o) :
                    r.system = s /\ r.attempt = remover[w].attempt /\ r.outcome = o
<1> DEFINE new == [system |-> s, attempt |-> remover[w].attempt, outcome |-> o]
<1>1. /\ new \in Receipt /\ new.system = s /\ new.attempt = remover[w].attempt
      /\ new.outcome = o
  BY DEF LifecycleTypeOK, Receipt, Remover
<1>2. CASE \E r \in receipts : r.system = s /\ r.attempt = remover[w].attempt
  <2>1. AppendReceipt(w, s, o) = receipts
    BY <1>2 DEF AppendReceipt
  <2> QED
    BY <1>2, <2>1 DEF LifecycleTypeOK
<1>3. CASE ~\E r \in receipts : r.system = s /\ r.attempt = remover[w].attempt
  <2>1. AppendReceipt(w, s, o) = receipts \cup {new}
    BY <1>3 DEF AppendReceipt
  <2> HIDE DEF new
  <2> QED
    BY <1>1, <2>1 DEF LifecycleTypeOK
<1> QED
  BY <1>2, <1>3

\* what is written to system_status is backed if the new one is
LEMMA WrittenStatus ==
    ASSUME NEW w \in Workers, NEW new, WriteSystemStatus(w, new)
    PROVE  systemStatus' = systemStatus \/ systemStatus' = new
BY DEF WriteSystemStatus

\* what was reported in an attempt stays reported in it
LEMMA ReportedStays ==
    ASSUME NEW s \in Systems, Reported(s),
           systemStatus'[s] = systemStatus[s], deletion'.attempt = deletion.attempt,
           receipts \subseteq receipts', clean \subseteq clean'
    PROVE  Reported(s)'
BY DEF Reported

\* what the receipts back, they go on backing
LEMMA SeenStays ==
    ASSUME NEW v \in Workers, Carried(v), remover'[v].seen = remover[v].seen,
           receipts \subseteq receipts', clean \subseteq clean'
    PROVE  Backed(remover[v].seen)' /\ Unblocked(remover[v].seen)'
<1>1. Backed(remover[v].seen) /\ Unblocked(remover[v].seen)
  BY DEF Carried
<1> QED
  BY <1>1 DEF Backed, Unblocked

\* a worker that does nothing is not disturbed by a step that leaves its job and
\* the report as they were, or one that overtakes it
LEMMA StillProgressing ==
    ASSUME NEW v \in Workers, Progressing(v),
           remover'[v] = remover[v],
           Owns(v, deletion') /\ ~overtaken' =>
               /\ Owns(v, deletion)
               /\ ~overtaken
               /\ deletion'.attempt = deletion.attempt
               /\ systemStatus' = systemStatus,
           receipts \subseteq receipts', clean \subseteq clean'
    PROVE  Progressing(v)'
<1>1. SUFFICES ASSUME Owns(v, deletion'), ~overtaken' PROVE Progressing(v)'
  BY DEF Progressing, Owns
<1>2. /\ Owns(v, deletion)
      /\ ~overtaken
      /\ deletion'.attempt = deletion.attempt
      /\ systemStatus' = systemStatus
  BY <1>1
<1>3. \A s \in Systems : Reported(s) => Reported(s)'
  BY <1>2, ReportedStays
<1> QED
  BY <1>2, <1>3 DEF Progressing

\* a job in its final state stays reported
LEMMA StillHonest ==
    ASSUME DeletionHonest,
           Backed(systemStatus)',
           deletion'.status \in {"succeeded", "pending_external"} /\ ~overtaken' =>
               /\ ~overtaken
               /\ deletion'.status = deletion.status
               /\ deletion'.attempt = deletion.attempt
               /\ systemStatus' = systemStatus,
           receipts \subseteq receipts', clean \subseteq clean'
    PROVE  DeletionHonest'
<1>1. \A s \in Systems : systemStatus'[s] = "succeeded" =>
         \E r \in receipts' : /\ r.system = s
                              /\ r.outcome = "succeeded"
                              /\ <<s, r.attempt>> \in clean'
  BY DEF Backed
<1> QED
  BY <1>1 DEF DeletionHonest

LEMMA OneOwner ==
    ASSUME NEW v \in Workers, NEW w \in Workers, v # w, Owns(w, deletion)
    PROVE  ~Owns(v, deletion)
BY DEF Owns

\* A step of one worker that begins no attempt, takes no job, and adds receipts
\* of its own attempt only: the attempts stay one worker's, and the others go on
\* as they were.
LEMMA OthersGoOn ==
    ASSUME LifecycleInv, NEW w \in Workers,
           \A v \in Workers \ {w} : remover'[v] = remover[v],
           deletion'.attempt = deletion.attempt,
           \A v \in Workers : Owns(v, deletion') => Owns(v, deletion),
           Begun(w)' => Begun(w) /\ remover'[w].attempt = remover[w].attempt,
           remover'[w].pc = "delete" =>
               \/ ~Owns(w, deletion')
               \/ remover[w].pc = "delete" /\ receipts' = receipts,
           receipts \subseteq receipts', clean \subseteq clean',
           \A r \in receipts' \ receipts :
               Begun(w) /\ r.attempt = remover[w].attempt
    PROVE  /\ \A v \in Workers : Attempts(v)'
           /\ \A v \in Workers \ {w} : Fresh(v)' /\ Carried(v)'
           /\ \A r \in receipts' : r.attempt <= deletion'.attempt
<1> USE DEF LifecycleInv, LifecycleRest
<1>1. \A v \in Workers : Begun(v)' => Begun(v) /\ remover'[v].attempt = remover[v].attempt
  BY DEF Begun
<1>2. \A r \in receipts' : r.attempt <= deletion'.attempt
  BY DEF Attempts
<1>3. ASSUME NEW v \in Workers PROVE Attempts(v)'
  <2>1. Begun(v)' => remover'[v].attempt <= deletion'.attempt
    BY <1>1 DEF Attempts
  <2>2. ASSUME NEW u \in Workers, u # v, Begun(u)', Begun(v)'
        PROVE  remover'[u].attempt # remover'[v].attempt
    BY <1>1, <2>2 DEF Attempts
  <2>3. ASSUME Owns(v, deletion'), NEW u \in Workers, Begun(u)'
        PROVE  u = v <=> remover'[u].attempt = deletion'.attempt
    BY <1>1, <2>3 DEF Attempts
  <2>4. ASSUME Owns(v, deletion'), remover'[v].pc = "delete", NEW r \in receipts'
        PROVE  r.attempt # deletion'.attempt
    <3>1. Owns(v, deletion)
      BY <2>4
    <3>2. CASE v = w
      BY <2>4, <3>1, <3>2 DEF Attempts
    <3>3. CASE v # w
      BY <2>4, <3>1, <3>3 DEF Attempts
    <3> QED
      BY <3>2, <3>3
  <2> QED
    BY <2>1, <2>2, <2>3, <2>4 DEF Attempts, Owns
<1>4. ASSUME NEW v \in Workers, v # w PROVE Fresh(v)' /\ Carried(v)'
  <2>1. remover'[v] = remover[v]
    BY <1>4
  <2>2. Begun(v) => \A r \in receipts' \ receipts : r.attempt # remover[v].attempt
    BY <1>4 DEF Attempts
  <2>3. Fresh(v)'
    BY <2>1, <2>2 DEF Fresh, Begun
  <2>4. Carried(v)'
    BY <2>1 DEF Located, Carried, Backed, Unblocked
  <2> QED
    BY <2>3, <2>4
<1> QED
  BY <1>2, <1>3, <1>4

\* the legal hold ends the job
LEMMA BlockKeeps ==
    ASSUME LifecycleInv, NEW w \in Workers, BlockDeletion(w)
    PROVE  LifecycleRest'
<1> USE DEF LifecycleInv, LifecycleRest, LifecycleTypeOK
<1>1. /\ remover'[w] = NotRemoving
      /\ \A v \in Workers \ {w} : remover'[v] = remover[v]
      /\ receipts' = receipts /\ clean' = clean
  BY DEF BlockDeletion
<1>2. /\ deletion'.attempt = deletion.attempt
      /\ deletion'.status = "blocked_legal_hold"
      /\ \A v \in Workers : ~Owns(v, deletion')
  BY DEF BlockDeletion, Ended, Owns, Job
<1>3. /\ \A v \in Workers : Attempts(v)'
      /\ \A v \in Workers \ {w} : Fresh(v)' /\ Carried(v)'
      /\ \A r \in receipts' : r.attempt <= deletion'.attempt
  BY <1>1, <1>2, OthersGoOn DEF Begun, NotRemoving
<1>4. Fresh(w)' /\ Carried(w)'
  BY <1>1 DEF Fresh, Located, Carried, NotRemoving, NothingSeen, Backed, Unblocked
<1>5. \A v \in Workers : Progressing(v)'
  BY <1>2 DEF Progressing, Owns
<1>6. DeletionHonest'
  <2>1. systemStatus' = systemStatus
        \/ systemStatus' = [s \in Systems |-> "blocked_legal_hold"]
    BY WrittenStatus DEF BlockDeletion
  <2> QED
    BY <1>1, <1>2, <2>1 DEF DeletionHonest
<1> QED
  BY <1>2, <1>3, <1>4, <1>5, <1>6

\* the transaction that removes the Product rows starts the report
LEMMA DeleteProductRowsKeeps ==
    ASSUME LifecycleInv, NEW w \in Workers,
           NEW survivors \in BOOLEAN, DeleteProductRows(w, survivors)
    PROVE  LifecycleRest'
<1> USE DEF LifecycleInv, LifecycleRest, LifecycleTypeOK
<1>1. PICK scan \in {"failed", "succeeded"} :
         /\ scan = IF survivors THEN "failed" ELSE "succeeded"
         /\ clean' = IF survivors THEN clean
                     ELSE clean \cup {<<0, remover[w].attempt>>}
         /\ receipts' = AppendReceipt(w, 0, scan)
         /\ WriteSystemStatus(w, [s \in Systems |->
                IF s = 0 THEN SystemOutcome("succeeded", scan) ELSE "pending"])
  BY DEF DeleteProductRows
<1>2. /\ remover[w].pc = "purge" /\ Begun(w)
      /\ \A v \in Workers \ {w} : remover'[v] = remover[v]
      /\ overtaken' = ~Owns(w, deletion)
  BY DEF DeleteProductRows, Begun
<1>3. /\ scan \in Outcome /\ 0 \in Systems /\ "succeeded" \in Outcome
      /\ remover[w].attempt \in Nat
  BY <1>1 DEF Outcome, Systems, Remover
<1>4. /\ receipts \subseteq receipts'
      /\ \A r \in receipts' \ receipts : r.system = 0 /\ r.attempt = remover[w].attempt
      /\ \E r \in receipts' : /\ r.system = 0 /\ r.attempt = remover[w].attempt
                              /\ r.outcome = scan
  <2>1. \A r \in receipts : r.attempt # remover[w].attempt
    BY <1>2 DEF Fresh
  <2>2. /\ receipts \subseteq AppendReceipt(w, 0, scan)
        /\ \A r \in AppendReceipt(w, 0, scan) \ receipts :
              r.system = 0 /\ r.attempt = remover[w].attempt
        /\ \E r \in AppendReceipt(w, 0, scan) :
              r.system = 0 /\ r.attempt = remover[w].attempt /\ r.outcome = scan
    BY <1>3, <2>1, AppendedReceipt
  <2> QED
    BY <1>1, <2>2
<1>5. clean \subseteq clean'
  BY <1>1
<1>6. DEFINE new == [s \in Systems |->
                        IF s = 0 THEN SystemOutcome("succeeded", scan) ELSE "pending"]
<1>7. systemStatus' = systemStatus \/ systemStatus' = new
  BY <1>1, WrittenStatus
<1>8. \A s \in Systems : new[s] = "succeeded" => s = 0 /\ scan = "succeeded" /\ ~survivors
  BY <1>1 DEF SystemOutcome
<1>9. Unblocked(new)
  BY <1>3, OutcomeTyped DEF Unblocked
<1>10. Backed(systemStatus)'
  <2>1. ASSUME NEW s \in Systems, systemStatus'[s] = "succeeded"
        PROVE  \E r \in receipts' : /\ r.system = s
                                    /\ r.outcome = "succeeded"
                                    /\ <<s, r.attempt>> \in clean'
    <3>1. CASE systemStatus' = systemStatus
      BY <1>4, <1>5, <2>1, <3>1 DEF DeletionHonest
    <3>2. CASE systemStatus' = new
      <4>1. s = 0 /\ scan = "succeeded" /\ ~survivors
        BY <1>8, <2>1, <3>2
      <4>2. <<0, remover[w].attempt>> \in clean'
        BY <1>1, <4>1
      <4> QED
        BY <1>4, <4>1, <4>2
    <3> QED
      BY <1>7, <3>1, <3>2
  <2> QED
    BY <2>1 DEF Backed
<1>11. CASE survivors
  <2>1. /\ deletion'.status = "failed" /\ deletion'.attempt = deletion.attempt
        /\ \A v \in Workers : ~Owns(v, deletion')
        /\ remover'[w] = NotRemoving
    BY <1>11 DEF DeleteProductRows, Ended, Owns, Job
  <2>2. /\ \A v \in Workers : Attempts(v)'
        /\ \A v \in Workers \ {w} : Fresh(v)' /\ Carried(v)'
        /\ \A r \in receipts' : r.attempt <= deletion'.attempt
    BY <1>2, <1>4, <1>5, <2>1, OthersGoOn DEF Begun, NotRemoving
  <2>3. Fresh(w)' /\ Carried(w)'
    BY <2>1 DEF Fresh, Located, Carried, NotRemoving, NothingSeen, Backed, Unblocked
  <2>4. \A v \in Workers : Progressing(v)'
    BY <2>1 DEF Progressing, Owns
  <2>5. DeletionHonest'
    BY <1>4, <1>5, <1>10, <2>1, StillHonest
  <2> QED
    BY <2>1, <2>2, <2>3, <2>4, <2>5
<1>12. CASE ~survivors
  <2>1. /\ deletion'.status = deletion.status /\ deletion'.attempt = deletion.attempt
        /\ deletion'.owner = deletion.owner
        /\ \A v \in Workers : Owns(v, deletion') <=> Owns(v, deletion)
    BY <1>12 DEF DeleteProductRows, Owns, Job
  <2>2. /\ remover'[w].pc = "call" /\ remover'[w].at = 1
        /\ remover'[w].attempt = remover[w].attempt
        /\ remover'[w].seen = NothingSeen
    <3>1. remover' = [remover EXCEPT ![w] = [NotRemoving EXCEPT !.pc = "call", !.at = 1,
                                                !.attempt = remover[w].attempt]]
      BY <1>12 DEF DeleteProductRows
    <3> QED
      BY <3>1 DEF NotRemoving
  <2>3. /\ \A v \in Workers : Attempts(v)'
        /\ \A v \in Workers \ {w} : Fresh(v)' /\ Carried(v)'
        /\ \A r \in receipts' : r.attempt <= deletion'.attempt
    BY <1>2, <1>4, <1>5, <2>1, <2>2, OthersGoOn DEF Begun
  <2>4. Fresh(w)'
    BY <1>2, <1>4, <2>2 DEF Fresh
  <2>5. Carried(w)'
    <3>1. 1 \in External
      BY SystemsKnown
    <3> QED
      BY <2>2, <3>1 DEF Located, Carried, NothingSeen, Backed, Unblocked
  <2>6. Progressing(w)'
    <3>1. ASSUME Owns(w, deletion), NEW s \in Systems, s < 1 PROVE Reported(s)'
      <4>1. s = 0
        BY <3>1, SystemsKnown
      <4>2. remover[w].attempt = deletion.attempt
        BY <1>2, <3>1 DEF Attempts
      <4>3. <<0, deletion.attempt>> \in clean'
        BY <1>1, <1>12, <4>2
      <4> QED
        BY <1>4, <2>1, <4>1, <4>2, <4>3 DEF Reported
    <3> QED
      BY <2>1, <2>2, <3>1 DEF Progressing, Owns
  <2>7. ASSUME NEW v \in Workers, v # w PROVE Progressing(v)'
    <3>1. Owns(v, deletion') => overtaken'
      BY <1>2, <2>1, <2>7, OneOwner
    <3> QED
      BY <3>1 DEF Progressing, Owns
  <2>8. DeletionHonest'
    <3>1. deletion'.status \in {"succeeded", "pending_external"} => overtaken'
      BY <1>2, <2>1 DEF Owns
    <3> QED
      BY <1>4, <1>5, <1>10, <3>1, StillHonest
  <2>9. deletion'.status \in {"queued", "running"} => Unblocked(systemStatus)'
    BY <1>7, <1>9, <2>1 DEF Unblocked
  <2> QED
    BY <2>3, <2>4, <2>5, <2>6, <2>7, <2>8, <2>9
<1> QED
  BY <1>11, <1>12

\* the first select begins an attempt of its worker alone
LEMMA ReadDeletionJobKeeps ==
    ASSUME LifecycleInv, NEW w \in Workers, ReadDeletionJob(w)
    PROVE  LifecycleRest'
<1> USE DEF LifecycleInv, LifecycleRest, LifecycleTypeOK
<1>1. /\ UNCHANGED <<deletion, systemStatus, receipts, clean, overtaken>>
      /\ \A v \in Workers \ {w} : remover'[v] = remover[v]
      /\ remover[w].pc = "delete"
  BY DEF ReadDeletionJob, ReadOwnJob
<1>2. ASSUME NEW v \in Workers, v # w
      PROVE  Fresh(v)' /\ Carried(v)' /\ Progressing(v)'
  <2>1. Fresh(v)' /\ Carried(v)'
    BY <1>1, <1>2 DEF Fresh, Located, Carried, Backed, Unblocked
  <2> QED
    BY <1>1, <1>2, <2>1, StillProgressing DEF Owns
<1>3. DeletionHonest'
  BY <1>1 DEF DeletionHonest
<1>4. CASE ~Owns(w, deletion)
  <2>1. remover'[w] = NotRemoving
    BY <1>4 DEF ReadDeletionJob, ReadOwnJob
  <2>2. \A v \in Workers : Attempts(v)'
    BY <1>1, <2>1, OthersGoOn DEF Begun, NotRemoving
  <2>3. Fresh(w)' /\ Carried(w)' /\ Progressing(w)'
    BY <1>1, <1>4, <2>1 DEF Fresh, Located, Carried, Progressing, NotRemoving, NothingSeen,
       Backed, Unblocked, Owns
  <2> QED
    BY <1>1, <1>2, <1>3, <2>2, <2>3 DEF Unblocked
<1>5. CASE Owns(w, deletion)
  <2>1. /\ remover'[w].pc = "purge" /\ remover'[w].attempt = deletion.attempt
        /\ remover'[w].seen = systemStatus
    BY <1>5 DEF ReadDeletionJob, ReadOwnJob, AsRead, Remover
  <2>2. \A r \in receipts : r.attempt # deletion.attempt
    BY <1>1, <1>5 DEF Attempts
  <2>3. \A v \in Workers \ {w} : Begun(v) => remover[v].attempt # deletion.attempt
    BY <1>5 DEF Attempts
  <2>4. ~Begun(w)
    BY <1>1 DEF Begun
  <2>5. ASSUME NEW v \in Workers PROVE Attempts(v)'
    <3>1. \A u \in Workers \ {w} : Begun(u)' <=> Begun(u)
      BY <1>1 DEF Begun
    <3>2. Begun(v)' => remover'[v].attempt <= deletion'.attempt
      BY <1>1, <2>1, <3>1 DEF Attempts, Job
    <3>3. ASSUME NEW u \in Workers, u # v, Begun(u)', Begun(v)'
          PROVE  remover'[u].attempt # remover'[v].attempt
      BY <1>1, <2>1, <2>3, <3>1, <3>3 DEF Attempts
    <3>4. Owns(v, deletion') => v = w
      BY <1>1, <1>5, OneOwner
    <3>5. ASSUME v = w, NEW u \in Workers, Begun(u)'
          PROVE  u = w <=> remover'[u].attempt = deletion'.attempt
      BY <1>1, <2>1, <2>3, <3>1, <3>5
    <3> QED
      BY <2>1, <3>2, <3>3, <3>4, <3>5 DEF Attempts, Owns
  <2>6. Fresh(w)' /\ Progressing(w)'
    BY <1>1, <2>1, <2>2 DEF Fresh, Progressing
  <2>7. Carried(w)'
    <3>1. Unblocked(systemStatus)
      BY <1>5 DEF Owns
    <3> QED
      BY <1>1, <2>1, <3>1 DEF Located, Carried, Backed, Unblocked, DeletionHonest
  <2> QED
    BY <1>1, <1>2, <1>3, <2>5, <2>6, <2>7 DEF Unblocked
<1> QED
  BY <1>4, <1>5

\* the calls to the other systems change no row of the report
LEMMA AdapterDeleteKeeps ==
    ASSUME LifecycleInv, NEW w \in Workers, AdapterDelete(w)
    PROVE  LifecycleRest'
<1> USE DEF LifecycleInv, LifecycleRest, LifecycleTypeOK
<1>0. Located(w) /\ remover[w] \in Remover
  BY DEF Carried
<1>1. UNCHANGED <<deletion, systemStatus, receipts, clean, overtaken>>
  BY DEF AdapterDelete
<1>2. /\ remover[w].pc = "call" /\ remover[w].at \in External
      /\ remover'[w].at = remover[w].at /\ remover'[w].pc \in {"scan", "record"}
      /\ remover'[w].attempt = remover[w].attempt /\ remover'[w].seen = remover[w].seen
      /\ remover'[w].pc = "scan" => remover'[w].deleted = "succeeded"
      /\ \A v \in Workers \ {w} : remover'[v] = remover[v]
  BY <1>0 DEF AdapterDelete, Located, Remover
<1>3. remover'[w].pc = "record" =>
         SystemOutcome(remover'[w].deleted, remover'[w].scanned) # "succeeded"
  <2>1. CASE Adapters[remover[w].at] # "concrete"
    BY <1>2, <2>1, FixedTyped DEF AdapterDelete, Remover
  <2>2. CASE Adapters[remover[w].at] = "concrete"
    BY <2>2 DEF AdapterDelete, SystemOutcome, Remover
  <2> QED
    BY <2>1, <2>2
<1>4. /\ \A v \in Workers : Attempts(v)'
      /\ \A v \in Workers \ {w} : Fresh(v)' /\ Carried(v)'
      /\ \A r \in receipts' : r.attempt <= deletion'.attempt
  BY <1>1, <1>2, OthersGoOn DEF Begun
<1>5. Fresh(w)' /\ Carried(w)'
  BY <1>1, <1>2, <1>3 DEF Fresh, Located, Carried, Backed, Unblocked
<1>6. Progressing(w)'
  BY <1>1, <1>2 DEF Progressing, Owns, Reported
<1>7. ASSUME NEW v \in Workers, v # w PROVE Progressing(v)'
  BY <1>1, <1>2, <1>7, StillProgressing
<1>8. DeletionHonest'
  BY <1>1 DEF DeletionHonest
<1> QED
  BY <1>1, <1>4, <1>5, <1>6, <1>7, <1>8 DEF Unblocked

LEMMA SurvivorScanKeeps ==
    ASSUME LifecycleInv, NEW w \in Workers, SurvivorScan(w)
    PROVE  LifecycleRest'
<1> USE DEF LifecycleInv, LifecycleRest, LifecycleTypeOK
<1>0. Located(w) /\ remover[w] \in Remover
  BY DEF Carried
<1>1. /\ UNCHANGED <<deletion, systemStatus, receipts, overtaken>>
      /\ clean \subseteq clean'
  BY DEF SurvivorScan
<1>2. /\ remover[w].pc = "scan" /\ remover[w].at \in External
      /\ remover[w].deleted = "succeeded"
      /\ remover'[w].at = remover[w].at /\ remover'[w].pc = "record"
      /\ remover'[w].attempt = remover[w].attempt /\ remover'[w].seen = remover[w].seen
      /\ \A v \in Workers \ {w} : remover'[v] = remover[v]
  BY <1>0 DEF SurvivorScan, Located, Remover
<1>3. SystemOutcome(remover'[w].deleted, remover'[w].scanned) = "succeeded"
         => /\ remover'[w].scanned = "succeeded"
            /\ <<remover[w].at, remover[w].attempt>> \in clean'
  <2>1. SystemOutcome(remover'[w].deleted, remover'[w].scanned) = "succeeded"
           => remover'[w].scanned # "failed"
    BY DEF SystemOutcome
  <2> QED
    BY <2>1 DEF SurvivorScan, Remover
<1>4. /\ \A v \in Workers : Attempts(v)'
      /\ \A v \in Workers \ {w} : Fresh(v)' /\ Carried(v)'
      /\ \A r \in receipts' : r.attempt <= deletion'.attempt
  BY <1>1, <1>2, OthersGoOn DEF Begun
<1>5. Fresh(w)'
  BY <1>1, <1>2 DEF Fresh
<1>10. Carried(w)'
  <2>1. Backed(remover[w].seen)' /\ Unblocked(remover[w].seen)'
    <3>1. Backed(remover[w].seen) /\ Unblocked(remover[w].seen)
      BY DEF Carried
    <3>2. Backed(remover[w].seen)'
      <4> HIDE DEF LifecycleInv, LifecycleRest, LifecycleTypeOK
      <4> QED
        BY <1>1, <1>2, <3>1 DEF Backed
    <3>3. Unblocked(remover[w].seen)'
      BY <1>2, <3>1 DEF Unblocked
    <3> QED
      BY <3>2, <3>3
  <2> QED
    BY <1>2, <1>3, <2>1 DEF Located, Carried
<1>6. Progressing(w)'
  BY <1>1, <1>2 DEF Progressing, Owns, Reported
<1>7. ASSUME NEW v \in Workers, v # w PROVE Progressing(v)'
  BY <1>1, <1>2, <1>7, StillProgressing
<1>8. Backed(systemStatus)'
  BY <1>1 DEF DeletionHonest, Backed
<1>9. DeletionHonest'
  BY <1>1, <1>8, StillHonest
<1> QED
  BY <1>1, <1>4, <1>5, <1>6, <1>7, <1>9, <1>10 DEF Unblocked

\* where a worker goes on after a result
LEMMA AfterResultKnown ==
    ASSUME LifecycleTypeOK, NEW w \in Workers, remover[w].at \in External
    PROVE  LET next == AfterResult(w) IN
           /\ next.attempt = remover[w].attempt /\ next.seen = NothingSeen
           /\ remover[w].at < LastSystem => next.pc = "call" /\ next.at = remover[w].at + 1
           /\ ~(remover[w].at < LastSystem) => next.pc = "finish"
           /\ next.pc = "call" => next.at \in External
           /\ next.pc = "finish" => \A s \in Systems : s < remover[w].at + 1
BY SystemsKnown DEF AfterResult, NotRemoving

\* a select that finds the job its own, or gives it up
LEMMA ReadResultKeeps ==
    ASSUME LifecycleInv, NEW w \in Workers, ReadJobForResult(w)
    PROVE  LifecycleRest'
<1> USE DEF LifecycleInv, LifecycleRest, LifecycleTypeOK
<1>0. Located(w) /\ remover[w] \in Remover
  BY DEF Carried
<1>1. /\ UNCHANGED <<deletion, systemStatus, receipts, clean, overtaken>>
      /\ \A v \in Workers \ {w} : remover'[v] = remover[v]
      /\ remover[w].pc = "record" /\ Begun(w) /\ remover[w].at \in External
      /\ remover[w].at \in Nat
  BY <1>0, SystemsKnown DEF ReadJobForResult, ReadOwnJob, Begun, Located
<1>2. ASSUME NEW v \in Workers, v # w PROVE Progressing(v)'
  BY <1>1, <1>2, StillProgressing
<1>3. DeletionHonest'
  BY <1>1 DEF DeletionHonest
<1>4. CASE Owns(w, deletion)
  <2>1. /\ remover'[w].pc = "commit" /\ remover'[w].attempt = remover[w].attempt
        /\ remover'[w].seen = systemStatus
        /\ remover'[w].at = remover[w].at /\ remover'[w].deleted = remover[w].deleted
        /\ remover'[w].scanned = remover[w].scanned
    <3>1. remover[w].attempt = deletion.attempt
      BY <1>1, <1>4 DEF Attempts
    <3> QED
      BY <1>4, <3>1 DEF ReadJobForResult, ReadOwnJob, AsRead, Remover
  <2>2. /\ \A v \in Workers : Attempts(v)'
        /\ \A v \in Workers \ {w} : Fresh(v)' /\ Carried(v)'
        /\ \A r \in receipts' : r.attempt <= deletion'.attempt
    BY <1>1, <2>1, OthersGoOn DEF Begun
  <2>3. Fresh(w)' /\ Progressing(w)'
    BY <1>1, <2>1 DEF Fresh, Progressing, Owns, Reported
  <2>4. Carried(w)'
    <3>1. Unblocked(systemStatus)
      BY <1>4 DEF Owns
    <3> QED
      BY <1>1, <2>1, <3>1 DEF Located, Carried, Backed, Unblocked, DeletionHonest
  <2> QED
    BY <1>1, <1>2, <1>3, <2>2, <2>3, <2>4 DEF Unblocked
<1>5. CASE ~Owns(w, deletion)
  <2>1. remover'[w] = AfterResult(w)
    BY <1>5 DEF ReadJobForResult, ReadOwnJob
  <2>2. /\ remover'[w].attempt = remover[w].attempt /\ remover'[w].seen = NothingSeen
        /\ \/ /\ remover'[w].pc = "call" /\ remover'[w].at = remover[w].at + 1
              /\ remover'[w].at \in External
           \/ remover'[w].pc = "finish"
    BY <1>1, <2>1, AfterResultKnown
  <2>3. /\ \A v \in Workers : Attempts(v)'
        /\ \A v \in Workers \ {w} : Fresh(v)' /\ Carried(v)'
        /\ \A r \in receipts' : r.attempt <= deletion'.attempt
    BY <1>1, <2>2, OthersGoOn DEF Begun
  <2>4. Fresh(w)'
    <3>1. \A r \in receipts : r.attempt = remover[w].attempt => r.system < remover[w].at
      BY <1>1 DEF Fresh
    <3>2. \A r \in receipts : r.system \in Nat
      BY SystemsKnown DEF Receipt
    <3> QED
      BY <1>1, <2>2, <3>1, <3>2 DEF Fresh
  <2>5. Carried(w)' /\ Progressing(w)'
    BY <1>1, <1>5, <2>2 DEF Located, Carried, NothingSeen, Backed, Unblocked, Progressing, Owns
  <2> QED
    BY <1>1, <1>2, <1>3, <2>3, <2>4, <2>5 DEF Unblocked
<1> QED
  BY <1>4, <1>5

LEMMA ReadToFinishKeeps ==
    ASSUME LifecycleInv, NEW w \in Workers, ReadJobToFinish(w)
    PROVE  LifecycleRest'
<1> USE DEF LifecycleInv, LifecycleRest, LifecycleTypeOK
<1>1. /\ UNCHANGED <<deletion, systemStatus, receipts, clean, overtaken>>
      /\ \A v \in Workers \ {w} : remover'[v] = remover[v]
      /\ remover[w].pc = "finish" /\ Begun(w)
  BY DEF ReadJobToFinish, ReadOwnJob, Begun
<1>2. ASSUME NEW v \in Workers, v # w PROVE Progressing(v)'
  BY <1>1, <1>2, StillProgressing
<1>3. DeletionHonest'
  BY <1>1 DEF DeletionHonest
<1>4. CASE Owns(w, deletion)
  <2>1. /\ remover'[w].pc = "close" /\ remover'[w].attempt = remover[w].attempt
        /\ remover'[w].seen = systemStatus
    <3>1. remover[w].attempt = deletion.attempt
      BY <1>1, <1>4 DEF Attempts
    <3> QED
      BY <1>4, <3>1 DEF ReadJobToFinish, ReadOwnJob, AsRead, Remover
  <2>2. /\ \A v \in Workers : Attempts(v)'
        /\ \A v \in Workers \ {w} : Fresh(v)' /\ Carried(v)'
        /\ \A r \in receipts' : r.attempt <= deletion'.attempt
    BY <1>1, <2>1, OthersGoOn DEF Begun
  <2>3. Fresh(w)' /\ Progressing(w)'
    BY <1>1, <2>1 DEF Fresh, Progressing, Owns, Reported
  <2>4. Carried(w)'
    <3>1. Unblocked(systemStatus)
      BY <1>4 DEF Owns
    <3> QED
      BY <1>1, <2>1, <3>1 DEF Located, Carried, Backed, Unblocked, DeletionHonest
  <2> QED
    BY <1>1, <1>2, <1>3, <2>2, <2>3, <2>4 DEF Unblocked
<1>5. CASE ~Owns(w, deletion)
  <2>1. remover'[w] = NotRemoving
    BY <1>5 DEF ReadJobToFinish, ReadOwnJob
  <2>2. /\ \A v \in Workers : Attempts(v)'
        /\ \A v \in Workers \ {w} : Fresh(v)' /\ Carried(v)'
        /\ \A r \in receipts' : r.attempt <= deletion'.attempt
    BY <1>1, <2>1, OthersGoOn DEF Begun, NotRemoving
  <2>3. Fresh(w)' /\ Carried(w)' /\ Progressing(w)'
    BY <2>1 DEF Fresh, Located, Carried, Progressing, NotRemoving, NothingSeen, Backed, Unblocked
  <2> QED
    BY <1>1, <1>2, <1>3, <2>2, <2>3 DEF Unblocked
<1> QED
  BY <1>4, <1>5

\* a result is recorded by whoever found the job its own when it read it
LEMMA RecordKeeps ==
    ASSUME LifecycleInv, NEW w \in Workers, RecordAdapterResult(w)
    PROVE  LifecycleRest'
<1> USE DEF LifecycleInv, LifecycleRest, LifecycleTypeOK
<1>0. Located(w) /\ Backed(remover[w].seen) /\ Unblocked(remover[w].seen)
      /\ remover[w] \in Remover
  BY DEF Carried
<1>1. PICK s : s = remover[w].at
  OBVIOUS
<1> DEFINE outcome == SystemOutcome(remover[w].deleted, remover[w].scanned)
           new == [remover[w].seen EXCEPT ![s] = outcome]
<1>2. /\ remover[w].pc = "commit" /\ Begun(w)
      /\ s \in External /\ s \in Systems /\ s \in Nat
      /\ remover[w].deleted \in Outcome /\ remover[w].scanned \in Outcome
      /\ remover[w].attempt \in Nat /\ remover[w].seen \in [Systems -> SystemStatus]
      /\ \A v \in Workers \ {w} : remover'[v] = remover[v]
      /\ remover'[w] = AfterResult(w)
  BY <1>0, <1>1, SystemsKnown DEF RecordAdapterResult, Begun, Located, Remover
<1>3. /\ receipts' = AppendReceipt(w, s, remover[w].scanned)
      /\ WriteSystemStatus(w, new)
      /\ clean' = clean
      /\ deletion' = [deletion EXCEPT !.lease = "valid"]
      /\ overtaken' = (overtaken \/ ~Owns(w, deletion))
  BY <1>1 DEF RecordAdapterResult, Late
<1>4. /\ deletion'.status = deletion.status /\ deletion'.attempt = deletion.attempt
      /\ deletion'.owner = deletion.owner
      /\ \A v \in Workers : Owns(v, deletion') <=> Owns(v, deletion)
  BY <1>3 DEF Owns, Job
<1>5. /\ receipts \subseteq receipts'
      /\ \A r \in receipts' \ receipts : r.system = s /\ r.attempt = remover[w].attempt
      /\ \E r \in receipts' : /\ r.system = s /\ r.attempt = remover[w].attempt
                              /\ r.outcome = remover[w].scanned
  <2>1. \A r \in receipts : r.attempt = remover[w].attempt => r.system < s
    BY <1>1, <1>2 DEF Fresh
  <2>2. \A r \in receipts : r.system = s => r.attempt # remover[w].attempt
    BY <1>2, <2>1
  <2>3. /\ receipts \subseteq AppendReceipt(w, s, remover[w].scanned)
        /\ \A r \in AppendReceipt(w, s, remover[w].scanned) \ receipts :
              r.system = s /\ r.attempt = remover[w].attempt
        /\ \E r \in AppendReceipt(w, s, remover[w].scanned) :
              /\ r.system = s /\ r.attempt = remover[w].attempt
              /\ r.outcome = remover[w].scanned
    BY <1>2, <2>2, AppendedReceipt
  <2> QED
    BY <1>3, <2>3
<1>6. outcome \in Outcome /\ outcome # "blocked_legal_hold"
  BY <1>2, OutcomeTyped
<1>7. outcome = "succeeded" =>
         remover[w].scanned = "succeeded" /\ <<s, remover[w].attempt>> \in clean
  BY <1>1, <1>2 DEF Carried
<1>8. systemStatus' = systemStatus \/ systemStatus' = new
  BY <1>3, WrittenStatus
<1>9. Backed(systemStatus)'
  <2>1. ASSUME NEW t \in Systems, systemStatus'[t] = "succeeded"
        PROVE  \E r \in receipts' : /\ r.system = t
                                    /\ r.outcome = "succeeded"
                                    /\ <<t, r.attempt>> \in clean'
    <3>1. CASE systemStatus' = systemStatus
      BY <1>3, <1>5, <2>1, <3>1 DEF DeletionHonest
    <3>2. CASE systemStatus' = new /\ t = s
      BY <1>2, <1>3, <1>5, <1>7, <2>1, <3>2
    <3>3. CASE systemStatus' = new /\ t # s
      <4>1. remover[w].seen[t] = "succeeded"
        BY <1>2, <2>1, <3>3
      <4> QED
        BY <1>0, <1>3, <1>5, <4>1 DEF Backed
    <3> QED
      BY <1>8, <3>1, <3>2, <3>3
  <2> QED
    BY <2>1 DEF Backed
<1>10. deletion'.status \in {"queued", "running"} => Unblocked(systemStatus)'
  <2>1. Unblocked(new)
    BY <1>0, <1>2, <1>6 DEF Unblocked
  <2> QED
    BY <1>4, <1>8, <2>1 DEF Unblocked
<1>11. /\ remover'[w].attempt = remover[w].attempt /\ remover'[w].seen = NothingSeen
       /\ \/ /\ remover'[w].pc = "call" /\ remover'[w].at = s + 1
             /\ remover'[w].at \in External
          \/ /\ remover'[w].pc = "finish"
             /\ \A t \in Systems : t < s + 1
  BY <1>1, <1>2, AfterResultKnown
<1>12. /\ \A v \in Workers : Attempts(v)'
       /\ \A v \in Workers \ {w} : Fresh(v)' /\ Carried(v)'
       /\ \A r \in receipts' : r.attempt <= deletion'.attempt
  BY <1>2, <1>3, <1>4, <1>5, <1>11, OthersGoOn DEF Begun
<1>13. Fresh(w)'
  <2>1. \A r \in receipts' : r.attempt = remover[w].attempt => r.system <= s
    <3>1. \A r \in receipts : r.attempt = remover[w].attempt => r.system < s
      BY <1>1, <1>2 DEF Fresh
    <3>2. \A r \in receipts : r.system \in Nat
      BY SystemsKnown DEF Receipt
    <3> QED
      BY <1>2, <1>5, <3>1, <3>2
  <2>2. \A r \in receipts' : r.system \in Nat
    BY <1>2, <1>5, SystemsKnown DEF Receipt
  <2> QED
    BY <1>2, <1>11, <2>1, <2>2 DEF Fresh
<1>14. Carried(w)'
  BY <1>11 DEF Located, Carried, NothingSeen, Backed, Unblocked
<1>15. Progressing(w)'
  <2>1. SUFFICES ASSUME Owns(w, deletion), ~overtaken
                 PROVE  \A t \in Systems : t < s + 1 => Reported(t)'
    BY <1>3, <1>4, <1>11 DEF Progressing, Owns
  <2>2. remover[w].seen = systemStatus /\ remover[w].attempt = deletion.attempt
    BY <1>2, <2>1 DEF Progressing, Attempts
  <2>3. systemStatus' = new
    BY <1>3, <2>2 DEF WriteSystemStatus
  <2>4. Reported(s)'
    BY <1>2, <1>3, <1>4, <1>5, <1>7, <2>2, <2>3 DEF Reported
  <2>5. ASSUME NEW t \in Systems, t < s PROVE Reported(t)'
    <3>1. Reported(t)
      BY <1>1, <1>2, <2>1, <2>5 DEF Progressing
    <3>2. systemStatus'[t] = systemStatus[t]
      BY <1>2, <2>2, <2>3, <2>5, SystemsKnown
    <3> QED
      BY <1>3, <1>4, <1>5, <3>1, <3>2, ReportedStays
  <2>6. \A t \in Systems : t < s + 1 => t < s \/ t = s
    BY <1>2, SystemsKnown
  <2> QED
    BY <2>4, <2>5, <2>6
<1>16. ASSUME NEW v \in Workers, v # w PROVE Progressing(v)'
  <2>1. Owns(v, deletion') => overtaken'
    BY <1>3, <1>4, <1>16, OneOwner
  <2> QED
    BY <2>1 DEF Progressing, Owns
<1>17. DeletionHonest'
  <2>1. deletion'.status \in {"succeeded", "pending_external"} => overtaken'
    BY <1>3, <1>4 DEF Owns
  <2> QED
    BY <1>3, <1>5, <1>9, <2>1, StillHonest
<1> QED
  BY <1>10, <1>12, <1>13, <1>14, <1>15, <1>16, <1>17

\* the last transaction ends the job from what it read
LEMMA FinishKeeps ==
    ASSUME LifecycleInv, NEW w \in Workers, FinishDeletion(w)
    PROVE  LifecycleRest'
<1> USE DEF LifecycleInv, LifecycleRest, LifecycleTypeOK
<1> DEFINE outcomes == {remover[w].seen[s] : s \in Systems}
<1>1. /\ remover[w].pc = "close" /\ Begun(w)
      /\ \A v \in Workers \ {w} : remover'[v] = remover[v]
      /\ remover'[w] = NotRemoving
      /\ UNCHANGED <<systemStatus, receipts, clean>>
      /\ overtaken' = (overtaken \/ ~Owns(w, deletion))
      /\ remover[w].seen \in [Systems -> SystemStatus]
  BY DEF FinishDeletion, Begun, Late, Remover
<1>2. JobOutcome(outcomes) \in {"succeeded", "failed", "pending_external"}
  BY DEF JobOutcome
<1>3. /\ deletion'.status = JobOutcome(outcomes)
      /\ deletion'.owner = NoWorker /\ deletion'.attempt = deletion.attempt
  BY DEF FinishDeletion, Ended, Job
<1>4. \A v \in Workers : ~Owns(v, deletion')
  BY <1>2, <1>3 DEF Owns
<1> HIDE DEF outcomes
<1>5. /\ \A v \in Workers : Attempts(v)'
      /\ \A v \in Workers \ {w} : Fresh(v)' /\ Carried(v)'
      /\ \A r \in receipts' : r.attempt <= deletion'.attempt
  BY <1>1, <1>3, <1>4, OthersGoOn DEF Begun, NotRemoving
<1>6. Fresh(w)' /\ Carried(w)'
  BY <1>1 DEF Fresh, Located, Carried, NotRemoving, NothingSeen, Backed, Unblocked
<1>7. \A v \in Workers : Progressing(v)'
  BY <1>4 DEF Progressing, Owns
<1>8. DeletionHonest'
  <2>1. \A s \in Systems : systemStatus'[s] = "succeeded" =>
           \E r \in receipts' : /\ r.system = s
                                /\ r.outcome = "succeeded"
                                /\ <<s, r.attempt>> \in clean'
    BY <1>1 DEF DeletionHonest
  <2>2. ASSUME ~overtaken',
               deletion'.status \in {"succeeded", "pending_external"}
        PROVE  /\ \A s \in Systems :
                     systemStatus'[s] = "succeeded" => <<s, deletion'.attempt>> \in clean'
               /\ \A s \in Systems : \E r \in receipts' :
                     r.system = s /\ r.attempt = deletion'.attempt
               /\ \A s \in Systems : systemStatus'[s] # "failed"
               /\ deletion'.status = "succeeded" => \A s \in Systems :
                     systemStatus'[s] \in {"succeeded", "not_applicable"}
    <3>1. Owns(w, deletion) /\ ~overtaken
      BY <1>1, <2>2
    <3>2. /\ remover[w].seen = systemStatus
          /\ \A s \in Systems : Reported(s)
      BY <1>1, <3>1 DEF Progressing
    <3>3. ASSUME NEW s \in Systems
          PROVE  systemStatus[s] \in outcomes
      BY <3>2 DEF outcomes
    <3>4. \A s \in Systems : systemStatus[s] # "failed"
      <4>1. "failed" \in outcomes => JobOutcome(outcomes) = "failed"
        BY DEF JobOutcome
      <4> QED
        BY <1>3, <2>2, <3>3, <4>1
    <3>5. ASSUME deletion'.status = "succeeded", NEW s \in Systems
          PROVE  systemStatus[s] \in {"succeeded", "not_applicable"}
      <4>1. systemStatus[s] \notin {"failed", "pending_external", "pending_expiry", "pending"}
        BY <1>3, <3>3, <3>5 DEF JobOutcome
      <4>2. systemStatus[s] # "blocked_legal_hold"
        BY <3>1 DEF Owns, Unblocked
      <4> QED
        BY <4>1, <4>2 DEF SystemStatus, Outcome
    <3>6. ASSUME NEW s \in Systems
          PROVE  /\ systemStatus'[s] = "succeeded" => <<s, deletion'.attempt>> \in clean'
                 /\ \E r \in receipts' : r.system = s /\ r.attempt = deletion'.attempt
      <4>1. Reported(s)
        BY <3>2
      <4> QED
        BY <1>1, <1>3, <4>1 DEF Reported
    <3> QED
      BY <1>1, <3>4, <3>5, <3>6
  <2> QED
    BY <2>1, <2>2 DEF DeletionHonest
<1>9. ~(deletion'.status \in {"queued", "running"})
  BY <1>2, <1>3
<1> QED
  BY <1>5, <1>6, <1>7, <1>8, <1>9

\* the remaining steps stay outside of a deletion under way, or end it
LEMMA OtherStepsKeep ==
    ASSUME LifecycleInv, NEW w \in Workers,
           \/ BuildExportPayload(w) \/ StoreExport(w)
           \/ DeletionRaises(w) \/ ReleaseOwnedJobs(w) \/ RemoverCrash(w)
    PROVE  LifecycleRest'
<1> USE DEF LifecycleInv, LifecycleRest, LifecycleTypeOK
<1>1. UNCHANGED <<systemStatus, receipts, clean, overtaken>>
  BY DEF BuildExportPayload, StoreExport, DeletionRaises, ReleaseOwnedJobs,
         RemoverCrash
<1>2. /\ \A v \in Workers \ {w} : remover'[v] = remover[v]
      /\ remover'[w].pc \in {"idle", "write"}
      /\ remover'[w].seen = NothingSeen
  <2>1. CASE BuildExportPayload(w)
    BY <2>1 DEF BuildExportPayload, NotRemoving
  <2>2. CASE StoreExport(w) \/ DeletionRaises(w) \/ ReleaseOwnedJobs(w) \/ RemoverCrash(w)
    <3>1. remover' = [remover EXCEPT ![w] = NotRemoving]
      BY <2>2 DEF StoreExport, DeletionRaises, ReleaseOwnedJobs, RemoverCrash
    <3> QED
      BY <3>1 DEF NotRemoving
  <2> QED
    BY <2>1, <2>2
<1>3. \/ deletion' = deletion
      \/ Owns(w, deletion) /\ deletion' = Ended(deletion, "failed")
      \/ Owns(w, deletion) /\ deletion' = [Ended(deletion, "queued") EXCEPT !.lease = "none"]
  BY DEF BuildExportPayload, StoreExport, DeletionRaises, ReleaseOwnedJobs,
         RemoverCrash, Requeued
<1>4. /\ deletion'.attempt = deletion.attempt
      /\ \A v \in Workers : Owns(v, deletion') => Owns(v, deletion)
      /\ deletion'.status \in {"succeeded", "pending_external"} =>
            deletion'.status = deletion.status
      /\ deletion'.status \in {"queued", "running"} =>
            deletion.status \in {"queued", "running"}
  <2>1. CASE Owns(w, deletion) /\ deletion' = Ended(deletion, "failed")
    BY <2>1 DEF Ended, Owns, Job
  <2>2. CASE Owns(w, deletion)
             /\ deletion' = [Ended(deletion, "queued") EXCEPT !.lease = "none"]
    BY <2>2 DEF Ended, Owns, Job
  <2> QED
    BY <1>3, <2>1, <2>2
<1>5. /\ \A v \in Workers : Attempts(v)'
      /\ \A v \in Workers \ {w} : Fresh(v)' /\ Carried(v)'
      /\ \A r \in receipts' : r.attempt <= deletion'.attempt
  BY <1>1, <1>2, <1>4, OthersGoOn DEF Begun
<1>6. Fresh(w)' /\ Carried(w)' /\ Progressing(w)'
  BY <1>2 DEF Fresh, Located, Carried, Progressing, NothingSeen, Backed, Unblocked
<1>7. ASSUME NEW v \in Workers, v # w PROVE Progressing(v)'
  BY <1>1, <1>2, <1>4, <1>7, StillProgressing
<1>8. DeletionHonest'
  BY <1>1, <1>4 DEF DeletionHonest
<1> QED
  BY <1>1, <1>4, <1>5, <1>6, <1>7, <1>8 DEF Unblocked

\* a claim of the deletion begins a new attempt, which has no receipts yet
LEMMA ClaimKeeps ==
    ASSUME LifecycleInv, NEW w \in Workers, ClaimJob(w)
    PROVE  LifecycleRest'
<1> USE DEF LifecycleInv, LifecycleRest, LifecycleTypeOK
<1>1. /\ UNCHANGED <<systemStatus, receipts, clean, overtaken>>
      /\ \A v \in Workers \ {w} : remover'[v] = remover[v]
      /\ remover[w].pc = "idle" /\ remover'[w].pc \in {"export", "delete"}
      /\ remover'[w].seen = remover[w].seen
  BY DEF ClaimJob, Remover
<1>2. ASSUME NEW v \in Workers PROVE Fresh(v)' /\ Carried(v)'
  <2>1. remover'[v].seen = remover[v].seen
    BY <1>1
  <2>2. v # w => remover'[v] = remover[v]
    BY <1>1
  <2>3. Fresh(v)'
    BY <1>1, <2>2 DEF Fresh
  <2>4. Backed(remover[v].seen)' /\ Unblocked(remover[v].seen)'
    <3>1. Carried(v)
      OBVIOUS
    <3>2. receipts' = receipts /\ clean' = clean
      BY <1>1
    <3> HIDE DEF LifecycleInv, LifecycleRest, LifecycleTypeOK
    <3> QED
      BY <2>1, <3>1, <3>2, SeenStays
  <2>5. Located(v)'
    <3>1. Located(v)
      BY DEF Carried
    <3> QED
      BY <1>1, <2>2, <3>1 DEF Located
  <2>6. Carried(v)'
    <3>1. CASE v # w
      <4>1. Carried(v)
        OBVIOUS
      <4> HIDE DEF LifecycleInv, LifecycleRest, LifecycleTypeOK
      <4> QED
        BY <1>1, <2>2, <2>4, <2>5, <3>1, <4>1 DEF Carried
    <3>2. CASE v = w
      BY <1>1, <2>4, <2>5, <3>2 DEF Carried
    <3> QED
      BY <3>1, <3>2
  <2> QED
    BY <2>3, <2>6
<1>3. CASE deletion' = deletion /\ remover'[w].pc = "export"
  <2>1. \A v \in Workers : Attempts(v)'
    BY <1>1, <1>3, OthersGoOn DEF Begun
  <2>2. Progressing(w)'
    BY <1>3 DEF Progressing
  <2>3. ASSUME NEW v \in Workers, v # w PROVE Progressing(v)'
    BY <1>1, <1>3, <2>3, StillProgressing
  <2>4. DeletionHonest'
    BY <1>1, <1>3 DEF DeletionHonest
  <2> QED
    BY <1>1, <1>2, <1>3, <2>1, <2>2, <2>3, <2>4 DEF Unblocked
<1>4. CASE /\ deletion' = ClaimedBy(w, deletion) /\ Claimable(deletion)
           /\ remover'[w].pc = "delete"
  <2>1. /\ deletion'.attempt = deletion.attempt + 1 /\ deletion'.status = "running"
        /\ deletion'.owner = w /\ deletion.attempt \in Nat
        /\ deletion.status \in {"queued", "running"}
    BY <1>4 DEF ClaimedBy, Claimable, Job
  <2>2. \A v \in Workers : Begun(v)' => /\ Begun(v) /\ v # w
                                       /\ remover'[v] = remover[v]
                                       /\ remover[v].attempt \in Nat
                                       /\ remover[v].attempt <= deletion.attempt
    BY <1>1, <1>4 DEF Begun, Attempts, Remover
  <2>3. \A r \in receipts : r.attempt \in Nat /\ r.attempt <= deletion.attempt
    BY DEF Receipt
  <2>4. \A v \in Workers : Owns(v, deletion') => v = w
    BY <2>1 DEF Owns
  <2>5. ASSUME NEW v \in Workers PROVE Attempts(v)'
    <3>1. Begun(v)' => remover'[v].attempt <= deletion'.attempt
      BY <2>1, <2>2
    <3>2. ASSUME NEW u \in Workers, u # v, Begun(u)', Begun(v)'
          PROVE  remover'[u].attempt # remover'[v].attempt
      BY <2>2, <3>2 DEF Attempts
    <3>3. ASSUME v = w, NEW u \in Workers, Begun(u)'
          PROVE  u = v <=> remover'[u].attempt = deletion'.attempt
      BY <2>1, <2>2, <3>3
    <3>4. \A r \in receipts' : r.attempt # deletion'.attempt
      BY <1>1, <2>1, <2>3
    <3> QED
      BY <2>4, <3>1, <3>2, <3>3, <3>4 DEF Attempts, Owns
  <2>6. \A r \in receipts' : r.attempt <= deletion'.attempt
    BY <1>1, <2>1, <2>3
  <2>7. \A v \in Workers : Progressing(v)'
    BY <1>4, <2>4 DEF Progressing, Owns
  <2>8. DeletionHonest'
    BY <1>1, <2>1 DEF DeletionHonest
  <2> QED
    BY <1>1, <1>2, <2>1, <2>5, <2>6, <2>7, <2>8 DEF Unblocked
<1> QED
  BY <1>3, <1>4 DEF ClaimJob, Remover

\* what needs no worker
LEMMA QuietStepsKeep ==
    ASSUME LifecycleInv,
           \/ UpdatePolicy \/ CreateExport \/ CreateDeletion
           \/ \E s \in Systems : UserWrites(s)
           \/ ExportLeaseExpires \/ DeletionLeaseExpires
           \/ UNCHANGED lifecycleVars
    PROVE  LifecycleRest'
<1> USE DEF LifecycleInv, LifecycleRest, LifecycleTypeOK
<1>1. /\ UNCHANGED <<receipts, clean, remover, overtaken>>
      /\ deletion'.attempt = deletion.attempt
      /\ \A v \in Workers : Owns(v, deletion') =>
            Owns(v, deletion) /\ systemStatus' = systemStatus
      /\ deletion'.status \in {"succeeded", "pending_external"} =>
            deletion'.status = deletion.status /\ systemStatus' = systemStatus
      /\ systemStatus' = systemStatus \/ \A s \in Systems : systemStatus'[s] # "succeeded"
      /\ deletion'.status \in {"queued", "running"} => Unblocked(systemStatus)'
  <2>1. CASE CreateDeletion
    BY <2>1 DEF CreateDeletion, Owns, Job, Unblocked
  <2>2. CASE DeletionLeaseExpires
    BY <2>2 DEF DeletionLeaseExpires, Owns, Job, Unblocked
  <2>3. CASE UNCHANGED <<deletion, systemStatus, receipts, clean, remover, overtaken>>
    BY <2>3 DEF Owns, Unblocked
  <2> QED
    BY <2>1, <2>2, <2>3 DEF UpdatePolicy, CreateExport, UserWrites, ExportLeaseExpires,
       lifecycleVars
<1>2. ASSUME NEW v \in Workers
      PROVE  Attempts(v)' /\ Fresh(v)' /\ Carried(v)' /\ Progressing(v)'
  <2>1. Fresh(v)' /\ Carried(v)'
    <3> HIDE DEF LifecycleTypeOK
    <3> QED
      BY <1>1 DEF Fresh, Located, Carried, Backed, Unblocked
  <2>2. Progressing(v)'
    BY <1>1, StillProgressing
  <2>3. Attempts(v)'
    <3>1. Attempts(v)
      OBVIOUS
    <3>2. Owns(v, deletion)' => Owns(v, deletion)
      BY <1>1 DEF Owns
    <3> HIDE DEF LifecycleInv, LifecycleTypeOK, LifecycleRest
    <3> QED
      BY <1>1, <3>1, <3>2 DEF Attempts, Begun
  <2> QED
    BY <2>1, <2>2, <2>3
<1>3. DeletionHonest'
  <2>1. Backed(systemStatus)'
    BY <1>1 DEF DeletionHonest, Backed
  <2> QED
    BY <1>1, <2>1, StillHonest
<1> QED
  BY <1>1, <1>2, <1>3

LEMMA LifecycleInitInv == LifecycleInit => LifecycleInv
<1> SUFFICES ASSUME LifecycleInit PROVE LifecycleInv
  OBVIOUS
<1>1. LifecycleTypeOK
  BY DEF LifecycleInit, LifecycleTypeOK, ExportJob, Job, NoJob, Holder, LeaseState,
         SystemStatus, Remover, NotRemoving, NothingSeen, Outcome, Receipt
<1>2. \A w \in Workers : remover[w] = NotRemoving /\ ~Begun(w)
  BY DEF LifecycleInit, NotRemoving, Begun
<1>3. ASSUME NEW w \in Workers PROVE Attempts(w) /\ Fresh(w) /\ Carried(w) /\ Progressing(w)
  <2>1. ~Owns(w, deletion)
    BY DEF LifecycleInit, NoJob, Owns
  <2> QED
    BY <1>2, <2>1 DEF Attempts, Fresh, Located, Carried, Progressing, NotRemoving,
       NothingSeen, Backed, Unblocked
<1>4. DeletionHonest /\ Unblocked(systemStatus)
  BY DEF LifecycleInit, DeletionHonest, NoJob, Unblocked
<1>5. receipts = {}
  BY DEF LifecycleInit
<1> QED
  BY <1>1, <1>3, <1>4, <1>5 DEF LifecycleInv, LifecycleRest

LEMMA RemoverTyped ==
    ASSUME NEW r \in Remover, NEW d \in Outcome, NEW c \in Outcome
    PROVE  /\ [r EXCEPT !.pc = "record", !.scanned = c] \in Remover
           /\ [r EXCEPT !.pc = "record", !.deleted = d, !.scanned = c] \in Remover
           /\ [r EXCEPT !.pc = "scan", !.deleted = d] \in Remover
BY DEF Remover

LEMMA ExportTyped ==
    ASSUME NEW e \in ExportJob, NEW j \in Job,
           NEW b \in {"none", "empty", "data", "deleted"}
    PROVE  /\ [e EXCEPT !.job = j] \in ExportJob
           /\ [e EXCEPT !.bundle = b] \in ExportJob
           /\ [job |-> j, bundle |-> b] \in ExportJob
BY DEF ExportJob

LEMMA LifecycleTypes == LifecycleInv /\ LifecycleNext => LifecycleTypeOK'
<1> SUFFICES ASSUME LifecycleTypeOK, LifecycleNext,
                    \A w \in Workers : Located(w)
             PROVE  LifecycleTypeOK'
  BY DEF LifecycleInv, LifecycleRest, Carried
<1> USE DEF LifecycleTypeOK
<1>1. /\ Queued \in Job /\ NotRemoving \in Remover
      /\ "succeeded" \in Outcome /\ "failed" \in Outcome
  BY DEF Queued, NoJob, Job, Holder, LeaseState, NotRemoving, NothingSeen, Remover,
         Outcome, SystemStatus
<1>2. ASSUME NEW w \in Workers, NEW job \in Job
      PROVE  /\ ClaimedBy(w, job) \in Job
             /\ Requeued(w, job) \in Job
             /\ Ended(job, "succeeded") \in Job /\ Ended(job, "failed") \in Job
             /\ Ended(job, "pending_external") \in Job
             /\ Ended(job, "blocked_legal_hold") \in Job
             /\ [job EXCEPT !.lease = "valid"] \in Job
             /\ [job EXCEPT !.lease = "due"] \in Job
  <2>1. ASSUME NEW status \in {"queued", "succeeded", "failed", "pending_external",
                               "blocked_legal_hold"}
        PROVE  /\ Ended(job, status) \in Job
               /\ [Ended(job, status) EXCEPT !.lease = "none"] \in Job
    BY DEF Ended, Job, Holder, LeaseState
  <2>2. ClaimedBy(w, job) \in Job
    BY DEF ClaimedBy, Job, Holder, LeaseState
  <2>3. [job EXCEPT !.lease = "valid"] \in Job /\ [job EXCEPT !.lease = "due"] \in Job
    BY DEF Job, LeaseState
  <2>4. Requeued(w, job) \in Job
    BY <2>1 DEF Requeued
  <2> QED
    BY <2>1, <2>2, <2>3, <2>4
<1>3. /\ export = [job |-> export.job, bundle |-> export.bundle]
      /\ export.job \in Job /\ export.bundle \in {"none", "empty", "data", "deleted"}
  BY DEF ExportJob
<1>4. CASE UpdatePolicy
  BY <1>4 DEF UpdatePolicy
<1>5. CASE CreateExport
  BY <1>5, <1>1, <1>3 DEF CreateExport, ExportJob
<1>6. CASE CreateDeletion
  BY <1>6 DEF CreateDeletion, Job, SystemStatus
<1>7. CASE \E s \in Systems : UserWrites(s)
  BY <1>7 DEF UserWrites
<1>8. ASSUME NEW w \in Workers, ClaimJob(w) PROVE LifecycleTypeOK'
  <2>1. remover[w] \in Remover
    OBVIOUS
  <2>2. /\ [remover EXCEPT ![w].pc = "export"] \in [Workers -> Remover]
        /\ [remover EXCEPT ![w].pc = "delete"] \in [Workers -> Remover]
    <3>1. /\ [remover[w] EXCEPT !.pc = "export"] \in Remover
          /\ [remover[w] EXCEPT !.pc = "delete"] \in Remover
      BY <2>1 DEF Remover
    <3> QED
      BY <3>1
  <2>3. ClaimedBy(w, export.job) \in Job /\ ClaimedBy(w, deletion) \in Job
    BY <1>2, <1>3
  <2>4. [export EXCEPT !.job = ClaimedBy(w, export.job)] \in ExportJob
    BY <2>3, <1>3, ExportTyped
  <2>5. CASE export' = [export EXCEPT !.job = ClaimedBy(w, export.job)]
             /\ remover' = [remover EXCEPT ![w].pc = "export"] /\ deletion' = deletion
    BY <1>8, <2>2, <2>4, <2>5 DEF ClaimJob
  <2>6. CASE export' = export /\ deletion' = ClaimedBy(w, deletion)
             /\ remover' = [remover EXCEPT ![w].pc = "delete"]
    BY <1>8, <2>2, <2>3, <2>6 DEF ClaimJob
  <2> QED
    BY <1>8, <2>5, <2>6 DEF ClaimJob
<1>9. ASSUME NEW w \in Workers, BuildExportPayload(w) PROVE LifecycleTypeOK'
  <2>1. 0 \in Systems
    BY DEF Systems
  <2>2. [NotRemoving EXCEPT !.pc = "write", !.read = data[0]] \in Remover
    BY <1>1, <2>1 DEF Remover
  <2> QED
    BY <1>9, <1>1, <2>2 DEF BuildExportPayload
<1>10. ASSUME NEW w \in Workers, StoreExport(w) PROVE LifecycleTypeOK'
  <2>1. Ended(export.job, "succeeded") \in Job /\ Ended(export.job, "failed") \in Job
    BY <1>2, <1>3
  <2>2. PICK b \in {"none", "empty", "data", "deleted"} :
           b = IF remover[w].read THEN "data" ELSE "empty"
    OBVIOUS
  <2>3. [job |-> Ended(export.job, "succeeded"), bundle |-> b] \in ExportJob
    BY <2>1, ExportTyped
  <2>4. PICK j \in Job : j = IF Owns(w, export.job) THEN Ended(export.job, "failed")
                                                   ELSE export.job
    BY <2>1, <1>3
  <2>5. [export EXCEPT !.job = j] \in ExportJob
    BY <1>3, ExportTyped
  <2>6. export' \in ExportJob
    BY <1>10, <2>2, <2>3, <2>4, <2>5 DEF StoreExport
  <2> QED
    BY <1>10, <1>1, <2>6 DEF StoreExport
<1>11. ASSUME NEW w \in Workers, ReadDeletionJob(w) PROVE LifecycleTypeOK'
  <2>1. [AsRead(w, "purge") EXCEPT !.read = hold] \in Remover
    BY DEF AsRead, Remover, Job
  <2> QED
    BY <1>11, <1>1, <2>1 DEF ReadDeletionJob, ReadOwnJob
<1>12. ASSUME NEW w \in Workers, BlockDeletion(w) PROVE LifecycleTypeOK'
  <2>1. systemStatus' \in [Systems -> SystemStatus]
    BY <1>12, WrittenStatus DEF BlockDeletion, SystemStatus
  <2> QED
    BY <1>12, <1>1, <1>2, <2>1 DEF BlockDeletion, Late
<1>13. ASSUME NEW w \in Workers, NEW survivors \in BOOLEAN,
              DeleteProductRows(w, survivors)
       PROVE  LifecycleTypeOK'
  <2>1. PICK scan \in {"failed", "succeeded"} :
           scan = IF survivors THEN "failed" ELSE "succeeded"
    OBVIOUS
  <2>2. receipts' = AppendReceipt(w, 0, scan)
    BY <1>13, <2>1 DEF DeleteProductRows
  <2>3. scan \in Outcome /\ 0 \in Systems
    BY <2>1 DEF Outcome, Systems
  <2>4. receipts' \subseteq Receipt
    BY <2>2, <2>3, AppendedReceipt
  <2>5. systemStatus' \in [Systems -> SystemStatus]
    <3> DEFINE new == [s \in Systems |->
                         IF s = 0 THEN SystemOutcome("succeeded", scan) ELSE "pending"]
    <3>1. SystemOutcome("succeeded", scan) \in SystemStatus
      BY <1>1, <2>3, OutcomeTyped
    <3>2. new \in [Systems -> SystemStatus]
      BY <3>1 DEF SystemStatus
    <3>3. WriteSystemStatus(w, new)
      BY <1>13, <2>1 DEF DeleteProductRows
    <3> HIDE DEF new
    <3> QED
      BY <3>2, <3>3, WrittenStatus
  <2>6. deletion' \in Job /\ data' \in [Systems -> BOOLEAN] /\ hold' \in BOOLEAN
    BY <1>13, <1>2 DEF DeleteProductRows
  <2>7. export' \in ExportJob
    <3>1. PICK b \in {"none", "empty", "data", "deleted"} :
             b = IF export.job.status = "absent" THEN export.bundle ELSE "deleted"
      BY <1>3
    <3>2. export' = [export EXCEPT !.bundle = b]
      BY <1>13, <3>1 DEF DeleteProductRows
    <3> QED
      BY <1>3, <3>2, ExportTyped
  <2>8. remover' \in [Workers -> Remover]
    <3>1. remover[w].attempt \in Nat
      BY DEF Remover
    <3>2. [NotRemoving EXCEPT !.pc = "call", !.at = 1, !.attempt = remover[w].attempt]
             \in Remover
      BY <1>1, <3>1 DEF Remover
    <3> QED
      BY <1>13, <1>1, <3>2 DEF DeleteProductRows
  <2>9. overtaken' \in BOOLEAN
    BY <1>13 DEF DeleteProductRows
  <2> QED
    BY <2>4, <2>5, <2>6, <2>7, <2>8, <2>9
<1>14. ASSUME NEW w \in Workers, DeletionRaises(w) PROVE LifecycleTypeOK'
  BY <1>14, <1>1, <1>2 DEF DeletionRaises
<1>15. ASSUME NEW w \in Workers, AdapterDelete(w) PROVE LifecycleTypeOK'
  <2>1. remover[w].at \in External
    BY <1>15 DEF AdapterDelete, Located
  <2>2. FixedOutcome(Adapters[remover[w].at]) \in Outcome
    BY <2>1, FixedTyped
  <2> DEFINE s == remover[w].at
             f == FixedOutcome(Adapters[s])
  <2>3. remover[w] \in Remover
    OBVIOUS
  <2>4. /\ [remover[w] EXCEPT !.pc = "record", !.deleted = f, !.scanned = f] \in Remover
        /\ [remover[w] EXCEPT !.pc = "scan", !.deleted = "succeeded"] \in Remover
        /\ [remover[w] EXCEPT !.pc = "record", !.deleted = "failed",
                              !.scanned = "failed"] \in Remover
    BY <1>1, <2>2, <2>3, RemoverTyped
  <2>5. /\ [remover EXCEPT ![w].pc = "record", ![w].deleted = f, ![w].scanned = f]
              = [remover EXCEPT ![w] = [remover[w] EXCEPT !.pc = "record",
                                           !.deleted = f, !.scanned = f]]
        /\ [remover EXCEPT ![w].pc = "scan", ![w].deleted = "succeeded"]
              = [remover EXCEPT ![w] = [remover[w] EXCEPT !.pc = "scan",
                                           !.deleted = "succeeded"]]
        /\ [remover EXCEPT ![w].pc = "record", ![w].deleted = "failed",
                           ![w].scanned = "failed"]
              = [remover EXCEPT ![w] = [remover[w] EXCEPT !.pc = "record",
                                           !.deleted = "failed", !.scanned = "failed"]]
    BY <2>3
  <2>6. remover' \in [Workers -> Remover]
    BY <1>15, <2>4, <2>5 DEF AdapterDelete
  <2>7. data' \in [Systems -> BOOLEAN]
    BY <1>15 DEF AdapterDelete
  <2> QED
    BY <1>15, <2>6, <2>7 DEF AdapterDelete
<1>16. ASSUME NEW w \in Workers, SurvivorScan(w) PROVE LifecycleTypeOK'
  <2>1. PICK c \in {"succeeded", "failed"} :
           c = IF data[remover[w].at] THEN "failed" ELSE "succeeded"
    OBVIOUS
  <2>2. c \in Outcome /\ remover[w] \in Remover
    BY <1>1
  <2>3. /\ [remover[w] EXCEPT !.pc = "record", !.scanned = c] \in Remover
        /\ [remover[w] EXCEPT !.pc = "record", !.deleted = "failed",
                              !.scanned = "failed"] \in Remover
    BY <1>1, <2>2, RemoverTyped
  <2>4. \/ remover' = [remover EXCEPT ![w] =
                          [remover[w] EXCEPT !.pc = "record", !.scanned = c]]
        \/ remover' = [remover EXCEPT ![w] =
                          [remover[w] EXCEPT !.pc = "record", !.deleted = "failed",
                                             !.scanned = "failed"]]
    BY <1>16, <2>1, <2>2 DEF SurvivorScan
  <2>5. remover' \in [Workers -> Remover]
    BY <2>3, <2>4
  <2> QED
    BY <1>16, <2>5 DEF SurvivorScan
<1>17. ASSUME NEW w \in Workers, remover[w].at \in External
       PROVE  AfterResult(w) \in Remover
  <2>1. remover[w].at + 1 \in Nat /\ remover[w].attempt \in Nat
    BY <1>17, SystemsKnown DEF Remover
  <2> QED
    BY <1>1, <2>1 DEF AfterResult, Remover
<1>18. ASSUME NEW w \in Workers, ReadJobForResult(w) PROVE LifecycleTypeOK'
  <2>1. AsRead(w, "commit") \in Remover
    BY DEF AsRead, Remover, Job
  <2>2. AfterResult(w) \in Remover
    BY <1>17, <1>18 DEF ReadJobForResult, Located
  <2> QED
    BY <1>18, <2>1, <2>2 DEF ReadJobForResult, ReadOwnJob
<1>19. ASSUME NEW w \in Workers, RecordAdapterResult(w) PROVE LifecycleTypeOK'
  <2>1. /\ remover[w].at \in External /\ remover[w].at \in Systems
    BY <1>19, SystemsKnown DEF RecordAdapterResult, Located
  <2>2. /\ remover[w].deleted \in Outcome /\ remover[w].scanned \in Outcome
        /\ remover[w].seen \in [Systems -> SystemStatus]
    BY DEF Remover
  <2>3. remover' \in [Workers -> Remover]
    BY <1>17, <1>19, <2>1 DEF RecordAdapterResult
  <2>4. receipts' \subseteq Receipt
    BY <1>19, <2>1, <2>2, AppendedReceipt DEF RecordAdapterResult
  <2>5. systemStatus' \in [Systems -> SystemStatus]
    <3> DEFINE outcome == SystemOutcome(remover[w].deleted, remover[w].scanned)
               new == [remover[w].seen EXCEPT ![remover[w].at] = outcome]
    <3>1. outcome \in SystemStatus
      BY <2>2, OutcomeTyped
    <3>2. WriteSystemStatus(w, new)
      BY <1>19 DEF RecordAdapterResult
    <3> HIDE DEF outcome
    <3>3. new \in [Systems -> SystemStatus]
      BY <2>2, <3>1
    <3> HIDE DEF new
    <3> QED
      BY <3>2, <3>3, WrittenStatus
  <2>6. deletion' \in Job
    BY <1>19, <1>2 DEF RecordAdapterResult
  <2> QED
    BY <1>19, <2>3, <2>4, <2>5, <2>6 DEF RecordAdapterResult, Late
<1>20. ASSUME NEW w \in Workers, ReadJobToFinish(w) PROVE LifecycleTypeOK'
  <2>1. AsRead(w, "close") \in Remover
    BY DEF AsRead, Remover, Job
  <2> QED
    BY <1>20, <1>1, <2>1 DEF ReadJobToFinish, ReadOwnJob
<1>21. ASSUME NEW w \in Workers, FinishDeletion(w) PROVE LifecycleTypeOK'
  <2>1. ASSUME NEW outcomes
        PROVE  JobOutcome(outcomes) \in {"failed", "pending_external", "succeeded"}
    BY DEF JobOutcome
  <2> QED
    BY <1>21, <1>1, <1>2, <2>1 DEF FinishDeletion, Late
<1>22. ASSUME NEW w \in Workers, ReleaseOwnedJobs(w) PROVE LifecycleTypeOK'
  BY <1>22, <1>1, <1>2, <1>3 DEF ReleaseOwnedJobs, ExportJob
<1>23. ASSUME NEW w \in Workers, RemoverCrash(w) PROVE LifecycleTypeOK'
  BY <1>23, <1>1 DEF RemoverCrash
<1>24. CASE ExportLeaseExpires
  <2>1. export' = [export EXCEPT !.job = [export.job EXCEPT !.lease = "due"]]
    BY <1>24 DEF ExportLeaseExpires
  <2>2. [export.job EXCEPT !.lease = "due"] \in Job
    BY <1>3 DEF Job, LeaseState
  <2>3. export' \in ExportJob
    BY <1>3, <2>1, <2>2, ExportTyped
  <2> QED
    BY <1>24, <2>3 DEF ExportLeaseExpires
<1>25. CASE DeletionLeaseExpires
  <2>1. [deletion EXCEPT !.lease = "due"] \in Job
    BY DEF Job, LeaseState
  <2> QED
    BY <1>25, <2>1 DEF DeletionLeaseExpires
<1> QED
  BY <1>4, <1>5, <1>6, <1>7, <1>8, <1>9, <1>10, <1>11, <1>12, <1>13, <1>14, <1>15,
     <1>16, <1>18, <1>19, <1>20, <1>21, <1>22, <1>23, <1>24, <1>25
     DEF LifecycleNext, RemoverStep

LEMMA LifecycleNextInv == LifecycleInv /\ [LifecycleNext]_lifecycleVars => LifecycleInv'
<1> SUFFICES ASSUME LifecycleInv, [LifecycleNext]_lifecycleVars PROVE LifecycleInv'
  OBVIOUS
<1>1. LifecycleTypeOK'
  <2>1. CASE UNCHANGED lifecycleVars
    BY <2>1 DEF LifecycleInv, LifecycleTypeOK, lifecycleVars
  <2> QED
    BY <2>1, LifecycleTypes
<1>2. LifecycleRest'
  BY BlockKeeps, DeleteProductRowsKeeps, ReadDeletionJobKeeps, AdapterDeleteKeeps,
     SurvivorScanKeeps, ReadResultKeeps, RecordKeeps, ReadToFinishKeeps, FinishKeeps,
     OtherStepsKeep, ClaimKeeps, QuietStepsKeep
     DEF LifecycleNext, RemoverStep
<1> QED
  BY <1>1, <1>2 DEF LifecycleInv

\* DeletionHonest: what a deletion reports was seen, and unless a worker that lost
\* the job wrote over it (_record_adapter_result and the transactions of
\* _process_deletion read without a lock) it was seen in the last attempt.
THEOREM DeletionHonestHolds == LifecycleSafety => []DeletionHonest
<1>1. LifecycleInv => DeletionHonest
  BY DEF LifecycleInv, LifecycleRest
<1> QED
  BY <1>1, LifecycleInitInv, LifecycleNextInv, PTL DEF LifecycleSafety

-----------------------------------------------------------------------------
(***************************************************************************)
(* With one worker, the remote Cron follows the monitor, for every number  *)
(* of changes, retries, crashes and lost answers.  (With two workers it    *)
(* does not: each may read the monitor before the other's remote call.)    *)
(***************************************************************************)
MonitorTypeOK ==
    /\ monitor \in Monitor
    /\ cronCommands \in Seq(CronCommand)
    /\ crons \in [CronIds -> Cron]
    /\ cronWorker \in [CronWorkers -> CronWorkerState]

\* one command per change; nobody resumes a disabled monitor
RevisionsOK ==
    /\ monitor.desired = Len(cronCommands)
    /\ monitor.desired >= 1
    /\ monitor.applied <= monitor.desired
    /\ monitor.cron \in CronIds \cup {NoCron}
    /\ monitor.status = "draft" => monitor.desired = 1
    /\ \A n \in DOMAIN cronCommands :
          cronCommands[n].type = "delete" => monitor.status = "disabled"

\* a Cron is created only after a search found none
OneCron ==
    /\ \A c, d \in CronIds : crons[c].exists /\ crons[d].exists => c = d
    /\ \A c \in CronIds : ~crons[c].exists => ~crons[c].enabled

TypeOf(w) == cronCommands[cronWorker[w].command].type

\* what the worker read is not older than its command, and still true if it is
\* the newest revision
Loaded(w) ==
    /\ cronWorker[w].pc # "idle" => cronWorker[w].command \in DOMAIN cronCommands
    /\ cronWorker[w].pc \notin {"idle", "load"} =>
          LET seen == cronWorker[w].seen IN
          /\ cronWorker[w].command <= seen.desired
          /\ seen.desired <= monitor.desired
          /\ monitor.applied = monitor.desired => seen.desired = monitor.desired
          /\ seen.desired = monitor.desired =>
                seen.schedule = monitor.schedule /\ seen.status = monitor.status

Brought(w) ==
    LET c == cronWorker[w].cron IN
    /\ c \in CronIds
    /\ crons[c].exists
    /\ crons[c].enabled = EnabledFor(cronWorker[w].seen.status)
    /\ crons[c].schedule = cronWorker[w].seen.schedule

\* what the worker knows at each of its remote calls
CallsOK(w) ==
    /\ cronWorker[w].pc = "search" => cronWorker[w].cron = NoCron
    /\ cronWorker[w].pc = "create" => \A c \in CronIds : ~crons[c].exists
    /\ cronWorker[w].pc \in {"adopt", "update", "delete"} =>
          cronWorker[w].cron \in CronIds
    /\ cronWorker[w].pc = "delete" => TypeOf(w) = "delete"
    /\ cronWorker[w].pc \in {"create", "adopt", "update"} => TypeOf(w) # "delete"
    /\ cronWorker[w].pc = "succeed" =>
          IF TypeOf(w) = "delete"
          THEN cronWorker[w].cron = NoCron /\ \A c \in CronIds : ~crons[c].exists
          ELSE Brought(w)

\* once the newest command was applied, later ones repeat it
Followed(w) ==
    monitor.applied = monitor.desired =>
        /\ monitor.status = "active" =>
              /\ monitor.cron \in CronIds
              /\ crons[monitor.cron].exists
              /\ crons[monitor.cron].enabled
              /\ crons[monitor.cron].schedule = monitor.schedule
              /\ cronWorker[w].pc \notin {"idle", "load", "fail"} =>
                    /\ cronWorker[w].pc \in {"update", "succeed"}
                    /\ cronWorker[w].cron = monitor.cron
        /\ monitor.status \in {"paused", "disabled"} =>
              \A c \in CronIds : ~crons[c].enabled

MonitorInv(w) ==
    /\ CronWorkers = {w}
    /\ MonitorTypeOK
    /\ RevisionsOK
    /\ OneCron
    /\ Loaded(w)
    /\ CallsOK(w)
    /\ Followed(w)

\* one command is written
LEMMA CommandWritten ==
    ASSUME cronCommands \in Seq(CronCommand), NEW n \in DOMAIN cronCommands,
           NEW c \in CronCommand, c.type = cronCommands[n].type
    PROVE  /\ [cronCommands EXCEPT ![n] = c] \in Seq(CronCommand)
           /\ Len([cronCommands EXCEPT ![n] = c]) = Len(cronCommands)
           /\ \A m \in DOMAIN cronCommands :
                 [cronCommands EXCEPT ![n] = c][m].type = cronCommands[m].type
<1>1. n \in 1..Len(cronCommands)
  OBVIOUS
<1> QED
  BY <1>1, ExceptSeq

LEMMA CronWorkerTyped ==
    ASSUME NEW r \in CronWorkerState, NEW c \in Nat,
           NEW pc \in {"idle", "load", "search", "create", "adopt", "update", "delete",
                       "succeed", "fail", "degrade"}
    PROVE  /\ [r EXCEPT !.cron = c, !.pc = pc] \in CronWorkerState
           /\ [r EXCEPT !.pc = pc, !.cron = c] \in CronWorkerState
BY DEF CronWorkerState

LEMMA MonitorInitInv ==
    ASSUME NEW w \in Workers, CronWorkers = {w}, MonitorInit PROVE MonitorInv(w)
<1>1. /\ NewMonitor \in Monitor /\ CronIdle \in CronWorkerState
      /\ NewCronCommand("create") \in CronCommand
  BY DEF NewMonitor, Monitor, CronIdle, CronWorkerState, NewCronCommand, CronCommand,
         NoCron, Holder, LeaseState
<1>2. MonitorTypeOK
  BY <1>1 DEF MonitorInit, MonitorTypeOK, Cron
<1>3. /\ Len(cronCommands) = 1 /\ DOMAIN cronCommands = {1}
      /\ cronCommands[1].type = "create"
  BY DEF MonitorInit, NewCronCommand
<1>4. RevisionsOK
  BY <1>3 DEF MonitorInit, NewMonitor, RevisionsOK
<1> QED
  BY <1>2, <1>4 DEF MonitorInv, MonitorInit, OneCron, Loaded, CallsOK, Followed,
     CronIdle, NewMonitor

\* a change of the monitor appends a command, and the newest is not applied
LEMMA ChangeKeeps ==
    ASSUME NEW w, MonitorInv(w), NEW type \in {"pause", "resume", "delete"},
           NEW status \in {"paused", "active", "disabled"}, NEW allowed,
           ChangeMonitor(type, status, allowed),
           type = "delete" <=> status = "disabled",
           status # "disabled" => "disabled" \notin allowed
    PROVE  MonitorInv(w)'
<1> USE DEF MonitorInv, MonitorTypeOK
<1> DEFINE c == NewCronCommand(type)
<1>1. c \in CronCommand /\ c.type = type
  BY DEF NewCronCommand, CronCommand, Holder, LeaseState
<1>2. /\ cronCommands' = Append(cronCommands, c)
      /\ UNCHANGED <<crons, cronWorker>>
      /\ monitor.status \in allowed
      /\ monitor' = [monitor EXCEPT !.status = status, !.schedule = monitor.schedule + 1,
                                    !.desired = monitor.desired + 1]
  BY DEF ChangeMonitor
<1> HIDE DEF c
<1>3. /\ cronCommands' \in Seq(CronCommand)
      /\ Len(cronCommands') = Len(cronCommands) + 1
      /\ DOMAIN cronCommands' = 1..(Len(cronCommands) + 1)
      /\ DOMAIN cronCommands = 1..Len(cronCommands)
      /\ \A n \in DOMAIN cronCommands : cronCommands'[n] = cronCommands[n]
      /\ cronCommands'[Len(cronCommands) + 1] = c
  BY <1>1, <1>2
<1>4. /\ monitor' \in Monitor
      /\ monitor'.desired = monitor.desired + 1 /\ monitor'.applied = monitor.applied
      /\ monitor'.status = status /\ monitor'.cron = monitor.cron
      /\ monitor.desired \in Nat /\ monitor.applied \in Nat
  <2>1. PICK k \in Nat : k = monitor.schedule + 1
    BY DEF Monitor
  <2>2. PICK m \in Nat : m = monitor.desired + 1
    BY DEF Monitor
  <2>3. monitor' = [monitor EXCEPT !.status = status, !.schedule = k, !.desired = m]
    BY <1>2, <2>1, <2>2
  <2> QED
    BY <2>2, <2>3 DEF Monitor
<1>5. RevisionsOK'
  BY <1>1, <1>2, <1>3, <1>4 DEF RevisionsOK
<1>6. monitor'.applied # monitor'.desired
  BY <1>4 DEF RevisionsOK
<1>7. Loaded(w)'
  <2>1. cronWorker[w].pc \notin {"idle", "load"} =>
           /\ cronWorker[w].seen.desired \in Nat
           /\ cronWorker[w].seen.desired # monitor'.desired
           /\ cronWorker[w].seen.desired <= monitor'.desired
    <3>1. cronWorker[w].seen.desired \in Nat
      BY DEF CronWorkerState, Monitor
    <3>2. cronWorker[w].pc \notin {"idle", "load"} =>
             cronWorker[w].seen.desired <= monitor.desired
      BY DEF Loaded
    <3> QED
      BY <1>4, <3>1, <3>2
  <2> QED
    BY <1>2, <1>3, <1>6, <2>1 DEF Loaded
<1>8. CallsOK(w)'
  BY <1>2, <1>3 DEF CallsOK, Loaded, Brought, TypeOf
<1>9. OneCron' /\ Followed(w)'
  BY <1>2, <1>6 DEF OneCron, Followed
<1> QED
  BY <1>2, <1>3, <1>4, <1>5, <1>7, <1>8, <1>9

LEMMA UserKeeps ==
    ASSUME NEW w, MonitorInv(w), PauseMonitor \/ ResumeMonitor \/ DisableMonitor
    PROVE  MonitorInv(w)'
<1>1. CASE PauseMonitor
  <2> DEFINE allowed == {"draft", "active", "degraded", "paused"}
  <2>1. "disabled" \notin allowed
    OBVIOUS
  <2>2. ChangeMonitor("pause", "paused", allowed)
    BY <1>1 DEF PauseMonitor
  <2> HIDE DEF allowed
  <2> QED
    BY <2>1, <2>2, ChangeKeeps
<1>2. CASE ResumeMonitor
  <2> DEFINE allowed == {"paused", "degraded", "active"}
  <2>1. "disabled" \notin allowed
    OBVIOUS
  <2>2. ChangeMonitor("resume", "active", allowed)
    BY <1>2 DEF ResumeMonitor
  <2> HIDE DEF allowed
  <2> QED
    BY <2>1, <2>2, ChangeKeeps
<1>3. CASE DisableMonitor
  BY <1>3, ChangeKeeps DEF DisableMonitor
<1> QED
  BY <1>1, <1>2, <1>3

\* a change of the leases alone
LEMMA LeasesKeep ==
    ASSUME NEW w, MonitorInv(w),
           cronCommands' \in Seq(CronCommand), Len(cronCommands') = Len(cronCommands),
           \A n \in DOMAIN cronCommands : cronCommands'[n].type = cronCommands[n].type,
           UNCHANGED <<monitor, crons>>,
           \/ cronWorker' = cronWorker
           \/ /\ cronWorker' = [cronWorker EXCEPT ![w] = cronWorker'[w]]
              /\ cronWorker'[w] \in CronWorkerState
              /\ cronWorker'[w].pc \in {"idle", "load", "fail"}
              /\ \/ cronWorker'[w].pc = "fail"
                    /\ cronWorker[w].pc \notin {"idle", "load"}
                    /\ cronWorker'[w].command = cronWorker[w].command
                    /\ cronWorker'[w].seen = cronWorker[w].seen
                 \/ cronWorker'[w].pc = "load"
                    /\ cronWorker'[w].command \in DOMAIN cronCommands
                 \/ cronWorker'[w].pc = "idle"
    PROVE  MonitorInv(w)'
<1> USE DEF MonitorInv, MonitorTypeOK
<1>1. DOMAIN cronCommands' = DOMAIN cronCommands
  OBVIOUS
<1>2. RevisionsOK' /\ OneCron'
  BY <1>1 DEF RevisionsOK, OneCron
<1>3. MonitorTypeOK'
  OBVIOUS
<1>4. CASE cronWorker' = cronWorker
  <2>1. Loaded(w)'
    BY <1>1, <1>4 DEF Loaded
  <2>2. CallsOK(w)'
    BY <1>1, <1>4 DEF CallsOK, Loaded, Brought, TypeOf
  <2>3. Followed(w)'
    BY <1>4 DEF Followed
  <2> QED
    BY <1>2, <1>3, <2>1, <2>2, <2>3
<1>5. CASE cronWorker' # cronWorker
  <2>1. Loaded(w)'
    BY <1>1, <1>5 DEF Loaded
  <2>2. CallsOK(w)'
    BY <1>5 DEF CallsOK
  <2>3. Followed(w)'
    BY <1>5 DEF Followed
  <2> QED
    BY <1>2, <1>3, <2>1, <2>2, <2>3
<1> QED
  BY <1>4, <1>5

LEMMA LeaseStepsKeep ==
    ASSUME NEW w, w \in Workers, MonitorInv(w),
           \/ \E n \in DOMAIN cronCommands : LeaseCron(w, n) \/ CronLeaseExpires(n)
           \/ ReleaseOwnedCrons(w) \/ CronWorkerCrash(w)
    PROVE  MonitorInv(w)'
<1> USE DEF MonitorInv, MonitorTypeOK
<1>1. CronIdle \in CronWorkerState
  BY DEF NewMonitor, Monitor, CronIdle, CronWorkerState, NoCron
<1>2. ASSUME NEW n \in DOMAIN cronCommands, LeaseCron(w, n) PROVE MonitorInv(w)'
  <2>0. cronCommands[n] \in CronCommand /\ n \in Nat
    OBVIOUS
  <2>1. /\ cronCommands[n] \in CronCommand /\ n \in Nat
        /\ cronCommands[n].fence + 1 \in Nat /\ cronCommands[n].attempt + 1 \in Nat
    BY <2>0 DEF CronCommand
  <2>2. cronCommands' \in Seq(CronCommand) /\ Len(cronCommands') = Len(cronCommands)
        /\ \A m \in DOMAIN cronCommands : cronCommands'[m].type = cronCommands[m].type
    <3>1. PICK f \in Nat : f = cronCommands[n].fence + 1
      BY <2>1
    <3>2. PICK a \in Nat : a = cronCommands[n].attempt + 1
      BY <2>1
    <3> DEFINE c == [cronCommands[n] EXCEPT !.status = "leased", !.owner = w,
                        !.lease = "valid", !.fence = f, !.attempt = a]
    <3>3. cronCommands' = [cronCommands EXCEPT ![n] = c]
      BY <1>2, <3>1, <3>2 DEF LeaseCron
    <3>4. c \in CronCommand /\ c.type = cronCommands[n].type
      BY <2>1 DEF CronCommand, Holder, LeaseState
    <3> HIDE DEF c
    <3> QED
      BY <3>3, <3>4, CommandWritten
  <2>3. /\ cronWorker' = [cronWorker EXCEPT ![w] = cronWorker'[w]]
        /\ cronWorker'[w] \in CronWorkerState /\ cronWorker'[w].pc = "load"
        /\ cronWorker'[w].command = n
    BY <1>1, <1>2, <2>1 DEF LeaseCron, CronWorkerState
  <2> QED
    BY <1>2, <2>2, <2>3, LeasesKeep DEF LeaseCron
<1>3. ASSUME NEW n \in DOMAIN cronCommands, CronLeaseExpires(n) PROVE MonitorInv(w)'
  <2>1. cronCommands[n] \in CronCommand
    OBVIOUS
  <2>2. cronCommands' \in Seq(CronCommand) /\ Len(cronCommands') = Len(cronCommands)
        /\ \A m \in DOMAIN cronCommands : cronCommands'[m].type = cronCommands[m].type
    <3> DEFINE c == [cronCommands[n] EXCEPT !.lease = "due"]
    <3>1. cronCommands' = [cronCommands EXCEPT ![n] = c]
      BY <1>3 DEF CronLeaseExpires
    <3>2. c \in CronCommand /\ c.type = cronCommands[n].type
      BY <2>1 DEF CronCommand, LeaseState
    <3> HIDE DEF c
    <3> QED
      BY <3>1, <3>2, CommandWritten
  <2> QED
    BY <1>3, <2>2, LeasesKeep DEF CronLeaseExpires
<1>4. CASE ReleaseOwnedCrons(w)
  <2>1. /\ cronWorker' = [cronWorker EXCEPT ![w] = cronWorker'[w]]
        /\ cronWorker'[w] \in CronWorkerState /\ cronWorker'[w].pc = "idle"
    BY <1>1, <1>4 DEF ReleaseOwnedCrons, CronIdle
  <2>2. DOMAIN cronCommands' = DOMAIN cronCommands
        /\ \A m \in DOMAIN cronCommands : /\ cronCommands'[m] \in CronCommand
                                          /\ cronCommands'[m].type = cronCommands[m].type
    <3>1. DOMAIN cronCommands' = DOMAIN cronCommands
      BY <1>4 DEF ReleaseOwnedCrons
    <3>2. ASSUME NEW m \in DOMAIN cronCommands
          PROVE  cronCommands'[m] \in CronCommand /\ cronCommands'[m].type = cronCommands[m].type
      <4>1. PICK c \in CronCommand : c = cronCommands[m]
        OBVIOUS
      <4>2. PICK e \in BOOLEAN : e = TRUE
        OBVIOUS
      <4>3. \/ cronCommands'[m] = c
            \/ cronCommands'[m] = [c EXCEPT !.status = "pending", !.owner = NoWorker,
                                            !.lease = "none", !.retried = e]
        BY <1>4, <4>1, <4>2 DEF ReleaseOwnedCrons
      <4> QED
        BY <4>1, <4>2, <4>3 DEF CronCommand, Holder, LeaseState
    <3> QED
      BY <3>1, <3>2
  <2>3. cronCommands' \in Seq(CronCommand) /\ Len(cronCommands') = Len(cronCommands)
    <3>1. cronCommands' = [m \in DOMAIN cronCommands |-> cronCommands'[m]]
      BY <1>4 DEF ReleaseOwnedCrons
    <3>2. DOMAIN cronCommands = 1..Len(cronCommands) /\ Len(cronCommands) \in Nat
      OBVIOUS
    <3>3. cronCommands' \in [1..Len(cronCommands) -> CronCommand]
      BY <2>2, <3>1, <3>2
    <3> QED
      BY <2>2, <3>2, <3>3
  <2> QED
    BY <1>4, <2>1, <2>2, <2>3, LeasesKeep DEF ReleaseOwnedCrons
<1>5. CASE CronWorkerCrash(w)
  <2>1. /\ cronWorker' = [cronWorker EXCEPT ![w] = cronWorker'[w]]
        /\ cronWorker'[w] \in CronWorkerState /\ cronWorker'[w].pc = "idle"
    BY <1>1, <1>5 DEF CronWorkerCrash, CronIdle
  <2> QED
    BY <1>5, <2>1, LeasesKeep DEF CronWorkerCrash
<1> QED
  BY <1>2, <1>3, <1>4, <1>5

LEMMA LoadKeeps ==
    ASSUME NEW w, MonitorInv(w), LoadMonitor(w) PROVE MonitorInv(w)'
<1> USE DEF MonitorInv, MonitorTypeOK
<1>1. /\ UNCHANGED <<monitor, cronCommands, crons>>
      /\ cronWorker[w] \in CronWorkerState
      /\ cronWorker[w].pc = "load" /\ cronWorker[w].command \in DOMAIN cronCommands
      /\ monitor.cron \in Nat
  BY DEF LoadMonitor, Loaded, Monitor
<1>2. PICK pc \in {"search", "delete", "update"} :
         pc = IF monitor.cron = NoCron THEN "search"
              ELSE IF TypeOf(w) = "delete" THEN "delete" ELSE "update"
  OBVIOUS
<1>3. cronWorker' = [cronWorker EXCEPT ![w] =
         [cronWorker[w] EXCEPT !.seen = monitor, !.cron = monitor.cron, !.pc = pc]]
  BY <1>2 DEF LoadMonitor, TypeOf
<1>4. /\ cronWorker'[w].pc = pc /\ cronWorker'[w].seen = monitor
      /\ cronWorker'[w].cron = monitor.cron
      /\ cronWorker'[w].command = cronWorker[w].command
      /\ cronWorker' \in [CronWorkers -> CronWorkerState]
  BY <1>1, <1>2, <1>3 DEF CronWorkerState
<1>5. TypeOf(w)' = TypeOf(w)
  BY <1>1, <1>4 DEF TypeOf
<1>6. Loaded(w)'
  <2>1. cronWorker[w].command <= monitor.desired
    BY <1>1 DEF RevisionsOK
  <2> QED
    BY <1>1, <1>2, <1>4, <2>1 DEF Loaded, RevisionsOK, Monitor
<1>7. CallsOK(w)'
  BY <1>1, <1>2, <1>4, <1>5 DEF CallsOK, RevisionsOK
<1>8. Followed(w)'
  <2>1. ASSUME monitor.applied = monitor.desired, monitor.status = "active"
        PROVE  pc = "update"
    <3>1. monitor.cron # NoCron
      BY <2>1 DEF Followed, CronIds, NoCron
    <3>2. TypeOf(w) # "delete"
      BY <1>1, <2>1 DEF RevisionsOK, TypeOf
    <3> QED
      BY <1>2, <3>1, <3>2
  <2> QED
    BY <1>1, <1>2, <1>4, <2>1 DEF Followed
<1> QED
  BY <1>1, <1>4, <1>6, <1>7, <1>8 DEF RevisionsOK, OneCron

LEMMA NoneOrOne ==
    ASSUME OneCron
    PROVE  /\ BindingMatches = {} <=> \A c \in CronIds : ~crons[c].exists
           /\ \A c \in CronIds : crons[c].exists => BindingMatches = {c}
           /\ Cardinality({}) = 0
           /\ \A c \in CronIds : Cardinality({c}) = 1
<1>1. Cardinality({}) = 0 /\ \A c \in CronIds : Cardinality({c}) = 1
  BY FS_EmptySet, FS_Singleton
<1> QED
  BY <1>1 DEF OneCron, BindingMatches

LEMMA SearchKeeps ==
    ASSUME NEW w, MonitorInv(w), SearchCron(w) PROVE MonitorInv(w)'
<1> USE DEF MonitorInv, MonitorTypeOK
<1>1. /\ UNCHANGED <<monitor, cronCommands, crons>>
      /\ cronWorker[w] \in CronWorkerState /\ cronWorker[w].pc = "search"
  BY DEF SearchCron
<1>2. ASSUME NEW pc \in {"succeed", "create", "delete", "adopt"},
             NEW c \in CronIds \cup {cronWorker[w].cron},
             cronWorker' = [cronWorker EXCEPT ![w] =
                               [cronWorker[w] EXCEPT !.cron = c, !.pc = pc]],
             pc \in {"succeed", "create"} => \A d \in CronIds : ~crons[d].exists,
             pc \in {"delete", "adopt"} => c \in CronIds,
             pc = "succeed" => c = NoCron,
             pc \in {"succeed", "delete"} <=> TypeOf(w) = "delete"
      PROVE  MonitorInv(w)'
  <2>1. /\ cronWorker'[w].pc = pc /\ cronWorker'[w].cron = c
        /\ cronWorker'[w].seen = cronWorker[w].seen
        /\ cronWorker'[w].command = cronWorker[w].command
    BY <1>1, <1>2 DEF CronWorkerState
  <2>2. cronWorker' \in [CronWorkers -> CronWorkerState]
    <3>1. c \in Nat
      BY <1>1 DEF CronWorkerState, CronIds
    <3> QED
      BY <1>1, <1>2, <3>1, CronWorkerTyped
  <2>3. TypeOf(w)' = TypeOf(w)
    BY <1>1, <2>1 DEF TypeOf
  <2>4. Loaded(w)'
    BY <1>1, <2>1 DEF Loaded
  <2>5. CallsOK(w)'
    BY <1>1, <1>2, <2>1, <2>3 DEF CallsOK
  <2>6. Followed(w)'
    BY <1>1, <2>1 DEF Followed
  <2> QED
    BY <1>1, <2>2, <2>4, <2>5, <2>6 DEF RevisionsOK, OneCron
<1>3. CASE BindingMatches = {}
  <2>1. PICK pc \in {"succeed", "create"} :
           pc = IF TypeOf(w) = "delete" THEN "succeed" ELSE "create"
    OBVIOUS
  <2>2. cronWorker' = [cronWorker EXCEPT ![w] =
                          [cronWorker[w] EXCEPT !.cron = cronWorker[w].cron, !.pc = pc]]
    <3>1. cronWorker' = [cronWorker EXCEPT ![w].pc = pc]
      BY <1>3, <2>1, NoneOrOne DEF SearchCron, TypeOf
    <3>2. [cronWorker[w] EXCEPT !.pc = pc] =
             [cronWorker[w] EXCEPT !.cron = cronWorker[w].cron, !.pc = pc]
      BY <1>1 DEF CronWorkerState
    <3> QED
      BY <3>1, <3>2
  <2> QED
    BY <1>1, <1>2, <1>3, <2>1, <2>2, NoneOrOne DEF CallsOK
<1>4. ASSUME NEW c \in CronIds, crons[c].exists PROVE MonitorInv(w)'
  <2>1. BindingMatches = {c} /\ Cardinality(BindingMatches) = 1
    BY <1>4, NoneOrOne
  <2>2. PICK pc \in {"delete", "adopt"} :
           pc = IF TypeOf(w) = "delete" THEN "delete" ELSE "adopt"
    OBVIOUS
  <2>3. (CHOOSE d \in BindingMatches : TRUE) = c
    BY <2>1
  <2>4. cronWorker' = [cronWorker EXCEPT ![w] =
                          [cronWorker[w] EXCEPT !.cron = c, !.pc = pc]]
    <3>1. cronWorker' = [cronWorker EXCEPT ![w].cron = c, ![w].pc = pc]
      BY <2>1, <2>2, <2>3, NoneOrOne DEF SearchCron, TypeOf
    <3> QED
      BY <1>1, <3>1
  <2> QED
    BY <1>2, <2>2, <2>4
<1> QED
  BY <1>3, <1>4, NoneOrOne

\* the worker goes on with a Cron
Answers(w, pc, cron) ==
    cronWorker' = [cronWorker EXCEPT ![w] =
                      [cronWorker[w] EXCEPT !.pc = pc, !.cron = cron]]

\* a remote call, whether or not its answer is seen
LEMMA CallKeeps ==
    ASSUME NEW w, MonitorInv(w),
           cronWorker[w].pc \in {"create", "adopt", "update", "delete"},
           UNCHANGED <<monitor, cronCommands>>,
           crons' \in [CronIds -> Cron], OneCron',
           monitor.applied = monitor.desired /\ monitor.status = "active" =>
               crons' = crons,
           monitor.applied = monitor.desired /\ monitor.status \in {"paused", "disabled"}
               => \A c \in CronIds : ~crons'[c].enabled,
           NEW pc \in {"fail", "update", "succeed"}, NEW cron \in Nat,
           Answers(w, pc, cron),
           pc = "update" => cron \in CronIds /\ TypeOf(w) # "delete",
           pc = "succeed" =>
               IF TypeOf(w) = "delete"
               THEN cron = NoCron /\ \A c \in CronIds : ~crons'[c].exists
               ELSE /\ cron \in CronIds
                    /\ crons'[cron].exists
                    /\ crons'[cron].enabled = EnabledFor(cronWorker[w].seen.status)
                    /\ crons'[cron].schedule = cronWorker[w].seen.schedule,
           cronWorker[w].pc = "update" => cron = cronWorker[w].cron \/ pc = "fail"
    PROVE  MonitorInv(w)'
<1> USE DEF MonitorInv, MonitorTypeOK
<1>1. cronWorker[w] \in CronWorkerState
  OBVIOUS
<1>2. /\ cronWorker'[w].pc = pc /\ cronWorker'[w].cron = cron
      /\ cronWorker'[w].seen = cronWorker[w].seen
      /\ cronWorker'[w].command = cronWorker[w].command
      /\ cronWorker' \in [CronWorkers -> CronWorkerState]
  BY <1>1 DEF CronWorkerState, Answers
<1>3. TypeOf(w)' = TypeOf(w)
  BY <1>2 DEF TypeOf
<1>4. Loaded(w)'
  BY <1>2 DEF Loaded
<1>5. CallsOK(w)'
  BY <1>2, <1>3 DEF CallsOK, Brought
<1>6. Followed(w)'
  BY <1>2 DEF Followed
<1> QED
  BY <1>2, <1>4, <1>5, <1>6 DEF RevisionsOK

LEMMA RemoteCallCases ==
    ASSUME NEW w, MonitorInv(w), NEW effect, NEW cron, NEW pc,
           RemoteCall(w, effect, cron, pc)
    PROVE  /\ UNCHANGED <<monitor, cronCommands>>
           /\ crons' = crons \/ crons' = effect
           /\ \/ Answers(w, "fail", cronWorker[w].cron)
              \/ /\ crons' = effect
                 /\ Answers(w, pc, cron)
<1>1. cronWorker[w] \in CronWorkerState /\ w \in DOMAIN cronWorker
  BY DEF MonitorInv, MonitorTypeOK
<1>2. [cronWorker[w] EXCEPT !.pc = "fail"] =
         [cronWorker[w] EXCEPT !.pc = "fail", !.cron = cronWorker[w].cron]
  BY <1>1 DEF CronWorkerState
<1>3. [cronWorker EXCEPT ![w].pc = "fail"] =
         [cronWorker EXCEPT ![w] = [cronWorker[w] EXCEPT !.pc = "fail"]]
  OBVIOUS
<1>4. [cronWorker EXCEPT ![w].pc = pc, ![w].cron = cron] =
         [cronWorker EXCEPT ![w] = [cronWorker[w] EXCEPT !.pc = pc, !.cron = cron]]
  BY <1>1
<1> QED
  BY <1>2, <1>3, <1>4 DEF RemoteCall, Answers

\* a call for a Cron that is gone fails
LEMMA GoneKeeps ==
    ASSUME NEW w, MonitorInv(w),
           cronWorker[w].pc \in {"adopt", "update", "delete"},
           cronWorker' = [cronWorker EXCEPT ![w].pc = "fail"],
           UNCHANGED <<monitor, cronCommands, crons>>
    PROVE  MonitorInv(w)'
<1>1. cronWorker[w] \in CronWorkerState /\ w \in DOMAIN cronWorker
  BY DEF MonitorInv, MonitorTypeOK
<1>2. /\ cronWorker'[w].pc = "fail" /\ cronWorker'[w].command = cronWorker[w].command
      /\ cronWorker'[w].seen = cronWorker[w].seen
      /\ cronWorker'[w] \in CronWorkerState
      /\ cronWorker' = [cronWorker EXCEPT ![w] = cronWorker'[w]]
  BY <1>1 DEF CronWorkerState
<1>3. cronCommands' \in Seq(CronCommand)
  BY DEF MonitorInv, MonitorTypeOK
<1> QED
  BY <1>2, <1>3, LeasesKeep

LEMMA CreateCronKeeps ==
    ASSUME NEW w, MonitorInv(w), CreateCron(w) PROVE MonitorInv(w)'
<1> USE DEF MonitorInv, MonitorTypeOK
<1>1. PICK c \in CronIds : RemoteCall(w, [crons EXCEPT ![c] =
                 [exists |-> TRUE, enabled |-> FALSE,
                  schedule |-> cronWorker[w].seen.schedule]], c, "update")
  BY DEF CreateCron
<1> DEFINE effect == [crons EXCEPT ![c] = [exists |-> TRUE, enabled |-> FALSE,
                                           schedule |-> cronWorker[w].seen.schedule]]
<1>2. /\ cronWorker[w] \in CronWorkerState /\ cronWorker[w].pc = "create"
      /\ \A d \in CronIds : ~crons[d].exists
      /\ cronWorker[w].seen.schedule \in Nat /\ cronWorker[w].cron \in Nat /\ c \in Nat
      /\ TypeOf(w) # "delete"
  BY DEF CreateCron, CallsOK, CronWorkerState, Monitor, CronIds
<1>3. /\ effect \in [CronIds -> Cron]
      /\ \A d \in CronIds : ~effect[d].enabled
      /\ \A d, e \in CronIds : effect[d].exists /\ effect[e].exists => d = e
  BY <1>2 DEF Cron, OneCron
<1>4. ~(monitor.applied = monitor.desired /\ monitor.status = "active")
  BY <1>2 DEF Followed
<1>5. \A d \in CronIds : ~crons[d].enabled
  BY <1>2 DEF OneCron
<1> HIDE DEF effect
<1>6. RemoteCall(w, effect, c, "update")
  BY <1>1 DEF effect
<1>7. crons' \in [CronIds -> Cron] /\ OneCron' /\ \A d \in CronIds : ~crons'[d].enabled
  <2>1. CASE crons' = crons
    BY <2>1, <1>5 DEF OneCron
  <2>2. CASE crons' = effect
    BY <2>2, <1>3 DEF OneCron
  <2> QED
    BY <1>6, <2>1, <2>2, RemoteCallCases
<1>8. UNCHANGED <<monitor, cronCommands>>
  BY <1>6, RemoteCallCases
<1>9. CASE Answers(w, "fail", cronWorker[w].cron)
  BY <1>2, <1>4, <1>7, <1>8, <1>9, CallKeeps
<1>10. CASE Answers(w, "update", c)
  BY <1>2, <1>4, <1>7, <1>8, <1>10, CallKeeps
<1> QED
  BY <1>6, <1>9, <1>10, RemoteCallCases

LEMMA AdoptCronKeeps ==
    ASSUME NEW w, MonitorInv(w), AdoptCron(w) PROVE MonitorInv(w)'
<1> USE DEF MonitorInv, MonitorTypeOK
<1> DEFINE c == cronWorker[w].cron
<1>1. /\ cronWorker[w] \in CronWorkerState /\ cronWorker[w].pc = "adopt"
      /\ c \in CronIds /\ c \in Nat /\ cronWorker[w].seen.schedule \in Nat
      /\ TypeOf(w) # "delete"
  BY DEF AdoptCron, CallsOK, CronWorkerState, Monitor, CronIds
<1>2. CASE ~crons[c].exists
  BY <1>1, <1>2, GoneKeeps DEF AdoptCron
<1>3. CASE crons[c].exists
  <2> DEFINE effect == [crons EXCEPT ![c].schedule = cronWorker[w].seen.schedule]
  <2>1. /\ effect \in [CronIds -> Cron]
        /\ \A d \in CronIds : /\ effect[d].enabled = crons[d].enabled
                              /\ effect[d].exists = crons[d].exists
    BY <1>1 DEF Cron
  <2>2. ~(monitor.applied = monitor.desired /\ monitor.status = "active")
    BY <1>1 DEF Followed
  <2>3. RemoteCall(w, effect, c, "update")
    BY <1>3 DEF AdoptCron
  <2> HIDE DEF effect
  <2>4. /\ crons' \in [CronIds -> Cron]
        /\ \A d \in CronIds : /\ crons'[d].enabled = crons[d].enabled
                              /\ crons'[d].exists = crons[d].exists
    BY <2>1, <2>3, RemoteCallCases
  <2>5. OneCron'
    BY <2>4 DEF OneCron
  <2>6. monitor.applied = monitor.desired /\ monitor.status \in {"paused", "disabled"}
           => \A d \in CronIds : ~crons'[d].enabled
    BY <2>4 DEF Followed
  <2>7. UNCHANGED <<monitor, cronCommands>>
    BY <2>3, RemoteCallCases
  <2>8. PICK pc \in {"fail", "update"} :
           Answers(w, pc, cronWorker[w].cron)
    BY <2>3, RemoteCallCases
  <2> QED
    BY <1>1, <2>2, <2>4, <2>5, <2>6, <2>7, <2>8, CallKeeps
<1> QED
  BY <1>2, <1>3

LEMMA UpdateCronKeeps ==
    ASSUME NEW w, MonitorInv(w), UpdateCron(w) PROVE MonitorInv(w)'
<1> USE DEF MonitorInv, MonitorTypeOK
<1> DEFINE c == cronWorker[w].cron
           seen == cronWorker[w].seen
<1>1. /\ cronWorker[w] \in CronWorkerState /\ cronWorker[w].pc = "update"
      /\ c \in CronIds /\ c \in Nat /\ seen.schedule \in Nat
      /\ TypeOf(w) # "delete" /\ EnabledFor(seen.status) \in BOOLEAN
  BY DEF UpdateCron, CallsOK, CronWorkerState, Monitor, CronIds, EnabledFor
<1>2. CASE ~crons[c].exists
  BY <1>1, <1>2, GoneKeeps DEF UpdateCron
<1>3. CASE crons[c].exists
  <2>1. PICK e \in BOOLEAN : e = EnabledFor(seen.status)
    BY <1>1
  <2> DEFINE effect == [crons EXCEPT ![c].schedule = seen.schedule, ![c].enabled = e]
  <2>2. RemoteCall(w, effect, c, "succeed")
    BY <1>3, <2>1 DEF UpdateCron
  <2>3. effect = [crons EXCEPT ![c] =
                     [crons[c] EXCEPT !.schedule = seen.schedule, !.enabled = e]]
    BY <1>1
  <2>4. /\ effect \in [CronIds -> Cron]
        /\ effect[c].enabled = e /\ effect[c].schedule = seen.schedule
        /\ \A d \in CronIds : effect[d].exists = crons[d].exists
        /\ \A d \in CronIds : d # c => effect[d] = crons[d]
    BY <1>1, <2>3 DEF Cron
  <2>5. monitor.applied = monitor.desired => seen.status = monitor.status
                                             /\ seen.schedule = monitor.schedule
    BY <1>1 DEF Loaded
  <2>6. ASSUME monitor.applied = monitor.desired, monitor.status = "active"
        PROVE  effect = crons
    <3>1. c = monitor.cron /\ crons[c].enabled /\ crons[c].schedule = monitor.schedule
      BY <1>1, <2>6 DEF Followed
    <3>2. e = TRUE
      BY <2>1, <2>5, <2>6 DEF EnabledFor
    <3>3. [crons[c] EXCEPT !.schedule = seen.schedule, !.enabled = e] = crons[c]
      BY <1>1, <2>5, <2>6, <3>1, <3>2 DEF Cron
    <3> QED
      BY <1>1, <2>3, <3>3
  <2>7. ASSUME monitor.applied = monitor.desired,
               monitor.status \in {"paused", "disabled"}
        PROVE  \A d \in CronIds : ~effect[d].enabled /\ ~crons[d].enabled
    <3>1. e = FALSE
      BY <2>1, <2>5, <2>7 DEF EnabledFor
    <3>2. \A d \in CronIds : ~crons[d].enabled
      BY <2>7 DEF Followed
    <3> QED
      BY <2>4, <3>1, <3>2
  <2> HIDE DEF effect
  <2>8. /\ crons' \in [CronIds -> Cron]
        /\ \A d \in CronIds : crons'[d].exists = crons[d].exists
        /\ \A d \in CronIds : d # c => crons'[d] = crons[d]
    BY <2>2, <2>4, RemoteCallCases
  <2>9. OneCron'
    BY <1>1, <1>3, <2>8 DEF OneCron
  <2>10. /\ monitor.applied = monitor.desired /\ monitor.status = "active" =>
               crons' = crons
         /\ monitor.applied = monitor.desired /\ monitor.status \in {"paused", "disabled"}
               => \A d \in CronIds : ~crons'[d].enabled
    <3>1. crons' = crons \/ crons' = effect
      BY <2>2, RemoteCallCases
    <3> QED
      BY <2>6, <2>7, <3>1 DEF Followed
  <2>11. UNCHANGED <<monitor, cronCommands>>
    BY <2>2, RemoteCallCases
  <2>12. CASE Answers(w, "fail", cronWorker[w].cron)
    BY <1>1, <2>8, <2>9, <2>10, <2>11, <2>12, CallKeeps
  <2>13. CASE /\ crons' = effect
              /\ Answers(w, "succeed", c)
    BY <1>1, <1>3, <2>1, <2>4, <2>8, <2>9, <2>10, <2>11, <2>13, CallKeeps
  <2>14. \/ Answers(w, "fail", cronWorker[w].cron)
         \/ /\ crons' = effect
            /\ Answers(w, "succeed", c)
    BY <2>2, RemoteCallCases
  <2> QED
    BY <2>12, <2>13, <2>14
<1> QED
  BY <1>2, <1>3

LEMMA DeleteCronKeeps ==
    ASSUME NEW w, MonitorInv(w), DeleteCron(w) PROVE MonitorInv(w)'
<1> USE DEF MonitorInv, MonitorTypeOK
<1> DEFINE c == cronWorker[w].cron
<1>1. /\ cronWorker[w] \in CronWorkerState /\ cronWorker[w].pc = "delete"
      /\ c \in CronIds /\ c \in Nat /\ NoCron \in Nat
      /\ TypeOf(w) = "delete"
  BY DEF DeleteCron, CallsOK, CronWorkerState, Monitor, CronIds, NoCron
<1>2. CASE ~crons[c].exists
  BY <1>1, <1>2, GoneKeeps DEF DeleteCron
<1>3. CASE crons[c].exists
  <2>1. PICK f : f = FALSE
    OBVIOUS
  <2> DEFINE effect == [crons EXCEPT ![c] = [crons[c] EXCEPT !.exists = f, !.enabled = f]]
  <2>2. RemoteCall(w, effect, NoCron, "succeed")
    <3>1. [crons EXCEPT ![c].exists = FALSE, ![c].enabled = FALSE] = effect
      BY <1>1, <2>1
    <3> QED
      BY <1>3, <3>1 DEF DeleteCron
  <2>3. /\ effect \in [CronIds -> Cron]
        /\ ~effect[c].enabled /\ ~effect[c].exists
        /\ \A d \in CronIds : d # c => effect[d] = crons[d]
    BY <1>1, <2>1 DEF Cron
  <2>4. \A d \in CronIds : ~effect[d].enabled /\ ~effect[d].exists
    BY <1>1, <1>3, <2>3 DEF OneCron
  <2>5. ~(monitor.applied = monitor.desired /\ monitor.status = "active")
    BY <1>1 DEF Followed
  <2> HIDE DEF effect
  <2>6. crons' \in [CronIds -> Cron] /\ OneCron'
    BY <2>2, <2>3, <2>4, RemoteCallCases DEF OneCron
  <2>7. monitor.applied = monitor.desired /\ monitor.status \in {"paused", "disabled"}
           => \A d \in CronIds : ~crons'[d].enabled
    BY <2>2, <2>4, RemoteCallCases DEF Followed
  <2>8. UNCHANGED <<monitor, cronCommands>>
    BY <2>2, RemoteCallCases
  <2>9. CASE Answers(w, "fail", cronWorker[w].cron)
    BY <1>1, <2>5, <2>6, <2>7, <2>8, <2>9, CallKeeps
  <2>10. CASE /\ crons' = effect
              /\ Answers(w, "succeed", NoCron)
    BY <1>1, <2>4, <2>5, <2>6, <2>7, <2>8, <2>10, CallKeeps
  <2>11. \/ Answers(w, "fail", cronWorker[w].cron)
         \/ /\ crons' = effect
            /\ Answers(w, "succeed", NoCron)
    BY <2>2, RemoteCallCases
  <2> QED
    BY <2>9, <2>10, <2>11
<1> QED
  BY <1>2, <1>3

LEMMA FinishedCommands ==
    ASSUME NEW w, MonitorInv(w), cronWorker[w].pc # "idle",
           NEW status \in {"pending", "succeeded", "failed"}, FinishCron(w, status)
    PROVE  /\ cronCommands' \in Seq(CronCommand)
           /\ Len(cronCommands') = Len(cronCommands)
           /\ \A n \in DOMAIN cronCommands : cronCommands'[n].type = cronCommands[n].type
<1> USE DEF MonitorInv, MonitorTypeOK
<1> DEFINE n == cronWorker[w].command
<1>1. n \in DOMAIN cronCommands /\ cronCommands[n] \in CronCommand
  BY DEF Loaded
<1>2. PICK retried \in BOOLEAN : retried = (status = "pending")
  OBVIOUS
<1>3. cronCommands' = [cronCommands EXCEPT ![n] =
         [cronCommands[n] EXCEPT !.status = status, !.owner = NoWorker,
                                 !.lease = "none", !.retried = retried]]
  BY <1>2 DEF FinishCron
<1>4. [cronCommands[n] EXCEPT !.status = status, !.owner = NoWorker,
                              !.lease = "none", !.retried = retried] \in CronCommand
  BY <1>1 DEF CronCommand, Holder, LeaseState
<1>5. [cronCommands[n] EXCEPT !.status = status, !.owner = NoWorker,
            !.lease = "none", !.retried = retried].type = cronCommands[n].type
  BY <1>1 DEF CronCommand
<1> HIDE DEF n
<1> QED
  BY <1>1, <1>3, <1>4, <1>5

LEMMA CronIdleTyped == CronIdle \in CronWorkerState /\ CronIdle.pc = "idle"
BY DEF NewMonitor, Monitor, CronIdle, CronWorkerState, NoCron

\* the success of the newest command makes the monitor and the Cron agree; the
\* success of an older one finds them so
LEMMA RecordSuccessKeeps ==
    ASSUME NEW w, MonitorInv(w), RecordSuccess(w) PROVE MonitorInv(w)'
<1> USE DEF MonitorInv, MonitorTypeOK
<1> DEFINE n == cronWorker[w].command
           seen == cronWorker[w].seen
<1>1. /\ cronWorker[w] \in CronWorkerState /\ cronWorker[w].pc = "succeed"
      /\ n \in DOMAIN cronCommands /\ n \in Nat /\ n >= 1
      /\ crons' = crons /\ cronWorker' = [cronWorker EXCEPT ![w] = CronIdle]
      /\ cronWorker'[w] \in CronWorkerState /\ cronWorker'[w].pc = "idle"
      /\ cronWorker' = [cronWorker EXCEPT ![w] = cronWorker'[w]]
  BY CronIdleTyped DEF RecordSuccess, Loaded
<1>2. CASE ~OwnsCronLease(w)
  <2>1. UNCHANGED <<monitor, cronCommands>>
    BY <1>2 DEF RecordSuccess
  <2> QED
    BY <1>1, <2>1, LeasesKeep
<1>3. CASE OwnsCronLease(w)
  <2>1. /\ cronCommands' \in Seq(CronCommand)
        /\ Len(cronCommands') = Len(cronCommands)
        /\ \A m \in DOMAIN cronCommands : cronCommands'[m].type = cronCommands[m].type
    BY <1>1, <1>3, FinishedCommands DEF RecordSuccess
  <2>2. PICK s \in {"draft", "active", "paused", "degraded", "disabled"} :
           s = IF monitor.status = "draft" THEN "active" ELSE monitor.status
    BY DEF Monitor
  <2>3. PICK a \in Nat : a = IF monitor.applied > n THEN monitor.applied ELSE n
    BY <1>1 DEF Monitor
  <2>4. monitor' = [monitor EXCEPT !.cron = cronWorker[w].cron, !.status = s, !.applied = a]
    BY <1>3, <2>2, <2>3 DEF RecordSuccess
  <2>5. /\ monitor'.cron = cronWorker[w].cron /\ monitor'.status = s
        /\ monitor'.applied = a /\ monitor'.desired = monitor.desired
        /\ monitor'.schedule = monitor.schedule
        /\ monitor' \in Monitor
        /\ monitor.desired \in Nat /\ monitor.applied \in Nat
    BY <1>1, <2>4 DEF Monitor, CronWorkerState
  <2>6. DOMAIN cronCommands' = DOMAIN cronCommands
        /\ DOMAIN cronCommands = 1..Len(cronCommands)
    BY <2>1
  <2>7. seen.desired \in Nat /\ n <= seen.desired /\ seen.desired <= monitor.desired
    BY <1>1 DEF Loaded, CronWorkerState, Monitor
  <2>8. cronWorker'[w].pc = "idle" /\ Loaded(w)' /\ CallsOK(w)'
    BY <1>1 DEF Loaded, CallsOK
  <2>9. CASE TypeOf(w) = "delete"
    <3>1. /\ \A c \in CronIds : ~crons[c].exists /\ ~crons[c].enabled
          /\ cronWorker[w].cron = NoCron
      BY <1>1, <2>9 DEF CallsOK, OneCron
    <3>2. s = "disabled" /\ monitor.status = "disabled"
      BY <1>1, <2>2, <2>9 DEF RevisionsOK, TypeOf
    <3>3. Followed(w)'
      BY <1>1, <2>5, <3>1, <3>2 DEF Followed
    <3>4. a <= monitor.desired
      BY <1>1, <2>3, <2>5, <2>6 DEF RevisionsOK
    <3>5. RevisionsOK'
      BY <2>1, <2>5, <2>6, <3>1, <3>2, <3>4 DEF RevisionsOK
    <3> QED
      BY <1>1, <2>1, <2>5, <2>8, <3>3, <3>5 DEF OneCron
  <2>10. CASE TypeOf(w) # "delete"
    <3>1. Brought(w)
      BY <1>1, <2>10 DEF CallsOK
    <3>2. a <= monitor.desired
      BY <1>1, <2>3, <2>5, <2>6 DEF RevisionsOK
    <3>3. RevisionsOK'
      <4>1. cronWorker[w].cron \in CronIds
        BY <3>1 DEF Brought
      <4>2. s = "draft" => monitor.desired = 1
        BY <2>2
      <4>3. \A m \in DOMAIN cronCommands : cronCommands[m].type = "delete" => s = "disabled"
        BY <2>2 DEF RevisionsOK
      <4> QED
        BY <2>1, <2>5, <2>6, <3>2, <4>1, <4>2, <4>3 DEF RevisionsOK
    <3>4. ASSUME a = monitor.desired PROVE n = monitor.desired \/ monitor.applied = monitor.desired
      BY <2>3, <3>4
    <3>5. ASSUME a = monitor.desired, s = "active"
          PROVE  /\ cronWorker[w].cron \in CronIds
                 /\ crons[cronWorker[w].cron].exists
                 /\ crons[cronWorker[w].cron].enabled
                 /\ crons[cronWorker[w].cron].schedule = monitor.schedule
      <4>1. seen.desired = monitor.desired
        BY <1>1, <2>5, <2>7, <3>4, <3>5 DEF Loaded
      <4>2. seen.schedule = monitor.schedule /\ seen.status = monitor.status
        BY <1>1, <4>1 DEF Loaded
      <4>3. EnabledFor(seen.status)
        BY <2>2, <3>5, <4>2 DEF EnabledFor
      <4> QED
        BY <3>1, <4>2, <4>3 DEF Brought
    <3>6. ASSUME a = monitor.desired, s \in {"paused", "disabled"}, NEW c \in CronIds
          PROVE  ~crons[c].enabled
      <4>1. seen.desired = monitor.desired
        BY <1>1, <2>5, <2>7, <3>4, <3>6 DEF Loaded
      <4>2. seen.status = monitor.status
        BY <1>1, <4>1 DEF Loaded
      <4>3. ~EnabledFor(seen.status)
        BY <2>2, <3>6, <4>2 DEF EnabledFor
      <4> QED
        BY <3>1, <4>3 DEF Brought, OneCron
    <3>7. Followed(w)'
      BY <1>1, <2>5, <3>5, <3>6 DEF Followed
    <3> QED
      BY <1>1, <2>1, <2>5, <2>8, <3>3, <3>7 DEF OneCron
  <2> QED
    BY <2>9, <2>10
<1> QED
  BY <1>2, <1>3

LEMMA RecordFailureKeeps ==
    ASSUME NEW w, MonitorInv(w), RecordFailure(w) PROVE MonitorInv(w)'
<1> USE DEF MonitorInv, MonitorTypeOK
<1>1. /\ cronWorker[w].pc # "idle"
      /\ crons' = crons /\ cronWorker' = [cronWorker EXCEPT ![w] = CronIdle]
      /\ cronWorker'[w] \in CronWorkerState /\ cronWorker'[w].pc = "idle"
      /\ cronWorker' = [cronWorker EXCEPT ![w] = cronWorker'[w]]
  BY CronIdleTyped DEF RecordFailure
<1>2. CASE monitor' = monitor
  <2>1. /\ cronCommands' \in Seq(CronCommand)
        /\ Len(cronCommands') = Len(cronCommands)
        /\ \A m \in DOMAIN cronCommands : cronCommands'[m].type = cronCommands[m].type
    <3>1. CASE cronCommands' = cronCommands
      BY <3>1
    <3>2. CASE \E status \in {"pending", "failed"} : FinishCron(w, status)
      BY <1>1, <3>2, FinishedCommands
    <3> QED
      BY <3>1, <3>2 DEF RecordFailure
  <2> QED
    BY <1>1, <1>2, <2>1, LeasesKeep
<1>3. CASE monitor' # monitor
  <2>1. PICK s \in {"degraded", "disabled"} :
           s = IF monitor.status = "disabled" THEN monitor.status ELSE "degraded"
    OBVIOUS
  <2>2. monitor' = [monitor EXCEPT !.status = s] /\ FinishCron(w, "failed")
    BY <1>3, <2>1 DEF RecordFailure
  <2>3. /\ cronCommands' \in Seq(CronCommand)
        /\ Len(cronCommands') = Len(cronCommands)
        /\ \A m \in DOMAIN cronCommands : cronCommands'[m].type = cronCommands[m].type
        /\ DOMAIN cronCommands' = DOMAIN cronCommands
    BY <1>1, <2>2, FinishedCommands
  <2>4. /\ monitor' \in Monitor /\ monitor'.status = s
        /\ monitor'.desired = monitor.desired /\ monitor'.applied = monitor.applied
        /\ monitor'.cron = monitor.cron
    BY <2>2 DEF Monitor
  <2>5. RevisionsOK'
    BY <2>1, <2>3, <2>4 DEF RevisionsOK
  <2>6. Followed(w)'
    BY <1>1, <2>1, <2>4 DEF Followed
  <2>7. Loaded(w)' /\ CallsOK(w)'
    BY <1>1 DEF Loaded, CallsOK
  <2> QED
    BY <1>1, <2>3, <2>4, <2>5, <2>6, <2>7 DEF OneCron
<1> QED
  BY <1>2, <1>3

LEMMA MonitorNextInv ==
    ASSUME NEW w, w \in Workers
    PROVE  MonitorInv(w) /\ [MonitorNext]_monitorVars => MonitorInv(w)'
<1> SUFFICES ASSUME MonitorInv(w), [MonitorNext]_monitorVars PROVE MonitorInv(w)'
  OBVIOUS
<1>1. CronWorkers = {w}
  BY DEF MonitorInv
<1>2. CASE UNCHANGED monitorVars
  BY <1>2 DEF monitorVars, MonitorInv, MonitorTypeOK, RevisionsOK, OneCron, Loaded,
     CallsOK, Followed, TypeOf, Brought
<1>3. CASE CronStep(w)
  BY <1>3, LeaseStepsKeep, LoadKeeps, SearchKeeps, CreateCronKeeps, AdoptCronKeeps,
     UpdateCronKeeps, DeleteCronKeeps, RecordSuccessKeeps, RecordFailureKeeps
     DEF CronStep
<1> QED
  BY <1>1, <1>2, <1>3, UserKeeps, LeaseStepsKeep DEF MonitorNext

\* Whatever fails, is retried or crashes, once every command of a monitor ended and
\* the newest was applied, the remote Cron is the one the monitor asks for
\* (CronFollowsMonitor), if one worker applies the commands.
THEOREM CronFollowsMonitorHolds ==
    ASSUME NEW w \in Workers, CronWorkers = {w}
    PROVE  MonitorSafety => []CronFollowsMonitor
<1>1. MonitorInit => MonitorInv(w)
  BY MonitorInitInv
<1>2. MonitorInv(w) => CronFollowsMonitor
  <2> SUFFICES ASSUME MonitorInv(w) PROVE CronFollowsMonitor
    OBVIOUS
  <2>1. ASSUME monitor.applied = monitor.desired, monitor.status = "active"
        PROVE  /\ Cardinality(BindingMatches) = 1
               /\ monitor.cron \in BindingMatches
               /\ crons[monitor.cron].enabled
               /\ crons[monitor.cron].schedule = monitor.schedule
    BY <2>1, NoneOrOne DEF MonitorInv, Followed
  <2> QED
    BY <2>1 DEF CronFollowsMonitor, MonitorInv, Followed
<1> QED
  BY <1>1, <1>2, MonitorNextInv, PTL DEF MonitorSafety

-----------------------------------------------------------------------------
(***************************************************************************)
(* Nobody is pushed a notification twice without having asked for it, for  *)
(* every number of workers, of attempts and of lost leases, but for a push *)
(* that Bark accepted and the adapter reported as a retryable failure.     *)
(*                                                                         *)
(* The inductive invariant is stated over values (a row o, its attempts a, *)
(* a set acc of accepted pushes, a sender s), because a claim recovers and *)
(* terminalizes the row before it takes it: the same facts hold of the     *)
(* rows in between, which no state contains.  The set is that of the       *)
(* accepted pushes whose acceptance nobody denied: a misreported push      *)
(* leaves it, and every part of the invariant holds of a smaller set too.  *)
(***************************************************************************)
Unexcused == accepted \ misreported

\* an attempt that failed without an acceptance that counts
Plain(a, acc, n) == a[n].result = "failed_retryable" /\ n \notin acc

\* the row, its lease and the numbering of its attempts
RowShape(o, a, acc) ==
    /\ o \in OutboxRow
    /\ a \in [PushNumbers -> AttemptRow]
    /\ acc \subseteq PushNumbers
    /\ o.status \in {"leased", "sending"} <=> o.owner # NoWorker
    /\ o.lease = "none" <=> o.owner = NoWorker
    /\ \A n \in PushNumbers : a[n].result = "absent" <=> n > o.attempts
    /\ \A n \in PushNumbers : a[n].result = "sending"
                              <=> n = o.attempts /\ o.status = "sending"
    /\ o.status = "sending" => /\ o.attempts \in PushNumbers
                               /\ a[o.attempts].owner = o.owner
                               /\ a[o.attempts].fence = o.fence
    /\ o.status = "absent" => o.attempts = 0
    /\ \A n \in acc : n <= o.attempts

\* a row that waits for an automatic push has only plain attempts behind it,
\* and so has an automatic push under way
OnlyPlainBehind(o, a, acc) ==
    /\ ~o.manual /\ o.status \in {"planned", "failed_retryable", "leased"} =>
           \A n \in PushNumbers : n <= o.attempts => Plain(a, acc, n)
    /\ o.status = "sending" /\ a[o.attempts].trigger = "automatic" =>
           \A n \in PushNumbers : n < o.attempts => Plain(a, acc, n)

\* a resend is asked for while there is no manual attempt
ManualOpen(o, a) == o.manual => \A n \in PushNumbers : a[n].trigger # "manual"

Unasked(a, acc) ==
    /\ \A n, k \in PushNumbers :
           (/\ n < k
            /\ a[n].result = "unknown" \/ n \in acc
            /\ a[k].result # "absent") => a[k].trigger = "manual"
    /\ \A n, k \in PushNumbers :
           a[n].trigger = "manual" /\ a[k].trigger = "manual" => n = k

RowOK(o, a, acc) ==
    RowShape(o, a, acc) /\ OnlyPlainBehind(o, a, acc) /\ ManualOpen(o, a) /\ Unasked(a, acc)

Owning(s, w, o) == o.owner = w /\ o.fence = s.fence

\* the push of a sender is the one the row waits for, and not accepted unless
\* the sender knows that it was or that nobody can tell
Pushing(s, w, o, a, acc) ==
    /\ Owning(s, w, o)
    /\ o.status = "sending"
    /\ s.number = o.attempts
    /\ a[s.number].trigger = s.trigger
    /\ \/ s.pc = "answered" /\ s.report \in {"delivered", "uncertain"}
       \/ s.number \notin acc

SenderOK(s, w, o, a, acc) ==
    /\ s \in Sender
    /\ s.pc = "claimed" /\ Owning(s, w, o) /\ o.status = "leased" =>
           (s.trigger = "manual" <=> o.manual)
    /\ s.pc \in {"sending", "answered"} =>
           /\ s.number \in PushNumbers
           /\ s.number <= o.attempts
           /\ \/ a[s.number].result = "unknown" /\ ~Owning(s, w, o)
              \/ Pushing(s, w, o, a, acc)

SendersOK(V, o, a, acc) == \A w \in V : SenderOK(sender[w], w, o, a, acc)

OutboxInv ==
    /\ RowOK(outbox, attempt, Unexcused)
    /\ sender \in [Workers -> Sender]
    /\ SendersOK(Workers, outbox, attempt, Unexcused)

-----------------------------------------------------------------------------
(* The rows between the statements of a claim. *)

LEMMA NotSendingOK ==
    ASSUME NEW w \in Workers, NEW o, NEW a, NEW acc
    PROVE  SenderOK(NotSending, w, o, a, acc)
BY OutboxAssumption DEF SenderOK, NotSending, Sender, DeliveryReport

\* A sender that holds the row neither before nor after keeps its fact as long
\* as unknown attempts stay unknown and the attempts do not become fewer.
LEMMA BystanderOK ==
    ASSUME NEW w \in Workers, NEW s, NEW o \in OutboxRow, NEW a, NEW acc,
           NEW o2 \in OutboxRow, NEW a2, NEW acc2,
           SenderOK(s, w, o, a, acc),
           o.owner # w, o2.owner # w,
           o.attempts <= o2.attempts,
           \A n \in PushNumbers : a[n].result = "unknown" => a2[n].result = "unknown"
    PROVE  SenderOK(s, w, o2, a2, acc2)
BY DEF SenderOK, Pushing, Owning, OutboxRow, PushNumbers

\* the lease ends without a report
LEMMA LeaseEnds ==
    ASSUME NEW acc, NEW V \in SUBSET Workers,
           RowOK(outbox, attempt, acc), SendersOK(V, outbox, attempt, acc),
           outbox.status \in {"leased", "sending"}
    PROVE  /\ RowOK(EndSendLease.row, EndSendLease.attempt, acc)
           /\ SendersOK(V, EndSendLease.row, EndSendLease.attempt, acc)
           /\ EndSendLease.row.owner = NoWorker
           /\ EndSendLease.row.attempts = outbox.attempts
<1> DEFINE r == EndSendLease.row
           a == EndSendLease.attempt
<1> USE OutboxAssumption
<1>1. CASE outbox.status = "sending"
  <2>1. r = ClearSendLease(outbox, "unknown") /\ a = ActiveAttemptAs("unknown")
    BY <1>1 DEF EndSendLease
  <2>2. outbox.attempts \in PushNumbers /\ IsActiveAttempt(outbox.attempts)
    BY <1>1 DEF RowOK, RowShape, IsActiveAttempt
  <2>3. /\ r \in OutboxRow
        /\ r.status = "unknown" /\ r.owner = NoWorker /\ r.lease = "none"
        /\ r.attempts = outbox.attempts /\ r.manual = outbox.manual
    BY <2>1 DEF RowOK, RowShape, ClearSendLease, OutboxRow, NotificationStatus, Holder,
                LeaseState
  <2>4. /\ a \in [PushNumbers -> AttemptRow]
        /\ a[outbox.attempts].result = "unknown"
        /\ \A n \in PushNumbers : n # outbox.attempts => a[n] = attempt[n]
        /\ \A n \in PushNumbers : a[n].trigger = attempt[n].trigger
    BY <2>1, <2>2 DEF RowOK, RowShape, ActiveAttemptAs, IsActiveAttempt, AttemptRow
  <2>5. RowShape(r, a, acc)
    BY <1>1, <2>2, <2>3, <2>4 DEF RowOK, RowShape, PushNumbers, OutboxRow
  <2>6. OnlyPlainBehind(r, a, acc) /\ ManualOpen(r, a)
    BY <2>3, <2>4 DEF RowOK, OnlyPlainBehind, ManualOpen
  <2>7. Unasked(a, acc)
    <3>1. \A k \in PushNumbers : a[k].result # "absent" => k <= outbox.attempts
      BY <2>3, <2>5 DEF RowShape, PushNumbers, OutboxRow
    <3>2. \A k \in PushNumbers : a[k].result # "absent" => attempt[k].result # "absent"
      BY <3>1, <2>4 DEF RowOK, RowShape, PushNumbers, OutboxRow
    <3>3. \A n, k \in PushNumbers :
             n < k /\ k <= outbox.attempts => a[n] = attempt[n]
      BY <2>4 DEF PushNumbers, RowOK, RowShape, OutboxRow
    <3> QED BY <3>1, <3>2, <3>3, <2>4 DEF RowOK, Unasked
  <2>8. SendersOK(V, r, a, acc)
    <3> SUFFICES ASSUME NEW w \in V
                 PROVE  SenderOK(sender[w], w, r, a, acc)
      BY DEF SendersOK
    <3>1. SenderOK(sender[w], w, outbox, attempt, acc)
      BY DEF SendersOK
    <3>2. w # NoWorker
      BY WorkerAssumption
    <3>3. \A n \in PushNumbers : attempt[n].result = "unknown" => a[n].result = "unknown"
      BY <2>4
    <3>4. r.attempts = outbox.attempts /\ r.owner # w
      BY <2>3, <3>2
    <3>5. CASE sender[w].pc \in {"sending", "answered"}
      <4>1. /\ sender[w].number \in PushNumbers /\ sender[w].number <= outbox.attempts
            /\ \/ attempt[sender[w].number].result = "unknown"
               \/ sender[w].number = outbox.attempts
        BY <3>1, <3>5 DEF SenderOK, Pushing
      <4>2. a[sender[w].number].result = "unknown"
        BY <4>1, <3>3, <2>4
      <4> QED BY <4>1, <4>2, <3>1, <3>4, <3>5 DEF SenderOK, Owning
    <3>6. CASE sender[w].pc \notin {"sending", "answered"}
      BY <3>1, <3>4, <3>6 DEF SenderOK, Owning
    <3> QED BY <3>5, <3>6
  <2> QED BY <2>3, <2>5, <2>6, <2>7, <2>8 DEF RowOK
<1>2. CASE outbox.status = "leased"
  <2>1. r = ReleaseWithoutSend(outbox) /\ a = attempt
    BY <1>2 DEF EndSendLease
  <2>2. /\ r \in OutboxRow
        /\ r.status \in {"failed_terminal", "failed_retryable"}
        /\ r.owner = NoWorker /\ r.lease = "none"
        /\ r.attempts = outbox.attempts /\ r.manual = outbox.manual
    <3>1. outbox \in OutboxRow
      BY DEF RowOK, RowShape
    <3>2. CASE r = ClearSendLease(outbox, "failed_terminal")
      BY <3>1, <3>2 DEF ClearSendLease, OutboxRow, NotificationStatus, Holder, LeaseState
    <3>3. CASE r = [ClearSendLease(outbox, "failed_retryable") EXCEPT !.available = TRUE]
      BY <3>1, <3>3 DEF ClearSendLease, OutboxRow, NotificationStatus, Holder, LeaseState
    <3> QED BY <2>1, <3>2, <3>3 DEF ReleaseWithoutSend
  <2>3. RowOK(r, a, acc)
    <3>1. RowShape(r, a, acc)
      BY <1>2, <2>1, <2>2 DEF RowOK, RowShape
    <3>2. OnlyPlainBehind(r, a, acc)
      BY <1>2, <2>1, <2>2 DEF RowOK, OnlyPlainBehind
    <3>3. ManualOpen(r, a) /\ Unasked(a, acc)
      BY <2>1, <2>2 DEF RowOK, ManualOpen
    <3> QED BY <3>1, <3>2, <3>3 DEF RowOK
  <2>4. SendersOK(V, r, a, acc)
    <3> SUFFICES ASSUME NEW w \in V
                 PROVE  SenderOK(sender[w], w, r, a, acc)
      BY DEF SendersOK
    <3>1. SenderOK(sender[w], w, outbox, attempt, acc)
      BY DEF SendersOK
    <3> QED BY <1>2, <3>1, <2>1, <2>2, WorkerAssumption DEF SenderOK, Pushing, Owning
  <2> QED BY <2>2, <2>3, <2>4
<1> QED BY <1>1, <1>2

LEMMA RecoveredOK ==
    ASSUME RowOK(outbox, attempt, Unexcused), SendersOK(Workers, outbox, attempt, Unexcused)
    PROVE  /\ RowOK(RecoveredNotification.row, RecoveredNotification.attempt, Unexcused)
           /\ SendersOK(Workers, RecoveredNotification.row, RecoveredNotification.attempt, Unexcused)
<1>1. CASE outbox.status \in {"leased", "sending"} /\ outbox.lease = "due"
  BY <1>1, LeaseEnds DEF RecoveredNotification
<1>2. CASE ~(outbox.status \in {"leased", "sending"} /\ outbox.lease = "due")
  <2>1. /\ RecoveredNotification.row = outbox
        /\ RecoveredNotification.attempt = attempt
    BY <1>2 DEF RecoveredNotification
  <2> QED BY <2>1
<1> QED BY <1>1, <1>2

\* a row that is not held may go to its end without a push
LEMMA UnheldEndsOK ==
    ASSUME NEW r, NEW a, RowOK(r, a, Unexcused), SendersOK(Workers, r, a, Unexcused),
           r.status \notin {"leased", "sending"}
    PROVE  /\ RowOK(ClearSendLease(r, "failed_terminal"), a, Unexcused)
           /\ SendersOK(Workers, ClearSendLease(r, "failed_terminal"), a, Unexcused)
<1> DEFINE t == ClearSendLease(r, "failed_terminal")
<1>1. r \in OutboxRow
  BY DEF RowOK, RowShape
<1>2. /\ t \in OutboxRow /\ t.status = "failed_terminal"
      /\ t.owner = NoWorker /\ t.lease = "none"
      /\ t.attempts = r.attempts /\ t.manual = r.manual
  BY <1>1 DEF ClearSendLease, OutboxRow, NotificationStatus, Holder, LeaseState
<1>3. RowShape(t, a, Unexcused)
  BY <1>2 DEF RowOK, RowShape
<1>4. OnlyPlainBehind(t, a, Unexcused)
  BY <1>2 DEF OnlyPlainBehind
<1>5. ManualOpen(t, a) /\ Unasked(a, Unexcused)
  BY <1>2 DEF RowOK, ManualOpen
<1>6. SendersOK(Workers, t, a, Unexcused)
  BY <1>2, WorkerAssumption DEF SendersOK, SenderOK, Pushing, Owning
<1> QED BY <1>3, <1>4, <1>5, <1>6 DEF RowOK

LEMMA TerminalizedOK ==
    ASSUME NEW r, NEW a, RowOK(r, a, Unexcused), SendersOK(Workers, r, a, Unexcused)
    PROVE  /\ RowOK(TerminalizedNotification(r), a, Unexcused)
           /\ SendersOK(Workers, TerminalizedNotification(r), a, Unexcused)
<1>1. CASE r.status \in {"planned", "failed_retryable"} /\ retryWindow = "closed"
  BY <1>1, UnheldEndsOK DEF TerminalizedNotification
<1>2. CASE ~(r.status \in {"planned", "failed_retryable"} /\ retryWindow = "closed")
  BY <1>2 DEF TerminalizedNotification
<1> QED BY <1>1, <1>2

\* a row that may be pushed is taken under a new lease
LEMMA ClaimedOK ==
    ASSUME NEW w \in Workers, NEW r, NEW trigger \in {"automatic", "manual"},
           sender \in [Workers -> Sender],
           RowOK(r, attempt', Unexcused), SendersOK(Workers, r, attempt', Unexcused),
           r.status \in {"planned"} \cup Resendable,
           trigger = "manual" <=> r.manual,
           ~r.manual => r.status \in {"planned", "failed_retryable"},
           r.attempts < MaxPushes,
           ClaimLockedNotification(w, r, trigger), UNCHANGED Unexcused
    PROVE  OutboxInv'
<1> DEFINE a == attempt'
           n == [pc |-> "claimed", fence |-> r.fence + 1, number |-> r.attempts + 1,
                 trigger |-> trigger, report |-> "none"]
<1> USE OutboxAssumption
<1>1. r \in OutboxRow /\ r.owner = NoWorker
  BY DEF RowOK, RowShape, Resendable
<1>2. /\ outbox' \in OutboxRow /\ outbox'.status = "leased"
      /\ outbox'.owner = w /\ outbox'.lease = "valid"
      /\ outbox'.attempts = r.attempts /\ outbox'.manual = r.manual
  <2>1. r.fence + 1 \in Nat
    BY <1>1 DEF OutboxRow
  <2>2. outbox' = [r EXCEPT !.status = "leased", !.fence = r.fence + 1, !.owner = w,
                           !.lease = "valid"]
    BY DEF ClaimLockedNotification
  <2>3. [r EXCEPT !.status = "leased", !.fence = r.fence + 1, !.owner = w,
                  !.lease = "valid"] \in OutboxRow
    BY <1>1, <2>1 DEF OutboxRow, NotificationStatus, Holder, LeaseState
  <2> QED BY <1>1, <2>2, <2>3 DEF OutboxRow
<1>3. n \in Sender
  BY <1>1 DEF Sender, DeliveryReport, OutboxRow
<1>4. sender' \in [Workers -> Sender] /\ sender'[w] = n
      /\ \A v \in Workers : v # w => sender'[v] = sender[v]
  BY <1>3 DEF ClaimLockedNotification
<1>5. RowShape(outbox', a, Unexcused)
  BY <1>1, <1>2, WorkerAssumption DEF RowOK, RowShape, Resendable
<1>6. OnlyPlainBehind(outbox', a, Unexcused)
  BY <1>2 DEF RowOK, OnlyPlainBehind
<1>7. ManualOpen(outbox', a) /\ Unasked(a, Unexcused)
  BY <1>2 DEF RowOK, ManualOpen
<1>8. ASSUME NEW v \in Workers PROVE SenderOK(sender'[v], v, outbox', a, Unexcused)
  <2>1. CASE v = w
    BY <1>2, <1>3, <1>4, <2>1 DEF SenderOK
  <2>2. CASE v # w
    <3>1. SenderOK(sender[v], v, r, a, Unexcused)
      BY DEF SendersOK
    <3>2. r.attempts <= outbox'.attempts /\ r.owner # v /\ outbox'.owner # v
      BY <1>1, <1>2, <2>2, WorkerAssumption DEF OutboxRow
    <3>3. SenderOK(sender[v], v, outbox', a, Unexcused)
      BY <1>1, <1>2, <3>1, <3>2 DEF SenderOK, Pushing, Owning
    <3> QED BY <3>3, <1>4, <2>2
  <2> QED BY <2>1, <2>2
<1> QED BY <1>4, <1>5, <1>6, <1>7, <1>8 DEF OutboxInv, RowOK, SendersOK

-----------------------------------------------------------------------------
(* The steps. *)

\* a step that changes neither attempts nor senders, and of the row only its
\* availability, the state of its lease, or its end while nobody holds it
LEMMA RowUntouched ==
    ASSUME OutboxInv, outbox' \in OutboxRow,
           outbox'.status = outbox.status, outbox'.owner = outbox.owner,
           outbox'.fence = outbox.fence, outbox'.manual = outbox.manual,
           outbox'.attempts = outbox.attempts,
           outbox'.lease = "none" <=> outbox.lease = "none",
           UNCHANGED <<attempt, Unexcused, sender>>
    PROVE  OutboxInv'
<1>1. RowShape(outbox', attempt, Unexcused)
  BY DEF OutboxInv, RowOK, RowShape
<1>2. OnlyPlainBehind(outbox', attempt, Unexcused) /\ ManualOpen(outbox', attempt)
  BY DEF OutboxInv, RowOK, OnlyPlainBehind, ManualOpen
<1>3. SendersOK(Workers, outbox, attempt, Unexcused)'
  BY DEF OutboxInv, SendersOK, SenderOK, Pushing, Owning
<1> QED BY <1>1, <1>2, <1>3 DEF OutboxInv, RowOK

LEMMA Planned ==
    ASSUME OutboxInv, PlanNotification PROVE OutboxInv'
<1> USE OutboxAssumption DEF OutboxInv
<1>1. /\ outbox' \in OutboxRow /\ outbox'.status = "planned"
      /\ outbox'.owner = outbox.owner /\ outbox'.lease = outbox.lease
      /\ outbox'.manual = outbox.manual /\ outbox'.attempts = outbox.attempts
      /\ outbox.status = "absent"
      /\ UNCHANGED <<attempt, Unexcused, sender>>
  BY DEF PlanNotification, RowOK, RowShape, OutboxRow, NotificationStatus, Unexcused
<1>2. RowShape(outbox', attempt, Unexcused)
  BY <1>1 DEF RowOK, RowShape
<1>3. OnlyPlainBehind(outbox', attempt, Unexcused)
  BY <1>1 DEF RowOK, RowShape, OnlyPlainBehind, PushNumbers
<1>4. ManualOpen(outbox', attempt)
  BY <1>1 DEF RowOK, ManualOpen
<1>5. \A w \in Workers : SenderOK(sender[w], w, outbox', attempt, Unexcused)
  BY <1>1, WorkerAssumption DEF SendersOK, SenderOK, Pushing, Owning, RowOK, RowShape
<1> QED BY <1>1, <1>2, <1>3, <1>4, <1>5 DEF RowOK, SendersOK

LEMMA ResendAsked ==
    ASSUME OutboxInv, MayResend
    PROVE  /\ RowOK([outbox EXCEPT !.manual = TRUE], attempt, Unexcused)
           /\ SendersOK(Workers, [outbox EXCEPT !.manual = TRUE], attempt, Unexcused)
<1> DEFINE m == [outbox EXCEPT !.manual = TRUE]
<1>1. /\ m \in OutboxRow /\ m.manual /\ m.status = outbox.status
      /\ m.owner = outbox.owner /\ m.fence = outbox.fence
      /\ m.lease = outbox.lease /\ m.attempts = outbox.attempts
      /\ outbox.status \in Resendable
  BY DEF OutboxInv, RowOK, RowShape, OutboxRow, MayResend
<1>2. RowShape(m, attempt, Unexcused)
  BY <1>1 DEF OutboxInv, RowOK, RowShape
<1>3. OnlyPlainBehind(m, attempt, Unexcused)
  BY <1>1 DEF OnlyPlainBehind, Resendable
<1>4. ManualOpen(m, attempt)
  BY <1>1 DEF ManualOpen, MayResend
<1>5. SendersOK(Workers, m, attempt, Unexcused)
  BY <1>1 DEF OutboxInv, SendersOK, SenderOK, Pushing, Owning, Resendable
<1> QED BY <1>2, <1>3, <1>4, <1>5 DEF OutboxInv, RowOK

LEMMA ResendRequested ==
    ASSUME OutboxInv, RequestManualResend PROVE OutboxInv'
BY ResendAsked DEF RequestManualResend, OutboxInv, SendersOK, Unexcused

LEMMA ResendClaimed ==
    ASSUME OutboxInv, NEW w \in Workers, ClaimManualResend(w) PROVE OutboxInv'
<1> DEFINE m == [outbox EXCEPT !.manual = TRUE]
<1>1. m.manual /\ m.status \in Resendable /\ m.attempts < MaxPushes
  BY DEF ClaimManualResend, MayResend, WithinRetryBudget, OutboxInv, RowOK, RowShape,
         OutboxRow
<1>2. RowOK(m, attempt', Unexcused) /\ SendersOK(Workers, m, attempt', Unexcused)
  BY ResendAsked DEF ClaimManualResend
<1>3. ClaimLockedNotification(w, m, "manual") /\ UNCHANGED Unexcused
  BY DEF ClaimManualResend, Unexcused
<1> QED BY <1>1, <1>2, <1>3, ClaimedOK DEF OutboxInv

LEMMA Claimed ==
    ASSUME OutboxInv, NEW w \in Workers, ClaimNotification(w) PROVE OutboxInv'
<1> DEFINE r == TerminalizedNotification(RecoveredNotification.row)
<1>1. /\ RowOK(r, attempt', Unexcused) /\ SendersOK(Workers, r, attempt', Unexcused)
      /\ UNCHANGED Unexcused /\ sender \in [Workers -> Sender]
  BY RecoveredOK, TerminalizedOK DEF ClaimNotification, OutboxInv, Unexcused
<1>2. CASE ManualClaimable(r) /\ ClaimLockedNotification(w, r, "manual")
  BY <1>1, <1>2, ClaimedOK DEF ManualClaimable, WithinRetryBudget
<1>3. CASE AutomaticClaimable(r) /\ ClaimLockedNotification(w, r, "automatic")
  BY <1>1, <1>3, ClaimedOK DEF AutomaticClaimable, WithinRetryBudget, Resendable
<1>4. CASE outbox' = r /\ UNCHANGED sender
  BY <1>1, <1>4 DEF OutboxInv, SendersOK
<1> QED BY <1>2, <1>3, <1>4 DEF ClaimNotification

\* the attempt a sender is about to make is the next one, and it was asked for
\* unless all attempts before it are plain
LEMMA MarkedSending ==
    ASSUME OutboxInv, NEW w \in Workers, MarkSending(w) PROVE OutboxInv'
<1> DEFINE s == sender[w]
           k == s.number
           new == [result |-> "sending", trigger |-> s.trigger, fence |-> s.fence,
                   owner |-> w]
<1> USE OutboxAssumption, WorkerAssumption
<1>1. CASE /\ OwnsSendLease(w) /\ outbox.status = "leased"
           /\ outbox.attempts + 1 = k /\ WithinRetryBudget(outbox)
           /\ attempt' = [attempt EXCEPT ![k] = new]
           /\ outbox' = [outbox EXCEPT !.status = "sending", !.attempts = k,
                                       !.manual = @ /\ s.trigger # "manual"]
           /\ sender' = [sender EXCEPT ![w].pc = "sending"]
  <2>1. /\ s \in Sender /\ s.pc = "claimed" /\ Owning(s, w, outbox)
        /\ outbox \in OutboxRow /\ k \in PushNumbers
        /\ s.trigger = "manual" <=> outbox.manual
    <3>1. s \in Sender /\ s.pc = "claimed" /\ Owning(s, w, outbox)
          /\ outbox \in OutboxRow
      BY <1>1 DEF MarkSending, OutboxInv, RowOK, RowShape, OwnsSendLease, Owning
    <3>2. k \in PushNumbers
      BY <1>1, <3>1 DEF WithinRetryBudget, OutboxRow, PushNumbers
    <3>3. s.trigger = "manual" <=> outbox.manual
      BY <1>1, <3>1 DEF OutboxInv, SendersOK, SenderOK
    <3> QED BY <3>1, <3>2, <3>3
  <2>2. /\ outbox' \in OutboxRow /\ outbox'.status = "sending"
        /\ outbox'.attempts = k /\ ~outbox'.manual
        /\ outbox'.owner = outbox.owner /\ outbox'.fence = outbox.fence
        /\ outbox'.lease = outbox.lease
    <3>1. (outbox.manual /\ s.trigger # "manual") = FALSE
      BY <2>1
    <3>2. outbox' = [outbox EXCEPT !.status = "sending", !.attempts = k, !.manual = FALSE]
      BY <1>1, <3>1
    <3>3. k \in 0 .. MaxPushes /\ outbox \in OutboxRow
      BY <2>1 DEF PushNumbers
    <3>4. \A b \in BOOLEAN :
             [outbox EXCEPT !.status = "sending", !.attempts = k, !.manual = b] \in OutboxRow
      BY <3>3 DEF OutboxRow, NotificationStatus
    <3>5. outbox' \in OutboxRow
      BY <3>2, <3>4
    <3>6. /\ outbox'.status = "sending" /\ outbox'.attempts = k
          /\ outbox'.owner = outbox.owner /\ outbox'.fence = outbox.fence
          /\ outbox'.lease = outbox.lease
      BY <3>2, <3>3 DEF OutboxRow
    <3>7. outbox'.manual = FALSE
      BY <3>2, <3>3, Zenon DEF OutboxRow
    <3> QED BY <3>5, <3>6, <3>7
  <2>3. new \in AttemptRow
    BY <2>1 DEF AttemptRow, Sender, Holder, OutboxRow
  <2>4. /\ attempt' \in [PushNumbers -> AttemptRow] /\ attempt'[k] = new
        /\ \A n \in PushNumbers : n # k => attempt'[n] = attempt[n]
    BY <1>1, <2>1, <2>3 DEF OutboxInv, RowOK, RowShape
  <2>5. k = outbox.attempts + 1 /\ k \in Nat /\ outbox.attempts \in Nat
    BY <1>1, <2>1 DEF OutboxRow, PushNumbers
  <2>6. Unexcused' = Unexcused
    BY DEF MarkSending, Unexcused
  <2>7. RowShape(outbox', attempt', Unexcused')
    <3>1. \A n \in PushNumbers : attempt'[n].result = "absent" <=> n > k
      BY <2>4, <2>5 DEF OutboxInv, RowOK, RowShape, PushNumbers
    <3>2. \A n \in PushNumbers : attempt'[n].result = "sending" <=> n = k
      BY <1>1, <2>4, <2>5 DEF OutboxInv, RowOK, RowShape, PushNumbers
    <3>3. \A n \in Unexcused : n \in PushNumbers /\ n <= k
      BY <2>5 DEF OutboxInv, RowOK, RowShape, PushNumbers
    <3>4. attempt'[k].owner = outbox'.owner /\ attempt'[k].fence = outbox'.fence
      BY <2>1, <2>2, <2>4 DEF Owning
    <3> QED BY <1>1, <2>1, <2>2, <2>4, <2>6, <3>1, <3>2, <3>3, <3>4
            DEF OutboxInv, RowOK, RowShape
  <2>8. s.trigger = "automatic" =>
           \A n \in PushNumbers : n < k => Plain(attempt, Unexcused, n)
    BY <1>1, <2>1, <2>5 DEF OutboxInv, RowOK, OnlyPlainBehind, PushNumbers
  <2>9. OnlyPlainBehind(outbox', attempt', Unexcused')
    BY <2>2, <2>4, <2>6, <2>8, <2>5 DEF OnlyPlainBehind, Plain, PushNumbers
  <2>10. ManualOpen(outbox', attempt')
    BY <2>2 DEF ManualOpen
  <2>11. Unasked(attempt', Unexcused')
    <3>1. ASSUME NEW n \in PushNumbers, NEW j \in PushNumbers, n < j,
                 attempt'[n].result = "unknown" \/ n \in Unexcused,
                 attempt'[j].result # "absent"
          PROVE  attempt'[j].trigger = "manual"
      <4>1. j <= k /\ n # k
        BY <3>1, <2>2, <2>7 DEF RowShape, PushNumbers
      <4>2. CASE j = k
        <5>1. ~Plain(attempt, Unexcused, n)
          BY <3>1, <4>1, <2>4 DEF Plain
        <5>2. s.trigger # "automatic"
          BY <5>1, <4>2, <3>1, <2>8
        <5> QED BY <5>2, <4>2, <2>1, <2>4 DEF Sender
      <4>3. CASE j # k
        BY <3>1, <4>1, <4>3, <2>4 DEF OutboxInv, RowOK, Unasked
      <4> QED BY <4>2, <4>3
    <3>2. ASSUME NEW n \in PushNumbers, NEW j \in PushNumbers,
                 attempt'[n].trigger = "manual", attempt'[j].trigger = "manual"
          PROVE  n = j
      <4>1. CASE s.trigger = "manual"
        <5>1. \A i \in PushNumbers : attempt[i].trigger # "manual"
          BY <4>1, <2>1 DEF OutboxInv, RowOK, ManualOpen
        <5> QED BY <5>1, <3>2, <2>4
      <4>2. CASE s.trigger # "manual"
        BY <4>2, <3>2, <2>4 DEF OutboxInv, RowOK, Unasked
      <4> QED BY <4>1, <4>2
    <3> QED BY <3>1, <3>2, <2>6 DEF Unasked
  <2>12. sender' \in [Workers -> Sender] /\ sender'[w] = [s EXCEPT !.pc = "sending"]
         /\ \A v \in Workers : v # w => sender'[v] = sender[v]
    BY <1>1, <2>1 DEF OutboxInv, Sender
  <2>13. ASSUME NEW v \in Workers
         PROVE  SenderOK(sender'[v], v, outbox', attempt', Unexcused')
    <3>1. CASE v = w
      <4>1. k \notin Unexcused
        BY <2>5 DEF OutboxInv, RowOK, RowShape
      <4>2. /\ sender'[v].pc = "sending" /\ sender'[v].number = k
            /\ sender'[v].fence = s.fence /\ sender'[v].trigger = s.trigger
        BY <3>1, <2>1, <2>12 DEF Sender
      <4>3. Pushing(sender'[v], v, outbox', attempt', Unexcused')
        BY <3>1, <4>1, <4>2, <2>1, <2>2, <2>4, <2>6 DEF Pushing, Owning
      <4>4. k <= outbox'.attempts
        BY <2>2, <2>5
      <4> QED BY <3>1, <4>2, <4>3, <4>4, <2>1, <2>12 DEF SenderOK
    <3>2. CASE v # w
      <4>1. outbox.owner # v /\ outbox'.owner # v
        BY <3>2, <2>1, <2>2 DEF Owning
      <4>2. SenderOK(sender[v], v, outbox, attempt, Unexcused)
        BY DEF OutboxInv, SendersOK
      <4>3. \A n \in PushNumbers :
               attempt[n].result = "unknown" => attempt'[n].result = "unknown"
        <5>1. attempt[k].result = "absent"
          BY <2>1, <2>5 DEF OutboxInv, RowOK, RowShape
        <5> QED BY <5>1, <2>4
      <4>4. outbox.attempts <= outbox'.attempts
        BY <2>2, <2>5
      <4> QED BY <4>1, <4>2, <4>3, <4>4, <2>1, <2>2, <2>12, <3>2, BystanderOK
    <3> QED BY <3>1, <3>2
  <2> QED BY <2>7, <2>9, <2>10, <2>11, <2>12, <2>13 DEF OutboxInv, RowOK, SendersOK
<1>2. CASE /\ sender' = [sender EXCEPT ![w] = NotSending]
           /\ UNCHANGED <<outbox, attempt, Unexcused>>
  BY <1>2, NotSendingOK DEF OutboxInv, SendersOK, SenderOK
<1> QED BY <1>1, <1>2 DEF MarkSending, Unexcused

\* Bark may accept the push a sender is waiting for: the row and the other
\* senders stand as they did
LEMMA AcceptedGrows ==
    ASSUME OutboxInv, NEW w \in Workers, sender[w].pc = "sending",
           NEW acc, acc \subseteq Unexcused \cup {sender[w].number}
    PROVE  /\ RowOK(outbox, attempt, acc)
           /\ SendersOK(Workers \ {w}, outbox, attempt, acc)
<1> DEFINE k == sender[w].number
<1> USE OutboxAssumption
<1>1. /\ k \in PushNumbers /\ k <= outbox.attempts
      /\ \/ attempt[k].result = "unknown"
         \/ Pushing(sender[w], w, outbox, attempt, Unexcused)
  BY DEF OutboxInv, SendersOK, SenderOK
<1>2. RowShape(outbox, attempt, acc)
  BY <1>1 DEF OutboxInv, RowOK, RowShape
<1>3. Pushing(sender[w], w, outbox, attempt, Unexcused) =>
         k = outbox.attempts /\ attempt[k].result = "sending"
  BY <1>1 DEF Pushing, OutboxInv, RowOK, RowShape
<1>4. OnlyPlainBehind(outbox, attempt, acc) /\ ManualOpen(outbox, attempt)
  <2>1. attempt[k].result # "failed_retryable"
    BY <1>1, <1>3
  <2>2. \A n \in PushNumbers : Plain(attempt, Unexcused, n) => Plain(attempt, acc, n)
    BY <2>1 DEF Plain
  <2> QED BY <2>2 DEF OutboxInv, RowOK, OnlyPlainBehind
<1>5. Unasked(attempt, acc)
  <2>1. ASSUME NEW n \in PushNumbers, NEW j \in PushNumbers, n < j,
               attempt[n].result = "unknown" \/ n \in acc, attempt[j].result # "absent"
        PROVE  attempt[j].trigger = "manual"
    <3>1. j <= outbox.attempts
      BY <2>1 DEF OutboxInv, RowOK, RowShape, PushNumbers, OutboxRow
    <3>2. attempt[n].result = "unknown" \/ n \in Unexcused
      <4>1. ~(n = k /\ k = outbox.attempts)
        BY <2>1, <3>1 DEF PushNumbers
      <4> QED BY <4>1, <2>1, <1>1, <1>3
    <3> QED BY <2>1, <3>2 DEF OutboxInv, RowOK, Unasked
  <2> QED BY <2>1 DEF OutboxInv, RowOK, Unasked
<1>6. ASSUME NEW v \in Workers \ {w}
      PROVE  SenderOK(sender[v], v, outbox, attempt, acc)
  <2>1. SenderOK(sender[v], v, outbox, attempt, Unexcused)
    BY DEF OutboxInv, SendersOK
  <2>2. Pushing(sender[v], v, outbox, attempt, Unexcused) =>
           Pushing(sender[v], v, outbox, attempt, acc)
    <3> SUFFICES ASSUME Pushing(sender[v], v, outbox, attempt, Unexcused)
                 PROVE  Pushing(sender[v], v, outbox, attempt, acc)
      OBVIOUS
    <3>1. outbox.owner = v /\ sender[v].number = outbox.attempts
          /\ outbox.status = "sending"
      BY DEF Pushing, Owning
    <3>2. ~Pushing(sender[w], w, outbox, attempt, Unexcused)
      BY <3>1 DEF Pushing, Owning
    <3>3. attempt[outbox.attempts].result = "sending"
      BY <3>1 DEF OutboxInv, RowOK, RowShape
    <3>4. sender[v].number # k
      BY <3>1, <3>2, <3>3, <1>1
    <3> QED BY <3>4 DEF Pushing
  <2> QED BY <2>1, <2>2 DEF SenderOK
<1> QED BY <1>2, <1>4, <1>5, <1>6 DEF RowOK, SendersOK

LEMMA Sent ==
    ASSUME OutboxInv, NEW w \in Workers,
           NEW report \in DeliveryReport, NEW accepts \in BOOLEAN, Send(w, report, accepts)
    PROVE  OutboxInv'
<1> DEFINE s == sender[w]
<1>1. /\ s.pc = "sending" /\ s \in Sender
      /\ Unexcused' \subseteq Unexcused \cup {s.number}
      /\ UNCHANGED <<outbox, attempt>>
      /\ report \in {"delivered", "uncertain"} \/ Unexcused' \subseteq Unexcused
      /\ report # "none"
  BY DEF Send, Sends, OutboxInv, Unexcused
<1>2. /\ RowOK(outbox, attempt, Unexcused')
      /\ SendersOK(Workers \ {w}, outbox, attempt, Unexcused')
  BY <1>1, AcceptedGrows
<1>3. /\ sender' \in [Workers -> Sender]
      /\ sender'[w] = [s EXCEPT !.pc = "answered", !.report = report]
      /\ \A v \in Workers \ {w} : sender'[v] = sender[v]
  BY <1>1 DEF Send, OutboxInv, Sender
<1>4. SenderOK(sender'[w], w, outbox, attempt, Unexcused')
  <2>1. /\ sender'[w].pc = "answered" /\ sender'[w].report = report
        /\ sender'[w].number = s.number /\ sender'[w].fence = s.fence
        /\ sender'[w].trigger = s.trigger
    BY <1>1, <1>3 DEF Sender
  <2>2. SenderOK(s, w, outbox, attempt, Unexcused)
    BY DEF OutboxInv, SendersOK
  <2>3. Pushing(s, w, outbox, attempt, Unexcused) =>
           Pushing(sender'[w], w, outbox, attempt, Unexcused')
    BY <1>1, <2>1 DEF Pushing, Owning
  <2>4. /\ s.number \in PushNumbers /\ s.number <= outbox.attempts
        /\ \/ attempt[s.number].result = "unknown" /\ ~Owning(s, w, outbox)
           \/ Pushing(s, w, outbox, attempt, Unexcused)
    BY <1>1, <2>2 DEF SenderOK
  <2>5. Owning(sender'[w], w, outbox) <=> Owning(s, w, outbox)
    BY <2>1 DEF Owning
  <2> QED BY <1>3, <2>1, <2>3, <2>4, <2>5 DEF SenderOK
<1>5. SendersOK(Workers, outbox, attempt, Unexcused)'
  BY <1>1, <1>2, <1>3, <1>4 DEF SendersOK
<1> QED BY <1>1, <1>2, <1>3, <1>5 DEF OutboxInv

\* the sender is gone, whatever the row is
LEMMA SenderLeaves ==
    ASSUME NEW w \in Workers, sender \in [Workers -> Sender],
           sender' = [sender EXCEPT ![w] = NotSending],
           RowOK(outbox', attempt', Unexcused'),
           SendersOK(Workers \ {w}, outbox', attempt', Unexcused')
    PROVE  OutboxInv'
<1>1. NotSending \in Sender
  BY OutboxAssumption DEF NotSending, Sender, DeliveryReport
<1>2. sender' \in [Workers -> Sender]
  BY <1>1
<1>3. SendersOK(Workers, outbox, attempt, Unexcused)'
  BY NotSendingOK DEF SendersOK
<1> QED BY <1>2, <1>3 DEF OutboxInv

LEMMA FinishedUncertain ==
    ASSUME OutboxInv, NEW w \in Workers, FinishUncertain(w) PROVE OutboxInv'
<1>1. CASE OwnsSendLease(w) /\ outbox.status = "sending"
  <2>1. outbox' = EndSendLease.row /\ attempt' = EndSendLease.attempt
    BY <1>1 DEF FinishUncertain, EndSendLease
  <2>2. /\ RowOK(EndSendLease.row, EndSendLease.attempt, Unexcused)
        /\ SendersOK(Workers \ {w}, EndSendLease.row, EndSendLease.attempt, Unexcused)
    BY <1>1, LeaseEnds DEF OutboxInv, SendersOK
  <2> QED BY <2>1, <2>2, SenderLeaves DEF FinishUncertain, OutboxInv, Unexcused
<1>2. CASE ~(OwnsSendLease(w) /\ outbox.status = "sending")
  BY <1>2, SenderLeaves DEF FinishUncertain, OutboxInv, Unexcused, SendersOK
<1> QED BY <1>1, <1>2

LEMMA Released ==
    ASSUME OutboxInv, NEW w \in Workers, ReleaseOwnedNotifications(w) PROVE OutboxInv'
<1>1. /\ RowOK(outbox, attempt, Unexcused')
      /\ SendersOK(Workers \ {w}, outbox, attempt, Unexcused')
  BY AcceptedGrows DEF ReleaseOwnedNotifications, MaybeAccepted, OutboxInv, SendersOK,
                       Unexcused
<1>2. CASE outbox.owner = w /\ outbox.status \in {"leased", "sending"}
  <2>1. outbox' = EndSendLease.row /\ attempt' = EndSendLease.attempt
    BY <1>2 DEF ReleaseOwnedNotifications
  <2>2. /\ RowOK(EndSendLease.row, EndSendLease.attempt, Unexcused')
        /\ SendersOK(Workers \ {w}, EndSendLease.row, EndSendLease.attempt, Unexcused')
    BY <1>1, <1>2, LeaseEnds
  <2> QED BY <2>1, <2>2, SenderLeaves DEF ReleaseOwnedNotifications, OutboxInv
<1>3. CASE ~(outbox.owner = w /\ outbox.status \in {"leased", "sending"})
  BY <1>1, <1>3, SenderLeaves DEF ReleaseOwnedNotifications, OutboxInv
<1> QED BY <1>2, <1>3

LEMMA Crashed ==
    ASSUME OutboxInv, NEW w \in Workers, SenderCrash(w) PROVE OutboxInv'
<1>1. /\ RowOK(outbox, attempt, Unexcused')
      /\ SendersOK(Workers \ {w}, outbox, attempt, Unexcused')
  BY AcceptedGrows DEF SenderCrash, MaybeAccepted, OutboxInv, SendersOK, Unexcused
<1> QED BY <1>1, SenderLeaves DEF SenderCrash, OutboxInv

\* the report of the push the row waits for: only an automatic push that was
\* not accepted goes back to the queue
LEMMA FinishedResult ==
    ASSUME OutboxInv, NEW w \in Workers, NEW pastDeadline \in BOOLEAN,
           FinishResult(w, pastDeadline)
    PROVE  OutboxInv'
<1> DEFINE s == sender[w]
           k == outbox.attempts
<1> USE OutboxAssumption, WorkerAssumption
<1>1. ASSUME NEW result \in {"delivered", "failed_terminal", "failed_retryable"},
             result = "failed_retryable" => s.trigger # "manual" /\ s.report # "delivered",
             OwnsSendLease(w), outbox.status = "sending", IsActiveAttempt(k),
             outbox' = [ClearSendLease(outbox, result) EXCEPT
                           !.available = @ /\ result # "failed_retryable"],
             attempt' = ActiveAttemptAs(result)
      PROVE  OutboxInv'
  <2>1. /\ outbox \in OutboxRow /\ s \in Sender /\ s.pc = "answered"
        /\ s.report # "uncertain" /\ k \in PushNumbers /\ outbox.owner = w
    BY <1>1 DEF FinishResult, OutboxInv, RowOK, RowShape, OwnsSendLease
  <2>2. /\ outbox' \in OutboxRow /\ outbox'.status = result
        /\ outbox'.owner = NoWorker /\ outbox'.lease = "none"
        /\ outbox'.attempts = k /\ outbox'.manual = outbox.manual
    <3> DEFINE c == ClearSendLease(outbox, result)
    <3>1. /\ c \in OutboxRow /\ c.status = result
          /\ c.owner = NoWorker /\ c.lease = "none"
          /\ c.attempts = k /\ c.manual = outbox.manual
      BY <2>1 DEF ClearSendLease, OutboxRow, NotificationStatus, Holder, LeaseState
    <3>2. PICK b \in BOOLEAN : outbox' = [c EXCEPT !.available = b]
      BY <1>1
    <3> QED BY <3>1, <3>2 DEF OutboxRow
  <2>3. /\ attempt' \in [PushNumbers -> AttemptRow]
        /\ attempt'[k].result = result
        /\ \A n \in PushNumbers : n # k => attempt'[n] = attempt[n]
        /\ \A n \in PushNumbers : attempt'[n].trigger = attempt[n].trigger
    BY <1>1, <2>1 DEF OutboxInv, RowOK, RowShape, ActiveAttemptAs, IsActiveAttempt,
                      AttemptRow
  <2>4. Pushing(s, w, outbox, attempt, Unexcused)
    BY <1>1, <2>1 DEF OutboxInv, SendersOK, SenderOK, Owning, OwnsSendLease
  <2>5. Unexcused' = Unexcused
    BY DEF FinishResult, Unexcused
  <2>6. RowShape(outbox', attempt', Unexcused')
    <3>1. \A n \in PushNumbers : attempt'[n].result = "absent" <=> n > k
      BY <1>1, <2>1, <2>3 DEF OutboxInv, RowOK, RowShape, IsActiveAttempt
    <3>2. \A n \in PushNumbers : attempt'[n].result # "sending"
      BY <1>1, <2>1, <2>3 DEF OutboxInv, RowOK, RowShape
    <3> QED BY <3>1, <3>2, <2>2, <2>3, <2>5 DEF OutboxInv, RowOK, RowShape
  <2>7. OnlyPlainBehind(outbox', attempt', Unexcused')
    <3>1. CASE result = "failed_retryable"
      <4>1. attempt[k].trigger = "automatic" /\ k \notin Unexcused
        BY <3>1, <1>1, <2>1, <2>4 DEF Pushing, Sender
      <4>2. \A n \in PushNumbers : n < k => Plain(attempt, Unexcused, n)
        BY <4>1, <1>1 DEF OutboxInv, RowOK, OnlyPlainBehind
      <4>3. \A n \in PushNumbers : n <= k => Plain(attempt', Unexcused, n)
        BY <3>1, <4>1, <4>2, <2>1, <2>3 DEF Plain, PushNumbers
      <4> QED BY <3>1, <4>3, <2>2, <2>5 DEF OnlyPlainBehind
    <3>2. CASE result # "failed_retryable"
      BY <3>2, <2>2 DEF OnlyPlainBehind
    <3> QED BY <3>1, <3>2
  <2>8. ManualOpen(outbox', attempt')
    BY <2>2, <2>3 DEF OutboxInv, RowOK, ManualOpen
  <2>9. Unasked(attempt', Unexcused')
    <3>1. \A n \in PushNumbers :
             /\ attempt'[n].result = "unknown" => attempt[n].result = "unknown"
             /\ attempt'[n].result # "absent" => attempt[n].result # "absent"
      BY <1>1, <2>1, <2>3 DEF OutboxInv, RowOK, RowShape, IsActiveAttempt
    <3> QED BY <3>1, <2>3, <2>5 DEF OutboxInv, RowOK, Unasked
  <2>10. ASSUME NEW v \in Workers \ {w}
         PROVE  SenderOK(sender[v], v, outbox', attempt', Unexcused')
    <3>1. SenderOK(sender[v], v, outbox, attempt, Unexcused)
      BY DEF OutboxInv, SendersOK
    <3>2. \A n \in PushNumbers :
             attempt[n].result = "unknown" => attempt'[n].result = "unknown"
      BY <1>1, <2>1, <2>3 DEF IsActiveAttempt
    <3>3. outbox.owner # v /\ outbox'.owner # v /\ outbox.attempts <= outbox'.attempts
      BY <2>1, <2>2 DEF OutboxRow
    <3> QED BY <3>1, <3>2, <3>3, <2>1, <2>2, BystanderOK
  <2>11. RowOK(outbox', attempt', Unexcused')
    BY <2>6, <2>7, <2>8, <2>9 DEF RowOK
  <2>12. SendersOK(Workers \ {w}, outbox', attempt', Unexcused')
    BY <2>10 DEF SendersOK
  <2> QED BY <2>11, <2>12, <2>5, SenderLeaves DEF FinishResult, OutboxInv
<1>2. CASE UNCHANGED <<outbox, attempt>>
  BY <1>2, SenderLeaves DEF FinishResult, OutboxInv, SendersOK, Unexcused
<1>3. CASE /\ OwnsSendLease(w) /\ outbox.status = "sending" /\ IsActiveAttempt(k)
           /\ ~(UNCHANGED <<outbox, attempt>>)
  <2> DEFINE result == CASE s.report = "delivered" -> "delivered"
                         [] s.report = "terminal" -> "failed_terminal"
                         [] OTHER ->
                             IF \/ s.trigger = "manual"
                                \/ k >= MaxPushes
                                \/ pastDeadline
                             THEN "failed_terminal" ELSE "failed_retryable"
  <2>1. /\ result \in {"delivered", "failed_terminal", "failed_retryable"}
        /\ result = "failed_retryable" => s.trigger # "manual" /\ s.report # "delivered"
    <3>1. CASE s.report = "delivered"
      BY <3>1
    <3>2. CASE s.report = "terminal"
      BY <3>2
    <3>3. CASE s.report \notin {"delivered", "terminal"}
      BY <3>3
    <3> QED BY <3>1, <3>2, <3>3
  <2>2. /\ outbox' = [ClearSendLease(outbox, result) EXCEPT
                         !.available = @ /\ result # "failed_retryable"]
        /\ attempt' = ActiveAttemptAs(result)
    BY <1>3, Zenon DEF FinishResult
  <2> HIDE DEF result
  <2> QED BY <2>1, <2>2, <1>1, <1>3
<1> QED BY <1>2, <1>3 DEF FinishResult

LEMMA TimePasses ==
    ASSUME OutboxInv, SendLeaseExpires \/ RetryBecomesDue \/ RetryWindowCloses
    PROVE  OutboxInv'
<1>1. outbox \in OutboxRow
  BY DEF OutboxInv, RowOK, RowShape
<1>2. CASE SendLeaseExpires
  BY <1>1, <1>2, RowUntouched DEF SendLeaseExpires, OutboxRow, LeaseState, Unexcused
<1>3. CASE RetryBecomesDue
  BY <1>1, <1>3, RowUntouched DEF RetryBecomesDue, OutboxRow, Unexcused
<1>4. CASE RetryWindowCloses
  BY <1>1, <1>4, RowUntouched DEF RetryWindowCloses, Unexcused
<1> QED BY <1>2, <1>3, <1>4

LEMMA OutboxStarts == OutboxInit => OutboxInv
<1> SUFFICES ASSUME OutboxInit PROVE OutboxInv
  OBVIOUS
<1> USE OutboxAssumption
<1>1. RowShape(outbox, attempt, Unexcused)
  BY DEF OutboxInit, Unexcused, RowShape, OutboxRow, NotificationStatus, Holder, LeaseState,
         AttemptRow, NoAttempt, PushNumbers
<1>2. OnlyPlainBehind(outbox, attempt, Unexcused) /\ ManualOpen(outbox, attempt)
  BY DEF OutboxInit, OnlyPlainBehind, ManualOpen
<1>3. Unasked(attempt, Unexcused)
  BY DEF OutboxInit, Unexcused, Unasked, NoAttempt
<1>4. NotSending \in Sender
  BY DEF NotSending, Sender, DeliveryReport
<1>5. SendersOK(Workers, outbox, attempt, Unexcused)
  BY NotSendingOK DEF OutboxInit, SendersOK
<1> QED BY <1>1, <1>2, <1>3, <1>4, <1>5 DEF OutboxInv, RowOK, OutboxInit

LEMMA OutboxStep ==
    ASSUME OutboxInv, [OutboxNext]_outboxVars PROVE OutboxInv'
<1>1. CASE PlanNotification \/ RequestManualResend
  BY <1>1, Planned, ResendRequested
<1>2. ASSUME NEW w \in Workers,
             \/ SenderStep(w) \/ ClaimManualResend(w)
             \/ ReleaseOwnedNotifications(w) \/ SenderCrash(w)
      PROVE  OutboxInv'
  BY <1>2, Claimed, MarkedSending, Sent, FinishedUncertain, FinishedResult,
     ResendClaimed, Released, Crashed DEF SenderStep
<1>3. CASE SendLeaseExpires \/ RetryBecomesDue \/ RetryWindowCloses
  BY <1>3, TimePasses
<1>4. CASE UNCHANGED outboxVars
  BY <1>4 DEF outboxVars, OutboxInv, SendersOK, Unexcused
<1> QED BY <1>1, <1>2, <1>3, <1>4 DEF OutboxNext

LEMMA WindowStep ==
    ASSUME retryWindow \in {"open", "closed"}, [OutboxNext]_outboxVars
    PROVE  retryWindow' \in {"open", "closed"}
<1>1. CASE RetryWindowCloses
  BY <1>1 DEF RetryWindowCloses
<1>2. CASE \/ PlanNotification \/ RequestManualResend
           \/ SendLeaseExpires \/ RetryBecomesDue
           \/ UNCHANGED outboxVars
  BY <1>2 DEF PlanNotification, RequestManualResend, SendLeaseExpires, RetryBecomesDue,
              outboxVars
<1>3. ASSUME NEW w \in Workers,
             \/ SenderStep(w) \/ ClaimManualResend(w)
             \/ ReleaseOwnedNotifications(w) \/ SenderCrash(w)
      PROVE  retryWindow' = retryWindow
  BY <1>3 DEF SenderStep, ClaimNotification, MarkSending, Send, FinishUncertain,
              FinishResult, ClaimManualResend, ReleaseOwnedNotifications, SenderCrash
<1> QED BY <1>1, <1>2, <1>3 DEF OutboxNext

\* Bark accepts only attempts that were made, and the adapter denies only those
\* that Bark accepted.
PushesMade == misreported \subseteq accepted /\ accepted \subseteq PushNumbers

LEMMA PushesStep ==
    ASSUME OutboxInv, PushesMade, [OutboxNext]_outboxVars PROVE PushesMade'
<1>1. ASSUME NEW w \in Workers, sender[w].pc = "sending"
      PROVE  sender[w].number \in PushNumbers
  BY <1>1 DEF OutboxInv, SendersOK, SenderOK
<1>2. ASSUME NEW w \in Workers, NEW report \in DeliveryReport, NEW accepts \in BOOLEAN,
             Send(w, report, accepts)
      PROVE  PushesMade'
  BY <1>1, <1>2 DEF Send, PushesMade
<1>3. ASSUME NEW w \in Workers, ReleaseOwnedNotifications(w) \/ SenderCrash(w)
      PROVE  PushesMade'
  BY <1>1, <1>3 DEF ReleaseOwnedNotifications, SenderCrash, MaybeAccepted, PushesMade
<1>4. ASSUME NEW w \in Workers,
             \/ ClaimNotification(w) \/ MarkSending(w) \/ FinishUncertain(w)
             \/ \E pastDeadline \in BOOLEAN : FinishResult(w, pastDeadline)
             \/ ClaimManualResend(w)
      PROVE  PushesMade'
  BY <1>4 DEF ClaimNotification, MarkSending, FinishUncertain, FinishResult,
              ClaimManualResend, PushesMade
<1>5. CASE \/ PlanNotification \/ RequestManualResend
           \/ SendLeaseExpires \/ RetryBecomesDue \/ RetryWindowCloses
           \/ UNCHANGED outboxVars
  BY <1>5 DEF PlanNotification, RequestManualResend, SendLeaseExpires, RetryBecomesDue,
              RetryWindowCloses, outboxVars, PushesMade
<1> QED BY <1>2, <1>3, <1>4, <1>5 DEF OutboxNext, SenderStep

-----------------------------------------------------------------------------
\* Lost leases, crashes, shutdowns, stale reports and two ways to ask for a
\* resend never push a user twice without his asking, for every number of
\* workers, attempts and faults and whatever Bark does with a push: only one
\* that the adapter itself reported as a retryable failure is repeated.
THEOREM NoUnaskedPushHolds == OutboxSafety => []NoUnaskedPush
<1>1. OutboxInv => NoUnaskedPush
  BY DEF OutboxInv, RowOK, Unasked, NoUnaskedPush, Unexcused
<1>2. OutboxInv /\ [OutboxNext]_outboxVars => OutboxInv'
  BY OutboxStep
<1> QED BY OutboxStarts, <1>1, <1>2, PTL DEF OutboxSafety

\* The attempts are the history of the row in every reachable state, whatever
\* the adapter reports.
THEOREM LedgerMatchesRowHolds == OutboxSafety => []LedgerMatchesRow
<1>1. OutboxInv => LedgerMatchesRow
  BY DEF OutboxInv, RowOK, RowShape, LedgerMatchesRow
<1>2. OutboxInv /\ [OutboxNext]_outboxVars => OutboxInv'
  BY OutboxStep
<1> QED BY OutboxStarts, <1>1, <1>2, PTL DEF OutboxSafety

\* Rows, attempts and senders stay well formed, and a lease is held exactly
\* while the row is leased or sending.
THEOREM OutboxTypeCorrect == OutboxSafety => []OutboxTypeOK
<1> DEFINE Window == retryWindow \in {"open", "closed"}
<1>1. OutboxInit => OutboxInv /\ Window /\ PushesMade
  BY OutboxStarts DEF OutboxInit, PushesMade
<1>2. OutboxInv /\ Window /\ PushesMade /\ [OutboxNext]_outboxVars
         => (OutboxInv /\ Window /\ PushesMade)'
  BY OutboxStep, WindowStep, PushesStep
<1>3. OutboxInv /\ Window /\ PushesMade => OutboxTypeOK
  BY DEF OutboxInv, RowOK, RowShape, PushesMade, OutboxTypeOK
<1> QED BY <1>1, <1>2, <1>3, PTL DEF OutboxSafety
=============================================================================
