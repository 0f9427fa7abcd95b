------------------------------ MODULE MCWorkers ------------------------------
(***************************************************************************)
(* Model checking of the background workers.  They share no state: each    *)
(* behaviour is one of a single part, chosen at the start, so the state    *)
(* spaces add up instead of multiplying.                                   *)
(***************************************************************************)
EXTENDS NotificationOutbox, DataLifecycle, MonitorCron, TraceDelivery,
        MemoryOutcome, ProjectionReconciler

VARIABLE part   \* the worker this behaviour is about

Parts == {"outbox", "lifecycle", "monitor", "trace", "memory", "reconciler"}

vars == <<part, outboxVars, lifecycleVars, monitorVars, traceVars,
          memoryOutcomeVars, lockVars>>

Init ==
    /\ part \in Parts
    /\ OutboxInit /\ LifecycleInit /\ MonitorInit
    /\ TraceInit /\ MemoryOutcomeInit /\ ReconcilerInit

\* the other parts do nothing
OthersIdle ==
    /\ UNCHANGED part
    /\ part # "outbox" => UNCHANGED outboxVars
    /\ part # "lifecycle" => UNCHANGED lifecycleVars
    /\ part # "monitor" => UNCHANGED monitorVars
    /\ part # "trace" => UNCHANGED traceVars
    /\ part # "memory" => UNCHANGED memoryOutcomeVars
    /\ part # "reconciler" => UNCHANGED lockVars

Next ==
    /\ OthersIdle
    /\ \/ part = "outbox" /\ OutboxNext
       \/ part = "lifecycle" /\ LifecycleNext
       \/ part = "monitor" /\ MonitorNext
       \/ part = "trace" /\ TraceNext
       \/ part = "memory" /\ MemoryOutcomeNext
       \/ part = "reconciler" /\ ReconcilerNext

(* The fairness of each part, where the behaviour is one of that part. *)

OutboxFairness ==
    /\ \A w \in Workers : WF_outboxVars(part = "outbox" /\ SenderStep(w))
    /\ WF_outboxVars(part = "outbox" /\ SendLeaseExpires)
    /\ WF_outboxVars(part = "outbox" /\ RetryWindowCloses)

LifecycleFairness ==
    /\ \A w \in Workers : WF_lifecycleVars(part = "lifecycle" /\ RemoverStep(w))
    /\ WF_lifecycleVars(part = "lifecycle" /\ ExportLeaseExpires)
    /\ WF_lifecycleVars(part = "lifecycle" /\ DeletionLeaseExpires)

MonitorFairness ==
    /\ \A w \in CronWorkers : WF_monitorVars(part = "monitor" /\ CronStep(w))
    /\ \A n \in 1..MaxRevisions :
           WF_monitorVars(part = "monitor" /\ n \in DOMAIN cronCommands
                                           /\ CronLeaseExpires(n))

TraceFairness ==
    /\ \A w \in Workers : WF_traceVars(part = "trace" /\ VerifierStep(w))
    /\ \A p \in TraceProviders :
           /\ WF_traceVars(part = "trace" /\ TraceLeaseExpires(p))
           /\ WF_traceVars(part = "trace" /\ TraceRetryDue(p))

MemoryFairness ==
    /\ \A w \in Workers :
           /\ WF_memoryOutcomeVars(part = "memory" /\ EraserStep(w))
           /\ WF_memoryOutcomeVars(part = "memory" /\ MaturerStep(w))
    /\ \A k \in DeleteKeys : WF_memoryOutcomeVars(part = "memory" /\ ForgetLeaseExpires(k))
    /\ WF_memoryOutcomeVars(part = "memory" /\ OutcomeLeaseExpires)
    /\ WF_memoryOutcomeVars(part = "memory" /\ MaturationReached)

ReconcilerFairness ==
    /\ \A d \in Dispatchers :
          /\ WF_lockVars(part = "reconciler" /\ DispatcherStep(d))
          /\ SF_lockVars(part = "reconciler" /\ ClaimSnapshot(d))
          /\ SF_lockVars(part = "reconciler" /\ (ClaimLockCommand(d) \/ FinishLockCommand(d)))
    /\ \A r \in Reconcilers :
          /\ WF_lockVars(part = "reconciler" /\ ReconcilerStep(r))
          /\ SF_lockVars(part = "reconciler" /\ AbortVictim(r))
    /\ \A p \in Procs : WF_lockVars(part = "reconciler" /\ AbortVictim(p))
    /\ WF_lockVars(part = "reconciler" /\ OfficialRunEnds)
    /\ WF_lockVars(part = "reconciler" /\ CommandLeaseExpires)

Spec ==
    /\ Init /\ [][Next]_vars
    /\ OutboxFairness /\ LifecycleFairness /\ MonitorFairness
    /\ TraceFairness /\ MemoryFairness /\ ReconcilerFairness

-----------------------------------------------------------------------------
\* Every change of the monitor is applied, or its command fails for good
\* (CronCommandsEnd of MonitorCron).
EveryCronCommandEnds == part = "monitor" => CronCommandsEnd

\* The dispatcher's command is finished (CommandFinishes of
\* ProjectionReconciler).
DispatchedCommandFinishes == part = "reconciler" => CommandFinishes

\* Notifications, trace deliveries, memory deletions and outcomes that were
\* planned or accepted come to an end (NotificationSettles, DeliveriesEnd and
\* MemoryWorkEnds): a row whose worker died is taken by another, and no status
\* that a worker leaves behind is one that nobody claims.
BackgroundWorkEnds == NotificationSettles /\ DeliveriesEnd /\ MemoryWorkEnds

MCAdapters == <<"concrete", "retention">>
=============================================================================
