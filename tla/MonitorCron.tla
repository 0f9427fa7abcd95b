------------------------------ MODULE MonitorCron ------------------------------
(***************************************************************************)
(* A scheduled monitor and the Cron of the Agent Server that fires it.     *)
(* Every change of the monitor by its user appends one command; a worker   *)
(* leases a command, reads the monitor as it is then, brings the remote    *)
(* Cron in line with what it read by up to four remote calls, and records  *)
(* the result.  The commands of a monitor are not ordered among each other *)
(* once one of them was retried, and the remote calls hold no lock.        *)
(***************************************************************************)
EXTENDS WorkerLeases, Sequences

CONSTANTS
    CronWorkers,      \* the workers that run MonitorCronWorker
    MaxRevisions,     \* bound: changes of the monitor, its creation included
    MaxCrons,         \* bound: Crons ever created remotely
    MaxCronAttempts,  \* max_attempts
    MaxCronCrashes    \* bound: crashes and shutdowns of workers

ASSUME MonitorCronAssumption ==
    /\ CronWorkers \subseteq Workers
    /\ {MaxRevisions, MaxCrons, MaxCronAttempts, MaxCronCrashes} \subseteq Nat \ {0}

VARIABLES
    monitor,       \* the MonitorDefinition
    cronCommands,  \* its MonitorCronCommands; command n has desired_revision n
    crons,         \* remote: the Crons of this binding that were ever created
    cronWorker,    \* what each worker is doing
    cronCrashes

monitorVars == <<monitor, cronCommands, crons, cronWorker, cronCrashes>>

NoCron == 0
CronIds == 1..MaxCrons

Monitor == [status: {"draft", "active", "paused", "degraded", "disabled"},
            schedule: Nat, desired: Nat, applied: Nat, cron: Nat]
CronCommand == [type: {"create", "pause", "resume", "delete"},
                status: {"pending", "leased", "succeeded", "failed"},
                owner: Holder, lease: LeaseState, fence: Nat, attempt: Nat,
                retried: BOOLEAN]
Cron == [exists: BOOLEAN, enabled: BOOLEAN, schedule: Nat]

\* a worker: command, fence and attempt of its lease; the monitor it read;
\* the Cron it is about
CronWorkerState ==
    [pc: {"idle", "load", "search", "create", "adopt", "update", "delete",
          "succeed", "fail", "degrade"},
     command: Nat, fence: Nat, attempt: Nat, seen: Monitor, cron: Nat]

NewCronCommand(type) ==
    [type |-> type, status |-> "pending", owner |-> NoWorker, lease |-> "none",
     fence |-> 0, attempt |-> 0, retried |-> FALSE]

NewMonitor ==
    [status |-> "draft", schedule |-> 1, desired |-> 1, applied |-> 0, cron |-> NoCron]

CronIdle == [pc |-> "idle", command |-> 0, fence |-> 0, attempt |-> 0,
             seen |-> NewMonitor, cron |-> NoCron]

\* the monitor was just created, as a draft
MonitorInit ==
    /\ monitor = NewMonitor
    /\ cronCommands = <<NewCronCommand("create")>>
    /\ crons = [c \in CronIds |-> [exists |-> FALSE, enabled |-> FALSE, schedule |-> 0]]
    /\ cronWorker = [w \in CronWorkers |-> CronIdle]
    /\ cronCrashes = 0

-----------------------------------------------------------------------------
(* The user. *)

\* _change_monitor_status and update_monitor, with a current expected_version
ChangeMonitor(type, status, allowed) ==
    /\ monitor.status \in allowed
    /\ monitor.desired < MaxRevisions
    /\ monitor' = [monitor EXCEPT !.status = status, !.schedule = @ + 1,
                                  !.desired = @ + 1]
    /\ cronCommands' = Append(cronCommands, NewCronCommand(type))
    /\ UNCHANGED <<crons, cronWorker, cronCrashes>>

PauseMonitor ==
    ChangeMonitor("pause", "paused", {"draft", "active", "degraded", "paused"})
ResumeMonitor ==
    ChangeMonitor("resume", "active", {"paused", "degraded", "active"})
DisableMonitor ==
    ChangeMonitor("delete", "disabled",
                  {"draft", "active", "paused", "degraded", "disabled"})

-----------------------------------------------------------------------------
(* The worker: lease and load. *)

\* Mutant: the command of a dead worker is not leased again.
LeasableOnlyPending(n) == cronCommands[n].status = "pending"

LeasableCron(n) ==
    \/ cronCommands[n].status = "pending"
    \/ cronCommands[n].status = "leased" /\ cronCommands[n].lease = "due"

\* by available_at, then created_at: a command that was put back may come
\* before or after the others
NextCron(n) ==
    /\ LeasableCron(n)
    /\ \/ cronCommands[n].retried
       \/ \A m \in 1..(n - 1) : LeasableCron(m) => cronCommands[m].retried

LeaseCron(w, n) ==
    /\ cronWorker[w].pc = "idle"
    /\ NextCron(n)
    /\ LET c == cronCommands[n] IN
       /\ cronCommands' = [cronCommands EXCEPT ![n] =
              [c EXCEPT !.status = "leased", !.owner = w, !.lease = "valid",
                        !.fence = @ + 1, !.attempt = @ + 1]]
       /\ cronWorker' = [cronWorker EXCEPT ![w] =
              [CronIdle EXCEPT !.pc = "load", !.command = n,
                               !.fence = c.fence + 1, !.attempt = c.attempt + 1]]
    /\ UNCHANGED <<monitor, crons, cronCrashes>>

\* Mutant: the worker applies the state the command was queued for.
LoadQueuedRevision(w) ==
    /\ cronWorker[w].pc = "load"
    /\ LET type == cronCommands[cronWorker[w].command].type
           cron == monitor.cron
           seen == [monitor EXCEPT !.schedule = cronWorker[w].command]
       IN cronWorker' = [cronWorker EXCEPT ![w].seen = seen, ![w].cron = cron,
              ![w].pc = IF cron = NoCron THEN "search"
                        ELSE IF type = "delete" THEN "delete" ELSE "update"]
    /\ UNCHANGED <<monitor, cronCommands, crons, cronCrashes>>

\* _load_context, and the first branch of _apply_remote
LoadMonitor(w) ==
    /\ cronWorker[w].pc = "load"
    /\ LET type == cronCommands[cronWorker[w].command].type
           cron == monitor.cron
       IN cronWorker' = [cronWorker EXCEPT ![w].seen = monitor, ![w].cron = cron,
              ![w].pc = IF cron = NoCron THEN "search"
                        ELSE IF type = "delete" THEN "delete" ELSE "update"]
    /\ UNCHANGED <<monitor, cronCommands, crons, cronCrashes>>

-----------------------------------------------------------------------------
(* The worker: remote calls.  A call may raise before or after its effect. *)

BindingMatches == {c \in CronIds : crons[c].exists}

SearchCron(w) ==
    /\ cronWorker[w].pc = "search"
    /\ LET deletes == cronCommands[cronWorker[w].command].type = "delete" IN
       \/ /\ BindingMatches = {}
          /\ cronWorker' = [cronWorker EXCEPT ![w].pc =
                                IF deletes THEN "succeed" ELSE "create"]
       \/ /\ Cardinality(BindingMatches) = 1
          /\ cronWorker' = [cronWorker EXCEPT
                 ![w].cron = CHOOSE c \in BindingMatches : TRUE,
                 ![w].pc = IF deletes THEN "delete" ELSE "adopt"]
       \/ /\ Cardinality(BindingMatches) > 1
          /\ cronWorker' = [cronWorker EXCEPT ![w].pc = "degrade"]
    /\ UNCHANGED <<monitor, cronCommands, crons, cronCrashes>>

\* the remote effect of a call, and what the worker does when it sees the answer;
\* a Cron that is gone is an error of the call
RemoteCall(w, effect, cron, pc) ==
    /\ crons' \in {crons, effect}
    /\ cronWorker' \in
           {[cronWorker EXCEPT ![w].pc = "fail"]} \cup
           (IF crons' = effect
            THEN {[cronWorker EXCEPT ![w].pc = pc, ![w].cron = cron]} ELSE {})
    /\ UNCHANGED <<monitor, cronCommands, cronCrashes>>

CreateCron(w) ==
    /\ cronWorker[w].pc = "create"
    /\ \E c \in CronIds :
          /\ ~crons[c].exists
          /\ \A d \in 1..(c - 1) : crons[d].exists \/ crons[d].schedule > 0
          /\ crons[c].schedule = 0
          /\ RemoteCall(w, [crons EXCEPT ![c] =
                 [exists |-> TRUE, enabled |-> FALSE,
                  schedule |-> cronWorker[w].seen.schedule]], c, "update")

\* update of the single match by reconcile, which leaves enabled alone
AdoptCron(w) ==
    /\ cronWorker[w].pc = "adopt"
    /\ LET c == cronWorker[w].cron IN
       IF crons[c].exists
       THEN RemoteCall(w, [crons EXCEPT ![c].schedule = cronWorker[w].seen.schedule],
                       c, "update")
       ELSE /\ cronWorker' = [cronWorker EXCEPT ![w].pc = "fail"]
            /\ UNCHANGED <<monitor, cronCommands, crons, cronCrashes>>

EnabledFor(status) == status \notin {"paused", "disabled", "expired"}

UpdateCron(w) ==
    /\ cronWorker[w].pc = "update"
    /\ LET c == cronWorker[w].cron IN
       IF crons[c].exists
       THEN RemoteCall(w, [crons EXCEPT ![c].schedule = cronWorker[w].seen.schedule,
                               ![c].enabled = EnabledFor(cronWorker[w].seen.status)],
                       c, "succeed")
       ELSE /\ cronWorker' = [cronWorker EXCEPT ![w].pc = "fail"]
            /\ UNCHANGED <<monitor, cronCommands, crons, cronCrashes>>

DeleteCron(w) ==
    /\ cronWorker[w].pc = "delete"
    /\ LET c == cronWorker[w].cron IN
       IF crons[c].exists
       THEN RemoteCall(w, [crons EXCEPT ![c].exists = FALSE, ![c].enabled = FALSE],
                       NoCron, "succeed")
       ELSE /\ cronWorker' = [cronWorker EXCEPT ![w].pc = "fail"]
            /\ UNCHANGED <<monitor, cronCommands, crons, cronCrashes>>

-----------------------------------------------------------------------------
(* The worker: the result.  A lease that was lost rolls everything back. *)

OwnsCronLease(w) ==
    LET c == cronCommands[cronWorker[w].command] IN
    c.status = "leased" /\ c.owner = w /\ c.fence = cronWorker[w].fence

\* MonitorCronCommandRepository.finish
FinishCron(w, status) ==
    cronCommands' = [cronCommands EXCEPT ![cronWorker[w].command] =
        [@ EXCEPT !.status = status, !.owner = NoWorker, !.lease = "none",
                  !.retried = (status = "pending")]]

RecordSuccess(w) ==
    /\ cronWorker[w].pc = "succeed"
    /\ IF OwnsCronLease(w)
       THEN /\ monitor' = [monitor EXCEPT
                   !.cron = cronWorker[w].cron,
                   !.status = IF @ = "draft" THEN "active" ELSE @,
                   !.applied = IF @ > cronWorker[w].command THEN @
                               ELSE cronWorker[w].command]
            /\ FinishCron(w, "succeeded")
       ELSE UNCHANGED <<monitor, cronCommands>>
    /\ cronWorker' = [cronWorker EXCEPT ![w] = CronIdle]
    /\ UNCHANGED <<crons, cronCrashes>>

RetryableCron(w) ==
    cronWorker[w].pc = "fail" /\ cronWorker[w].attempt < MaxCronAttempts

RecordFailure(w) ==
    /\ cronWorker[w].pc \in {"fail", "degrade"}
    /\ IF ~OwnsCronLease(w)
       THEN UNCHANGED <<monitor, cronCommands>>
       ELSE IF RetryableCron(w)
       THEN FinishCron(w, "pending") /\ UNCHANGED monitor
       ELSE /\ FinishCron(w, "failed")
            /\ monitor' = [monitor EXCEPT !.status =
                   IF @ = "disabled" THEN @ ELSE "degraded"]
    /\ cronWorker' = [cronWorker EXCEPT ![w] = CronIdle]
    /\ UNCHANGED <<crons, cronCrashes>>

\* release_owned_leases, at shutdown
ReleaseOwnedCrons(w) ==
    /\ cronWorker[w].pc # "idle" /\ cronCrashes < MaxCronCrashes
    /\ cronCommands' = [n \in DOMAIN cronCommands |->
           IF cronCommands[n].status = "leased" /\ cronCommands[n].owner = w
           THEN [cronCommands[n] EXCEPT !.status = "pending", !.owner = NoWorker,
                                        !.lease = "none", !.retried = TRUE]
           ELSE cronCommands[n]]
    /\ cronWorker' = [cronWorker EXCEPT ![w] = CronIdle]
    /\ cronCrashes' = cronCrashes + 1
    /\ UNCHANGED <<monitor, crons>>

CronWorkerCrash(w) ==
    /\ cronWorker[w].pc # "idle" /\ cronCrashes < MaxCronCrashes
    /\ cronWorker' = [cronWorker EXCEPT ![w] = CronIdle]
    /\ cronCrashes' = cronCrashes + 1
    /\ UNCHANGED <<monitor, cronCommands, crons>>

CronLeaseExpires(n) ==
    /\ cronCommands[n].lease = "valid"
    /\ cronCommands' = [cronCommands EXCEPT ![n].lease = "due"]
    /\ UNCHANGED <<monitor, crons, cronWorker, cronCrashes>>

CronStep(w) ==
    \/ \E n \in DOMAIN cronCommands : LeaseCron(w, n)
    \/ LoadMonitor(w)
    \/ SearchCron(w)
    \/ CreateCron(w)
    \/ AdoptCron(w)
    \/ UpdateCron(w)
    \/ DeleteCron(w)
    \/ RecordSuccess(w)
    \/ RecordFailure(w)

MonitorNext ==
    \/ PauseMonitor
    \/ ResumeMonitor
    \/ DisableMonitor
    \/ \E w \in CronWorkers :
          CronStep(w) \/ ReleaseOwnedCrons(w) \/ CronWorkerCrash(w)
    \/ \E n \in DOMAIN cronCommands : CronLeaseExpires(n)

MonitorSafety == MonitorInit /\ [][MonitorNext]_monitorVars

MonitorSpec ==
    /\ MonitorSafety
    /\ \A w \in CronWorkers : WF_monitorVars(CronStep(w))
    /\ \A n \in 1..MaxRevisions :
           WF_monitorVars(n \in DOMAIN cronCommands /\ CronLeaseExpires(n))

-----------------------------------------------------------------------------
(* Properties. *)

CronsQuiet ==
    \A n \in DOMAIN cronCommands : cronCommands[n].status \in {"succeeded", "failed"}

\* Once every command ended and the newest was applied, the remote Cron follows
\* the monitor: an active monitor has exactly one Cron, enabled and carrying the
\* schedule version that admit_trigger asks for (any other is suppressed without
\* a trace in the monitor), and a paused or disabled monitor has none enabled.
CronFollowsMonitor ==
    CronsQuiet /\ monitor.applied = monitor.desired =>
        /\ monitor.status = "active" =>
              /\ Cardinality(BindingMatches) = 1
              /\ monitor.cron \in BindingMatches
              /\ crons[monitor.cron].enabled
              /\ crons[monitor.cron].schedule = monitor.schedule
        /\ monitor.status \in {"paused", "disabled"} =>
              \A c \in CronIds : ~crons[c].enabled

\* Every change of the monitor is applied, or its command fails for good.
CronCommandsEnd == []<>CronsQuiet
=============================================================================
