------------------------- MODULE CommandDispatcher -------------------------
(***************************************************************************)
(* The command dispatcher of Signal Desk V2 (commands/dispatcher.py): the  *)
(* worker processes that claim the commands of a Task under a lease, drive *)
(* the official Run on the Agent Server and project what it did onto the   *)
(* Product rows, while users keep sending requests.                        *)
(*                                                                         *)
(* A worker is a program counter and the CommandLease it claimed.  Every   *)
(* database transaction and every remote call is one step; between two     *)
(* steps any other worker, user, timer or server step may happen.  A       *)
(* transaction of a worker begins with _locked_command, which re-checks    *)
(* that the lease is still its own.                                        *)
(***************************************************************************)
EXTENDS ProductService, AgentServer

CONSTANTS
    MaxAttempts,        \* max_attempts
    MaxCancelAttempts,  \* max_cancel_attempts
    Faults              \* what may fail in the environment

FaultKind == {"crash", "create", "find", "stream", "get", "members", "join",
              "cancel", "db"}

ASSUME DispatcherAssumption ==
    /\ MaxAttempts \in 1 .. MaxFence
    /\ MaxCancelAttempts \in 1 .. MaxFence
    /\ Faults \subseteq FaultKind

VARIABLES
    worker,     \* the worker processes
    blind       \* history: a create intent was dropped while the outcome of
                \* an earlier create request was unknown

vars == <<task, run, cmd, pause, official, duplicate, inflight, worker, blind>>

PC == {"idle", "claimed", "lookup", "create", "find", "register", "drain", "get",
       "members", "mark", "poll", "schedule", "orphan_cancel", "orphan",
       "remember", "join", "finalize", "db_error", "remote_error",
       "cancel_find", "cancel_register", "cancel_call", "cancel_retry",
       "cancel_finalize", "cancel_failure"}

Note == {"none", "error", "indeterminate", "success"} \cup TerminalStatus

(***************************************************************************)
(* cmd, run, fence: the claimed command, its Product Run (NoRun if there   *)
(* is none) and the fence token.  handle: the Product Run whose official   *)
(* Run is addressed.  reconcile: a create intent is durable, only find is  *)
(* allowed.  obs: the terminal status observed before the claim.  note:    *)
(* the exception, the remote state or the output a later step handles.     *)
(***************************************************************************)
WorkerState == [pc: PC, cmd: {0} \cup Commands, run: {NoRun} \cup Runs,
                fence: 0 .. MaxFence, handle: {NoRun} \cup Runs,
                reconcile: BOOLEAN, obs: {"none", "success", "error"}, note: Note]

Idle == [pc |-> "idle", cmd |-> 0, run |-> NoRun, fence |-> 0, handle |-> NoRun,
         reconcile |-> FALSE, obs |-> "none", note |-> "none"]

Init ==
    /\ StoreInit
    /\ ServerInit
    /\ worker = [w \in Workers |-> Idle]
    /\ blind = [r \in Runs |-> FALSE]

\* Every row and every lease stays a value that its schema and the code admit,
\* in particular the remote status a worker remembers and the attempt counters.
TypeOK ==
    /\ StoreTypeOK
    /\ ServerTypeOK
    /\ worker \in [Workers -> WorkerState]
    /\ blind \in [Runs -> BOOLEAN]

-----------------------------------------------------------------------------
At(w, pc) == worker[w].pc = pc
Goto(w, pc, note) == worker' = [worker EXCEPT ![w].pc = pc, ![w].note = note]
Done(w) == worker' = [worker EXCEPT ![w] = Idle]
Row(w)  == cmd[worker[w].cmd]
Type(w) == Row(w).type

\* Mutant: the fence is compared, the status and the owner are not.
OwnsByFence(w) == Row(w).attempt = worker[w].fence

\* _locked_command with allow_expired, and without.
Owns(w) ==
    /\ Row(w).status = "dispatching"
    /\ Row(w).owner = w
    /\ Row(w).attempt = worker[w].fence
OwnsFresh(w) == Owns(w) /\ Row(w).lease = "valid"

TaskAccepts(w) ==
    \/ task = "running"
    \/ task = "waiting_human" /\ Type(w) = "respond" /\ ~Row(w).expired

\* A transaction that finds nothing to do, or raises, leaves the rows alone.
GiveUp(w) == Done(w) /\ UNCHANGED <<dbVars, serverVars, blind>>

\* Nothing but the worker changes: a remote read.
Read(w, pc, note) == Goto(w, pc, note) /\ UNCHANGED <<dbVars, serverVars, blind>>

-----------------------------------------------------------------------------
(***************************************************************************)
(* claim_next                                                              *)
(***************************************************************************)
Eligible(c) ==
    \/ cmd[c].status = "pending" /\ cmd[c].lease \in {"null", "due"}
    \/ cmd[c].status = "dispatching" /\ cmd[c].lease = "due"

PriorFinished(c) == \A d \in Commands : d < c => ~IsUnfinished(d)

\* Mutant: the order of the commands is ignored.
ClaimableInAnyOrder(c) == task \in ActiveStatus /\ Eligible(c)

Claimable(c) ==
    /\ task \in ActiveStatus
    /\ Eligible(c)
    /\ PriorFinished(c)

CancelTargetGone(c) ==
    cmd[c].type = "cancel_run" /\ run[cmd[c].arg].status \in TerminalStatus

LineageBroken(c) ==
    LET r == cmd[c].arg
    IN  \/ /\ cmd[c].type = "retry"
           /\ run[run[r].parent].status \notin {"failed", "blocked"}
        \/ /\ cmd[c].type = "fork"
           /\ ~(run[r].ckpt /\ run[run[r].parent].ckpt)

SubmitSuperseded(c) ==
    /\ cmd[c].type = "submit"
    /\ \E r \in Runs : Latest(r) /\ run[r].cancelReq
    /\ UnfinishedOf("cancel_task")

\* The claim ends the command at once instead of dispatching it.
ClaimDrops(w, c) ==
    /\ At(w, "idle")
    /\ Claimable(c)
    /\ CancelTargetGone(c) \/ SubmitSuperseded(c)
    /\ FinishCommand(c, "cancelled")
    /\ UNCHANGED <<task, run, pause, serverVars, worker, blind>>

ClaimRefusesLineage(w, c) ==
    /\ At(w, "idle")
    /\ Claimable(c)
    /\ LineageBroken(c)
    /\ FinishCommand(c, "failed")
    /\ run' = [run EXCEPT ![cmd[c].arg] = PersistTerminal(@, "failed", c)]
    /\ task' = "failed"
    /\ UNCHANGED <<pause, serverVars, worker, blind>>

\* The Product Run of the claim; a first submit inserts attempt 1.
TargetOf(c, r) ==
    CASE cmd[c].type \in {"cancel_run", "fork", "retry"} -> r = cmd[c].arg
      [] cmd[c].type = "submit" -> IF \E q \in Runs : Exists(q)
                                   THEN r \in Runs /\ Latest(r) ELSE r = 1
      [] OTHER -> IF \E q \in Runs : Exists(q)
                  THEN r \in Runs /\ Latest(r) ELSE r = NoRun

\* Mutant: no durable create intent.
ClaimedWithoutIntent(row) ==
    [row EXCEPT !.status = "running",
                !.deadline = IF @ = "unset" THEN "future" ELSE @]

Claimed(row) ==
    [row EXCEPT !.status = "running", !.intent = @ \/ ~row.off,
                !.deadline = IF @ = "unset" THEN "future" ELSE @]

\* The handle in the lease; a cancel of an unregistered resume gets its parent's.
HandleOf(c, r) ==
    IF r = NoRun THEN NoRun
    ELSE IF run[r].off THEN r
    ELSE IF /\ cmd[c].type = "cancel_task"
            /\ run[r].kind = "resume"
            /\ run[run[r].parent].off
         THEN run[r].parent
    ELSE NoRun

NextAttempt(n) == IF n < MaxFence THEN n + 1 ELSE n

Claim(w, c) ==
    /\ At(w, "idle")
    /\ Claimable(c)
    /\ ~CancelTargetGone(c) /\ ~SubmitSuperseded(c) /\ ~LineageBroken(c)
    /\ cmd' = [cmd EXCEPT ![c].status = "dispatching", ![c].owner = w,
                          ![c].lease = "valid",
                          ![c].attempt = NextAttempt(@)]
    /\ \E r \in Runs \cup {NoRun} :
          /\ TargetOf(c, r)
          /\ worker' = [worker EXCEPT ![w] =
                [pc |-> "claimed", cmd |-> c, run |-> r,
                 fence |-> NextAttempt(cmd[c].attempt),
                 handle |-> HandleOf(c, r),
                 reconcile |-> r # NoRun /\ run[r].intent /\ ~run[r].off,
                 obs |-> IF r = NoRun THEN "none" ELSE run[r].obs,
                 note |-> "none"]]
          /\ IF cmd[c].type \in WorkType
             THEN /\ run' = [run EXCEPT ![r] = Claimed(@)]
                  /\ task' = IF cmd[c].type = "respond" /\ ~cmd[c].expired
                             THEN "waiting_human" ELSE "running"
             ELSE UNCHANGED <<run, task>>
    /\ UNCHANGED <<pause, serverVars, blind>>

-----------------------------------------------------------------------------
(***************************************************************************)
(* execute: a work command                                                 *)
(***************************************************************************)
\* Respond and fork address the official Run of the source.
SourceRegistered(w) ==
    Type(w) \in {"respond", "fork"} => run[run[worker[w].run].parent].off

\* A cancel whose Run is known to have ended projects that end instead.
ExecuteCancel(w) ==
    IF worker[w].obs # "none"
    THEN IF worker[w].handle # NoRun
         THEN Read(w, "remember", worker[w].obs)
         ELSE IF worker[w].fence >= MaxCancelAttempts
         THEN Read(w, "finalize", "failed")
         ELSE Read(w, "schedule", "none")
    ELSE IF worker[w].handle # NoRun THEN Read(w, "cancel_call", "none")
    ELSE IF worker[w].run # NoRun THEN Read(w, "cancel_find", "none")
    ELSE Read(w, "cancel_finalize", "none")

ExecuteWork(w) ==
    IF worker[w].handle # NoRun THEN Read(w, "drain", "none")
    ELSE IF ~SourceRegistered(w) THEN Read(w, "remote_error", "error")
    ELSE IF worker[w].reconcile THEN Read(w, "find", "none")
    ELSE Read(w, "lookup", "none")

Execute(w) ==
    /\ At(w, "claimed")
    /\ IF ~OwnsFresh(w) THEN GiveUp(w)
       ELSE IF Type(w) \in CancelType THEN ExecuteCancel(w)
       ELSE ExecuteWork(w)

\* start, resume and fork look for the official Run before they create one;
\* the timeout of the whole call, which may strike here, is indeterminate.
Lookup(w) ==
    /\ At(w, "lookup")
    /\ \/ Found(worker[w].run) /\ Read(w, "register", "none")
       \/ NotFound(worker[w].run) /\ Read(w, "create", "none")
       \/ "create" \in Faults /\ Read(w, "remote_error", "indeterminate")
       \/ /\ Ambiguous(worker[w].run) \/ "create" \in Faults
          /\ Read(w, "remote_error", "error")

CreateAccepted(w) ==
    /\ At(w, "create")
    /\ Accepts(worker[w].run)
    /\ Goto(w, "register", "none")
    /\ UNCHANGED <<dbVars, inflight, blind>>

CreateRejected(w) ==
    /\ At(w, "create")
    /\ "create" \in Faults \/ ThreadBusy
    /\ Read(w, "remote_error", "error")

\* The answer to the create request is lost.  resume and fork do not catch
\* every transport error: those reach the dispatcher as a plain failure.
CreateUncertain(w) ==
    /\ At(w, "create")
    /\ "create" \in Faults
    /\ inflight' = [inflight EXCEPT ![worker[w].run] = TRUE]
    /\ \/ Goto(w, "remote_error", "indeterminate")
       \/ Type(w) \in {"respond", "fork"} /\ Goto(w, "remote_error", "error")
    /\ UNCHANGED <<dbVars, official, duplicate, blind>>

\* The call is abandoned; a request that was sent may still arrive.
MaybeInFlight(w) ==
    \/ UNCHANGED inflight
    \/ At(w, "create") /\ inflight' = [inflight EXCEPT ![worker[w].run] = TRUE]

\* _start_with_heartbeat: the lease could not be renewed, the call is dropped.
HeartbeatLost(w) ==
    /\ At(w, "lookup") \/ At(w, "create")
    /\ ~OwnsFresh(w)
    /\ MaybeInFlight(w)
    /\ Done(w)
    /\ UNCHANGED <<dbVars, official, duplicate, blind>>

\* The find of a durable intent: not visible and timed out are both
\* indeterminate, any other failure is a plain error.
Find(w) ==
    /\ At(w, "find")
    /\ \/ Found(worker[w].run) /\ Read(w, "register", "none")
       \/ /\ NotFound(worker[w].run) \/ "find" \in Faults
          /\ Read(w, "remote_error", "indeterminate")
       \/ /\ Ambiguous(worker[w].run) \/ "find" \in Faults
          /\ Read(w, "remote_error", "error")

\* _register_remote
Register(w) ==
    /\ At(w, "register")
    /\ LET r == worker[w].run
           c == worker[w].cmd
       IN  IF OwnsFresh(w) /\ TaskAccepts(w)
           THEN /\ run' = [run EXCEPT ![r].off = TRUE, ![r].intent = FALSE]
                /\ IF run[r].cancelReq
                   THEN /\ cmd' = [cmd EXCEPT ![c] =
                                      [Close(@, "cancelled") EXCEPT !.off = TRUE]]
                        /\ Done(w)
                   ELSE /\ cmd' = [cmd EXCEPT ![c].off = TRUE]
                        /\ worker' = [worker EXCEPT ![w].pc = "drain", ![w].handle = r]
                /\ UNCHANGED <<task, pause, serverVars, blind>>
           ELSE GiveUp(w)

\* _drain_progressive_stream: an event that cannot be stored ends the slice.
Drain(w) ==
    /\ At(w, "drain")
    /\ \/ IF worker[w].obs # "none" THEN Read(w, "remember", worker[w].obs)
                                    ELSE Read(w, "get", "none")
       \/ ~(OwnsFresh(w) /\ TaskAccepts(w)) /\ GiveUp(w)
       \/ "stream" \in Faults /\ Read(w, "remote_error", "error")

Get(w) ==
    /\ At(w, "get")
    /\ LET s == StatusOf(worker[w].handle)
       IN  \/ s = "interrupted" /\ Read(w, "members", "none")
           \/ s \in {"success", "error"} /\ Read(w, "remember", s)
           \/ s \notin {"interrupted", "success", "error"} /\ Read(w, "poll", "none")
           \/ "get" \in Faults /\ Read(w, "poll", "none")

DeadlinePast(w) == run[worker[w].run].deadline = "past"

\* get_interrupts, and _schedule_interrupt_projection_retry when it raises.
Members(w) ==
    /\ At(w, "members")
    /\ \/ official[worker[w].handle] = "paused" /\ Read(w, "mark", "none")
       \/ /\ official[worker[w].handle] # "paused" \/ "members" \in Faults
          /\ IF DeadlinePast(w) THEN Read(w, "finalize", "failed")
                                ELSE Read(w, "schedule", "none")

\* Mutant: the deadline of the Run is never looked at.
PollForEver(w) == At(w, "poll") /\ Read(w, "schedule", "none")

\* _reconcile_or_timeout
Poll(w) ==
    /\ At(w, "poll")
    /\ IF DeadlinePast(w) THEN Read(w, "orphan_cancel", "none")
                          ELSE Read(w, "schedule", "none")

\* _schedule_reconciliation: the command stays dispatching, without an owner.
Schedule(w) ==
    /\ At(w, "schedule")
    /\ IF Owns(w) /\ run[worker[w].run].status = "running"
       THEN /\ BackoffCommand(worker[w].cmd, "dispatching")
            /\ Done(w)
            /\ UNCHANGED <<task, run, pause, serverVars, blind>>
       ELSE GiveUp(w)

OrphanCancel(w) ==
    /\ At(w, "orphan_cancel")
    /\ LET h == worker[w].handle
       IN  \/ /\ CancelTerminal(h)
              /\ Goto(w, "remember", StatusOf(h))
              /\ UNCHANGED official
           \/ /\ CancelConfirmed(h)
              /\ Stop(h)
              /\ Goto(w, "finalize", "failed")
           \/ /\ "cancel" \in Faults
              /\ CancelLost(h)
              /\ Goto(w, "orphan", "none")
    /\ UNCHANGED <<dbVars, duplicate, inflight, blind>>

\* _schedule_or_finalize_orphan_cancel
Orphan(w) ==
    /\ At(w, "orphan")
    /\ LET r == worker[w].run
       IN  IF Owns(w) /\ run[r].status = "running"
           THEN \/ /\ run' = [run EXCEPT ![r].cancelReq = TRUE]
                   /\ BackoffCommand(worker[w].cmd, "dispatching")
                   /\ Done(w)
                   /\ UNCHANGED <<task, pause, serverVars, blind>>
                \/ run[r].cancelReq /\ Read(w, "cancel_failure", "none")
           ELSE GiveUp(w)

-----------------------------------------------------------------------------
(***************************************************************************)
(* Projection of a terminal or a paused official Run                       *)
(***************************************************************************)
\* Mutant: the accepted response is not marked as resolved.
ResolvedPausesSkipped(w) == pause

\* _resolve_responding_interrupt
ResolvedPauses(w) ==
    IF Type(w) = "respond" /\ pause[Row(w).arg].status = "responding"
    THEN [pause EXCEPT ![Row(w).arg].status = "resolved"]
    ELSE pause

\* _mark_waiting_human; a second active pause violates a unique index.
Mark(w) ==
    /\ At(w, "mark")
    /\ LET r == worker[w].run
           settled == ResolvedPauses(w)
       IN  IF /\ Owns(w) /\ TaskAccepts(w)
              /\ \A p \in Runs \ {r} : settled[p].status \notin ActivePause
           THEN /\ pause' = [settled EXCEPT ![r].status =
                                IF @ = "absent" THEN "pending" ELSE @]
                /\ run' = [run EXCEPT ![r].status = "waiting_human", ![r].ckpt = TRUE]
                /\ task' = "waiting_human"
                /\ FinishCommand(worker[w].cmd, "dispatched")
                /\ Done(w)
                /\ UNCHANGED <<serverVars, blind>>
           ELSE GiveUp(w)

\* _remember_remote_terminal
Remember(w) ==
    /\ At(w, "remember")
    /\ LET r == worker[w].run
           s == worker[w].note
       IN  IF Owns(w) /\ run[r].obs \in {"none", s}
           THEN /\ run' = [run EXCEPT ![r].obs = s]
                /\ IF s = "success" THEN Goto(w, "join", "none")
                                    ELSE Goto(w, "finalize", "failed")
                /\ UNCHANGED <<task, cmd, pause, serverVars, blind>>
           ELSE GiveUp(w)

TerminalRetryLimit(w) ==
    IF Type(w) \in CancelType THEN MaxCancelAttempts ELSE MaxAttempts

\* join, the check of the output, and _schedule_terminal_retry when it raises.
Join(w) ==
    /\ At(w, "join")
    /\ \/ \E out \in TerminalStatus \ {"cancelled"} : Read(w, "finalize", out)
       \/ /\ "join" \in Faults
          /\ IF worker[w].fence >= TerminalRetryLimit(w)
             THEN Read(w, "finalize", "failed")
             ELSE Read(w, "schedule", "none")

\* The pauses a projection closes; it happens before the fence is compared.
ProjectedPauses(w) ==
    IF Type(w) \in CancelType THEN ClosedPauses(worker[w].run, "resolved")
                              ELSE ResolvedPauses(w)

ProjectionAccepted(w) ==
    TaskAccepts(w) \/ (Type(w) \in CancelType /\ task = "waiting_human")

\* _finalize
Finalize(w) ==
    /\ At(w, "finalize")
    /\ LET r   == worker[w].run
           c   == worker[w].cmd
           out == worker[w].note
           replayed == run[r].fence = c /\ run[r].hash # "none"
           written  == IF replayed /\ run[r].hash # out THEN "failed" ELSE out
       IN  IF ~Owns(w) THEN GiveUp(w)
           ELSE IF ~ProjectionAccepted(w)
           THEN /\ FinishCommand(c, "cancelled")
                /\ Done(w)
                /\ UNCHANGED <<task, run, pause, serverVars, blind>>
           ELSE /\ pause' = ProjectedPauses(w)
                /\ IF run[r].fence > c
                   THEN FinishCommand(c, "cancelled") /\ UNCHANGED <<task, run>>
                   ELSE /\ run' = [run EXCEPT ![r] = PersistTerminal(@, written, c)]
                        /\ task' = written
                        /\ FinishCommand(c, IF written = out THEN "dispatched"
                                                             ELSE "failed")
                /\ Done(w)
                /\ UNCHANGED <<serverVars, blind>>

FinalizeFails(w) ==
    /\ At(w, "finalize")
    /\ "db" \in Faults
    /\ Read(w, "db_error", worker[w].note)

\* _record_terminal_projection_database_error: an output that is stored after
\* all is kept; else it is joined again later, until the attempts run out.
RecordDatabaseError(w) ==
    /\ At(w, "db_error")
    /\ LET r   == worker[w].run
           c   == worker[w].cmd
           out == worker[w].note
       IN  IF ~Owns(w) THEN GiveUp(w)
           ELSE /\ IF run[r].fence = c /\ run[r].hash = out
                   THEN /\ task' = out
                        /\ run' = [run EXCEPT ![r] = PersistTerminal(@, out, c)]
                        /\ FinishCommand(c, "dispatched")
                   ELSE IF Row(w).attempt < MaxAttempts
                   THEN /\ task' = "queued"
                        /\ run' = [run EXCEPT ![r].status = "queued",
                                              ![r].intent = FALSE]
                        /\ BackoffCommand(c, "pending")
                   ELSE /\ task' = "failed"
                        /\ run' = [run EXCEPT ![r] = PersistTerminal(@, "failed", c)]
                        /\ FinishCommand(c, "failed")
                /\ Done(w)
                /\ UNCHANGED <<pause, serverVars, blind>>

-----------------------------------------------------------------------------
(***************************************************************************)
(* _record_remote_error                                                    *)
(***************************************************************************)
\* The Task while a failed command waits for its next try.
RequeuedTask(w) ==
    IF Type(w) = "respond"
    THEN IF Row(w).expired THEN "running" ELSE "waiting_human"
    ELSE "queued"

RetryLimit(w) ==
    IF Type(w) = "respond" /\ Row(w).expired THEN MaxCancelAttempts
                                              ELSE MaxAttempts

\* Mutant: the command is closed although the Task waits for its next try.
RequeuedCommandClosed(w) == Close(Row(w), "failed")

\* A submit or a retry keeps its owner and is due at once; others back off.
RequeuedCommand(w) ==
    IF Type(w) \in {"submit", "retry"} /\ worker[w].note = "error"
    THEN [Row(w) EXCEPT !.lease = "due"]
    ELSE Backoff(Row(w), "pending")

PauseLineageOK(w) ==
    Type(w) = "respond" =>
        pause[Row(w).arg].status = (IF Row(w).expired THEN "expired" ELSE "responding")

\* May a create request for r have succeeded, or still succeed?
OutcomeUnknown(r) ==
    /\ ~run[r].off
    /\ \/ inflight[r] \/ official[r] # "none"
       \/ \E v \in Workers : worker[v].run = r /\ worker[v].pc \in {"lookup", "create"}

\* Tried again: an indeterminate create keeps the intent, any other drops it.
RemoteErrorRequeues(w) ==
    /\ At(w, "remote_error")
    /\ Owns(w) /\ ~run[worker[w].run].cancelReq
    /\ PauseLineageOK(w)
    /\ LET r == worker[w].run
           unknown == worker[w].note = "indeterminate"
       IN  /\ IF unknown THEN run[r].deadline # "past"
                         ELSE Row(w).attempt < RetryLimit(w)
           /\ run' = [run EXCEPT ![r].status = "queued", ![r].intent = unknown]
           /\ blind' = [blind EXCEPT ![r] = @ \/ (~unknown /\ OutcomeUnknown(r))]
    /\ task' = RequeuedTask(w)
    /\ cmd' = [cmd EXCEPT ![worker[w].cmd] = RequeuedCommand(w)]
    /\ Done(w)
    /\ UNCHANGED <<pause, serverVars>>

\* An indeterminate resume or fork may still fall back on the attempt limit.
RemoteErrorFallsBack(w) ==
    /\ At(w, "remote_error")
    /\ Owns(w) /\ ~run[worker[w].run].cancelReq
    /\ PauseLineageOK(w)
    /\ worker[w].note = "indeterminate"
    /\ Type(w) \in {"respond", "fork"}
    /\ LET r == worker[w].run
       IN  /\ run[r].deadline = "past"
           /\ Row(w).attempt < RetryLimit(w)
           /\ run' = [run EXCEPT ![r].status = "queued", ![r].intent = FALSE]
           /\ blind' = [blind EXCEPT ![r] = @ \/ OutcomeUnknown(r)]
    /\ task' = RequeuedTask(w)
    /\ BackoffCommand(worker[w].cmd, "pending")
    /\ Done(w)
    /\ UNCHANGED <<pause, serverVars>>

RemoteErrorFails(w) ==
    /\ At(w, "remote_error")
    /\ Owns(w) /\ ~run[worker[w].run].cancelReq
    /\ PauseLineageOK(w)
    /\ LET r == worker[w].run
           unknown == worker[w].note = "indeterminate"
       IN  /\ unknown => run[r].deadline = "past"
           /\ \/ unknown /\ Type(w) \in {"submit", "retry"}
              \/ Row(w).attempt >= RetryLimit(w)
           /\ run' = [run EXCEPT ![r] = PersistTerminal(@, "failed", worker[w].cmd)]
    /\ task' = "failed"
    /\ FinishCommand(worker[w].cmd, "failed")
    /\ pause' = IF Type(w) = "respond"
                THEN [pause EXCEPT ![Row(w).arg].status = "resume_failed"]
                ELSE pause
    /\ Done(w)
    /\ UNCHANGED <<serverVars, blind>>

\* A cancellation was requested, the lease is lost or the pause has moved on.
RemoteErrorDrops(w) ==
    /\ At(w, "remote_error")
    /\ IF Owns(w) /\ run[worker[w].run].cancelReq
       THEN /\ FinishCommand(worker[w].cmd, "cancelled")
            /\ Done(w)
            /\ UNCHANGED <<task, run, pause, serverVars, blind>>
       ELSE ~(Owns(w) /\ PauseLineageOK(w)) /\ GiveUp(w)

-----------------------------------------------------------------------------
(***************************************************************************)
(* execute: a cancel command                                               *)
(***************************************************************************)
\* Mutant: a target that is not visible is taken for one that does not exist.
CancelFindTrusting(w) ==
    /\ At(w, "cancel_find")
    /\ \/ Found(worker[w].run) /\ Read(w, "cancel_register", "none")
       \/ ~Found(worker[w].run) /\ Read(w, "cancel_finalize", "none")
       \/ "find" \in Faults /\ Read(w, "cancel_retry", "error")

CancelFind(w) ==
    /\ At(w, "cancel_find")
    /\ \/ Found(worker[w].run) /\ Read(w, "cancel_register", "none")
       \/ ~Found(worker[w].run) /\ Read(w, "cancel_retry", "none")
       \/ "find" \in Faults /\ Read(w, "cancel_retry", "error")

\* _register_cancel_target
CancelRegister(w) ==
    /\ At(w, "cancel_register")
    /\ IF Owns(w)
       THEN /\ run' = [run EXCEPT ![worker[w].run].off = TRUE]
            /\ cmd' = [cmd EXCEPT ![worker[w].cmd].off = TRUE]
            /\ worker' = [worker EXCEPT ![w].pc = "cancel_call",
                                        ![w].handle = worker[w].run]
            /\ UNCHANGED <<task, pause, serverVars, blind>>
       ELSE GiveUp(w)

CancelCall(w) ==
    /\ At(w, "cancel_call")
    /\ LET h == worker[w].handle
       IN  \/ /\ CancelTerminal(h)
              /\ Goto(w, "remember", StatusOf(h))
              /\ UNCHANGED official
           \/ /\ CancelConfirmed(h)
              /\ Stop(h)
              /\ Goto(w, "cancel_finalize", "none")
           \/ /\ "cancel" \in Faults
              /\ CancelLost(h)
              /\ Goto(w, "cancel_retry", "error")
    /\ UNCHANGED <<dbVars, duplicate, inflight, blind>>

\* _schedule_cancel_retry
CancelRetry(w) ==
    /\ At(w, "cancel_retry")
    /\ IF worker[w].fence >= MaxCancelAttempts
       THEN Read(w, "cancel_failure", "none")
       ELSE IF Owns(w)
       THEN /\ BackoffCommand(worker[w].cmd, "dispatching")
            /\ Done(w)
            /\ UNCHANGED <<task, run, pause, serverVars, blind>>
       ELSE GiveUp(w)

\* Does the end of the targeted Run end the Task?
TargetIsLatest(w) ==
    \/ Type(w) = "cancel_task"
    \/ Type(w) = "cancel_run" /\ Latest(worker[w].run)

\* Mutant: the Task is ended and its Run is forgotten.
EndRunForgotten(w, out) == UNCHANGED run

\* The Run's row when the command ends it; a Task may have no Run at all.
EndRun(w, out) ==
    run' = [q \in Runs |-> IF q = worker[w].run
                           THEN PersistTerminal(run[q], out, worker[w].cmd)
                           ELSE run[q]]

\* _finalize_cancel_failure
CancelFailure(w) ==
    /\ At(w, "cancel_failure")
    /\ IF ~Owns(w) THEN GiveUp(w)
       ELSE /\ IF task \in TerminalStatus
               THEN /\ FinishCommand(worker[w].cmd, "cancelled")
                    /\ UNCHANGED <<task, run, pause>>
               ELSE /\ pause' = ClosedPauses(worker[w].run, "cancelled")
                    /\ task' = IF TargetIsLatest(w) THEN "failed" ELSE task
                    /\ FinishCommand(worker[w].cmd, "failed")
                    /\ EndRun(w, "failed")
            /\ Done(w)
            /\ UNCHANGED <<serverVars, blind>>

FenceNewer(w) ==
    worker[w].run # NoRun /\ run[worker[w].run].fence > worker[w].cmd

\* _finalize_cancel
CancelFinalize(w) ==
    /\ At(w, "cancel_finalize")
    /\ IF ~Owns(w) THEN GiveUp(w)
       ELSE /\ IF task \in TerminalStatus \/ FenceNewer(w)
               THEN /\ FinishCommand(worker[w].cmd, "cancelled")
                    /\ UNCHANGED <<task, run, pause>>
               ELSE /\ pause' = ClosedPauses(worker[w].run, "cancelled")
                    /\ task' = IF TargetIsLatest(w) THEN "cancelled" ELSE task
                    /\ FinishCommand(worker[w].cmd, "dispatched")
                    /\ EndRun(w, "cancelled")
            /\ Done(w)
            /\ UNCHANGED <<serverVars, blind>>

-----------------------------------------------------------------------------
(***************************************************************************)
(* _expire_due_interrupt_once: the TTL of a review rejects it.             *)
(***************************************************************************)
ExpireDueInterrupt(w, p) ==
    /\ At(w, "idle")
    /\ task = "waiting_human"
    /\ pause[p].status = "pending" /\ pause[p].due
    /\ run[p].status = "waiting_human"
    /\ ~UnfinishedOf("respond")
    /\ ResumeOf(p) \in Runs /\ ~Exists(ResumeOf(p))
    /\ run' = [run EXCEPT ![ResumeOf(p)] = NewRun("resume", p, "queued", FALSE)]
    /\ pause' = [pause EXCEPT ![p].status = "expired"]
    /\ AppendCommand(NewCommand("respond", p, TRUE))
    /\ UNCHANGED <<task, serverVars, worker, blind>>

\* The process dies, or an exception reaches the run loop: the lease stays.
Crash(w) ==
    /\ "crash" \in Faults
    /\ ~At(w, "idle")
    /\ MaybeInFlight(w)
    /\ Done(w)
    /\ UNCHANGED <<dbVars, official, duplicate, blind>>

\* Shutdown: the iteration is cancelled and release_owned_leases runs.
ReleaseOwnedLeases(w) ==
    /\ "crash" \in Faults
    /\ \E c \in Commands : cmd[c].status = "dispatching" /\ cmd[c].owner = w
    /\ cmd' = [c \in Commands |->
                  IF cmd[c].status = "dispatching" /\ cmd[c].owner = w
                  THEN [cmd[c] EXCEPT !.owner = NoWorker, !.lease = "due"]
                  ELSE cmd[c]]
    /\ MaybeInFlight(w)
    /\ Done(w)
    /\ UNCHANGED <<task, run, pause, official, duplicate, blind>>

(***************************************************************************)
(* Time                                                                    *)
(***************************************************************************)
LeaseExpires(c) ==
    /\ cmd[c].lease = "valid"
    /\ cmd' = [cmd EXCEPT ![c].lease = "due"]
    /\ UNCHANGED <<task, run, pause>>

DeadlinePasses(r) ==
    /\ run[r].deadline = "future"
    /\ run[r].status \in ActiveStatus
    /\ run' = [run EXCEPT ![r].deadline = "past"]
    /\ UNCHANGED <<task, cmd, pause>>

ReviewWindowEnds(r) ==
    /\ pause[r].status = "pending" /\ ~pause[r].due
    /\ pause' = [pause EXCEPT ![r].due = TRUE]
    /\ UNCHANGED <<task, run, cmd>>

TimePasses ==
    /\ \/ \E c \in Commands : LeaseExpires(c)
       \/ \E r \in Runs : DeadlinePasses(r) \/ ReviewWindowEnds(r)
    /\ UNCHANGED <<serverVars, worker, blind>>

-----------------------------------------------------------------------------
WorkStep(w) ==
    \/ Execute(w) \/ Lookup(w) \/ CreateAccepted(w) \/ CreateRejected(w)
    \/ CreateUncertain(w) \/ HeartbeatLost(w) \/ Find(w) \/ Register(w)
    \/ Drain(w) \/ Get(w) \/ Members(w) \/ Poll(w) \/ Schedule(w)
    \/ OrphanCancel(w) \/ Orphan(w)
    \/ Mark(w) \/ Remember(w) \/ Join(w)
    \/ Finalize(w) \/ FinalizeFails(w) \/ RecordDatabaseError(w)
    \/ RemoteErrorRequeues(w) \/ RemoteErrorFallsBack(w)
    \/ RemoteErrorFails(w) \/ RemoteErrorDrops(w)

CancelStep(w) ==
    \/ CancelFind(w) \/ CancelRegister(w) \/ CancelCall(w) \/ CancelRetry(w)
    \/ CancelFailure(w) \/ CancelFinalize(w)

ClaimStep(w) ==
    \/ \E c \in Commands : ClaimDrops(w, c) \/ ClaimRefusesLineage(w, c) \/ Claim(w, c)
    \/ \E p \in Runs : ExpireDueInterrupt(w, p)

Next ==
    \/ \E w \in Workers : \/ ClaimStep(w) \/ WorkStep(w) \/ CancelStep(w)
                          \/ Crash(w) \/ ReleaseOwnedLeases(w)
    \/ UserRequest /\ UNCHANGED <<serverVars, worker, blind>>
    \/ ServerStep /\ UNCHANGED <<dbVars, worker, blind>>
    \/ TimePasses

Spec == Init /\ [][Next]_vars

-----------------------------------------------------------------------------
(***************************************************************************)
(* Safety                                                                  *)
(***************************************************************************)
\* Commands run strictly in sequence: once a command has been claimed, every
\* earlier command of the thread is finished for good, whichever worker held
\* it and however its lease ended (the prior_unfinished test of claim_next).
SerialDispatch ==
    \A c, d \in Commands :
        d < c /\ cmd[c].attempt > 0 => ~IsUnfinished(d)

\* While a Task is terminal no command of it is being dispatched: whatever
\* ended the Task also ended the only command that could still write to it.
TerminalTaskIdle ==
    task \in TerminalStatus => \A c \in Commands : cmd[c].status # "dispatching"

\* A finished command is never touched again: a worker that still carries the
\* lease of a command that a cancellation withdrew, or that another worker
\* completed, changes nothing (_locked_command).
FinishedCommandsFinal ==
    [][\A c \in Commands : cmd[c].status \in Finished => cmd'[c] = cmd[c]]_vars

\* A terminal Task becomes active again only when a user retries or forks it,
\* in the step that adds the new Run; no late projection, error or timer of
\* an earlier command reopens it.
TerminalTaskReopens ==
    [][(task \in TerminalStatus /\ task' # task) =>
          /\ task' = "queued"
          /\ \E r \in Runs : /\ run[r].status = "absent"
                             /\ run'[r].status = "queued"
                             /\ run'[r].kind \in {"retry", "fork"}]_vars

\* The durable create intent keeps a crash, a lost lease or a lost answer
\* from creating a second official Run: a Product Run has two only if the
\* intent was dropped by an error that did not settle an earlier create.
AtMostOneOfficialRun == \A r \in Runs : duplicate[r] => blind[r]

\* When a Task has been cancelled, the official Run of its newest Product Run
\* is not running, even if its create request was still on its way when the
\* user cancelled.  (A resume is left out: its cancel addresses the parent.)
CancelledRunStopped ==
    task = "cancelled" =>
        \A r \in Runs : Latest(r) /\ run[r].kind # "resume" =>
             official[r] # "active" \/ blind[r]

\* Only cancellation can leave an active Task behind with no command to drive
\* it and no review to answer: every other error path re-arms the command or
\* ends the Task.
UnattendedOnlyAfterCancel ==
    /\ task \in ActiveStatus
    /\ NothingUnfinished
    /\ ~(task = "waiting_human" /\ \E p \in Runs : pause[p].status = "pending")
    => \E r \in Runs : run[r].cancelReq

\* The terminal status of a Task is that of one of its Runs, whichever of the
\* eight places that end a Task wrote it.
TaskOutcomeFromRun ==
    task \in TerminalStatus /\ (\E r \in Runs : Exists(r)) =>
        \E r \in Runs : run[r].status = task

\* A review moves forward only.  A response that was accepted is never
\* replaced by the TTL, a fork or a later answer, and a review that was
\* settled is never opened again.
ReviewMovesForward ==
    [][\A p \in Runs : pause'[p].status # pause[p].status =>
          pause'[p].status \in
             CASE pause[p].status = "absent" -> {"pending"}
               [] pause[p].status = "pending" -> {"responding", "expired", "cancelled"}
               [] pause[p].status = "responding" -> {"resolved", "cancelled", "resume_failed"}
               [] pause[p].status = "expired" -> {"resume_failed"}
               [] OTHER -> {}]_vars

\* A review that can still be answered belongs to the newest Run, so that the
\* Run a response or an expiry inserts (attempt parent + 1) never collides
\* with an existing one; a collision would make every poll of every worker
\* fail before it claims anything.
OpenReviewIsNewest ==
    \A p \in Runs : /\ pause[p].status = "pending"
                    /\ run[p].status = "waiting_human"
                    /\ task = "waiting_human"
                    => Latest(p)

(***************************************************************************)
(* The Task as its owner sees it, and the answers it has produced.         *)
(***************************************************************************)
Answers == {r \in Runs : run[r].status = "succeeded"}
Lifecycle == INSTANCE TaskLifecycle WITH status <- task, answers <- Answers

\* The dispatcher implements the abstract Task lifecycle.
ImplementsLifecycle == Lifecycle!Spec

-----------------------------------------------------------------------------
(***************************************************************************)
(* Liveness.  A live worker keeps stepping and polling, timers run out, and *)
(* a lease is not lost each time before the worker's next lease-checked    *)
(* step: lease_seconds (30) exceeds the heartbeat interval (10) and the    *)
(* remote operation timeout (20).  Nothing is assumed of the Agent Server. *)
(***************************************************************************)
Fairness ==
    /\ \A w \in Workers :
          /\ WF_vars(ClaimStep(w))
          /\ WF_vars(WorkStep(w) \/ CancelStep(w))
          /\ SF_vars(Execute(w) /\ OwnsFresh(w))
          /\ SF_vars((Lookup(w) \/ CreateAccepted(w) \/ CreateRejected(w)
                      \/ CreateUncertain(w)) /\ OwnsFresh(w))
          /\ SF_vars(Find(w) /\ OwnsFresh(w))
          /\ SF_vars(Register(w) /\ OwnsFresh(w))
          /\ SF_vars(Drain(w) /\ OwnsFresh(w))
    /\ \A c \in Commands :
          WF_vars(LeaseExpires(c) /\ UNCHANGED <<serverVars, worker, blind>>)
    /\ \A r \in Runs :
          WF_vars(DeadlinePasses(r) /\ UNCHANGED <<serverVars, worker, blind>>)

LiveSpec == Spec /\ Fairness

\* A Task that is queued or running always reaches an end or a review, even
\* if the graph never ends and every call but a cancel may fail, because attempts
\* are limited and the reconciliation deadline stops the official Run.  Cancels
\* that fail are left out ("cancel" is no member of Faults where this is checked):
\* with them it is false, see RunningEnds below.
TaskSettles ==
    task \in {"queued", "running"} ~> task \in TerminalStatus \cup {"waiting_human"}

\* An answer to a review that was accepted is eventually settled: it reaches
\* the graph, is withdrawn by a cancellation, or is reported as failed.
AcceptedResponseSettles ==
    \A p \in Runs : pause[p].status = "responding" ~> pause[p].status # "responding"

-----------------------------------------------------------------------------
(***************************************************************************)
(* What documents and comments of the repository say of this code, and     *)
(* what the code does not do (the violation runs).                         *)
(***************************************************************************)
\* "Cancel Run preserves Task history and enables Retry": the retry of a
\* Run-cancelled Task, once admitted, is dispatched.
RetryOfCancelledRunStarts ==
    \A c \in Commands :
        ~ /\ cmd[c].type = "retry"
          /\ run[run[cmd[c].arg].parent].status = "cancelled"
          /\ cmd[c].status = "failed" /\ cmd[c].attempt = 0

\* "a replacement worker must reconcile metadata before any second create":
\* no Product Run ever has two official Runs.
NoSecondOfficialRun == \A r \in Runs : ~duplicate[r]

\* "no unowned pending/running Agent Server Run survives any boundary": once
\* a Task is cancelled, the official Run of its newest Run does not run.
NoRunSurvivesCancel ==
    task = "cancelled" => \A r \in Runs : Latest(r) => official[r] # "active"

\* "no stale record remains permanently `running`": a running Task does not
\* stay running for ever.
RunningEnds == task = "running" ~> task # "running"

\* "user resume exhausted: Task failed, Run failed, pause resume_failed": a
\* failed Task leaves no accepted response behind.
ExhaustedResponseMarked ==
    task = "failed" => \A p \in Runs : pause[p].status # "responding"

\* "cancel_task atomically marks the Task cancelled, rejects undispatched
\* commands": a cancelled Task has no command left to dispatch.
CancelledTaskHasNoCommand == task = "cancelled" => NothingUnfinished
=============================================================================
