-------------------------- MODULE ProjectionReconciler --------------------------
(***************************************************************************)
(* The reconciler (projections/reconciler.py) beside the dispatcher, at    *)
(* the level of row locks.  CommandDispatcher.tla takes each transaction   *)
(* as one step; here the transactions of both that touch one command are   *)
(* split at every SELECT ... FOR UPDATE, because they lock the Task, the   *)
(* Command and the Run in different orders, and because claim_next chooses *)
(* its command from a snapshot older than the lock it takes on the Task.   *)
(* A cycle of waiting transactions is broken by PostgreSQL, which aborts   *)
(* one of them.                                                            *)
(***************************************************************************)
EXTENDS Integers, FiniteSets

CONSTANTS
    Dispatchers, Reconcilers,   \* worker_ids
    Nobody,                     \* no owner, no lock
    MaxStalls                   \* bound: crashes, and leases lost by a live worker

ASSUME ReconcilerAssumption ==
    /\ Dispatchers \cap Reconcilers = {}
    /\ Nobody \notin Dispatchers \cup Reconcilers
    /\ MaxStalls \in Nat

VARIABLES
    cmd,        \* the TaskCommand row (a submit, sequence 1)
    prun,       \* the Run row
    taskActive, \* Task.status IN (queued, running, waiting_human)
    officialRun,\* at the Agent Server: absent, running or ended
    rowLock,    \* who holds the row lock
    proc,       \* each worker: pc, and what it read
    stalls

lockVars == <<cmd, prun, taskActive, officialRun, rowLock, proc, stalls>>

Procs == Dispatchers \cup Reconcilers
LockRows == {"task", "command", "run"}
NoLocks == [r \in LockRows |-> Nobody]
ProcIdle == [pc |-> "idle", attempt |-> 0, mode |-> "none"]

ReconcilerInit ==
    /\ cmd = [status |-> "pending", owner |-> Nobody, lease |-> "none", attempt |-> 0]
    /\ prun = [known |-> FALSE, ended |-> FALSE, observed |-> FALSE, fresh |-> FALSE]
    /\ taskActive = TRUE
    /\ officialRun = "absent"
    /\ rowLock = NoLocks
    /\ proc = [p \in Procs |-> ProcIdle]
    /\ stalls = 0

-----------------------------------------------------------------------------
(* Transactions.  A step that wants a row waits until it is free. *)

Free(row) == rowLock[row] = Nobody
Commit(p) == rowLock' = [r \in LockRows |-> IF rowLock[r] = p THEN Nobody ELSE rowLock[r]]
Goto(p, pc) == proc' = [proc EXCEPT ![p].pc = pc]

\* take the lock of a row and go on
Take(p, row, pc) ==
    /\ Free(row)
    /\ rowLock' = [rowLock EXCEPT ![row] = p]
    /\ Goto(p, pc)
    /\ UNCHANGED <<cmd, prun, taskActive, officialRun, stalls>>

\* the row a worker waits for in each of its transactions
Wants(p) ==
    CASE proc[p].pc \in {"finish", "observe run"} -> "task"
      [] proc[p].pc \in {"claim task", "finish task", "observe"} -> "command"
      [] proc[p].pc \in {"claim command", "finish command", "observe command",
                         "adopt command"} -> "run"
      [] OTHER -> "none"

\* Mutant: a dispatching command whose lease is due is not offered.
ClaimablePending == cmd.status = "pending"

ClaimableSubmit ==
    \/ cmd.status = "pending"
    \/ cmd.status = "dispatching" /\ cmd.lease = "due"

-----------------------------------------------------------------------------
(* claim_next of the dispatcher: Task (skip locked), Command, Run *)

\* the statement's snapshot; the ORM keeps the attempt that it read here
ClaimSnapshot(d) ==
    /\ proc[d].pc = "idle"
    /\ taskActive /\ ClaimableSubmit
    /\ proc' = [proc EXCEPT ![d] = [pc |-> "claim", attempt |-> cmd.attempt, mode |-> "none"]]
    /\ UNCHANGED <<cmd, prun, taskActive, officialRun, rowLock, stalls>>

\* FOR UPDATE OF tasks SKIP LOCKED: PostgreSQL repeats the conditions on the
\* Task row that it locks, not those on the command
ClaimLockTask(d) ==
    /\ proc[d].pc = "claim"
    /\ IF Free("task") /\ taskActive
       THEN rowLock' = [rowLock EXCEPT !["task"] = d] /\ Goto(d, "claim task")
       ELSE UNCHANGED rowLock /\ Goto(d, "idle")
    /\ UNCHANGED <<cmd, prun, taskActive, officialRun, stalls>>

ClaimLockCommand(d) == proc[d].pc = "claim task" /\ Take(d, "command", "claim command")

ClaimCommit(d) ==
    /\ proc[d].pc = "claim command"
    /\ Free("run")
    /\ cmd' = [status |-> "dispatching", owner |-> d, lease |-> "valid",
               attempt |-> proc[d].attempt + 1]
    /\ prun' = [prun EXCEPT !.fresh = TRUE]
    /\ proc' = [proc EXCEPT ![d] = [pc |-> "execute", attempt |-> @.attempt + 1, mode |-> "none"]]
    /\ Commit(d)
    /\ UNCHANGED <<taskActive, officialRun, stalls>>

-----------------------------------------------------------------------------
(* execute and _finalize of the dispatcher: Task, Command, Run *)

\* the official Run is created (once: see CommandDispatcher.tla) and waited for
Execute(d) ==
    /\ proc[d].pc = "execute"
    /\ CASE officialRun = "absent" -> officialRun' = "running" /\ UNCHANGED proc
         [] officialRun = "running" -> FALSE
         [] OTHER -> UNCHANGED officialRun /\ Goto(d, "finish")
    /\ UNCHANGED <<cmd, prun, taskActive, rowLock, stalls>>

FinishLockTask(d) == proc[d].pc = "finish" /\ Take(d, "task", "finish task")
FinishLockCommand(d) == proc[d].pc = "finish task" /\ Take(d, "command", "finish command")

\* _locked_command
StillDispatchedTo(d) ==
    /\ cmd.status = "dispatching" /\ cmd.owner = d
    /\ cmd.attempt = proc[d].attempt

FinishCommit(d) ==
    /\ proc[d].pc = "finish command"
    /\ Free("run")
    /\ IF StillDispatchedTo(d)
       THEN /\ cmd' = [cmd EXCEPT !.status = "completed", !.owner = Nobody, !.lease = "none"]
            /\ prun' = [prun EXCEPT !.known = TRUE, !.ended = TRUE]
            /\ taskActive' = FALSE
       ELSE UNCHANGED <<cmd, prun, taskActive>>
    /\ Goto(d, "idle")
    /\ Commit(d)
    /\ UNCHANGED <<officialRun, stalls>>

-----------------------------------------------------------------------------
(* claim_next of the reconciler: Command (skip locked), Run *)

AdoptCommand(r) ==
    /\ proc[r].pc = "idle"
    /\ cmd.status = "dispatching" /\ cmd.lease = "due" /\ cmd.attempt > 0
    /\ taskActive
    /\ Free("command")
    /\ rowLock' = [rowLock EXCEPT !["command"] = r]
    /\ Goto(r, "adopt command")
    /\ UNCHANGED <<cmd, prun, taskActive, officialRun, stalls>>

IsReconcilableRun == ~prun.ended /\ ~prun.observed /\ ~prun.fresh

AdoptCommit(r) ==
    /\ proc[r].pc = "adopt command"
    /\ Free("run")
    /\ IF IsReconcilableRun
       THEN /\ cmd' = [cmd EXCEPT !.owner = r, !.lease = "valid"]
            /\ proc' = [proc EXCEPT ![r] = [pc |-> IF prun.known THEN "register" ELSE "find",
                                            attempt |-> cmd.attempt, mode |-> "none"]]
       ELSE UNCHANGED cmd /\ Goto(r, "idle")
    /\ Commit(r)
    /\ UNCHANGED <<prun, taskActive, officialRun, stalls>>

-----------------------------------------------------------------------------
(* dispatch_once of the reconciler, after the claim *)

\* runner.find and runner.get, or their failure: finally releases the command
Look(r) ==
    /\ \/ /\ proc[r].pc = "find"
          /\ proc' = [proc EXCEPT ![r].pc = "observe",
                 ![r].mode = IF officialRun = "absent" THEN "absence" ELSE "register"]
       \/ /\ proc[r].pc = "register"
          /\ proc' = [proc EXCEPT ![r].pc = "observe", ![r].mode = "register"]
       \/ /\ proc[r].pc = "get"
          /\ proc' = [proc EXCEPT ![r].pc = "observe",
                 ![r].mode = IF officialRun = "ended" THEN "terminal" ELSE "running"]
       \/ proc[r].pc \in {"find", "get"} /\ Goto(r, "release")
    /\ UNCHANGED <<cmd, prun, taskActive, officialRun, rowLock, stalls>>

\* Mutant: what was claimed is taken for owned.
OwnsOnceClaimed(r) == TRUE

\* _owns_command
OwnsCommand(r) ==
    cmd.status = "dispatching" /\ cmd.owner = r /\ cmd.attempt = proc[r].attempt

\* _locked_projection: Command, then Run, then Task, then Thread
ObserveLockCommand(r) ==
    /\ proc[r].pc = "observe"
    /\ Free("command")
    /\ IF OwnsCommand(r) /\ cmd.lease = "valid"
       THEN rowLock' = [rowLock EXCEPT !["command"] = r] /\ Goto(r, "observe command")
       ELSE UNCHANGED rowLock /\ Goto(r, "release")
    /\ UNCHANGED <<cmd, prun, taskActive, officialRun, stalls>>

ObserveLockRun(r) == proc[r].pc = "observe command" /\ Take(r, "run", "observe run")

\* register_remote_handle, observe_remote_absence or observe_remote_state
ObserveCommit(r) ==
    /\ proc[r].pc = "observe run"
    /\ Free("task")
    /\ LET valid == taskActive /\ ~prun.ended
           mode == proc[r].mode
       IN  /\ prun' = IF ~valid THEN prun
                      ELSE [prun EXCEPT !.fresh = TRUE, !.known = @ \/ mode # "absence",
                                        !.observed = @ \/ mode = "terminal"]
           /\ cmd' = IF valid /\ mode \in {"terminal", "running"}
                     THEN [cmd EXCEPT !.owner = Nobody, !.lease = "due"] ELSE cmd
           /\ Goto(r, IF valid /\ mode = "register" THEN "get" ELSE "release")
    /\ Commit(r)
    /\ UNCHANGED <<taskActive, officialRun, stalls>>

ReleaseCommand(r) ==
    /\ proc[r].pc = "release"
    /\ Free("command")
    /\ cmd' = IF OwnsCommand(r) THEN [cmd EXCEPT !.owner = Nobody, !.lease = "due"] ELSE cmd
    /\ proc' = [proc EXCEPT ![r] = ProcIdle]
    /\ UNCHANGED <<prun, taskActive, officialRun, rowLock, stalls>>

-----------------------------------------------------------------------------
(* The database, the Agent Server, the clock, crashes *)

WaitsFor(p, q) == Wants(p) # "none" /\ rowLock[Wants(p)] = q

\* deadlock_timeout: one of two that wait for each other is rolled back; the
\* exception ends a dispatcher's iteration, and reaches finally in the reconciler
AbortVictim(p) ==
    /\ \E q \in Procs : WaitsFor(p, q) /\ WaitsFor(q, p)
    /\ Commit(p)
    /\ Goto(p, IF p \in Reconcilers /\ proc[p].pc # "adopt command" THEN "release" ELSE "idle")
    /\ UNCHANGED <<cmd, prun, taskActive, officialRun, stalls>>

OfficialRunEnds ==
    /\ officialRun = "running"
    /\ officialRun' = "ended"
    /\ UNCHANGED <<cmd, prun, taskActive, rowLock, proc, stalls>>

\* release_owned at shutdown
ReleaseOwned(r) ==
    /\ proc[r].pc \in {"find", "register", "get", "release"}
    /\ Free("command")
    /\ stalls < MaxStalls
    /\ stalls' = stalls + 1
    /\ cmd' = IF cmd.status = "dispatching" /\ cmd.owner = r
              THEN [cmd EXCEPT !.owner = Nobody, !.lease = "due"] ELSE cmd
    /\ proc' = [proc EXCEPT ![r] = ProcIdle]
    /\ UNCHANGED <<prun, taskActive, officialRun, rowLock>>

WorkerDies(p) ==
    /\ proc[p].pc # "idle"
    /\ stalls < MaxStalls
    /\ stalls' = stalls + 1
    /\ proc' = [proc EXCEPT ![p] = ProcIdle]
    /\ Commit(p)
    /\ UNCHANGED <<cmd, prun, taskActive, officialRun>>

OwnerBusy == \E p \in Procs : cmd.owner = p /\ proc[p].pc # "idle"

CommandLeaseExpires ==
    /\ cmd.lease = "valid"
    /\ IF OwnerBusy THEN stalls < MaxStalls /\ stalls' = stalls + 1 ELSE UNCHANGED stalls
    /\ cmd' = [cmd EXCEPT !.lease = "due"]
    /\ UNCHANGED <<prun, taskActive, officialRun, rowLock, proc>>

HeartbeatStale ==
    /\ prun.fresh
    /\ prun' = [prun EXCEPT !.fresh = FALSE]
    /\ UNCHANGED <<cmd, taskActive, officialRun, rowLock, proc, stalls>>

DispatcherStep(d) ==
    \/ ClaimSnapshot(d) \/ ClaimLockTask(d) \/ ClaimLockCommand(d) \/ ClaimCommit(d)
    \/ Execute(d) \/ FinishLockTask(d) \/ FinishLockCommand(d) \/ FinishCommit(d)
ReconcilerStep(r) ==
    \/ AdoptCommand(r) \/ AdoptCommit(r) \/ Look(r)
    \/ ObserveLockCommand(r) \/ ObserveLockRun(r) \/ ObserveCommit(r) \/ ReleaseCommand(r)

ReconcilerNext ==
    \/ \E d \in Dispatchers : DispatcherStep(d)
    \/ \E r \in Reconcilers : ReconcilerStep(r) \/ ReleaseOwned(r)
    \/ \E p \in Procs : AbortVictim(p) \/ WorkerDies(p)
    \/ OfficialRunEnds \/ CommandLeaseExpires \/ HeartbeatStale

\* Every worker polls, and its transactions go on when they can.  The reconciler
\* pauses between two claims for as long as a dispatcher does, so a dispatcher
\* that polls for ever finds the command between them; a row lock goes to the
\* transaction that waits for it; and the victim of a deadlock is not always the
\* same: these are strongly fair.
ReconcilerSpec ==
    /\ ReconcilerInit /\ [][ReconcilerNext]_lockVars
    /\ \A d \in Dispatchers :
          /\ WF_lockVars(DispatcherStep(d))
          /\ SF_lockVars(ClaimSnapshot(d))
          /\ SF_lockVars(ClaimLockCommand(d) \/ FinishLockCommand(d))
    /\ \A r \in Reconcilers :
          WF_lockVars(ReconcilerStep(r)) /\ SF_lockVars(AbortVictim(r))
    /\ \A p \in Procs : WF_lockVars(AbortVictim(p))
    /\ WF_lockVars(OfficialRunEnds) /\ WF_lockVars(CommandLeaseExpires)

-----------------------------------------------------------------------------
(* Properties. *)

\* What is finished stays finished: no claim from an old snapshot, no late
\* observation and no release of a lost lease touches a completed command, and a
\* Run ends only after its official Run.
FinishedStaysFinished ==
    [][/\ cmd.status = "completed" => cmd' = cmd /\ prun'.ended
       /\ prun'.observed \/ prun'.ended => officialRun' = "ended"]_lockVars

\* The command is finished although the reconciler takes its expired lease, and
\* although the two lock the same rows in opposite orders.
CommandFinishes == <>(cmd.status = "completed")
=============================================================================
