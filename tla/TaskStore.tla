------------------------------ MODULE TaskStore ------------------------------
(***************************************************************************)
(* The rows of the Product database that belong to ONE Task of Signal Desk *)
(* V2: the Task, its Runs, its commands and its interrupt pauses.          *)
(* Every lock of the dispatcher and of the service is taken per Task, and  *)
(* a command's sequence is unique per Thread, so one Task is the unit of   *)
(* concurrency.                                                            *)
(*                                                                         *)
(* Rows are keyed by the number that the code gives them: a Run by its     *)
(* attempt, a command by its sequence.  A row that is not inserted yet has *)
(* the status "absent".  A Run pauses at most once (its resume is a Run of *)
(* its own), so a pause is keyed by the Run it belongs to; the members of  *)
(* a pause move together with it and are not kept apart.                   *)
(*                                                                         *)
(* Clocks are abstracted: a deadline is "future" or "past" and a lease is  *)
(* "valid" or "due"; the passage of time is an action.                     *)
(***************************************************************************)
EXTENDS Integers, FiniteSets

CONSTANTS
    MaxRuns,        \* bound on the Runs of the Task
    MaxCommands,    \* bound on the commands of the Task
    MaxFence,       \* a command's attempt counter saturates here
    Workers,        \* the identities (worker_id) of the dispatcher processes
    NoWorker        \* lease_owner IS NULL

ASSUME StoreAssumption ==
    /\ MaxRuns \in Nat \ {0}
    /\ MaxCommands \in Nat \ {0}
    /\ MaxFence \in Nat \ {0}
    /\ NoWorker \notin Workers

VARIABLES
    task,       \* Task.status
    run,        \* the Runs, by attempt
    cmd,        \* the commands, by sequence
    pause       \* the interrupt pauses, by the Run they interrupt

dbVars == <<task, run, cmd, pause>>

Runs     == 1 .. MaxRuns
Commands == 1 .. MaxCommands
NoRun    == 0

ActiveStatus   == {"queued", "running", "waiting_human"}
TerminalStatus == {"succeeded", "blocked", "failed", "cancelled"}
TaskStatus     == ActiveStatus \cup TerminalStatus
RunStatus      == TaskStatus \cup {"absent"}
RunKind        == {"submit", "resume", "retry", "fork"}
PauseStatus    == {"absent", "pending", "responding", "expired", "resolved",
                   "cancelled", "resume_failed"}
ActivePause    == {"pending", "responding"}

WorkType    == {"submit", "respond", "fork", "retry"}
CancelType  == {"cancel_task", "cancel_run"}
CommandType == WorkType \cup CancelType
Unfinished  == {"pending", "dispatching"}
Finished    == {"dispatched", "cancelled", "failed"}
CommandStatus == {"absent"} \cup Unfinished \cup Finished

(***************************************************************************)
(* A Run.  off: an official_run_id is registered.  intent: failure_code is *)
(* one of the "create_intent" or "indeterminate" codes, so a claim may     *)
(* only look for the official Run.  obs: observed_terminal_status (error   *)
(* stands for timeout too).  cancelReq: cancel_requested_at is set.        *)
(* fence: projection_fence.  hash: the terminal output that is persisted.  *)
(* ckpt: a checkpoint_id is known.  deadline: reconciliation_deadline_at.  *)
(***************************************************************************)
RunRow == [status: RunStatus, kind: RunKind, parent: {NoRun} \cup Runs,
           off: BOOLEAN, intent: BOOLEAN, obs: {"none", "success", "error"},
           cancelReq: BOOLEAN, fence: 0 .. MaxCommands,
           hash: {"none"} \cup TerminalStatus, ckpt: BOOLEAN,
           deadline: {"unset", "future", "past"}]

(***************************************************************************)
(* A command.  arg is its payload: the Run to cancel, the new Run of a     *)
(* retry or a fork, the paused Run of a respond.  expired marks the        *)
(* respond that the TTL of a pause issues.  lease is lease_expires_at.     *)
(***************************************************************************)
CommandRow == [type: CommandType, status: CommandStatus,
               owner: Workers \cup {NoWorker}, lease: {"null", "valid", "due"},
               attempt: 0 .. MaxFence, off: BOOLEAN,
               arg: {NoRun} \cup Runs, expired: BOOLEAN]

PauseRow == [status: PauseStatus, due: BOOLEAN]

NewRun(kind, parent, status, ckpt) ==
    [status |-> status, kind |-> kind, parent |-> parent, off |-> FALSE,
     intent |-> FALSE, obs |-> "none", cancelReq |-> FALSE, fence |-> 0,
     hash |-> "none", ckpt |-> ckpt, deadline |-> "unset"]

NewCommand(type, arg, expired) ==
    [type |-> type, status |-> "pending", owner |-> NoWorker,
     lease |-> "null", attempt |-> 0, off |-> FALSE, arg |-> arg,
     expired |-> expired]

(***************************************************************************)
(* _create_product_task: a queued Task and its submit command, sequence 1. *)
(* The first Run is inserted by the claim of that command.                 *)
(***************************************************************************)
StoreInit ==
    /\ task = "queued"
    /\ run = [r \in Runs |-> NewRun("submit", NoRun, "absent", FALSE)]
    /\ cmd = [c \in Commands |->
                 IF c = 1 THEN NewCommand("submit", NoRun, FALSE)
                 ELSE [NewCommand("submit", NoRun, FALSE) EXCEPT !.status = "absent"]]
    /\ pause = [r \in Runs |-> [status |-> "absent", due |-> FALSE]]

StoreTypeOK ==
    /\ task \in TaskStatus
    /\ run \in [Runs -> RunRow]
    /\ cmd \in [Commands -> CommandRow]
    /\ pause \in [Runs -> PauseRow]

-----------------------------------------------------------------------------
\* max(attempt) and max(sequence) + 1, relationally.
Exists(r)   == run[r].status # "absent"
Latest(r)   == Exists(r) /\ \A q \in Runs : q > r => ~Exists(q)
FreshRun(r) == ~Exists(r) /\ \A q \in Runs : q < r => Exists(q)
FreshCommand(c) ==
    /\ cmd[c].status = "absent"
    /\ \A d \in Commands : d < c => cmd[d].status # "absent"

IsUnfinished(c)  == cmd[c].status \in Unfinished
NothingUnfinished == \A c \in Commands : ~IsUnfinished(c)
UnfinishedOf(type) == \E c \in Commands : cmd[c].type = type /\ IsUnfinished(c)

\* command.status := s, lease_owner := NULL, lease_expires_at := NULL
Close(row, s) == [row EXCEPT !.status = s, !.owner = NoWorker, !.lease = "null"]

\* lease_owner := NULL, lease_expires_at := now + reconciliation interval
Backoff(row, s) == [row EXCEPT !.status = s, !.owner = NoWorker, !.lease = "valid"]

FinishCommand(c, s)  == cmd' = [cmd EXCEPT ![c] = Close(@, s)]
BackoffCommand(c, s) == cmd' = [cmd EXCEPT ![c] = Backoff(@, s)]

\* Mutant: the output is stored but the status of the Run is not.
PersistTerminalOutputOnly(row, out, sequence) ==
    [row EXCEPT !.hash = out, !.fence = sequence, !.intent = FALSE]

(***************************************************************************)
(* _persist_terminal_run: status, output, fence and hash in one step.      *)
(***************************************************************************)
PersistTerminal(row, out, sequence) ==
    [row EXCEPT !.status = out, !.hash = out, !.fence = sequence,
                !.intent = FALSE]

(***************************************************************************)
(* _close_active_interrupt_lineage: the pending or responding pause of the *)
(* Run, and the one the Run resumes.  Only an accepted response can be     *)
(* resolved; everything else is cancelled.                                 *)
(***************************************************************************)
InLineage(p, r) == p = r \/ (run[r].kind = "resume" /\ run[r].parent = p)
\* Mutant: the settled pauses of the lineage are closed once more.
ClosedPausesAgain(r, asked) ==
    [p \in Runs |->
        IF pause[p].status # "absent" /\ r # NoRun /\ InLineage(p, r)
        THEN [pause[p] EXCEPT !.status =
                 IF asked = "resolved" /\ pause[p].status = "responding"
                 THEN "resolved" ELSE "cancelled"]
        ELSE pause[p]]

ClosedPauses(r, asked) ==
    [p \in Runs |->
        IF pause[p].status \in ActivePause /\ r # NoRun /\ InLineage(p, r)
        THEN [pause[p] EXCEPT !.status =
                 IF asked = "resolved" /\ pause[p].status = "responding"
                 THEN "resolved" ELSE "cancelled"]
        ELSE pause[p]]
=============================================================================
