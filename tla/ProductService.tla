--------------------------- MODULE ProductService ---------------------------
(***************************************************************************)
(* The requests of a signed-in user on an existing Task (api/service.py).  *)
(* Each is one transaction that holds the Task row, so each is one action. *)
(* A request that the code refuses, or answers from a replayed             *)
(* Idempotency-Key, changes nothing and is not an action.                  *)
(***************************************************************************)
EXTENDS TaskStore

CONSTANT Requests   \* the kinds of request that users make

ASSUME RequestsAssumption ==
    Requests \subseteq {"cancel_task", "cancel_run", "retry", "fork", "respond"}

(***************************************************************************)
(* The commands a cancellation withdraws: everything pending, and what is  *)
(* dispatching except a submit whose official Run is not registered yet.   *)
(***************************************************************************)
Withdrawn(c) ==
    \/ cmd[c].status = "pending"
    \/ /\ cmd[c].status = "dispatching"
       /\ ~(cmd[c].type = "submit" /\ ~cmd[c].off)

WithdrawAndAppend(new, row) ==
    cmd' = [c \in Commands |->
               IF c = new THEN row
               ELSE IF Withdrawn(c) THEN Close(cmd[c], "cancelled")
               ELSE cmd[c]]

CancelTask ==
    /\ "cancel_task" \in Requests
    /\ task \in ActiveStatus
    /\ ~UnfinishedOf("cancel_task")
    /\ \E c \in Commands :
          /\ FreshCommand(c)
          /\ WithdrawAndAppend(c, NewCommand("cancel_task", NoRun, FALSE))
    /\ run' = [r \in Runs |->
                  IF Latest(r) THEN [run[r] EXCEPT !.cancelReq = TRUE]
                  ELSE run[r]]
    /\ UNCHANGED <<task, pause>>

\* The status of the Task is not looked at, only that of the Run.
CancelRun(r) ==
    /\ "cancel_run" \in Requests
    /\ run[r].status \in ActiveStatus
    /\ ~UnfinishedOf("cancel_task")
    /\ ~\E c \in Commands :
          cmd[c].type = "cancel_run" /\ cmd[c].arg = r /\ IsUnfinished(c)
    /\ \E c \in Commands :
          /\ FreshCommand(c)
          /\ WithdrawAndAppend(c, NewCommand("cancel_run", r, FALSE))
    /\ run' = [run EXCEPT ![r].cancelReq = TRUE]
    /\ UNCHANGED <<task, pause>>

CancelledByRunRequest(r) ==
    /\ task = "cancelled"
    /\ run[r].status = "cancelled"
    /\ \E c \in Commands :
          cmd[c].type = "cancel_run" /\ cmd[c].status = "dispatched" /\ cmd[c].arg = r

AppendCommand(row) ==
    \E c \in Commands : FreshCommand(c) /\ cmd' = [cmd EXCEPT ![c] = row]

RetryTask ==
    /\ "retry" \in Requests
    /\ NothingUnfinished
    /\ \E src \in Runs, r \in Runs :
          /\ Latest(src)
          /\ task \in {"failed", "blocked"} \/ CancelledByRunRequest(src)
          /\ run[src].status \in {"failed", "blocked", "cancelled"}
          /\ FreshRun(r)
          /\ run' = [run EXCEPT ![r] = NewRun("retry", src, "queued", FALSE)]
          /\ AppendCommand(NewCommand("retry", r, FALSE))
    /\ task' = "queued"
    /\ UNCHANGED pause

\* _cancel_pending_pause_for_fork
PendingPausesCancelled ==
    [p \in Runs |-> IF pause[p].status = "pending"
                    THEN [pause[p] EXCEPT !.status = "cancelled"]
                    ELSE pause[p]]

(***************************************************************************)
(* fork_task: from any Run with a checkpoint.  A pending review of the     *)
(* Task is cancelled with its Run; an accepted one refuses the fork.       *)
(***************************************************************************)
ForkTask(src) ==
    /\ "fork" \in Requests
    /\ task # "cancelled"
    /\ Exists(src) /\ run[src].ckpt
    /\ NothingUnfinished
    /\ \A p \in Runs :
          /\ pause[p].status # "responding"
          /\ pause[p].status = "pending" => run[p].status = "waiting_human"
    /\ \E r \in Runs :
          /\ FreshRun(r)
          /\ run' = [q \in Runs |->
                        IF q = r THEN NewRun("fork", src, "queued", TRUE)
                        ELSE IF pause[q].status = "pending"
                        THEN [run[q] EXCEPT !.status = "cancelled"]
                        ELSE run[q]]
          /\ AppendCommand(NewCommand("fork", r, FALSE))
    /\ pause' = PendingPausesCancelled
    /\ task' = "queued"

\* The Run a response or an expiry creates is attempt parent + 1.
ResumeOf(p) == p + 1

LatestWaiting(p) ==
    /\ run[p].status = "waiting_human"
    /\ \A q \in Runs : q > p => run[q].status # "waiting_human"

\* Mutant: the response is stored but the pause stays open.
AcceptedPauseStaysOpen(p) == pause

AcceptedPause(p) == [pause EXCEPT ![p].status = "responding"]

RespondInterrupts(p) ==
    /\ "respond" \in Requests
    /\ task = "waiting_human"
    /\ LatestWaiting(p)
    /\ pause[p].status = "pending" /\ ~pause[p].due
    /\ ResumeOf(p) \in Runs /\ ~Exists(ResumeOf(p))
    /\ run' = [run EXCEPT ![ResumeOf(p)] = NewRun("resume", p, "queued", FALSE)]
    /\ pause' = AcceptedPause(p)
    /\ AppendCommand(NewCommand("respond", p, FALSE))
    /\ UNCHANGED task

UserRequest ==
    \/ CancelTask
    \/ RetryTask
    \/ \E r \in Runs : CancelRun(r) \/ ForkTask(r) \/ RespondInterrupts(r)
=============================================================================
