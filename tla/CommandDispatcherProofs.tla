---------------------- MODULE CommandDispatcherProofs ----------------------
(***************************************************************************)
(* Theorems about the command dispatcher, for every number of workers,     *)
(* Runs and commands, every attempt limit, every set of requests and every *)
(* set of faults.                                                          *)
(*                                                                         *)
(* The properties are not inductive by themselves: a worker acts on what   *)
(* it carries, so the invariant also says what a worker may carry          *)
(* (WorkerInv) and how the rows of the command queue look (QueueInv).      *)
(* Every transaction of a worker writes one command that is being          *)
(* dispatched, which the serial order makes the only one (OwnedWrite).     *)
(***************************************************************************)
EXTENDS CommandDispatcher, TLAPS

(***************************************************************************)
(* A worker that is not idle carries a command; a remembered remote status *)
(* is terminal; what is finalized is a terminal status of the Product.     *)
(***************************************************************************)
WorkerOK(s) ==
    /\ s \in WorkerState
    /\ s.pc # "idle" => s.cmd \in Commands
    /\ s.pc = "remember" => s.note \in {"success", "error"}
    /\ s.pc \in {"finalize", "db_error"} => s.note \in TerminalStatus

WorkerInv == worker \in [Workers -> WorkerState] /\ \A w \in Workers : WorkerOK(worker[w])

(***************************************************************************)
(* Sequences have no gaps, only a claimed command is dispatching, and what *)
(* is finished carries no lease that could still run out.                  *)
(***************************************************************************)
QueueInv ==
    /\ \A c \in Commands :
          /\ cmd[c].status = "absent" => cmd[c].attempt = 0
          /\ cmd[c].status = "dispatching" => cmd[c].attempt > 0
          /\ cmd[c].status \in Finished => cmd[c].lease = "null"
    /\ \A c, d \in Commands :
          d < c /\ cmd[c].status # "absent" => cmd[d].status # "absent"

OrderInv == QueueInv /\ SerialDispatch /\ TerminalTaskIdle

IInv == StoreTypeOK /\ ServerTypeOK /\ WorkerInv /\ blind \in [Runs -> BOOLEAN] /\ OrderInv

\* The steps that the two action properties allow.
Kept == \A c \in Commands : cmd[c].status \in Finished => cmd'[c] = cmd[c]

Reopened ==
    (task \in TerminalStatus /\ task' # task) =>
        /\ task' = "queued"
        /\ \E r \in Runs : /\ run[r].status = "absent"
                           /\ run'[r].status = "queued"
                           /\ run'[r].kind \in {"retry", "fork"}

GoodStep == IInv' /\ Kept /\ Reopened

-----------------------------------------------------------------------------
(***************************************************************************)
(* Rows                                                                    *)
(***************************************************************************)
LEMMA CloseRow ==
    ASSUME NEW row \in CommandRow, NEW s \in CommandStatus
    PROVE  /\ Close(row, s) \in CommandRow
           /\ Close(row, s).attempt = row.attempt
           /\ Close(row, s).status = s
           /\ Close(row, s).lease = "null"
BY DEF Close, CommandRow

LEMMA BackoffRow ==
    ASSUME NEW row \in CommandRow, NEW s \in CommandStatus
    PROVE  /\ Backoff(row, s) \in CommandRow
           /\ Backoff(row, s).attempt = row.attempt
           /\ Backoff(row, s).status = s
BY DEF Backoff, CommandRow

LEMMA PersistTerminalType ==
    ASSUME NEW row \in RunRow, NEW out \in TerminalStatus, NEW c \in Commands
    PROVE  PersistTerminal(row, out, c) \in RunRow
<1>1. out \in RunStatus
    BY DEF RunStatus, TaskStatus
<1>2. c \in 0 .. MaxCommands
    BY StoreAssumption DEF Commands
<1> QED BY <1>1, <1>2 DEF PersistTerminal, RunRow

LEMMA NewRunType ==
    ASSUME NEW kind \in RunKind, NEW parent \in {NoRun} \cup Runs,
           NEW status \in RunStatus, NEW ckpt \in BOOLEAN
    PROVE  NewRun(kind, parent, status, ckpt) \in RunRow
BY StoreAssumption DEF NewRun, RunRow, Commands

LEMMA NewCommandType ==
    ASSUME NEW type \in CommandType, NEW arg \in {NoRun} \cup Runs,
           NEW expired \in BOOLEAN
    PROVE  /\ NewCommand(type, arg, expired) \in CommandRow
           /\ NewCommand(type, arg, expired).status = "pending"
           /\ NewCommand(type, arg, expired).attempt = 0
BY StoreAssumption DEF NewCommand, CommandRow, CommandStatus, Unfinished

-----------------------------------------------------------------------------
LEMMA InitIInv == Init => IInv
<1> SUFFICES ASSUME Init PROVE IInv
    OBVIOUS
<1>1. task \in TaskStatus
    BY DEF Init, StoreInit, TaskStatus, ActiveStatus
<1>2. run \in [Runs -> RunRow]
    BY NewRunType DEF Init, StoreInit, RunKind, RunStatus
<1>3. /\ cmd \in [Commands -> CommandRow]
      /\ \A c \in Commands :
            /\ cmd[c].attempt = 0
            /\ cmd[c].status = IF c = 1 THEN "pending" ELSE "absent"
  <2> DEFINE row == NewCommand("submit", NoRun, FALSE)
             gap == [row EXCEPT !.status = "absent"]
  <2>1. row \in CommandRow /\ row.status = "pending" /\ row.attempt = 0
      BY NewCommandType DEF CommandType, WorkType
  <2>2. gap \in CommandRow /\ gap.status = "absent" /\ gap.attempt = 0
      BY <2>1 DEF CommandRow, CommandStatus
  <2>3. cmd = [c \in Commands |-> IF c = 1 THEN row ELSE gap]
      BY DEF Init, StoreInit
  <2> HIDE DEF row, gap
  <2> QED BY <2>1, <2>2, <2>3
<1>4. pause \in [Runs -> PauseRow]
    BY DEF Init, StoreInit, PauseRow, PauseStatus
<1>5. ServerTypeOK
    BY DEF Init, ServerInit, ServerTypeOK, OfficialStatus
<1>6. WorkerInv
  <2>1. WorkerOK(Idle)
      BY StoreAssumption DEF WorkerOK, Idle, WorkerState, PC, Note
  <2> QED BY <2>1 DEF Init, WorkerInv, WorkerOK
<1>7. blind \in [Runs -> BOOLEAN]
    BY DEF Init
<1>8. QueueInv
    BY <1>3, StoreAssumption DEF QueueInv, Finished, Commands
<1>9. SerialDispatch /\ TerminalTaskIdle
    BY <1>3, StoreAssumption DEF SerialDispatch, TerminalTaskIdle, Commands
<1> QED BY <1>1, <1>2, <1>3, <1>4, <1>5, <1>6, <1>7, <1>8, <1>9
        DEF IInv, OrderInv, StoreTypeOK

-----------------------------------------------------------------------------
(***************************************************************************)
(* Workers                                                                 *)
(***************************************************************************)
LEMMA WorkerUpdate ==
    ASSUME WorkerInv, NEW w \in Workers, NEW s, WorkerOK(s),
           worker' = [worker EXCEPT ![w] = s]
    PROVE  WorkerInv'
BY DEF WorkerInv, WorkerOK

LEMMA DoneWorker ==
    ASSUME WorkerInv, NEW w \in Workers, Done(w)
    PROVE  WorkerInv'
<1>1. WorkerOK(Idle)
    BY StoreAssumption DEF WorkerOK, Idle, WorkerState, PC, Note
<1> QED BY <1>1, WorkerUpdate DEF Done

\* What a worker may note when it goes to pc.
NoteOK(pc, note) ==
    /\ pc \in PC /\ note \in Note
    /\ pc = "remember" => note \in {"success", "error"}
    /\ pc \in {"finalize", "db_error"} => note \in TerminalStatus

LEMMA GotoWorker ==
    ASSUME WorkerInv, NEW w \in Workers, ~At(w, "idle"), NEW pc, NEW note,
           NoteOK(pc, note), Goto(w, pc, note)
    PROVE  WorkerInv'
<1> DEFINE s == [worker[w] EXCEPT !.pc = pc, !.note = note]
<1>1. worker[w] \in WorkerState /\ worker[w].cmd \in Commands
    BY DEF WorkerInv, WorkerOK, At
<1>2. s \in WorkerState /\ s.cmd \in Commands /\ s.pc = pc /\ s.note = note
    BY <1>1 DEF WorkerState, NoteOK
<1>3. WorkerOK(s)
    BY <1>2 DEF WorkerOK, NoteOK
<1>4. worker' = [worker EXCEPT ![w] = s]
    BY DEF Goto, WorkerInv
<1> HIDE DEF s
<1> QED BY <1>3, <1>4, WorkerUpdate

-----------------------------------------------------------------------------
(***************************************************************************)
(* Steps that leave the database alone                                     *)
(***************************************************************************)
LEMMA SameRows ==
    ASSUME IInv, UNCHANGED dbVars
    PROVE  StoreTypeOK' /\ OrderInv' /\ Kept /\ Reopened
<1>1. task' = task /\ run' = run /\ cmd' = cmd /\ pause' = pause
    BY DEF dbVars
<1>2. StoreTypeOK'
    BY <1>1 DEF IInv, StoreTypeOK
<1>3. QueueInv'
    BY <1>1 DEF IInv, OrderInv, QueueInv
<1>4. SerialDispatch' /\ TerminalTaskIdle'
    BY <1>1 DEF IInv, OrderInv, SerialDispatch, TerminalTaskIdle, IsUnfinished
<1>5. Kept /\ Reopened
    BY <1>1 DEF Kept, Reopened
<1> QED BY <1>2, <1>3, <1>4, <1>5 DEF OrderInv

LEMMA SameServer ==
    ASSUME ServerTypeOK, UNCHANGED serverVars
    PROVE  ServerTypeOK'
BY DEF ServerTypeOK, serverVars

\* A remote call: the rows stay, the server and the worker move.
LEMMA RemoteStep ==
    ASSUME IInv, UNCHANGED <<dbVars, blind>>, ServerTypeOK', WorkerInv'
    PROVE  GoodStep
<1>1. UNCHANGED dbVars /\ blind' = blind
    OBVIOUS
<1> QED BY <1>1, SameRows DEF IInv, GoodStep

LEMMA ReadStep ==
    ASSUME IInv, NEW w \in Workers, ~At(w, "idle"), NEW pc, NEW note,
           NoteOK(pc, note), Read(w, pc, note)
    PROVE  GoodStep
<1>1. WorkerInv'
    BY GotoWorker DEF IInv, Read
<1>2. UNCHANGED <<dbVars, blind>> /\ UNCHANGED serverVars
    BY DEF Read
<1> QED BY <1>1, <1>2, SameServer, RemoteStep DEF IInv

LEMMA GiveUpStep ==
    ASSUME IInv, NEW w \in Workers, GiveUp(w)
    PROVE  GoodStep
<1>1. WorkerInv'
    BY DoneWorker DEF IInv, GiveUp
<1>2. UNCHANGED <<dbVars, blind>> /\ UNCHANGED serverVars
    BY DEF GiveUp
<1> QED BY <1>1, <1>2, SameServer, RemoteStep DEF IInv

-----------------------------------------------------------------------------
(***************************************************************************)
(* Transactions.  The command that a worker owns is the only one that is   *)
(* being dispatched, so what it writes keeps the order of the queue, and   *)
(* ends the Task only together with the command.                           *)
(***************************************************************************)
RowOK(c, row) ==
    /\ row \in CommandRow
    /\ row.attempt = cmd[c].attempt
    /\ row.status # "absent"
    /\ row.status \in Finished => row.lease = "null"
    /\ task' \in TerminalStatus => row.status # "dispatching"

LEMMA OwnedWrite ==
    ASSUME IInv, NEW c \in Commands, cmd[c].status = "dispatching",
           NEW row, RowOK(c, row), cmd' = [cmd EXCEPT ![c] = row]
    PROVE  /\ cmd' \in [Commands -> CommandRow]
           /\ OrderInv' /\ Kept /\ Reopened
<1>0. /\ cmd \in [Commands -> CommandRow]
      /\ QueueInv /\ SerialDispatch /\ TerminalTaskIdle
    BY DEF IInv, OrderInv, StoreTypeOK
<1>1. /\ cmd' \in [Commands -> CommandRow]
      /\ cmd'[c] = row
      /\ \A d \in Commands : d # c => cmd'[d] = cmd[d]
    BY <1>0 DEF RowOK
<1>2. \A d \in Commands : d # c => cmd[d].status # "dispatching"
    BY <1>0 DEF QueueInv, SerialDispatch, IsUnfinished, Unfinished, Commands
<1>3. QueueInv'
    BY <1>0, <1>1 DEF QueueInv, RowOK
<1>4. SerialDispatch'
    BY <1>0, <1>1 DEF SerialDispatch, IsUnfinished, Unfinished, RowOK
<1>5. TerminalTaskIdle'
    BY <1>1, <1>2 DEF TerminalTaskIdle, RowOK
<1>6. Kept
    BY <1>1 DEF Kept, Finished
<1>7. Reopened
    BY <1>0 DEF Reopened, TerminalTaskIdle
<1> QED BY <1>1, <1>3, <1>4, <1>5, <1>6, <1>7 DEF OrderInv

\* A transaction of a worker that still owns its command.
LEMMA WriteStep ==
    ASSUME IInv, NEW w \in Workers, ~At(w, "idle"), Owns(w),
           NEW row, RowOK(worker[w].cmd, row),
           cmd' = [cmd EXCEPT ![worker[w].cmd] = row],
           task' \in TaskStatus,
           run' \in [Runs -> RunRow], pause' \in [Runs -> PauseRow],
           WorkerInv', ServerTypeOK', blind' \in [Runs -> BOOLEAN]
    PROVE  GoodStep
<1>1. worker[w].cmd \in Commands
    BY DEF IInv, WorkerInv, WorkerOK, At
<1>2. cmd[worker[w].cmd].status = "dispatching"
    BY DEF Owns, Row
<1>3. cmd' \in [Commands -> CommandRow] /\ OrderInv' /\ Kept /\ Reopened
    BY <1>1, <1>2, OwnedWrite
<1> QED BY <1>3 DEF GoodStep, IInv, StoreTypeOK

\* The three ways in which a transaction leaves the command.
LEMMA FinishStep ==
    ASSUME IInv, NEW w \in Workers, ~At(w, "idle"), Owns(w), NEW s \in Finished,
           FinishCommand(worker[w].cmd, s), task' \in TaskStatus,
           run' \in [Runs -> RunRow], pause' \in [Runs -> PauseRow],
           Done(w), UNCHANGED <<serverVars, blind>>
    PROVE  GoodStep
<1> DEFINE row == Close(cmd[worker[w].cmd], s)
<1>1. cmd[worker[w].cmd] \in CommandRow
    BY DEF IInv, StoreTypeOK, WorkerInv, WorkerOK, At
<1>2. s \in CommandStatus /\ s # "absent" /\ s # "dispatching"
    BY DEF CommandStatus, Finished
<1>3. RowOK(worker[w].cmd, row)
    BY <1>1, <1>2, CloseRow DEF RowOK
<1>4. cmd' = [cmd EXCEPT ![worker[w].cmd] = row]
    BY DEF FinishCommand
<1>5. WorkerInv' /\ ServerTypeOK' /\ blind' \in [Runs -> BOOLEAN]
    BY DoneWorker, SameServer DEF IInv
<1> HIDE DEF row
<1> QED BY <1>3, <1>4, <1>5, WriteStep

LEMMA BackoffStep ==
    ASSUME IInv, NEW w \in Workers, ~At(w, "idle"), Owns(w), NEW s \in Unfinished,
           BackoffCommand(worker[w].cmd, s), task' \in ActiveStatus \/ task' = task,
           run' \in [Runs -> RunRow], pause' = pause,
           Done(w), UNCHANGED serverVars, blind' \in [Runs -> BOOLEAN]
    PROVE  GoodStep
<1> DEFINE row == Backoff(cmd[worker[w].cmd], s)
<1>1. cmd[worker[w].cmd] \in CommandRow /\ worker[w].cmd \in Commands
    BY DEF IInv, StoreTypeOK, WorkerInv, WorkerOK, At
<1>2. s \in CommandStatus /\ s # "absent" /\ s \notin Finished
    BY DEF CommandStatus, Unfinished, Finished
<1>3. task' \in TaskStatus /\ task' \notin TerminalStatus
  <2>1. task \in TaskStatus /\ task \notin TerminalStatus
      BY <1>1 DEF IInv, StoreTypeOK, OrderInv, TerminalTaskIdle, Owns, Row
  <2> QED BY <2>1 DEF TaskStatus, ActiveStatus, TerminalStatus
<1>4. RowOK(worker[w].cmd, row)
    BY <1>1, <1>2, <1>3, BackoffRow DEF RowOK
<1>5. cmd' = [cmd EXCEPT ![worker[w].cmd] = row]
    BY DEF BackoffCommand
<1>6. WorkerInv' /\ ServerTypeOK' /\ pause' \in [Runs -> PauseRow]
    BY DoneWorker, SameServer DEF IInv, StoreTypeOK
<1> HIDE DEF row
<1> QED BY <1>3, <1>4, <1>5, <1>6, WriteStep

-----------------------------------------------------------------------------
(***************************************************************************)
(* execute                                                                 *)
(***************************************************************************)
LEMMA ExecuteGood ==
    ASSUME IInv, NEW w \in Workers, Execute(w)
    PROVE  GoodStep
<1>1. ~At(w, "idle")
    BY DEF Execute, At
<1>2. CASE GiveUp(w)
    BY <1>2, GiveUpStep
<1>3. CASE ExecuteCancel(w)
  <2>1. worker[w].obs # "none" => NoteOK("remember", worker[w].obs)
      BY DEF IInv, WorkerInv, WorkerState, NoteOK, PC, Note
  <2>2. /\ NoteOK("finalize", "failed") /\ NoteOK("schedule", "none")
        /\ NoteOK("cancel_call", "none") /\ NoteOK("cancel_find", "none")
        /\ NoteOK("cancel_finalize", "none")
      BY DEF NoteOK, PC, Note, TerminalStatus
  <2> QED BY <1>1, <1>3, <2>1, <2>2, ReadStep DEF ExecuteCancel
<1>4. CASE ExecuteWork(w)
  <2>1. /\ NoteOK("drain", "none") /\ NoteOK("remote_error", "error")
        /\ NoteOK("find", "none") /\ NoteOK("lookup", "none")
      BY DEF NoteOK, PC, Note
  <2> QED BY <1>1, <1>4, <2>1, ReadStep DEF ExecuteWork
<1> QED BY <1>2, <1>3, <1>4 DEF Execute

\* Steps that only read from the Agent Server.
LEMMA ReadsGood ==
    ASSUME IInv, NEW w \in Workers,
           \/ Lookup(w) \/ CreateRejected(w) \/ Find(w) \/ Drain(w) \/ Get(w)
           \/ Members(w) \/ Poll(w) \/ Join(w) \/ FinalizeFails(w) \/ CancelFind(w)
    PROVE  GoodStep
<1>1. ~At(w, "idle")
    BY DEF At, Lookup, CreateRejected, Find, Drain, Get, Members, Poll, Join,
           FinalizeFails, CancelFind
<1>2. /\ NoteOK("register", "none") /\ NoteOK("create", "none")
      /\ NoteOK("remote_error", "error") /\ NoteOK("remote_error", "indeterminate")
      /\ NoteOK("get", "none") /\ NoteOK("members", "none") /\ NoteOK("poll", "none")
      /\ NoteOK("mark", "none") /\ NoteOK("schedule", "none")
      /\ NoteOK("orphan_cancel", "none") /\ NoteOK("cancel_register", "none")
      /\ NoteOK("cancel_retry", "none") /\ NoteOK("cancel_retry", "error")
    BY DEF NoteOK, PC, Note
<1>3. \A out \in TerminalStatus : NoteOK("finalize", out) /\ NoteOK("db_error", out)
    BY DEF NoteOK, PC, Note
<1>4. \A s \in {"success", "error"} : NoteOK("remember", s)
    BY DEF NoteOK, PC, Note
<1>5. "failed" \in TerminalStatus
    BY DEF TerminalStatus
<1>6. CASE Lookup(w)
    BY <1>1, <1>2, <1>6, ReadStep DEF Lookup
<1>7. CASE CreateRejected(w)
    BY <1>1, <1>2, <1>7, ReadStep DEF CreateRejected
<1>8. CASE Find(w)
    BY <1>1, <1>2, <1>8, ReadStep DEF Find
<1>9. CASE Drain(w)
  <2>1. worker[w].obs # "none" => worker[w].obs \in {"success", "error"}
      BY DEF IInv, WorkerInv, WorkerState
  <2> QED BY <1>1, <1>2, <1>4, <1>9, <2>1, ReadStep, GiveUpStep DEF Drain
<1>10. CASE Get(w)
    BY <1>1, <1>2, <1>4, <1>10, ReadStep DEF Get
<1>11. CASE Members(w)
    BY <1>1, <1>2, <1>3, <1>5, <1>11, ReadStep DEF Members
<1>12. CASE Poll(w)
    BY <1>1, <1>2, <1>12, ReadStep DEF Poll
<1>13. CASE Join(w)
    BY <1>1, <1>2, <1>3, <1>5, <1>13, ReadStep DEF Join
<1>14. CASE FinalizeFails(w)
  <2>1. worker[w].note \in TerminalStatus
      BY <1>14 DEF FinalizeFails, At, IInv, WorkerInv, WorkerOK
  <2> QED BY <1>1, <1>3, <1>14, <2>1, ReadStep DEF FinalizeFails
<1>15. CASE CancelFind(w)
    BY <1>1, <1>2, <1>15, ReadStep DEF CancelFind
<1> QED BY <1>6, <1>7, <1>8, <1>9, <1>10, <1>11, <1>12, <1>13, <1>14, <1>15

LEMMA MaybeInFlightType ==
    ASSUME ServerTypeOK, NEW w \in Workers, MaybeInFlight(w), UNCHANGED <<official, duplicate>>
    PROVE  ServerTypeOK'
BY DEF ServerTypeOK, MaybeInFlight

\* Calls that change what the Agent Server does.
LEMMA CallsGood ==
    ASSUME IInv, NEW w \in Workers,
           \/ CreateAccepted(w) \/ CreateUncertain(w) \/ HeartbeatLost(w)
           \/ OrphanCancel(w) \/ CancelCall(w) \/ Crash(w)
    PROVE  GoodStep
<1>1. ~At(w, "idle")
    BY DEF At, CreateAccepted, CreateUncertain, HeartbeatLost, OrphanCancel,
           CancelCall, Crash
<1>2. /\ NoteOK("register", "none") /\ NoteOK("orphan", "none")
      /\ NoteOK("remote_error", "error") /\ NoteOK("remote_error", "indeterminate")
      /\ NoteOK("cancel_finalize", "none") /\ NoteOK("cancel_retry", "error")
    BY DEF NoteOK, PC, Note
<1>3. NoteOK("finalize", "failed")
    BY DEF NoteOK, PC, Note, TerminalStatus
<1>4. \A h : CancelTerminal(h) => NoteOK("remember", StatusOf(h))
    BY DEF CancelTerminal, NoteOK, PC, Note
<1>5. \A h : Stop(h) => official' \in [Runs -> OfficialStatus]
    BY DEF IInv, ServerTypeOK, Stop, OfficialStatus
<1>6. CASE CreateAccepted(w)
  <2>1. ServerTypeOK'
      BY <1>6 DEF CreateAccepted, Accepts, IInv, ServerTypeOK, OfficialStatus
  <2>2. WorkerInv'
      BY <1>1, <1>2, <1>6, GotoWorker DEF CreateAccepted, IInv
  <2> QED BY <1>6, <2>1, <2>2, RemoteStep DEF CreateAccepted
<1>7. CASE CreateUncertain(w)
  <2>1. ServerTypeOK'
      BY <1>7 DEF CreateUncertain, IInv, ServerTypeOK
  <2>2. WorkerInv'
      BY <1>1, <1>2, <1>7, GotoWorker DEF CreateUncertain, IInv
  <2> QED BY <1>7, <2>1, <2>2, RemoteStep DEF CreateUncertain
<1>8. CASE HeartbeatLost(w)
  <2>1. ServerTypeOK'
      BY <1>8, MaybeInFlightType DEF HeartbeatLost, IInv
  <2>2. WorkerInv'
      BY <1>8, DoneWorker DEF HeartbeatLost, IInv
  <2> QED BY <1>8, <2>1, <2>2, RemoteStep DEF HeartbeatLost
<1>9. CASE OrphanCancel(w)
  <2>1. ServerTypeOK'
      BY <1>5, <1>9 DEF OrphanCancel, CancelLost, IInv, ServerTypeOK
  <2>2. WorkerInv'
      BY <1>1, <1>2, <1>3, <1>4, <1>9, GotoWorker DEF OrphanCancel, IInv
  <2> QED BY <1>9, <2>1, <2>2, RemoteStep DEF OrphanCancel
<1>10. CASE CancelCall(w)
  <2>1. ServerTypeOK'
      BY <1>5, <1>10 DEF CancelCall, CancelLost, IInv, ServerTypeOK
  <2>2. WorkerInv'
      BY <1>1, <1>2, <1>4, <1>10, GotoWorker DEF CancelCall, IInv
  <2> QED BY <1>10, <2>1, <2>2, RemoteStep DEF CancelCall
<1>11. CASE Crash(w)
  <2>1. ServerTypeOK'
      BY <1>11, MaybeInFlightType DEF Crash, IInv
  <2>2. WorkerInv'
      BY <1>11, DoneWorker DEF Crash, IInv
  <2> QED BY <1>11, <2>1, <2>2, RemoteStep DEF Crash
<1> QED BY <1>6, <1>7, <1>8, <1>9, <1>10, <1>11

-----------------------------------------------------------------------------
(***************************************************************************)
(* Transactions of a work command                                          *)
(***************************************************************************)
\* The parts of IInv that the transactions use.
LEMMA Parts ==
    ASSUME IInv, NEW w \in Workers, ~At(w, "idle")
    PROVE  /\ task \in TaskStatus /\ run \in [Runs -> RunRow]
           /\ cmd \in [Commands -> CommandRow] /\ pause \in [Runs -> PauseRow]
           /\ blind \in [Runs -> BOOLEAN] /\ WorkerInv /\ ServerTypeOK
           /\ worker \in [Workers -> WorkerState] /\ worker[w] \in WorkerState
           /\ worker[w].cmd \in Commands /\ Row(w) \in CommandRow
           /\ Owns(w) => task \notin TerminalStatus
<1>1. worker[w].cmd \in Commands /\ worker[w] \in WorkerState
    BY DEF IInv, WorkerInv, WorkerOK, At
<1>2. cmd \in [Commands -> CommandRow]
    BY DEF IInv, StoreTypeOK
<1> QED BY <1>1, <1>2
        DEF IInv, StoreTypeOK, WorkerInv, OrderInv, TerminalTaskIdle, Owns, Row

LEMMA SameQueue ==
    ASSUME IInv, task' = task, cmd' = cmd
    PROVE  OrderInv' /\ Kept /\ Reopened
<1>1. QueueInv'
    BY DEF IInv, OrderInv, QueueInv
<1>2. SerialDispatch' /\ TerminalTaskIdle'
    BY DEF IInv, OrderInv, SerialDispatch, TerminalTaskIdle, IsUnfinished
<1> QED BY <1>1, <1>2 DEF OrderInv, Kept, Reopened

\* The fields of a Run that the transactions write.
LEMMA RunFields ==
    ASSUME NEW row \in RunRow, NEW b \in BOOLEAN
    PROVE  /\ [row EXCEPT !.off = TRUE, !.intent = FALSE] \in RunRow
           /\ [row EXCEPT !.status = "queued", !.intent = b] \in RunRow
           /\ [row EXCEPT !.status = "waiting_human", !.ckpt = TRUE] \in RunRow
           /\ [row EXCEPT !.status = "cancelled"] \in RunRow
           /\ [row EXCEPT !.off = TRUE] \in RunRow
           /\ [row EXCEPT !.cancelReq = TRUE] \in RunRow
           /\ [row EXCEPT !.deadline = "past"] \in RunRow
           /\ [row EXCEPT !.obs = "success"] \in RunRow
           /\ [row EXCEPT !.obs = "error"] \in RunRow
<1>1. {"queued", "waiting_human", "cancelled"} \subseteq RunStatus
    BY DEF RunStatus, TaskStatus, ActiveStatus, TerminalStatus
<1> QED BY <1>1 DEF RunRow

LEMMA RunUpdates ==
    ASSUME run \in [Runs -> RunRow], NEW r, NEW b \in BOOLEAN
    PROVE  /\ [run EXCEPT ![r].off = TRUE, ![r].intent = FALSE] \in [Runs -> RunRow]
           /\ [run EXCEPT ![r].status = "queued", ![r].intent = b] \in [Runs -> RunRow]
           /\ [run EXCEPT ![r].status = "waiting_human", ![r].ckpt = TRUE] \in [Runs -> RunRow]
           /\ [run EXCEPT ![r].off = TRUE] \in [Runs -> RunRow]
           /\ [run EXCEPT ![r].cancelReq = TRUE] \in [Runs -> RunRow]
           /\ [run EXCEPT ![r].deadline = "past"] \in [Runs -> RunRow]
           /\ [run EXCEPT ![r].obs = "success"] \in [Runs -> RunRow]
           /\ [run EXCEPT ![r].obs = "error"] \in [Runs -> RunRow]
<1>1. CASE r \in Runs
  <2>1. /\ [run EXCEPT ![r].off = TRUE, ![r].intent = FALSE]
             = [run EXCEPT ![r] = [run[r] EXCEPT !.off = TRUE, !.intent = FALSE]]
        /\ [run EXCEPT ![r].status = "queued", ![r].intent = b]
             = [run EXCEPT ![r] = [run[r] EXCEPT !.status = "queued", !.intent = b]]
        /\ [run EXCEPT ![r].status = "waiting_human", ![r].ckpt = TRUE]
             = [run EXCEPT ![r] = [run[r] EXCEPT !.status = "waiting_human", !.ckpt = TRUE]]
      BY <1>1
  <2>2. run[r] \in RunRow
      BY <1>1
  <2> QED BY <1>1, <2>1, <2>2, RunFields
<1>2. CASE r \notin Runs
    BY <1>2
<1> QED BY <1>1, <1>2

LEMMA PersistUpdate ==
    ASSUME run \in [Runs -> RunRow], NEW r, NEW out \in TerminalStatus,
           NEW c \in Commands
    PROVE  [run EXCEPT ![r] = PersistTerminal(run[r], out, c)] \in [Runs -> RunRow]
<1>1. r \in Runs => PersistTerminal(run[r], out, c) \in RunRow
    BY PersistTerminalType
<1> QED BY <1>1

LEMMA RegisterGood ==
    ASSUME IInv, NEW w \in Workers, Register(w)
    PROVE  GoodStep
<1>1. ~At(w, "idle")
    BY DEF At, Register
<1>2. CASE GiveUp(w)
    BY <1>2, GiveUpStep
<1>3. CASE OwnsFresh(w) /\ TaskAccepts(w)
  <2> DEFINE r == worker[w].run
             c == worker[w].cmd
             closed == [Close(cmd[c], "cancelled") EXCEPT !.off = TRUE]
             kept   == [cmd[c] EXCEPT !.off = TRUE]
  <2>1. Owns(w) /\ cmd[c].status = "dispatching" /\ cmd[c] \in CommandRow
      BY <1>1, <1>3, Parts DEF OwnsFresh, Owns, Row
  <2>2. run' \in [Runs -> RunRow]
    <3>1. run' = [run EXCEPT ![r].off = TRUE, ![r].intent = FALSE]
        BY <1>3 DEF Register
    <3>2. run \in [Runs -> RunRow]
        BY <1>1, Parts
    <3> HIDE DEF r
    <3> QED BY <3>1, <3>2, RunUpdates
  <2>3. UNCHANGED <<task, pause, serverVars, blind>>
      BY <1>3 DEF Register
  <2>4. /\ task' \in TaskStatus /\ task' \notin TerminalStatus
        /\ pause' \in [Runs -> PauseRow] /\ ServerTypeOK'
        /\ blind' \in [Runs -> BOOLEAN]
      BY <1>1, <2>1, <2>3, Parts, SameServer
  <2>5. CASE run[r].cancelReq
    <3>1. cmd' = [cmd EXCEPT ![c] = closed] /\ Done(w)
        BY <1>3, <2>5 DEF Register
    <3>2. /\ Close(cmd[c], "cancelled") \in CommandRow
          /\ Close(cmd[c], "cancelled").attempt = cmd[c].attempt
          /\ Close(cmd[c], "cancelled").status = "cancelled"
          /\ Close(cmd[c], "cancelled").lease = "null"
        BY <2>1, CloseRow DEF CommandStatus, Finished
    <3>3. RowOK(c, closed)
        BY <2>1, <3>2 DEF RowOK, CommandRow
    <3>4. WorkerInv'
        BY <3>1, DoneWorker DEF IInv
    <3> HIDE DEF closed
    <3> QED BY <1>1, <2>1, <2>2, <2>4, <3>1, <3>3, <3>4, WriteStep
  <2>6. CASE ~run[r].cancelReq
    <3> DEFINE s == [worker[w] EXCEPT !.pc = "drain", !.handle = r]
    <3>1. /\ cmd' = [cmd EXCEPT ![c] = kept]
          /\ worker' = [worker EXCEPT ![w].pc = "drain", ![w].handle = r]
        BY <1>1, <1>3, <2>6, Parts DEF Register
    <3>2. RowOK(c, kept)
        BY <2>1, <2>4 DEF RowOK, CommandRow, Finished
    <3>3. WorkerOK(s)
      <4>1. worker[w] \in WorkerState /\ c \in Commands
          BY <1>1, Parts
      <4>2. s \in WorkerState /\ s.pc = "drain" /\ s.cmd = c
          BY <4>1 DEF WorkerState, PC
      <4> QED BY <4>1, <4>2 DEF WorkerOK
    <3>4. worker' = [worker EXCEPT ![w] = s]
        BY <1>1, <3>1, Parts
    <3>5. WorkerInv'
      <4> HIDE DEF s
      <4> QED BY <3>3, <3>4, WorkerUpdate DEF IInv
    <3> HIDE DEF kept
    <3> QED BY <1>1, <2>1, <2>2, <2>4, <3>1, <3>2, <3>5, WriteStep
  <2> QED BY <2>5, <2>6
<1> QED BY <1>2, <1>3 DEF Register

LEMMA ScheduleGood ==
    ASSUME IInv, NEW w \in Workers, Schedule(w)
    PROVE  GoodStep
<1>1. ~At(w, "idle")
    BY DEF At, Schedule
<1>2. "dispatching" \in Unfinished
    BY DEF Unfinished
<1>3. CASE GiveUp(w)
    BY <1>3, GiveUpStep
<1>4. CASE ~GiveUp(w)
  <2>1. /\ Owns(w) /\ BackoffCommand(worker[w].cmd, "dispatching") /\ Done(w)
        /\ UNCHANGED <<task, run, pause, serverVars, blind>>
      BY <1>4 DEF Schedule
  <2>2. run' \in [Runs -> RunRow] /\ blind' \in [Runs -> BOOLEAN]
      BY <1>1, <2>1, Parts
  <2> QED BY <1>1, <1>2, <2>1, <2>2, BackoffStep
<1> QED BY <1>3, <1>4

LEMMA OrphanGood ==
    ASSUME IInv, NEW w \in Workers, Orphan(w)
    PROVE  GoodStep
<1>1. ~At(w, "idle")
    BY DEF At, Orphan
<1>2. NoteOK("cancel_failure", "none") /\ "dispatching" \in Unfinished
    BY DEF NoteOK, PC, Note, Unfinished
<1>3. CASE GiveUp(w)
    BY <1>3, GiveUpStep
<1>4. CASE Read(w, "cancel_failure", "none")
    BY <1>1, <1>2, <1>4, ReadStep
<1>5. CASE ~GiveUp(w) /\ ~Read(w, "cancel_failure", "none")
  <2>1. /\ Owns(w) /\ BackoffCommand(worker[w].cmd, "dispatching") /\ Done(w)
        /\ run' = [run EXCEPT ![worker[w].run].cancelReq = TRUE]
        /\ UNCHANGED <<task, pause, serverVars, blind>>
      BY <1>5 DEF Orphan
  <2>2. run' \in [Runs -> RunRow] /\ blind' \in [Runs -> BOOLEAN]
      BY <1>1, <2>1, Parts, RunUpdates
  <2> QED BY <1>1, <1>2, <2>1, <2>2, BackoffStep
<1> QED BY <1>3, <1>4, <1>5

\* A new status of a pause keeps the type of the pauses.
LEMMA PauseUpdate ==
    ASSUME NEW f \in [Runs -> PauseRow], NEW p, NEW s \in PauseStatus
    PROVE  [f EXCEPT ![p].status = s] \in [Runs -> PauseRow]
BY DEF PauseRow

LEMMA ResolvedPausesType ==
    ASSUME pause \in [Runs -> PauseRow], NEW w
    PROVE  ResolvedPauses(w) \in [Runs -> PauseRow]
BY PauseUpdate DEF ResolvedPauses, PauseStatus

LEMMA ClosedPausesType ==
    ASSUME pause \in [Runs -> PauseRow], NEW r, NEW asked
    PROVE  ClosedPauses(r, asked) \in [Runs -> PauseRow]
BY DEF ClosedPauses, PauseRow, PauseStatus

LEMMA MarkGood ==
    ASSUME IInv, NEW w \in Workers, Mark(w)
    PROVE  GoodStep
<1>1. ~At(w, "idle")
    BY DEF At, Mark
<1>2. CASE GiveUp(w)
    BY <1>2, GiveUpStep
<1>3. CASE ~GiveUp(w)
  <2> DEFINE r == worker[w].run
             settled == ResolvedPauses(w)
  <2>1. /\ Owns(w)
        /\ pause' = [settled EXCEPT ![r].status = IF settled[r].status = "absent"
                                                  THEN "pending" ELSE settled[r].status]
        /\ run' = [run EXCEPT ![r].status = "waiting_human", ![r].ckpt = TRUE]
        /\ task' = "waiting_human" /\ FinishCommand(worker[w].cmd, "dispatched")
        /\ Done(w) /\ UNCHANGED <<serverVars, blind>>
      BY <1>3 DEF Mark
  <2>2. settled \in [Runs -> PauseRow]
      BY <1>1, Parts, ResolvedPausesType
  <2>3. pause' \in [Runs -> PauseRow]
    <3> HIDE DEF settled, r
    <3> QED BY <2>1, <2>2 DEF PauseRow, PauseStatus
  <2>4. run' \in [Runs -> RunRow]
      BY <1>1, <2>1, Parts, RunUpdates
  <2>5. task' \in TaskStatus /\ "dispatched" \in Finished
      BY <2>1 DEF TaskStatus, ActiveStatus, Finished
  <2> QED BY <1>1, <2>1, <2>3, <2>4, <2>5, FinishStep
<1> QED BY <1>2, <1>3

LEMMA RememberGood ==
    ASSUME IInv, NEW w \in Workers, Remember(w)
    PROVE  GoodStep
<1>1. ~At(w, "idle") /\ worker[w].note \in {"success", "error"}
    BY DEF At, Remember, IInv, WorkerInv, WorkerOK
<1>2. CASE GiveUp(w)
    BY <1>2, GiveUpStep
<1>3. CASE ~GiveUp(w)
  <2>1. /\ run' = [run EXCEPT ![worker[w].run].obs = worker[w].note]
        /\ Goto(w, "join", "none") \/ Goto(w, "finalize", "failed")
        /\ UNCHANGED <<task, cmd, pause, serverVars, blind>>
      BY <1>3 DEF Remember
  <2>2. NoteOK("join", "none") /\ NoteOK("finalize", "failed")
      BY DEF NoteOK, PC, Note, TerminalStatus
  <2>3. WorkerInv' /\ ServerTypeOK'
      BY <1>1, <2>1, <2>2, GotoWorker, SameServer DEF IInv
  <2>4. run' \in [Runs -> RunRow]
      BY <1>1, <2>1, Parts, RunUpdates
  <2>5. OrderInv' /\ Kept /\ Reopened
      BY <2>1, SameQueue
  <2> QED BY <2>1, <2>3, <2>4, <2>5 DEF IInv, StoreTypeOK, GoodStep
<1> QED BY <1>2, <1>3

LEMMA FinalizeGood ==
    ASSUME IInv, NEW w \in Workers, Finalize(w)
    PROVE  GoodStep
<1>1. ~At(w, "idle") /\ worker[w].note \in TerminalStatus
    BY DEF At, Finalize, IInv, WorkerInv, WorkerOK
<1>2. {"cancelled", "dispatched", "failed"} \subseteq Finished
    BY DEF Finished
<1>3. CASE GiveUp(w)
    BY <1>3, GiveUpStep
<1>4. CASE Owns(w) /\ ~ProjectionAccepted(w)
  <2>1. /\ FinishCommand(worker[w].cmd, "cancelled") /\ Done(w)
        /\ UNCHANGED <<task, run, pause, serverVars, blind>>
      BY <1>4 DEF Finalize
  <2>2. /\ task' \in TaskStatus /\ run' \in [Runs -> RunRow]
        /\ pause' \in [Runs -> PauseRow]
      BY <1>1, <2>1, Parts
  <2> QED BY <1>1, <1>2, <1>4, <2>1, <2>2, FinishStep
<1>5. CASE Owns(w) /\ ProjectionAccepted(w)
  <2> DEFINE r == worker[w].run
             c == worker[w].cmd
             out == worker[w].note
             replayed == run[r].fence = c /\ run[r].hash # "none"
             written == IF replayed /\ run[r].hash # out THEN "failed" ELSE out
  <2>1. /\ pause' = ProjectedPauses(w) /\ Done(w) /\ UNCHANGED <<serverVars, blind>>
        /\ \/ FinishCommand(c, "cancelled") /\ UNCHANGED <<task, run>>
           \/ /\ run' = [run EXCEPT ![r] = PersistTerminal(run[r], written, c)]
              /\ task' = written
              /\ FinishCommand(c, IF written = out THEN "dispatched" ELSE "failed")
      BY <1>5 DEF Finalize
  <2>2. pause' \in [Runs -> PauseRow]
      BY <1>1, <2>1, Parts, ClosedPausesType, ResolvedPausesType DEF ProjectedPauses
  <2>3. written \in TerminalStatus
      BY <1>1 DEF TerminalStatus
  <2>4. CASE FinishCommand(c, "cancelled") /\ UNCHANGED <<task, run>>
    <3>1. task' \in TaskStatus /\ run' \in [Runs -> RunRow]
        BY <1>1, <2>4, Parts
    <3> QED BY <1>1, <1>2, <1>5, <2>1, <2>2, <2>4, <3>1, FinishStep
  <2>5. CASE /\ run' = [run EXCEPT ![r] = PersistTerminal(run[r], written, c)]
             /\ task' = written
             /\ FinishCommand(c, IF written = out THEN "dispatched" ELSE "failed")
    <3> HIDE DEF written
    <3>1. task' \in TaskStatus
        BY <2>3, <2>5 DEF TaskStatus
    <3>2. run' \in [Runs -> RunRow]
        BY <1>1, <2>3, <2>5, Parts, PersistTerminalType
    <3>3. (IF written = out THEN "dispatched" ELSE "failed") \in Finished
        BY <1>2
    <3> QED BY <1>1, <1>5, <2>1, <2>2, <2>5, <3>1, <3>2, <3>3, FinishStep
  <2> QED BY <2>1, <2>4, <2>5
<1> QED BY <1>3, <1>4, <1>5 DEF Finalize

LEMMA RecordDatabaseErrorGood ==
    ASSUME IInv, NEW w \in Workers, RecordDatabaseError(w)
    PROVE  GoodStep
<1>1. ~At(w, "idle") /\ worker[w].note \in TerminalStatus
    BY DEF At, RecordDatabaseError, IInv, WorkerInv, WorkerOK
<1>2. /\ "pending" \in Unfinished /\ "failed" \in Finished /\ "dispatched" \in Finished
      /\ "failed" \in TerminalStatus /\ TerminalStatus \subseteq TaskStatus
      /\ "queued" \in ActiveStatus
    BY DEF Unfinished, Finished, TerminalStatus, TaskStatus, ActiveStatus
<1>3. CASE GiveUp(w)
    BY <1>3, GiveUpStep
<1>4. CASE ~GiveUp(w)
  <2> DEFINE r == worker[w].run
             c == worker[w].cmd
             out == worker[w].note
  <2>1. /\ Owns(w) /\ Done(w) /\ UNCHANGED <<pause, serverVars, blind>>
        /\ \/ /\ task' = out /\ FinishCommand(c, "dispatched")
              /\ run' = [run EXCEPT ![r] = PersistTerminal(run[r], out, c)]
           \/ /\ task' = "queued" /\ BackoffCommand(c, "pending")
              /\ run' = [run EXCEPT ![r].status = "queued", ![r].intent = FALSE]
           \/ /\ task' = "failed" /\ FinishCommand(c, "failed")
              /\ run' = [run EXCEPT ![r] = PersistTerminal(run[r], "failed", c)]
      BY <1>4 DEF RecordDatabaseError
  <2>2. run' \in [Runs -> RunRow]
    <3>1. run \in [Runs -> RunRow] /\ c \in Commands /\ out \in TerminalStatus
        BY <1>1, Parts
    <3> HIDE DEF r, c, out
    <3>2. CASE run' = [run EXCEPT ![r].status = "queued", ![r].intent = FALSE]
        BY <3>1, <3>2, RunUpdates
    <3>3. CASE run' = [run EXCEPT ![r] = PersistTerminal(run[r], "failed", c)]
        BY <1>2, <3>1, <3>3, PersistUpdate
    <3>4. CASE run' = [run EXCEPT ![r] = PersistTerminal(run[r], out, c)]
        BY <3>1, <3>4, PersistUpdate
    <3> QED BY <2>1, <3>2, <3>3, <3>4
  <2>3. pause' \in [Runs -> PauseRow] /\ blind' \in [Runs -> BOOLEAN]
      BY <1>1, <2>1, Parts
  <2> QED BY <1>1, <1>2, <2>1, <2>2, <2>3, BackoffStep, FinishStep
<1> QED BY <1>3, <1>4

LEMMA RemoteErrorRequeuesGood ==
    ASSUME IInv, NEW w \in Workers, RemoteErrorRequeues(w)
    PROVE  GoodStep
<1> DEFINE r == worker[w].run
           c == worker[w].cmd
           unknown == worker[w].note = "indeterminate"
<1>1. ~At(w, "idle") /\ Owns(w)
    BY DEF At, RemoteErrorRequeues
<1>2. /\ run' = [run EXCEPT ![r].status = "queued", ![r].intent = unknown]
      /\ blind' = [blind EXCEPT ![r] = @ \/ (~unknown /\ OutcomeUnknown(r))]
      /\ task' = RequeuedTask(w)
      /\ cmd' = [cmd EXCEPT ![c] = RequeuedCommand(w)]
      /\ Done(w) /\ UNCHANGED <<pause, serverVars>>
    BY DEF RemoteErrorRequeues
<1>3. run' \in [Runs -> RunRow]
    BY <1>1, <1>2, Parts, RunUpdates
<1>4. blind' \in [Runs -> BOOLEAN]
    BY <1>1, <1>2, Parts
<1>5. task' \in TaskStatus /\ task' \notin TerminalStatus
    BY <1>2 DEF RequeuedTask, TaskStatus, ActiveStatus, TerminalStatus
<1>6. RowOK(c, RequeuedCommand(w))
  <2>1. cmd[c] \in CommandRow /\ Row(w) = cmd[c] /\ cmd[c].status = "dispatching"
      BY <1>1, Parts DEF Row, Owns
  <2>2. CASE RequeuedCommand(w) = [Row(w) EXCEPT !.lease = "due"]
      BY <1>5, <2>1, <2>2 DEF RowOK, CommandRow, Finished
  <2>3. CASE RequeuedCommand(w) = Backoff(Row(w), "pending")
    <3>1. "pending" \in CommandStatus /\ "pending" \notin Finished
        BY DEF CommandStatus, Unfinished, Finished
    <3> QED BY <2>1, <2>3, <3>1, BackoffRow DEF RowOK
  <2> QED BY <2>2, <2>3 DEF RequeuedCommand
<1>7. WorkerInv' /\ ServerTypeOK' /\ pause' \in [Runs -> PauseRow]
    BY <1>1, <1>2, Parts, DoneWorker, SameServer
<1> QED BY <1>1, <1>2, <1>3, <1>4, <1>5, <1>6, <1>7, WriteStep

LEMMA RemoteErrorFallsBackGood ==
    ASSUME IInv, NEW w \in Workers, RemoteErrorFallsBack(w)
    PROVE  GoodStep
<1> DEFINE r == worker[w].run
<1>1. ~At(w, "idle") /\ Owns(w) /\ "pending" \in Unfinished
    BY DEF At, RemoteErrorFallsBack, Unfinished
<1>2. /\ run' = [run EXCEPT ![r].status = "queued", ![r].intent = FALSE]
      /\ blind' = [blind EXCEPT ![r] = @ \/ OutcomeUnknown(r)]
      /\ task' = RequeuedTask(w)
      /\ BackoffCommand(worker[w].cmd, "pending")
      /\ Done(w) /\ UNCHANGED <<pause, serverVars>>
    BY DEF RemoteErrorFallsBack
<1>3. run' \in [Runs -> RunRow] /\ blind' \in [Runs -> BOOLEAN]
    BY <1>1, <1>2, Parts, RunUpdates
<1>4. task' \in ActiveStatus
    BY <1>2 DEF RequeuedTask, ActiveStatus
<1> QED BY <1>1, <1>2, <1>3, <1>4, BackoffStep

LEMMA RemoteErrorFailsGood ==
    ASSUME IInv, NEW w \in Workers, RemoteErrorFails(w)
    PROVE  GoodStep
<1> DEFINE r == worker[w].run
           c == worker[w].cmd
<1>1. ~At(w, "idle") /\ Owns(w)
    BY DEF At, RemoteErrorFails
<1>2. "failed" \in Finished /\ "failed" \in TerminalStatus /\ "failed" \in TaskStatus
    BY DEF Finished, TerminalStatus, TaskStatus
<1>3. /\ run' = [run EXCEPT ![r] = PersistTerminal(run[r], "failed", c)]
      /\ task' = "failed" /\ FinishCommand(c, "failed")
      /\ \/ pause' = pause
         \/ pause' = [pause EXCEPT ![Row(w).arg].status = "resume_failed"]
      /\ Done(w) /\ UNCHANGED <<serverVars, blind>>
    BY DEF RemoteErrorFails
<1>4. run' \in [Runs -> RunRow]
  <2>1. run \in [Runs -> RunRow] /\ c \in Commands
      BY <1>1, Parts
  <2> HIDE DEF r, c
  <2> QED BY <1>2, <1>3, <2>1, PersistUpdate
<1>5. pause' \in [Runs -> PauseRow]
  <2>1. pause \in [Runs -> PauseRow] /\ "resume_failed" \in PauseStatus
      BY <1>1, Parts DEF PauseStatus
  <2>2. CASE pause' = pause
      BY <2>1, <2>2
  <2>3. CASE pause' = [pause EXCEPT ![Row(w).arg].status = "resume_failed"]
      BY <2>1, <2>3, PauseUpdate
  <2> QED BY <1>3, <2>2, <2>3
<1> QED BY <1>1, <1>2, <1>3, <1>4, <1>5, FinishStep

LEMMA RemoteErrorDropsGood ==
    ASSUME IInv, NEW w \in Workers, RemoteErrorDrops(w)
    PROVE  GoodStep
<1>1. ~At(w, "idle") /\ "cancelled" \in Finished
    BY DEF At, RemoteErrorDrops, Finished
<1>2. CASE GiveUp(w)
    BY <1>2, GiveUpStep
<1>3. CASE ~GiveUp(w)
  <2>1. /\ Owns(w) /\ FinishCommand(worker[w].cmd, "cancelled") /\ Done(w)
        /\ UNCHANGED <<task, run, pause, serverVars, blind>>
      BY <1>3 DEF RemoteErrorDrops
  <2>2. /\ task' \in TaskStatus /\ run' \in [Runs -> RunRow]
        /\ pause' \in [Runs -> PauseRow]
      BY <1>1, <2>1, Parts
  <2> QED BY <1>1, <2>1, <2>2, FinishStep
<1> QED BY <1>2, <1>3

-----------------------------------------------------------------------------
(***************************************************************************)
(* Transactions of a cancel command                                        *)
(***************************************************************************)
LEMMA CancelRegisterGood ==
    ASSUME IInv, NEW w \in Workers, CancelRegister(w)
    PROVE  GoodStep
<1>1. ~At(w, "idle")
    BY DEF At, CancelRegister
<1>2. CASE GiveUp(w)
    BY <1>2, GiveUpStep
<1>3. CASE ~GiveUp(w)
  <2> DEFINE r == worker[w].run
             c == worker[w].cmd
             row == [cmd[c] EXCEPT !.off = TRUE]
             s == [worker[w] EXCEPT !.pc = "cancel_call", !.handle = r]
  <2>1. /\ Owns(w) /\ run' = [run EXCEPT ![r].off = TRUE]
        /\ cmd' = [cmd EXCEPT ![c] = row]
        /\ worker' = [worker EXCEPT ![w].pc = "cancel_call", ![w].handle = r]
        /\ UNCHANGED <<task, pause, serverVars, blind>>
      BY <1>1, <1>3, Parts DEF CancelRegister
  <2>2. cmd[c] \in CommandRow /\ cmd[c].status = "dispatching"
      BY <1>1, <2>1, Parts DEF Owns, Row
  <2>3. /\ task' \in TaskStatus /\ task' \notin TerminalStatus
        /\ pause' \in [Runs -> PauseRow] /\ ServerTypeOK'
        /\ blind' \in [Runs -> BOOLEAN]
      BY <1>1, <2>1, Parts, SameServer
  <2>4. run' \in [Runs -> RunRow]
      BY <1>1, <2>1, Parts, RunUpdates
  <2>5. RowOK(c, row)
      BY <2>2, <2>3 DEF RowOK, CommandRow, Finished
  <2>6. WorkerOK(s)
    <3>1. worker[w] \in WorkerState /\ c \in Commands
        BY <1>1, Parts
    <3>2. s \in WorkerState /\ s.pc = "cancel_call" /\ s.cmd = c
        BY <3>1 DEF WorkerState, PC
    <3> QED BY <3>1, <3>2 DEF WorkerOK
  <2>7. worker' = [worker EXCEPT ![w] = s]
      BY <1>1, <2>1, Parts
  <2>8. WorkerInv'
    <3> HIDE DEF s
    <3> QED BY <2>6, <2>7, WorkerUpdate DEF IInv
  <2> HIDE DEF row
  <2> QED BY <1>1, <2>1, <2>3, <2>4, <2>5, <2>8, WriteStep
<1> QED BY <1>2, <1>3

LEMMA CancelRetryGood ==
    ASSUME IInv, NEW w \in Workers, CancelRetry(w)
    PROVE  GoodStep
<1>1. ~At(w, "idle")
    BY DEF At, CancelRetry
<1>2. NoteOK("cancel_failure", "none") /\ "dispatching" \in Unfinished
    BY DEF NoteOK, PC, Note, Unfinished
<1>3. CASE GiveUp(w)
    BY <1>3, GiveUpStep
<1>4. CASE Read(w, "cancel_failure", "none")
    BY <1>1, <1>2, <1>4, ReadStep
<1>5. CASE ~GiveUp(w) /\ ~Read(w, "cancel_failure", "none")
  <2>1. /\ Owns(w) /\ BackoffCommand(worker[w].cmd, "dispatching") /\ Done(w)
        /\ UNCHANGED <<task, run, pause, serverVars, blind>>
      BY <1>5 DEF CancelRetry
  <2>2. run' \in [Runs -> RunRow] /\ blind' \in [Runs -> BOOLEAN]
      BY <1>1, <2>1, Parts
  <2> QED BY <1>1, <1>2, <2>1, <2>2, BackoffStep
<1> QED BY <1>3, <1>4, <1>5

LEMMA EndRunType ==
    ASSUME IInv, NEW w \in Workers, ~At(w, "idle"), NEW out \in TerminalStatus,
           EndRun(w, out)
    PROVE  run' \in [Runs -> RunRow]
<1>1. run \in [Runs -> RunRow] /\ worker[w].cmd \in Commands
    BY Parts
<1> QED BY <1>1, PersistTerminalType DEF EndRun

LEMMA CancelFailureGood ==
    ASSUME IInv, NEW w \in Workers, CancelFailure(w)
    PROVE  GoodStep
<1>1. ~At(w, "idle")
    BY DEF At, CancelFailure
<1>2. /\ "cancelled" \in Finished /\ "failed" \in Finished
      /\ "failed" \in TerminalStatus /\ "failed" \in TaskStatus
    BY DEF Finished, TerminalStatus, TaskStatus
<1>3. CASE ~Owns(w)
    BY <1>3, GiveUpStep DEF CancelFailure
<1>4. CASE Owns(w)
  <2>1. Done(w) /\ UNCHANGED <<serverVars, blind>> /\ task \notin TerminalStatus
      BY <1>1, <1>4, Parts DEF CancelFailure
  <2>2. /\ pause' = ClosedPauses(worker[w].run, "cancelled")
        /\ task' = (IF TargetIsLatest(w) THEN "failed" ELSE task)
        /\ FinishCommand(worker[w].cmd, "failed")
        /\ EndRun(w, "failed")
      BY <1>4, <2>1 DEF CancelFailure
  <2>3. task' \in TaskStatus
      BY <1>1, <1>2, <2>2, Parts
  <2>4. pause' \in [Runs -> PauseRow] /\ run' \in [Runs -> RunRow]
      BY <1>1, <1>2, <2>2, Parts, ClosedPausesType, EndRunType
  <2> QED BY <1>1, <1>2, <1>4, <2>1, <2>2, <2>3, <2>4, FinishStep
<1> QED BY <1>3, <1>4

LEMMA CancelFinalizeGood ==
    ASSUME IInv, NEW w \in Workers, CancelFinalize(w)
    PROVE  GoodStep
<1>1. ~At(w, "idle")
    BY DEF At, CancelFinalize
<1>2. /\ "cancelled" \in Finished /\ "dispatched" \in Finished
      /\ "cancelled" \in TerminalStatus /\ "cancelled" \in TaskStatus
    BY DEF Finished, TerminalStatus, TaskStatus
<1>3. CASE ~Owns(w)
    BY <1>3, GiveUpStep DEF CancelFinalize
<1>4. CASE Owns(w) /\ FenceNewer(w)
  <2>1. /\ FinishCommand(worker[w].cmd, "cancelled") /\ Done(w)
        /\ UNCHANGED <<task, run, pause, serverVars, blind>>
      BY <1>4 DEF CancelFinalize
  <2>2. /\ task' \in TaskStatus /\ run' \in [Runs -> RunRow]
        /\ pause' \in [Runs -> PauseRow]
      BY <1>1, <2>1, Parts
  <2> QED BY <1>1, <1>2, <1>4, <2>1, <2>2, FinishStep
<1>5. CASE Owns(w) /\ ~FenceNewer(w)
  <2>1. Done(w) /\ UNCHANGED <<serverVars, blind>> /\ task \notin TerminalStatus
      BY <1>1, <1>5, Parts DEF CancelFinalize
  <2>2. /\ pause' = ClosedPauses(worker[w].run, "cancelled")
        /\ task' = (IF TargetIsLatest(w) THEN "cancelled" ELSE task)
        /\ FinishCommand(worker[w].cmd, "dispatched")
        /\ EndRun(w, "cancelled")
      BY <1>5, <2>1 DEF CancelFinalize
  <2>3. task' \in TaskStatus
      BY <1>1, <1>2, <2>2, Parts
  <2>4. pause' \in [Runs -> PauseRow] /\ run' \in [Runs -> RunRow]
      BY <1>1, <1>2, <2>2, Parts, ClosedPausesType, EndRunType
  <2> QED BY <1>1, <1>2, <1>5, <2>1, <2>2, <2>3, <2>4, FinishStep
<1> QED BY <1>3, <1>4, <1>5

-----------------------------------------------------------------------------
(***************************************************************************)
(* claim_next and _expire_due_interrupt_once                               *)
(***************************************************************************)
LEMMA ClaimWrite ==
    ASSUME IInv, NEW c \in Commands, Claimable(c), NEW row \in CommandRow,
           row.status # "absent",
           row.status = "dispatching" => row.attempt > 0 /\ task' \notin TerminalStatus,
           row.status \in Finished => row.lease = "null",
           cmd' = [cmd EXCEPT ![c] = row]
    PROVE  /\ cmd' \in [Commands -> CommandRow]
           /\ OrderInv' /\ Kept /\ Reopened
<1>0. /\ cmd \in [Commands -> CommandRow]
      /\ QueueInv /\ SerialDispatch /\ TerminalTaskIdle
    BY DEF IInv, OrderInv, StoreTypeOK
<1>1. /\ cmd' \in [Commands -> CommandRow]
      /\ cmd'[c] = row
      /\ \A d \in Commands : d # c => cmd'[d] = cmd[d]
    BY <1>0
<1>2. /\ cmd[c].status \in Unfinished
      /\ \A d \in Commands : d < c => cmd[d].status \notin Unfinished
    BY DEF Claimable, Eligible, PriorFinished, IsUnfinished, Unfinished
<1>3. \A d \in Commands : d > c => ~(cmd[d].attempt > 0)
    BY <1>0, <1>2 DEF SerialDispatch, IsUnfinished
<1>4. \A d \in Commands : d # c => cmd[d].status # "dispatching"
    BY <1>0, <1>2, <1>3 DEF QueueInv, Unfinished, Commands
<1>5. QueueInv'
    BY <1>0, <1>1, <1>2 DEF QueueInv, Unfinished
<1>6. SerialDispatch'
    BY <1>0, <1>1, <1>2, <1>3 DEF SerialDispatch, IsUnfinished, Commands
<1>7. TerminalTaskIdle'
    BY <1>1, <1>4 DEF TerminalTaskIdle
<1>8. Kept
    BY <1>1, <1>2 DEF Kept, Finished, Unfinished
<1>9. Reopened
    BY DEF Reopened, Claimable, ActiveStatus, TerminalStatus
<1> QED BY <1>1, <1>5, <1>6, <1>7, <1>8, <1>9 DEF OrderInv

LEMMA ClaimRefusedGood ==
    ASSUME IInv, NEW w \in Workers, NEW c \in Commands,
           ClaimDrops(w, c) \/ ClaimRefusesLineage(w, c)
    PROVE  GoodStep
<1>1. /\ Claimable(c) /\ UNCHANGED <<pause, serverVars, worker, blind>>
      /\ FinishCommand(c, "cancelled") \/ FinishCommand(c, "failed")
    BY DEF ClaimDrops, ClaimRefusesLineage
<1>2. cmd[c] \in CommandRow /\ run \in [Runs -> RunRow] /\ task \in TaskStatus
    BY DEF IInv, StoreTypeOK
<1>3. \A s \in {"cancelled", "failed"} : s \in CommandStatus /\ s # "dispatching" /\ s # "absent"
    BY DEF CommandStatus, Finished
<1>4. PICK s \in {"cancelled", "failed"} : cmd' = [cmd EXCEPT ![c] = Close(cmd[c], s)]
    BY <1>1 DEF FinishCommand
<1>5. /\ cmd' \in [Commands -> CommandRow]
      /\ OrderInv' /\ Kept /\ Reopened
    BY <1>1, <1>2, <1>3, <1>4, CloseRow, ClaimWrite
<1>6. run' \in [Runs -> RunRow] /\ task' \in TaskStatus
  <2>1. "failed" \in TerminalStatus /\ "failed" \in TaskStatus
      BY DEF TerminalStatus, TaskStatus
  <2>2. CASE ClaimDrops(w, c)
      BY <1>2, <2>2 DEF ClaimDrops
  <2>3. CASE ClaimRefusesLineage(w, c)
    <3>1. /\ run' = [run EXCEPT ![cmd[c].arg] = PersistTerminal(run[cmd[c].arg], "failed", c)]
          /\ task' = "failed"
        BY <2>3 DEF ClaimRefusesLineage
    <3> QED BY <1>2, <2>1, <3>1, PersistUpdate
  <2> QED BY <2>2, <2>3
<1>7. WorkerInv' /\ ServerTypeOK'
  <2>1. worker' = worker /\ UNCHANGED serverVars
      BY <1>1
  <2> QED BY <2>1, SameServer DEF IInv, WorkerInv, WorkerOK
<1> QED BY <1>1, <1>5, <1>6, <1>7 DEF IInv, StoreTypeOK, GoodStep

LEMMA ClaimGood ==
    ASSUME IInv, NEW w \in Workers, NEW c \in Commands, Claim(w, c)
    PROVE  GoodStep
<1> DEFINE row == [cmd[c] EXCEPT !.status = "dispatching", !.owner = w,
                                 !.lease = "valid", !.attempt = NextAttempt(@)]
<1>1. /\ Claimable(c)
      /\ cmd' = [cmd EXCEPT ![c].status = "dispatching", ![c].owner = w,
                            ![c].lease = "valid", ![c].attempt = NextAttempt(@)]
      /\ UNCHANGED <<pause, serverVars, blind>>
    BY DEF Claim
<1>2. PICK r \in Runs \cup {NoRun} :
          /\ worker' = [worker EXCEPT ![w] =
                [pc |-> "claimed", cmd |-> c, run |-> r,
                 fence |-> NextAttempt(cmd[c].attempt),
                 handle |-> HandleOf(c, r),
                 reconcile |-> r # NoRun /\ run[r].intent /\ ~run[r].off,
                 obs |-> IF r = NoRun THEN "none" ELSE run[r].obs,
                 note |-> "none"]]
          /\ \/ /\ run' = [run EXCEPT ![r] = Claimed(run[r])]
                /\ task' \in {"waiting_human", "running"}
             \/ UNCHANGED <<run, task>>
    BY DEF Claim
<1>3. /\ cmd \in [Commands -> CommandRow] /\ cmd[c] \in CommandRow
      /\ run \in [Runs -> RunRow] /\ task \in ActiveStatus
    BY <1>1 DEF IInv, StoreTypeOK, Claimable
<1>4. NextAttempt(cmd[c].attempt) \in 0 .. MaxFence /\ NextAttempt(cmd[c].attempt) > 0
  <2>1. cmd[c].attempt \in 0 .. MaxFence
      BY <1>3 DEF CommandRow
  <2> QED BY <2>1, StoreAssumption DEF NextAttempt
<1>5. /\ row \in CommandRow /\ row.status = "dispatching" /\ row.attempt > 0
  <2>1. "dispatching" \in CommandStatus
      BY DEF CommandStatus, Unfinished
  <2> QED BY <1>3, <1>4, <2>1 DEF CommandRow
<1>6. cmd' = [cmd EXCEPT ![c] = row]
    BY <1>1, <1>3
<1>7. task' \in TaskStatus /\ task' \notin TerminalStatus
    BY <1>2, <1>3 DEF TaskStatus, ActiveStatus, TerminalStatus
<1>8. /\ cmd' \in [Commands -> CommandRow]
      /\ OrderInv' /\ Kept /\ Reopened
  <2>1. "dispatching" \notin Finished
      BY DEF Finished
  <2> HIDE DEF row
  <2> QED BY <1>1, <1>5, <1>6, <1>7, <2>1, ClaimWrite
<1>9. run' \in [Runs -> RunRow]
  <2>1. r \in Runs => Claimed(run[r]) \in RunRow
      BY <1>3 DEF Claimed, RunRow, RunStatus, TaskStatus, ActiveStatus
  <2> QED BY <1>2, <1>3, <2>1
<1>10. WorkerInv'
  <2> DEFINE s == [pc |-> "claimed", cmd |-> c, run |-> r,
                   fence |-> NextAttempt(cmd[c].attempt),
                   handle |-> HandleOf(c, r),
                   reconcile |-> r # NoRun /\ run[r].intent /\ ~run[r].off,
                   obs |-> IF r = NoRun THEN "none" ELSE run[r].obs,
                   note |-> "none"]
  <2>1. HandleOf(c, r) \in {NoRun} \cup Runs
      BY <1>3 DEF HandleOf, RunRow
  <2>2. (IF r = NoRun THEN "none" ELSE run[r].obs) \in {"none", "success", "error"}
      BY <1>3 DEF RunRow
  <2>3. "claimed" \in PC /\ "none" \in Note
      BY DEF PC, Note
  <2>4. s \in WorkerState
      BY <1>4, <2>1, <2>2, <2>3 DEF WorkerState
  <2>5. WorkerOK(s)
      BY <2>4 DEF WorkerOK
  <2>6. worker' = [worker EXCEPT ![w] = s]
      BY <1>2
  <2> HIDE DEF s
  <2> QED BY <2>5, <2>6, WorkerUpdate DEF IInv
<1>11. ServerTypeOK'
    BY <1>1, SameServer DEF IInv
<1> QED BY <1>1, <1>7, <1>8, <1>9, <1>10, <1>11 DEF IInv, StoreTypeOK, GoodStep

\* A new command goes to the end of the queue; others may be withdrawn.
LEMMA AppendWrite ==
    ASSUME IInv, NEW c \in Commands, FreshCommand(c), NEW row \in CommandRow,
           row.status = "pending", row.attempt = 0,
           cmd' \in [Commands -> CommandRow], cmd'[c] = row,
           \A d \in Commands \ {c} :
              \/ cmd'[d] = cmd[d]
              \/ Withdrawn(d) /\ cmd'[d] = Close(cmd[d], "cancelled"),
           task' \in TerminalStatus => task \in TerminalStatus
    PROVE  OrderInv' /\ Kept
<1>0. /\ cmd \in [Commands -> CommandRow]
      /\ QueueInv /\ SerialDispatch /\ TerminalTaskIdle
    BY DEF IInv, OrderInv, StoreTypeOK
<1>1. /\ cmd[c].status = "absent"
      /\ \A d \in Commands : d < c => cmd[d].status # "absent"
    BY DEF FreshCommand
<1>2. \A d \in Commands : d > c => cmd[d].status = "absent" /\ cmd[d].attempt = 0
    BY <1>0, <1>1 DEF QueueInv
<1>3. \A d \in Commands \ {c} :
         \/ cmd'[d] = cmd[d]
         \/ /\ cmd[d].status \in Unfinished
            /\ cmd'[d].status = "cancelled" /\ cmd'[d].lease = "null"
            /\ cmd'[d].attempt = cmd[d].attempt
  <2>1. "cancelled" \in CommandStatus
      BY DEF CommandStatus, Finished
  <2> QED BY <1>0, <2>1, CloseRow DEF Withdrawn, Unfinished
<1>4. QueueInv'
    BY <1>0, <1>1, <1>2, <1>3 DEF QueueInv, Unfinished, Finished, Commands
<1>5. SerialDispatch'
    BY <1>0, <1>1, <1>2, <1>3 DEF SerialDispatch, IsUnfinished, Unfinished, Commands
<1>6. TerminalTaskIdle'
    BY <1>0, <1>3 DEF TerminalTaskIdle
<1>7. Kept
    BY <1>1, <1>3 DEF Kept, Unfinished, Finished
<1> QED BY <1>4, <1>5, <1>6, <1>7 DEF OrderInv

LEMMA AppendOnly ==
    ASSUME IInv, NEW type \in CommandType, NEW arg \in {NoRun} \cup Runs,
           NEW expired \in BOOLEAN, AppendCommand(NewCommand(type, arg, expired)),
           task' \in TerminalStatus => task \in TerminalStatus
    PROVE  cmd' \in [Commands -> CommandRow] /\ OrderInv' /\ Kept
<1> DEFINE row == NewCommand(type, arg, expired)
<1>1. row \in CommandRow /\ row.status = "pending" /\ row.attempt = 0
    BY NewCommandType
<1>2. PICK c \in Commands : FreshCommand(c) /\ cmd' = [cmd EXCEPT ![c] = row]
    BY DEF AppendCommand
<1>3. cmd \in [Commands -> CommandRow]
    BY DEF IInv, StoreTypeOK
<1> HIDE DEF row
<1>4. /\ cmd' \in [Commands -> CommandRow] /\ cmd'[c] = row
      /\ \A d \in Commands \ {c} : cmd'[d] = cmd[d]
    BY <1>1, <1>2, <1>3
<1> QED BY <1>1, <1>2, <1>4, AppendWrite

LEMMA ResumeRunType ==
    ASSUME run \in [Runs -> RunRow], NEW p \in Runs, NEW q
    PROVE  [run EXCEPT ![q] = NewRun("resume", p, "queued", FALSE)] \in [Runs -> RunRow]
<1>1. NewRun("resume", p, "queued", FALSE) \in RunRow
    BY NewRunType DEF RunKind, RunStatus, TaskStatus, ActiveStatus
<1> QED BY <1>1

LEMMA ExpireDueInterruptGood ==
    ASSUME IInv, NEW w \in Workers, NEW p \in Runs, ExpireDueInterrupt(w, p)
    PROVE  GoodStep
<1>1. /\ run' = [run EXCEPT ![ResumeOf(p)] = NewRun("resume", p, "queued", FALSE)]
      /\ pause' = [pause EXCEPT ![p].status = "expired"]
      /\ AppendCommand(NewCommand("respond", p, TRUE))
      /\ UNCHANGED <<task, serverVars, worker, blind>>
    BY DEF ExpireDueInterrupt
<1>2. cmd' \in [Commands -> CommandRow] /\ OrderInv' /\ Kept
    BY <1>1, AppendOnly DEF CommandType, WorkType
<1>3. run' \in [Runs -> RunRow] /\ pause' \in [Runs -> PauseRow]
    BY <1>1, ResumeRunType, PauseUpdate DEF IInv, StoreTypeOK, PauseStatus
<1>4. WorkerInv' /\ ServerTypeOK'
    BY <1>1, SameServer DEF IInv, WorkerInv, WorkerOK
<1> QED BY <1>1, <1>2, <1>3, <1>4 DEF IInv, StoreTypeOK, GoodStep, Reopened

-----------------------------------------------------------------------------
(***************************************************************************)
(* Leases and time                                                         *)
(***************************************************************************)
LEMMA LeaseWrite ==
    ASSUME IInv, cmd' \in [Commands -> CommandRow], task' = task,
           \A c \in Commands :
              /\ cmd'[c].status = cmd[c].status
              /\ cmd'[c].attempt = cmd[c].attempt
              /\ cmd[c].status \in Finished => cmd'[c] = cmd[c]
    PROVE  OrderInv' /\ Kept /\ Reopened
<1>0. QueueInv /\ SerialDispatch /\ TerminalTaskIdle
    BY DEF IInv, OrderInv
<1>1. QueueInv'
    BY <1>0 DEF QueueInv
<1>2. SerialDispatch'
    BY <1>0 DEF SerialDispatch, IsUnfinished
<1>3. TerminalTaskIdle'
    BY <1>0 DEF TerminalTaskIdle
<1> QED BY <1>1, <1>2, <1>3 DEF OrderInv, Kept, Reopened

LEMMA ReleaseOwnedLeasesGood ==
    ASSUME IInv, NEW w \in Workers, ReleaseOwnedLeases(w)
    PROVE  GoodStep
<1>1. /\ cmd' = [c \in Commands |->
                    IF cmd[c].status = "dispatching" /\ cmd[c].owner = w
                    THEN [cmd[c] EXCEPT !.owner = NoWorker, !.lease = "due"]
                    ELSE cmd[c]]
      /\ MaybeInFlight(w) /\ Done(w)
      /\ UNCHANGED <<task, run, pause, official, duplicate, blind>>
    BY DEF ReleaseOwnedLeases
<1>2. cmd \in [Commands -> CommandRow]
    BY DEF IInv, StoreTypeOK
<1>3. \A c \in Commands :
         /\ cmd'[c] \in CommandRow
         /\ cmd'[c].status = cmd[c].status
         /\ cmd'[c].attempt = cmd[c].attempt
         /\ cmd[c].status \in Finished => cmd'[c] = cmd[c]
    BY <1>1, <1>2 DEF CommandRow, Finished
<1>4. cmd' \in [Commands -> CommandRow]
  <2>1. cmd' = [c \in Commands |-> cmd'[c]]
      BY <1>1
  <2> QED BY <1>3, <2>1
<1>5. OrderInv' /\ Kept /\ Reopened
  <2>1. task' = task
      BY <1>1
  <2> QED BY <1>3, <1>4, <2>1, LeaseWrite
<1>6. WorkerInv' /\ ServerTypeOK'
    BY <1>1, DoneWorker, MaybeInFlightType DEF IInv
<1> QED BY <1>1, <1>4, <1>5, <1>6 DEF IInv, StoreTypeOK, GoodStep

LEMMA TimePassesGood ==
    ASSUME IInv, TimePasses
    PROVE  GoodStep
<1>1. UNCHANGED <<serverVars, worker, blind>>
    BY DEF TimePasses
<1>2. WorkerInv' /\ ServerTypeOK' /\ blind' \in [Runs -> BOOLEAN]
    BY <1>1, SameServer DEF IInv, WorkerInv, WorkerOK
<1>3. ASSUME NEW c \in Commands, LeaseExpires(c) PROVE GoodStep
  <2>1. /\ cmd[c].lease = "valid" /\ cmd' = [cmd EXCEPT ![c].lease = "due"]
        /\ UNCHANGED <<task, run, pause>>
      BY <1>3 DEF LeaseExpires
  <2>2. cmd \in [Commands -> CommandRow] /\ cmd[c].status \notin Finished
      BY <2>1 DEF IInv, StoreTypeOK, OrderInv, QueueInv
  <2>3. cmd' \in [Commands -> CommandRow]
      BY <2>1, <2>2 DEF CommandRow
  <2>4. \A d \in Commands :
           /\ cmd'[d].status = cmd[d].status
           /\ cmd'[d].attempt = cmd[d].attempt
           /\ cmd[d].status \in Finished => cmd'[d] = cmd[d]
      BY <2>1, <2>2 DEF CommandRow
  <2>5. OrderInv' /\ Kept /\ Reopened
      BY <2>1, <2>3, <2>4, LeaseWrite
  <2> QED BY <1>2, <2>1, <2>3, <2>5 DEF IInv, StoreTypeOK, GoodStep
<1>4. ASSUME NEW r \in Runs, DeadlinePasses(r) PROVE GoodStep
  <2>1. run' = [run EXCEPT ![r].deadline = "past"] /\ UNCHANGED <<task, cmd, pause>>
      BY <1>4 DEF DeadlinePasses
  <2>2. run' \in [Runs -> RunRow]
      BY <2>1, RunUpdates DEF IInv, StoreTypeOK
  <2> QED BY <1>2, <2>1, <2>2, SameQueue DEF IInv, StoreTypeOK, GoodStep
<1>5. ASSUME NEW r \in Runs, ReviewWindowEnds(r) PROVE GoodStep
  <2>1. pause' = [pause EXCEPT ![r].due = TRUE] /\ UNCHANGED <<task, run, cmd>>
      BY <1>5 DEF ReviewWindowEnds
  <2>2. pause' \in [Runs -> PauseRow]
      BY <2>1 DEF IInv, StoreTypeOK, PauseRow
  <2> QED BY <1>2, <2>1, <2>2, SameQueue DEF IInv, StoreTypeOK, GoodStep
<1> QED BY <1>3, <1>4, <1>5 DEF TimePasses

-----------------------------------------------------------------------------
(***************************************************************************)
(* The Agent Server and the requests of users                              *)
(***************************************************************************)
LEMMA ServerStepGood ==
    ASSUME IInv, ServerStep, UNCHANGED <<dbVars, worker, blind>>
    PROVE  GoodStep
<1>1. ServerTypeOK'
    BY DEF IInv, ServerTypeOK, ServerStep, LateAccept, LateDrop, GraphEnds, Accepts,
           OfficialStatus
<1>2. WorkerInv'
    BY DEF IInv, WorkerInv, WorkerOK
<1> QED BY <1>1, <1>2, RemoteStep

\* What the requests have in common.
LEMMA RequestStep ==
    ASSUME IInv, UNCHANGED <<serverVars, worker, blind>>, task' \in TaskStatus,
           run' \in [Runs -> RunRow], pause' \in [Runs -> PauseRow],
           cmd' \in [Commands -> CommandRow], OrderInv', Kept, Reopened
    PROVE  GoodStep
<1>1. WorkerInv' /\ ServerTypeOK' /\ blind' \in [Runs -> BOOLEAN]
    BY SameServer DEF IInv, WorkerInv, WorkerOK
<1> QED BY <1>1 DEF IInv, StoreTypeOK, GoodStep

LEMMA WithdrawWrite ==
    ASSUME IInv, NEW c \in Commands, FreshCommand(c), NEW row \in CommandRow,
           row.status = "pending", row.attempt = 0, WithdrawAndAppend(c, row),
           task' = task
    PROVE  cmd' \in [Commands -> CommandRow] /\ OrderInv' /\ Kept
<1>1. cmd \in [Commands -> CommandRow]
    BY DEF IInv, StoreTypeOK
<1>2. /\ cmd' = [d \in Commands |-> cmd'[d]]
      /\ cmd'[c] = row
      /\ \A d \in Commands \ {c} :
            \/ cmd'[d] = cmd[d]
            \/ Withdrawn(d) /\ cmd'[d] = Close(cmd[d], "cancelled")
    BY DEF WithdrawAndAppend
<1>3. "cancelled" \in CommandStatus
    BY DEF CommandStatus, Finished
<1>4. \A d \in Commands : cmd'[d] \in CommandRow
    BY <1>1, <1>2, <1>3, CloseRow
<1>5. cmd' \in [Commands -> CommandRow]
    BY <1>2, <1>4
<1> QED BY <1>2, <1>5, AppendWrite

LEMMA CancelGood ==
    ASSUME IInv, CancelTask \/ (\E r \in Runs : CancelRun(r)),
           UNCHANGED <<serverVars, worker, blind>>
    PROVE  GoodStep
<1>1. UNCHANGED <<task, pause>>
    BY DEF CancelTask, CancelRun
<1>2. run' \in [Runs -> RunRow]
  <2>1. run \in [Runs -> RunRow]
      BY DEF IInv, StoreTypeOK
  <2>2. CASE CancelTask
    <3>1. run' = [r \in Runs |-> IF Latest(r) THEN [run[r] EXCEPT !.cancelReq = TRUE]
                                 ELSE run[r]]
        BY <2>2 DEF CancelTask
    <3>2. \A r \in Runs : [run[r] EXCEPT !.cancelReq = TRUE] \in RunRow
        BY <2>1, RunFields
    <3> QED BY <2>1, <3>1, <3>2
  <2>3. ASSUME NEW r \in Runs, CancelRun(r) PROVE run' \in [Runs -> RunRow]
      BY <2>1, <2>3, RunUpdates DEF CancelRun
  <2> QED BY <2>2, <2>3
<1>3. PICK c \in Commands, type \in CommandType, arg \in {NoRun} \cup Runs :
         FreshCommand(c) /\ WithdrawAndAppend(c, NewCommand(type, arg, FALSE))
  <2>1. CASE CancelTask
      BY <2>1 DEF CancelTask, CommandType, CancelType
  <2>2. ASSUME NEW r \in Runs, CancelRun(r)
        PROVE  \E c \in Commands, type \in CommandType, arg \in {NoRun} \cup Runs :
                  FreshCommand(c) /\ WithdrawAndAppend(c, NewCommand(type, arg, FALSE))
      BY <2>2 DEF CancelRun, CommandType, CancelType
  <2> QED BY <2>1, <2>2
<1>4. cmd' \in [Commands -> CommandRow] /\ OrderInv' /\ Kept
    BY <1>1, <1>3, NewCommandType, WithdrawWrite
<1>5. task' \in TaskStatus /\ pause' \in [Runs -> PauseRow] /\ Reopened
    BY <1>1 DEF IInv, StoreTypeOK, Reopened
<1> QED BY <1>2, <1>4, <1>5, RequestStep

LEMMA RetryTaskGood ==
    ASSUME IInv, RetryTask, UNCHANGED <<serverVars, worker, blind>>
    PROVE  GoodStep
<1>1. PICK src \in Runs, r \in Runs :
         /\ FreshRun(r)
         /\ run' = [run EXCEPT ![r] = NewRun("retry", src, "queued", FALSE)]
         /\ AppendCommand(NewCommand("retry", r, FALSE))
    BY DEF RetryTask
<1>2. task' = "queued" /\ UNCHANGED pause
    BY DEF RetryTask
<1>3. /\ run \in [Runs -> RunRow] /\ "queued" \in TaskStatus
      /\ "queued" \notin TerminalStatus /\ "queued" \in RunStatus
    BY DEF IInv, StoreTypeOK, TaskStatus, ActiveStatus, TerminalStatus, RunStatus
<1>4. cmd' \in [Commands -> CommandRow] /\ OrderInv' /\ Kept
    BY <1>1, <1>2, <1>3, AppendOnly DEF CommandType, WorkType
<1>5. NewRun("retry", src, "queued", FALSE) \in RunRow
    BY <1>3, NewRunType DEF RunKind
<1>6. run' \in [Runs -> RunRow]
    BY <1>1, <1>3, <1>5
<1>7. Reopened
  <2>1. run[r].status = "absent" /\ run'[r] = NewRun("retry", src, "queued", FALSE)
      BY <1>1, <1>3 DEF FreshRun, Exists
  <2> QED BY <1>2, <2>1 DEF Reopened, NewRun
<1> QED BY <1>2, <1>3, <1>4, <1>6, <1>7, RequestStep DEF IInv, StoreTypeOK

LEMMA ForkTaskGood ==
    ASSUME IInv, NEW src \in Runs, ForkTask(src), UNCHANGED <<serverVars, worker, blind>>
    PROVE  GoodStep
<1>1. PICK r \in Runs :
         /\ FreshRun(r)
         /\ run' = [q \in Runs |->
                       IF q = r THEN NewRun("fork", src, "queued", TRUE)
                       ELSE IF pause[q].status = "pending"
                       THEN [run[q] EXCEPT !.status = "cancelled"]
                       ELSE run[q]]
         /\ AppendCommand(NewCommand("fork", r, FALSE))
    BY DEF ForkTask
<1>2. /\ task' = "queued"
      /\ pause' = [p \in Runs |-> IF pause[p].status = "pending"
                                  THEN [pause[p] EXCEPT !.status = "cancelled"]
                                  ELSE pause[p]]
    BY DEF ForkTask, PendingPausesCancelled
<1>3. /\ run \in [Runs -> RunRow] /\ pause \in [Runs -> PauseRow]
      /\ "queued" \in TaskStatus /\ "queued" \notin TerminalStatus /\ "queued" \in RunStatus
    BY DEF IInv, StoreTypeOK, TaskStatus, ActiveStatus, TerminalStatus, RunStatus
<1>4. cmd' \in [Commands -> CommandRow] /\ OrderInv' /\ Kept
    BY <1>1, <1>2, <1>3, AppendOnly DEF CommandType, WorkType
<1>5. NewRun("fork", src, "queued", TRUE) \in RunRow
    BY <1>3, NewRunType DEF RunKind
<1>6. \A q \in Runs : [run[q] EXCEPT !.status = "cancelled"] \in RunRow
    BY <1>3, RunFields
<1>7. run' \in [Runs -> RunRow]
    BY <1>1, <1>3, <1>5, <1>6
<1>8. pause' \in [Runs -> PauseRow]
    BY <1>2, <1>3 DEF PauseRow, PauseStatus
<1>9. Reopened
  <2>1. run[r].status = "absent" /\ run'[r] = NewRun("fork", src, "queued", TRUE)
      BY <1>1 DEF FreshRun, Exists
  <2> QED BY <1>2, <2>1 DEF Reopened, NewRun
<1> QED BY <1>2, <1>3, <1>4, <1>7, <1>8, <1>9, RequestStep

LEMMA RespondInterruptsGood ==
    ASSUME IInv, NEW p \in Runs, RespondInterrupts(p),
           UNCHANGED <<serverVars, worker, blind>>
    PROVE  GoodStep
<1>1. /\ run' = [run EXCEPT ![ResumeOf(p)] = NewRun("resume", p, "queued", FALSE)]
      /\ pause' = [pause EXCEPT ![p].status = "responding"]
      /\ AppendCommand(NewCommand("respond", p, FALSE))
      /\ UNCHANGED task
    BY DEF RespondInterrupts, AcceptedPause
<1>2. cmd' \in [Commands -> CommandRow] /\ OrderInv' /\ Kept
    BY <1>1, AppendOnly DEF CommandType, WorkType
<1>3. run' \in [Runs -> RunRow] /\ pause' \in [Runs -> PauseRow]
    BY <1>1, ResumeRunType, PauseUpdate DEF IInv, StoreTypeOK, PauseStatus
<1>4. task' \in TaskStatus /\ Reopened
    BY <1>1 DEF IInv, StoreTypeOK, Reopened
<1> QED BY <1>2, <1>3, <1>4, RequestStep

-----------------------------------------------------------------------------
\* One case per action: every step keeps the invariant and is allowed by the
\* two action properties.
LEMMA NextGood ==
    ASSUME IInv, [Next]_vars
    PROVE  GoodStep
<1>1. ASSUME NEW w \in Workers, ClaimStep(w) PROVE GoodStep
    BY <1>1, ClaimRefusedGood, ClaimGood, ExpireDueInterruptGood DEF ClaimStep
<1>2. ASSUME NEW w \in Workers, WorkStep(w) PROVE GoodStep
    BY <1>2, ExecuteGood, ReadsGood, CallsGood, RegisterGood, ScheduleGood, OrphanGood,
       MarkGood, RememberGood, FinalizeGood, RecordDatabaseErrorGood,
       RemoteErrorRequeuesGood, RemoteErrorFallsBackGood, RemoteErrorFailsGood,
       RemoteErrorDropsGood
    DEF WorkStep
<1>3. ASSUME NEW w \in Workers, CancelStep(w) PROVE GoodStep
    BY <1>3, ReadsGood, CallsGood, CancelRegisterGood, CancelRetryGood,
       CancelFailureGood, CancelFinalizeGood
    DEF CancelStep
<1>4. ASSUME NEW w \in Workers, Crash(w) \/ ReleaseOwnedLeases(w) PROVE GoodStep
    BY <1>4, CallsGood, ReleaseOwnedLeasesGood
<1>5. CASE UserRequest /\ UNCHANGED <<serverVars, worker, blind>>
    BY <1>5, CancelGood, RetryTaskGood, ForkTaskGood, RespondInterruptsGood
    DEF UserRequest
<1>6. CASE ServerStep /\ UNCHANGED <<dbVars, worker, blind>>
    BY <1>6, ServerStepGood
<1>7. CASE TimePasses
    BY <1>7, TimePassesGood
<1>8. CASE UNCHANGED vars
  <2>1. UNCHANGED <<dbVars, blind>> /\ worker' = worker /\ UNCHANGED serverVars
      BY <1>8 DEF vars, dbVars, serverVars
  <2>2. WorkerInv' /\ ServerTypeOK'
      BY <2>1, SameServer DEF IInv, WorkerInv, WorkerOK
  <2> QED BY <2>1, <2>2, RemoteStep
<1> QED BY <1>1, <1>2, <1>3, <1>4, <1>5, <1>6, <1>7, <1>8 DEF Next

LEMMA InvariantHolds == Spec => []IInv
<1>1. IInv /\ [Next]_vars => IInv'
    BY NextGood DEF GoodStep
<1> QED BY InitIInv, <1>1, PTL DEF Spec

\* Type correctness of the rows, the leases, the workers and the server.
THEOREM TypeCorrect == Spec => []TypeOK
<1>1. IInv => TypeOK
    BY DEF IInv, TypeOK, WorkerInv
<1> QED BY InvariantHolds, <1>1, PTL

\* Commands of a thread are dispatched one at a time and in sequence, for any
\* number of workers: the claim's order test is enough, whatever happens to
\* leases, workers, remote calls and the database in between.
THEOREM SerialDispatchHolds == Spec => []SerialDispatch
<1>1. IInv => SerialDispatch
    BY DEF IInv, OrderInv
<1> QED BY InvariantHolds, <1>1, PTL

\* Whatever ends a Task leaves none of its commands in dispatch.
THEOREM TerminalTaskIdleHolds == Spec => []TerminalTaskIdle
<1>1. IInv => TerminalTaskIdle
    BY DEF IInv, OrderInv
<1> QED BY InvariantHolds, <1>1, PTL

\* A worker with a lost lease cannot touch a finished command.
THEOREM FinishedCommandsFinalHolds == Spec => FinishedCommandsFinal
<1>1. IInv /\ [Next]_vars =>
         [\A c \in Commands : cmd[c].status \in Finished => cmd'[c] = cmd[c]]_vars
    BY NextGood DEF GoodStep, Kept
<1> QED BY InvariantHolds, <1>1, PTL DEF Spec, FinishedCommandsFinal

\* Only a retry or a fork reopens a Task that has ended.
THEOREM TerminalTaskReopensHolds == Spec => TerminalTaskReopens
<1>1. IInv /\ [Next]_vars =>
         [(task \in TerminalStatus /\ task' # task) =>
             /\ task' = "queued"
             /\ \E r \in Runs : /\ run[r].status = "absent"
                                /\ run'[r].status = "queued"
                                /\ run'[r].kind \in {"retry", "fork"}]_vars
    BY NextGood DEF GoodStep, Reopened
<1> QED BY InvariantHolds, <1>1, PTL DEF Spec, TerminalTaskReopens
=============================================================================
