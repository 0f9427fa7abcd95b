------------------------- MODULE TaskOutcomeProofs -------------------------
(***************************************************************************)
(* Theorems about the outcome of a Task: its reviews, the status of its    *)
(* Runs, the official Runs that the dispatcher creates and stops, and the  *)
(* abstract lifecycle that the dispatcher implements.  They hold for every *)
(* number of workers, Runs and commands, every attempt limit, every set of *)
(* requests and every set of faults.                                       *)
(*                                                                         *)
(* The argument rests on the invariant of CommandDispatcherProofs and has  *)
(* three layers.  RowsInv relates the rows to each other: at most one      *)
(* command that does work is open, and its Run is the newest.  HeldInv and *)
(* CarriesInv relate a worker to the rows: what it carries, and what stays *)
(* true while it owns its command.  OneSource and IntentInv relate both to *)
(* the Agent Server: as long as no create intent was dropped blindly, a    *)
(* Run has one source of an official Run, which is the request on its way  *)
(* or the official Run itself.                                             *)
(***************************************************************************)
EXTENDS CommandDispatcherProofs

\* The Run that a command which does work drives.
RunOf(c) ==
    CASE cmd[c].type = "submit"  -> 1
      [] cmd[c].type = "respond" -> ResumeOf(cmd[c].arg)
      [] OTHER                   -> cmd[c].arg

InUse(c)    == cmd[c].status # "absent"
OpenWork(c) == IsUnfinished(c) /\ cmd[c].type \in WorkType
NoRunYet    == \A r \in Runs : ~Exists(r)

-----------------------------------------------------------------------------
(***************************************************************************)
(* The rows                                                                *)
(***************************************************************************)
\* The payload of a command names a Run that exists.
ArgInv == \A c \in Commands :
    InUse(c) /\ cmd[c].type \in {"respond", "retry", "fork", "cancel_run"} =>
        cmd[c].arg \in Runs /\ Exists(cmd[c].arg)

\* One command that does work is open at most; it drives the newest Run, which
\* has not been paused, and leaves no create intent before it is claimed.
WorkOK(c) ==
    /\ RunOf(c) \in Runs
    /\ \A d \in Commands : OpenWork(d) => d = c
    /\ pause[RunOf(c)].status = "absent"
    /\ \/ Latest(RunOf(c))
       \/ cmd[c].type = "submit" /\ cmd[c].attempt = 0 /\ NoRunYet
    /\ cmd[c].attempt = 0 => ~run[RunOf(c)].intent
WorkInv == \A c \in Commands : OpenWork(c) => WorkOK(c)

\* A review that can be answered belongs to the newest Run, and no command
\* that does work is open next to it.
ReviewInv == \A p \in Runs :
    pause[p].status = "pending" /\ run[p].status = "waiting_human" =>
        Latest(p) /\ \A c \in Commands : ~OpenWork(c)

\* A cancel command leaves cancel_requested_at on a Run, if there is a Run.
AskedInv ==
    (\E c \in Commands : InUse(c) /\ cmd[c].type \in CancelType) =>
        \/ \E r \in Runs : run[r].cancelReq
        \/ NoRunYet /\ \A c \in Commands : ~OpenWork(c)

\* A projection fence is the sequence of a command that is finished.
FenceInv == \A r \in Runs, d \in Commands :
    d <= run[r].fence => cmd[d].status \in Finished

\* A succeeded Run ends the Task.
LatestInv == task \in ActiveStatus =>
    \A r \in Runs : Latest(r) => run[r].status # "succeeded"

\* A Run that is not inserted yet left no trace in the database.
AbsentInv == \A r \in Runs : ~Exists(r) =>
    pause[r].status = "absent" /\ ~run[r].off /\ ~run[r].intent /\ ~run[r].cancelReq

\* Attempts have no gaps, and one of them is the newest.
RunsInv ==
    /\ \A p, q \in Runs : p < q /\ Exists(q) => Exists(p)
    /\ NoRunYet \/ \E r \in Runs : Latest(r)

RowsInv ==
    /\ RunsInv /\ ArgInv /\ WorkInv /\ ReviewInv /\ AskedInv /\ FenceInv /\ LatestInv /\ AbsentInv
    /\ TaskOutcomeFromRun /\ UnattendedOnlyAfterCancel

-----------------------------------------------------------------------------
(***************************************************************************)
(* The workers                                                             *)
(***************************************************************************)
WorkPC   == {"lookup", "create", "find", "register", "drain", "get", "members", "mark",
             "poll", "orphan_cancel", "orphan", "remote_error"}
CancelPC == {"cancel_find", "cancel_register", "cancel_call", "cancel_retry",
             "cancel_finalize"}
HandlePC == {"drain", "get", "members", "mark", "poll", "orphan_cancel", "orphan",
             "cancel_call"}
EndPC    == {"remember", "join", "finalize", "db_error"}

\* What a worker carries, whether or not the lease is still its own.
Carries(s) ==
    LET type == cmd[s.cmd].type
    IN  /\ cmd[s.cmd].attempt > 0
        /\ s.run = NoRun =>
              /\ s.pc \in {"claimed", "cancel_finalize"} /\ s.handle = NoRun
              /\ s.obs = "none" /\ type = "cancel_task"
        /\ s.run # NoRun => Exists(s.run)
        /\ type \in WorkType => s.run = RunOf(s.cmd)
        /\ s.pc \in WorkPC => type \in WorkType
        /\ s.pc \in CancelPC => type \in CancelType
        /\ s.handle # NoRun =>
              /\ run[s.handle].off
              /\ s.handle = s.run \/ (type = "cancel_task" /\ run[s.run].kind = "resume")
        /\ s.pc \in HandlePC => s.handle # NoRun
        /\ s.pc \in EndPC /\ type \in WorkType => s.handle # NoRun
        /\ s.pc \in {"finalize", "db_error"} => s.note # "cancelled"
        /\ s.pc \in {"register", "cancel_register"} => official[s.run] # "none"
        /\ s.pc = "cancel_failure" /\ type \in WorkType => run[s.run].cancelReq
        /\ s.pc = "cancel_finalize" /\ s.run # NoRun =>
              s.handle # NoRun /\ (official[s.handle] # "active" \/ blind[s.handle])

CarriesInv == \A w \in Workers : ~At(w, "idle") => Carries(worker[w])

Held(w) == ~At(w, "idle") /\ Owns(w)

\* What no other step changes while a worker owns its command.
HeldOK(s) ==
    LET c == s.cmd
    IN  /\ cmd[c].type \in WorkType =>
              task = "running" \/ (task = "waiting_human" /\ cmd[c].type = "respond"
                                                          /\ ~cmd[c].expired)
        /\ s.run = NoRun => NoRunYet
        /\ cmd[c].type = "cancel_task" =>
              \A q \in Runs : q > s.run /\ Exists(q) => run[q].kind = "resume"
        /\ s.run # NoRun => run[s.run].status # "succeeded"
        /\ cmd[c].type \in WorkType /\ s.handle = NoRun =>
              run[s.run].intent \/ run[s.run].off

HeldInv == \A w \in Workers : Held(w) => HeldOK(worker[w])

-----------------------------------------------------------------------------
(***************************************************************************)
(* The Agent Server                                                        *)
(***************************************************************************)
Creating(w, r) == worker[w].run = r /\ worker[w].pc \in {"lookup", "create"}

\* A claim that found neither an official Run nor an intent.
Starting(w, r) ==
    /\ Held(w) /\ At(w, "claimed") /\ worker[w].run = r
    /\ Type(w) \in WorkType /\ ~worker[w].reconcile /\ worker[w].handle = NoRun

\* Nothing was created for r, and nothing can be.
Clean(r) == official[r] = "none" /\ ~inflight[r] /\ \A w \in Workers : ~Creating(w, r)

OneSourceOf(r) ==
    /\ ~duplicate[r]
    /\ official[r] # "none" => ~inflight[r]
    /\ \A w \in Workers : Creating(w, r) =>
          /\ official[r] = "none" /\ ~inflight[r]
          /\ \A v \in Workers : Creating(v, r) => v = w
    /\ \A w \in Workers : Starting(w, r) => Clean(r)
OneSource == \A r \in Runs : ~blind[r] => OneSourceOf(r)

\* A Run that a claim may create an official Run for has none.
IntentInv == \A c \in Commands : OpenWork(c) =>
    \A r \in Runs : r = RunOf(c) /\ ~run[r].off /\ ~run[r].intent /\ ~blind[r] => Clean(r)

RegisteredInv == \A r \in Runs : run[r].off => official[r] # "none"
UncreatedInv  == \A r \in Runs : ~Exists(r) => official[r] = "none" /\ ~inflight[r]

StoppedInv == task = "cancelled" =>
    \A r \in Runs : Latest(r) /\ run[r].kind # "resume" =>
        blind[r] \/ official[r] \notin {"none", "active"}

AgentInv == OneSource /\ IntentInv /\ RegisteredInv /\ UncreatedInv /\ StoppedInv

TInv == IInv /\ RowsInv /\ CarriesInv /\ HeldInv /\ AgentInv

-----------------------------------------------------------------------------
(***************************************************************************)
(* What the action property and the abstract lifecycle allow a step.       *)
(***************************************************************************)
ReviewStep == \A p \in Runs : pause'[p].status # pause[p].status =>
    pause'[p].status \in
        CASE pause[p].status = "absent" -> {"pending"}
          [] pause[p].status = "pending" -> {"responding", "expired", "cancelled"}
          [] pause[p].status = "responding" -> {"resolved", "cancelled", "resume_failed"}
          [] pause[p].status = "expired" -> {"resume_failed"}
          [] OTHER -> {}

LifeStep == [Lifecycle!Next]_<<task, Answers>>

FineStep == TInv' /\ ReviewStep /\ LifeStep

-----------------------------------------------------------------------------
(***************************************************************************)
(* Facts that every case uses                                              *)
(***************************************************************************)
LEMMA Typed ==
    ASSUME IInv
    PROVE  /\ run \in [Runs -> RunRow] /\ cmd \in [Commands -> CommandRow]
           /\ pause \in [Runs -> PauseRow] /\ task \in TaskStatus
           /\ worker \in [Workers -> WorkerState]
           /\ official \in [Runs -> OfficialStatus] /\ inflight \in [Runs -> BOOLEAN]
           /\ duplicate \in [Runs -> BOOLEAN] /\ blind \in [Runs -> BOOLEAN]
           /\ QueueInv /\ SerialDispatch /\ TerminalTaskIdle
           /\ \A w \in Workers : ~At(w, "idle") => worker[w].cmd \in Commands
BY DEF IInv, StoreTypeOK, ServerTypeOK, WorkerInv, WorkerOK, OrderInv, At

\* The command a worker owns is the only one in dispatch; what is open besides
\* comes later and was never claimed.
LEMMA HeldFacts ==
    ASSUME IInv, NEW w \in Workers, Held(w)
    PROVE  /\ worker[w].cmd \in Commands
           /\ cmd[worker[w].cmd].status = "dispatching"
           /\ cmd[worker[w].cmd].owner = w /\ cmd[worker[w].cmd].attempt > 0
           /\ \A d \in Commands : d # worker[w].cmd /\ IsUnfinished(d) =>
                 d > worker[w].cmd /\ cmd[d].attempt = 0 /\ cmd[d].status = "pending"
           /\ \A v \in Workers : Held(v) => v = w
           /\ task \in ActiveStatus
<1> DEFINE c == worker[w].cmd
<1>1. /\ c \in Commands /\ cmd[c].status = "dispatching" /\ cmd[c].owner = w
      /\ cmd[c].attempt > 0
    BY Typed DEF Held, Owns, Row, QueueInv
<1>2. ASSUME NEW d \in Commands, d # c, IsUnfinished(d)
      PROVE  d > c /\ cmd[d].attempt = 0 /\ cmd[d].status = "pending"
  <2>1. ~(d < c)
      BY <1>1, <1>2, Typed DEF SerialDispatch
  <2>2. d > c
      BY <1>1, <1>2, <2>1 DEF Commands
  <2>3. ~(cmd[d].attempt > 0)
      BY <1>1, <2>2, Typed DEF SerialDispatch, IsUnfinished, Unfinished
  <2>4. cmd[d].attempt \in Nat
      BY StoreAssumption, Typed DEF CommandRow
  <2>5. cmd[d].status # "dispatching"
      BY <2>3, Typed DEF QueueInv
  <2> QED BY <1>2, <2>2, <2>3, <2>4, <2>5 DEF IsUnfinished, Unfinished
<1>3. ASSUME NEW v \in Workers, Held(v) PROVE v = w
  <2>1. /\ worker[v].cmd \in Commands /\ cmd[worker[v].cmd].status = "dispatching"
        /\ cmd[worker[v].cmd].owner = v
      BY <1>3, Typed DEF Held, Owns, Row
  <2>2. worker[v].cmd = c
      BY <1>2, <2>1 DEF IsUnfinished, Unfinished
  <2> QED BY <1>1, <2>1, <2>2
<1>4. task \in ActiveStatus
    BY <1>1, Typed DEF TerminalTaskIdle, TaskStatus
<1> QED BY <1>1, <1>2, <1>3, <1>4

LEMMA OpenWorkInUse ==
    ASSUME NEW c, OpenWork(c)
    PROVE  InUse(c)
BY DEF OpenWork, IsUnfinished, Unfinished, InUse

-----------------------------------------------------------------------------
(***************************************************************************)
(* Steps that change nothing the rows are related by                       *)
(***************************************************************************)
SameRun(r) ==
    /\ run'[r].status = run[r].status /\ run'[r].kind = run[r].kind
    /\ run'[r].off = run[r].off /\ run'[r].intent = run[r].intent
    /\ run'[r].cancelReq = run[r].cancelReq /\ run'[r].fence = run[r].fence

SameCommand(c) ==
    /\ cmd'[c].status = cmd[c].status /\ cmd'[c].type = cmd[c].type
    /\ cmd'[c].arg = cmd[c].arg /\ cmd'[c].expired = cmd[c].expired
    /\ cmd'[c].attempt = cmd[c].attempt

SameFacts ==
    /\ task' = task
    /\ \A r \in Runs : SameRun(r) /\ pause'[r].status = pause[r].status
    /\ \A c \in Commands : SameCommand(c)

LEMMA SameDb ==
    ASSUME UNCHANGED dbVars
    PROVE  SameFacts
BY DEF dbVars, SameFacts, SameRun, SameCommand

LEMMA RowsSame ==
    ASSUME RowsInv, SameFacts
    PROVE  RowsInv' /\ ReviewStep /\ LifeStep
<1>1. \A r \in Runs : (Exists(r)' <=> Exists(r)) /\ (Latest(r)' <=> Latest(r))
    BY DEF SameFacts, SameRun, Exists, Latest
<1>2. NoRunYet' <=> NoRunYet
    BY <1>1 DEF NoRunYet
<1>3. \A c \in Commands :
         /\ OpenWork(c)' <=> OpenWork(c)
         /\ IsUnfinished(c)' <=> IsUnfinished(c)
         /\ InUse(c)' <=> InUse(c)
         /\ RunOf(c)' = RunOf(c)
    BY DEF SameFacts, SameCommand, OpenWork, IsUnfinished, InUse, RunOf, ResumeOf
<1>4. ArgInv'
    BY <1>1, <1>3 DEF RowsInv, ArgInv, SameFacts, SameCommand
<1>5. WorkInv'
    BY <1>1, <1>2, <1>3 DEF RowsInv, WorkInv, WorkOK, SameFacts, SameRun, SameCommand
<1>6. ReviewInv'
    BY <1>1, <1>3 DEF RowsInv, ReviewInv, SameFacts, SameRun
<1>7. AskedInv'
    BY <1>1, <1>2, <1>3 DEF RowsInv, AskedInv, SameFacts, SameRun, SameCommand
<1>8. FenceInv'
    BY DEF RowsInv, FenceInv, SameFacts, SameRun, SameCommand
<1>9. LatestInv' /\ AbsentInv'
    BY <1>1 DEF RowsInv, LatestInv, AbsentInv, SameFacts, SameRun
<1>10. TaskOutcomeFromRun'
    BY <1>1 DEF RowsInv, TaskOutcomeFromRun, SameFacts, SameRun
<1>11. UnattendedOnlyAfterCancel'
    BY <1>3 DEF RowsInv, UnattendedOnlyAfterCancel, NothingUnfinished, SameFacts, SameRun
<1>12. ReviewStep
    BY DEF ReviewStep, SameFacts
<1>13. LifeStep
  <2>1. Answers' = Answers
      BY DEF Answers, SameFacts, SameRun
  <2> QED BY <2>1 DEF LifeStep, SameFacts
<1>14. RunsInv'
    BY <1>1, <1>2 DEF RowsInv, RunsInv
<1> QED BY <1>4, <1>5, <1>6, <1>7, <1>8, <1>9, <1>10, <1>11, <1>12, <1>13, <1>14 DEF RowsInv

-----------------------------------------------------------------------------
(***************************************************************************)
(* Rows are only added, and an official Run that was stopped stays stopped *)
(***************************************************************************)
Grow ==
    /\ \A r \in Runs : Exists(r) =>
          /\ run'[r].status # "absent" /\ run'[r].kind = run[r].kind
          /\ run[r].off => run'[r].off
          /\ run[r].cancelReq => run'[r].cancelReq
    /\ \A c \in Commands : cmd[c].attempt > 0 =>
          /\ cmd'[c].attempt > 0 /\ cmd'[c].type = cmd[c].type
          /\ cmd'[c].arg = cmd[c].arg /\ cmd'[c].expired = cmd[c].expired

ServerMoves == \A r \in Runs :
    /\ official[r] # "none" => official'[r] # "none"
    /\ official[r] \notin {"none", "active"} => official'[r] # "active" \/ blind[r]
    /\ blind[r] => blind'[r]
    /\ ~Exists(r) => official'[r] = official[r] /\ inflight'[r] = inflight[r]

LEMMA SameGrow == SameFacts => Grow
BY DEF SameFacts, SameRun, SameCommand, Grow, Exists

LEMMA CarriesKept ==
    ASSUME AbsentInv, RegisteredInv, Grow, ServerMoves,
           NEW s \in WorkerState, s.cmd \in Commands, Carries(s)
    PROVE  Carries(s)'
<1> DEFINE c == s.cmd
           type == cmd[c].type
<1>1. s.run \in {NoRun} \cup Runs /\ s.handle \in {NoRun} \cup Runs
    BY DEF WorkerState
<1>2. /\ cmd[c].attempt > 0 /\ cmd'[c].attempt > 0 /\ cmd'[c].type = type
      /\ cmd'[c].arg = cmd[c].arg
    BY DEF Carries, Grow
<1>3. RunOf(c)' = RunOf(c)
    BY <1>2 DEF RunOf, ResumeOf
<1>4. s.run # NoRun =>
         /\ s.run \in Runs /\ Exists(s.run) /\ Exists(s.run)'
         /\ run'[s.run].kind = run[s.run].kind
         /\ run[s.run].cancelReq => run'[s.run].cancelReq
    BY <1>1 DEF Carries, Grow, Exists
<1>5. s.handle # NoRun =>
         /\ s.handle \in Runs /\ run[s.handle].off /\ run'[s.handle].off
         /\ official[s.handle] # "none"
    BY <1>1 DEF Carries, Grow, AbsentInv, RegisteredInv
<1>6. s.pc \in {"register", "cancel_register"} => official'[s.run] # "none"
    BY <1>4 DEF Carries, ServerMoves
<1>7. s.pc = "cancel_finalize" /\ s.run # NoRun =>
         s.handle # NoRun /\ (official'[s.handle] # "active" \/ blind'[s.handle])
    BY <1>5 DEF Carries, ServerMoves
<1> QED BY <1>2, <1>3, <1>4, <1>5, <1>6, <1>7 DEF Carries

LEMMA AllCarry ==
    ASSUME TInv, Grow, ServerMoves,
           \A v \in Workers : \/ worker'[v] = worker[v]
                             \/ worker'[v].pc = "idle"
                             \/ Carries(worker[v])'
    PROVE  CarriesInv'
<1>1. /\ AbsentInv /\ RegisteredInv /\ CarriesInv /\ worker \in [Workers -> WorkerState]
      /\ \A v \in Workers : ~At(v, "idle") => worker[v].cmd \in Commands
    BY Typed DEF TInv, RowsInv, AgentInv
<1>2. ASSUME NEW v \in Workers, worker'[v] = worker[v], worker'[v].pc # "idle"
      PROVE  Carries(worker[v])'
  <2>1. PICK s : s = worker[v]
      OBVIOUS
  <2>2. worker'[v] = s /\ s \in WorkerState /\ s.cmd \in Commands /\ Carries(s)
      BY <1>1, <1>2, <2>1 DEF CarriesInv, At
  <2>3. Carries(s)'
      BY <1>1, <2>2, CarriesKept
  <2> QED BY <2>2, <2>3
<1> QED BY <1>2 DEF CarriesInv, At

\* What a worker is promised stays true while nothing ends a Run and only a
\* response adds one.
LEMMA HeldKept ==
    ASSUME TInv, Grow, task' = task,
           \A r \in Runs : Exists(r) =>
              /\ run'[r].status = run[r].status
              /\ run[r].intent \/ run[r].off => run'[r].intent \/ run'[r].off,
           \A r \in Runs : ~Exists(r) /\ run'[r].status # "absent" =>
              run'[r].kind = "resume" /\ ~NoRunYet,
           \A v \in Workers : Held(v)' =>
              /\ Held(v) /\ worker'[v].cmd = worker[v].cmd
              /\ worker'[v].run = worker[v].run /\ worker'[v].handle = worker[v].handle
    PROVE  HeldInv'
<1> SUFFICES ASSUME NEW v \in Workers, Held(v)' PROVE HeldOK(worker[v])'
    BY DEF HeldInv
<1>1. /\ Held(v) /\ HeldOK(worker[v]) /\ Carries(worker[v]) /\ worker[v] \in WorkerState
      /\ worker[v].cmd \in Commands
    BY Typed DEF TInv, HeldInv, CarriesInv, Held
<1>2. PICK c, r, h : c = worker[v].cmd /\ r = worker[v].run /\ h = worker[v].handle
    OBVIOUS
<1>3. c = worker'[v].cmd /\ r = worker'[v].run /\ h = worker'[v].handle
    BY <1>2
<1>4. /\ cmd'[c].type = cmd[c].type /\ cmd'[c].expired = cmd[c].expired
      /\ r # NoRun => r \in Runs /\ Exists(r)
      /\ r \in {NoRun} \cup Runs
    BY <1>1, <1>2 DEF Grow, Carries, WorkerState
<1>5. /\ cmd[c].type \in WorkType =>
            task = "running" \/ (task = "waiting_human" /\ cmd[c].type = "respond"
                                                        /\ ~cmd[c].expired)
      /\ r = NoRun => NoRunYet
      /\ cmd[c].type = "cancel_task" =>
            \A q \in Runs : q > r /\ Exists(q) => run[q].kind = "resume"
      /\ r # NoRun => run[r].status # "succeeded"
      /\ cmd[c].type \in WorkType /\ h = NoRun => run[r].intent \/ run[r].off
    BY <1>1, <1>2 DEF HeldOK
<1>6. r = NoRun => NoRunYet'
    BY <1>5 DEF NoRunYet, Exists
<1>7. cmd[c].type = "cancel_task" =>
         \A q \in Runs : q > r /\ Exists(q)' => run'[q].kind = "resume"
    BY <1>5 DEF Exists, Grow
<1>8. r # NoRun => run'[r].status # "succeeded"
    BY <1>4, <1>5
<1>9. cmd[c].type \in WorkType /\ h = NoRun => run'[r].intent \/ run'[r].off
  <2>1. cmd[c].type \in WorkType => r # NoRun
      BY <1>1, <1>2 DEF Carries, WorkType
  <2> QED BY <1>4, <1>5, <2>1
<1> QED BY <1>3, <1>4, <1>5, <1>6, <1>7, <1>8, <1>9 DEF HeldOK

-----------------------------------------------------------------------------
(***************************************************************************)
(* Steps that write no row the invariant is about                          *)
(***************************************************************************)
LEMMA QuietStep ==
    ASSUME TInv, IInv', SameFacts, ServerMoves,
           CarriesInv', HeldInv', OneSource', IntentInv'
    PROVE  FineStep
<1>1. RowsInv' /\ ReviewStep /\ LifeStep
    BY RowsSame DEF TInv
<1>2. \A r \in Runs : (Exists(r)' <=> Exists(r)) /\ (Latest(r)' <=> Latest(r))
    BY DEF SameFacts, SameRun, Exists, Latest
<1>3. RegisteredInv' /\ UncreatedInv'
    BY <1>2 DEF TInv, AgentInv, RegisteredInv, UncreatedInv, SameFacts, SameRun, ServerMoves
<1>4. StoppedInv'
    BY <1>2 DEF TInv, AgentInv, StoppedInv, SameFacts, SameRun, ServerMoves
<1> QED BY <1>1, <1>3, <1>4 DEF FineStep, TInv, AgentInv

\* A worker stops, or goes on with what it carries.
GoesOn(w, s) ==
    /\ ~At(w, "idle") /\ s.pc \notin {"idle", "claimed"}
    /\ s.cmd = worker[w].cmd /\ s.run = worker[w].run /\ s.handle = worker[w].handle
    /\ Carries(s)'

\* What the step of the worker means to the Agent Server.
NoCall(w, s) ==
    /\ UNCHANGED serverVars
    /\ s.pc \in {"lookup", "create"} => Starting(w, s.run) \/ Creating(w, s.run)
StopCall(w, s) ==
    /\ UNCHANGED <<inflight, duplicate>>
    /\ \A r \in Runs : official'[r] = official[r]
                       \/ (official[r] = "active" /\ official'[r] # "none")
    /\ s.pc \notin {"lookup", "create"}
SentCall(w, s) ==
    /\ Creating(w, worker[w].run) /\ UNCHANGED <<official, duplicate>>
    /\ inflight' = [inflight EXCEPT ![worker[w].run] = TRUE]
    /\ s.pc \notin {"lookup", "create"}
CreateCall(w, s) ==
    /\ Creating(w, worker[w].run) /\ UNCHANGED inflight
    /\ Accepts(worker[w].run)
    /\ s.pc \notin {"lookup", "create"}

LEMMA CallFine ==
    ASSUME TInv, IInv', SameFacts, blind' = blind,
           NEW w \in Workers, NEW s, worker' = [worker EXCEPT ![w] = s],
           s.pc = "idle" \/ GoesOn(w, s),
           \A v \in Workers : Held(v)' => Held(v),
           NoCall(w, s) \/ StopCall(w, s) \/ SentCall(w, s) \/ CreateCall(w, s)
    PROVE  FineStep
<1> DEFINE r0 == worker[w].run
<1>0. /\ worker \in [Workers -> WorkerState] /\ official \in [Runs -> OfficialStatus]
      /\ inflight \in [Runs -> BOOLEAN] /\ duplicate \in [Runs -> BOOLEAN]
    BY Typed DEF TInv
<1>1. worker'[w] = s /\ \A v \in Workers : v # w => worker'[v] = worker[v]
    BY <1>0
<1>2. Creating(w, r0) => r0 \in Runs /\ Exists(r0)
  <2>1. Creating(w, r0) => ~At(w, "idle") /\ r0 # NoRun /\ r0 \in {NoRun} \cup Runs
      BY <1>0 DEF Creating, At, TInv, CarriesInv, Carries, WorkerState
  <2> QED BY <2>1 DEF TInv, CarriesInv, Carries
<1>3. /\ \A v \in Workers, r \in Runs :
            /\ Creating(v, r)' => Creating(v, r) \/ (v = w /\ Starting(w, r))
            /\ Starting(v, r)' => Starting(v, r) /\ v # w
      /\ ~NoCall(w, s) => \A r \in Runs : ~Creating(w, r)'
  <2>1. \A r \in Runs : Creating(w, r)' <=> s.run = r /\ s.pc \in {"lookup", "create"}
      BY <1>1 DEF Creating
  <2>2. ASSUME NEW r \in Runs, Creating(w, r)'
        PROVE  NoCall(w, s) /\ (Creating(w, r) \/ Starting(w, r))
      BY <2>1, <2>2 DEF NoCall, StopCall, SentCall, CreateCall
  <2>3. ASSUME NEW v \in Workers, v # w, NEW r \in Runs
        PROVE  /\ Creating(v, r)' => Creating(v, r)
               /\ Starting(v, r)' => Starting(v, r)
    <3>1. worker'[v] = worker[v]
        BY <1>1, <2>3
    <3>2. Starting(v, r)' => Held(v)
        BY DEF Starting
    <3>3. Held(v) => worker[v].cmd \in Commands
        BY Typed DEF TInv, Held
    <3>4. Held(v) => cmd'[worker[v].cmd].type = cmd[worker[v].cmd].type
        BY <3>3 DEF SameFacts, SameCommand
    <3> QED BY <3>1, <3>2, <3>4 DEF Creating, Starting, At, Type, Row
  <2>4. \A r \in Runs : ~Starting(w, r)'
      BY <1>1 DEF Starting, Held, At, GoesOn
  <2> QED BY <2>2, <2>3, <2>4
<1>4. \A v \in Workers : Held(v) => \A x \in Workers : Held(x) => x = v
    BY HeldFacts DEF TInv
<1>5. ASSUME NEW r \in Runs, ~blind[r], OneSourceOf(r)
      PROVE  OneSourceOf(r)'
  <2>1. CASE NoCall(w, s)
    <3>1. official'[r] = official[r] /\ inflight'[r] = inflight[r] /\ duplicate'[r] = duplicate[r]
        BY <2>1 DEF NoCall, serverVars
    <3>2. Starting(w, r) => Held(w) /\ Clean(r)
        BY <1>5 DEF OneSourceOf, Starting
    <3>3. ASSUME NEW v \in Workers, Creating(v, r)'
          PROVE  /\ official'[r] = "none" /\ ~inflight'[r]
                 /\ \A x \in Workers : Creating(x, r)' => x = v
        BY <1>3, <1>5, <3>1, <3>2, <3>3 DEF OneSourceOf, Clean
    <3>4. ASSUME NEW v \in Workers, Starting(v, r)'
          PROVE  Clean(r)'
      <4>1. Starting(v, r) /\ v # w /\ Held(v)
          BY <1>3, <3>4 DEF Starting
      <4>2. Clean(r) /\ ~Held(w)
          BY <1>4, <1>5, <4>1 DEF OneSourceOf
      <4> QED BY <1>3, <3>1, <4>2 DEF Clean, Starting
    <3> QED BY <1>5, <3>1, <3>3, <3>4 DEF OneSourceOf
  <2>2. CASE StopCall(w, s)
    <3>1. /\ inflight'[r] = inflight[r] /\ duplicate'[r] = duplicate[r]
          /\ (official'[r] = "none" <=> official[r] = "none")
        BY <2>2 DEF StopCall
    <3>2. \A v \in Workers : Creating(v, r)' => Creating(v, r)
        BY <1>1, <1>3, <2>2 DEF StopCall, Creating
    <3> QED BY <1>3, <1>5, <3>1, <3>2 DEF OneSourceOf, Clean
  <2>3. CASE SentCall(w, s) \/ CreateCall(w, s)
    <3>1. \A v \in Workers : Creating(v, r)' => Creating(v, r) /\ v # w
        BY <1>1, <1>3, <2>3 DEF SentCall, CreateCall, Creating
    <3>2. CASE r # r0
      <4>1. /\ official'[r] = official[r] /\ inflight'[r] = inflight[r]
            /\ duplicate'[r] = duplicate[r]
          BY <1>0, <2>3, <3>2 DEF SentCall, CreateCall, Accepts
      <4> QED BY <1>3, <1>5, <3>1, <4>1 DEF OneSourceOf, Clean
    <3>3. CASE r = r0
      <4>1. Creating(w, r)
          BY <2>3, <3>3 DEF SentCall, CreateCall
      <4>2. /\ official[r] = "none" /\ ~inflight[r] /\ ~duplicate[r]
            /\ \A v \in Workers : Creating(v, r) => v = w
            /\ \A v \in Workers : ~Starting(v, r)
          BY <1>5, <4>1 DEF OneSourceOf, Clean
      <4>3. \A v \in Workers : ~Creating(v, r)' /\ ~Starting(v, r)'
          BY <1>3, <3>1, <4>2
      <4>4. ~duplicate'[r] /\ (official'[r] # "none" => ~inflight'[r])
          BY <1>0, <2>3, <3>3, <4>2 DEF SentCall, CreateCall, Accepts
      <4> QED BY <4>3, <4>4 DEF OneSourceOf
    <3> QED BY <3>2, <3>3
  <2> QED BY <2>1, <2>2, <2>3
<1>6. OneSource'
    BY <1>5 DEF TInv, AgentInv, OneSource
<1>7. ASSUME NEW r \in Runs, Clean(r), ~run[r].off, ~run[r].intent
      PROVE  Clean(r)'
  <2>1. ~Creating(w, r)
      BY <1>7 DEF Clean
  <2>2. ~Starting(w, r)
      BY <1>7 DEF Starting, TInv, HeldInv, HeldOK, Type, Row
  <2>3. \A v \in Workers : ~Creating(v, r)'
      BY <1>3, <1>7, <2>2 DEF Clean
  <2>4. /\ inflight'[r] = inflight[r]
        /\ \/ official'[r] = official[r]
           \/ official[r] = "active" /\ official'[r] # "none"
    <3>1. CASE NoCall(w, s) \/ StopCall(w, s)
        BY <1>7, <3>1 DEF NoCall, StopCall, serverVars
    <3>2. CASE SentCall(w, s) \/ CreateCall(w, s)
      <4>1. r # r0
          BY <2>1, <3>2 DEF SentCall, CreateCall
      <4> QED BY <1>0, <3>2, <4>1 DEF SentCall, CreateCall, Accepts
    <3> QED BY <3>1, <3>2
  <2> QED BY <1>0, <1>7, <2>3, <2>4 DEF Clean, NoCall, StopCall, SentCall, CreateCall, Accepts, serverVars
<1>8. IntentInv'
  <2>1. ASSUME NEW c \in Commands
        PROVE  (OpenWork(c)' <=> OpenWork(c)) /\ RunOf(c)' = RunOf(c)
      BY DEF SameFacts, SameCommand, OpenWork, IsUnfinished, RunOf, ResumeOf
  <2> QED BY <1>7, <2>1 DEF TInv, AgentInv, IntentInv, SameFacts, SameRun
<1>9. ServerMoves
  <2>1. CASE NoCall(w, s) \/ StopCall(w, s)
      BY <2>1, <1>0 DEF ServerMoves, NoCall, StopCall, serverVars, TInv, AgentInv, UncreatedInv
  <2>2. CASE SentCall(w, s)
      BY <1>0, <1>2, <2>2 DEF ServerMoves, SentCall
  <2>3. CASE CreateCall(w, s)
    <3>1. r0 \in Runs /\ Exists(r0) /\ Creating(w, r0)
        BY <1>2, <2>3 DEF CreateCall
    <3>2. official[r0] = "none" \/ blind[r0]
        BY <3>1 DEF TInv, AgentInv, OneSource, OneSourceOf
    <3>3. official' = [official EXCEPT ![r0] = "active"] /\ UNCHANGED inflight
        BY <2>3 DEF CreateCall, Accepts
    <3> HIDE DEF r0
    <3> QED BY <1>0, <3>1, <3>2, <3>3 DEF ServerMoves
  <2> QED BY <2>1, <2>2, <2>3
<1>10. CarriesInv'
  <2>1. s.pc # "idle" => Carries(s)'
      BY DEF GoesOn
  <2>2. \A v \in Workers : \/ worker'[v] = worker[v]
                          \/ worker'[v].pc = "idle"
                          \/ Carries(worker[v])'
    <3> SUFFICES ASSUME NEW v \in Workers
                 PROVE  \/ worker'[v] = worker[v]
                        \/ worker'[v].pc = "idle"
                        \/ Carries(worker[v])'
        OBVIOUS
    <3>1. CASE v = w
        BY <1>1, <2>1, <3>1
    <3>2. CASE v # w
        BY <1>1, <3>2
    <3> QED BY <3>1, <3>2
  <2> QED BY <1>9, <2>2, SameGrow, AllCarry
<1>11. HeldInv'
  <2>1. \A v \in Workers : Held(v)' =>
           /\ Held(v) /\ worker'[v].cmd = worker[v].cmd
           /\ worker'[v].run = worker[v].run /\ worker'[v].handle = worker[v].handle
      BY <1>1 DEF Held, At, GoesOn
  <2> QED BY <2>1, SameGrow, HeldKept DEF SameFacts, SameRun, Exists
<1> QED BY <1>6, <1>8, <1>9, <1>10, <1>11, QuietStep

\* Only the clock, the Agent Server or nothing moves.
LEMMA RowsStay ==
    ASSUME TInv, IInv', SameFacts, UNCHANGED <<worker, blind>>, ServerMoves,
           OneSource', IntentInv', \A v \in Workers : Held(v)' => Held(v)
    PROVE  FineStep
<1>1. CarriesInv'
    BY SameGrow, AllCarry
<1>2. HeldInv'
    BY SameGrow, HeldKept DEF SameFacts, SameRun, Exists
<1> QED BY <1>1, <1>2, QuietStep

LEMMA TimeFine ==
    ASSUME TInv, IInv', TimePasses
    PROVE  FineStep
<1>0. /\ run \in [Runs -> RunRow] /\ cmd \in [Commands -> CommandRow]
      /\ pause \in [Runs -> PauseRow]
    BY Typed DEF TInv
<1>1. UNCHANGED <<worker, blind>> /\ UNCHANGED serverVars
    BY DEF TimePasses
<1>2. SameFacts /\ \A c \in Commands : cmd'[c].owner = cmd[c].owner
  <2>1. CASE \E c \in Commands : LeaseExpires(c)
    <3>1. PICK c \in Commands : LeaseExpires(c)
        BY <2>1
    <3>2. /\ UNCHANGED <<task, run, pause>>
          /\ cmd' = [cmd EXCEPT ![c] = [cmd[c] EXCEPT !.lease = "due"]]
        BY <1>0, <3>1 DEF LeaseExpires
    <3>3. \A d \in Commands : SameCommand(d) /\ cmd'[d].owner = cmd[d].owner
        BY <1>0, <3>2 DEF SameCommand, CommandRow
    <3> QED BY <3>2, <3>3 DEF SameFacts, SameRun
  <2>2. CASE \E r \in Runs : DeadlinePasses(r)
    <3>1. PICK r \in Runs : DeadlinePasses(r)
        BY <2>2
    <3>2. /\ UNCHANGED <<task, cmd, pause>>
          /\ run' = [run EXCEPT ![r] = [run[r] EXCEPT !.deadline = "past"]]
        BY <1>0, <3>1 DEF DeadlinePasses
    <3>3. \A q \in Runs : SameRun(q)
        BY <1>0, <3>2 DEF SameRun, RunRow
    <3> QED BY <3>2, <3>3 DEF SameFacts, SameCommand
  <2>3. CASE \E r \in Runs : ReviewWindowEnds(r)
    <3>1. PICK r \in Runs : ReviewWindowEnds(r)
        BY <2>3
    <3>2. /\ UNCHANGED <<task, run, cmd>>
          /\ pause' = [pause EXCEPT ![r] = [pause[r] EXCEPT !.due = TRUE]]
        BY <1>0, <3>1 DEF ReviewWindowEnds
    <3>3. \A q \in Runs : pause'[q].status = pause[q].status
        BY <1>0, <3>2 DEF PauseRow
    <3> QED BY <3>2, <3>3 DEF SameFacts, SameRun, SameCommand
  <2> QED BY <2>1, <2>2, <2>3 DEF TimePasses
<1>3. \A w \in Workers : Held(w)' <=> Held(w)
  <2>1. \A w \in Workers : ~At(w, "idle") => worker[w].cmd \in Commands
      BY Typed DEF TInv
  <2> QED BY <1>1, <1>2, <2>1 DEF Held, At, Owns, Row, SameFacts, SameCommand
<1>4. \A c \in Commands : (OpenWork(c)' <=> OpenWork(c)) /\ RunOf(c)' = RunOf(c)
    BY <1>2 DEF SameFacts, SameCommand, OpenWork, IsUnfinished, RunOf, ResumeOf
<1>5. \A r \in Runs : /\ official'[r] = official[r] /\ inflight'[r] = inflight[r]
                      /\ duplicate'[r] = duplicate[r] /\ Clean(r)' = Clean(r)
    BY <1>1 DEF serverVars, Clean, Creating
<1>6. ServerMoves
    BY <1>1, <1>5 DEF ServerMoves
<1>7. OneSource'
  <2>1. \A w \in Workers, r \in Runs : Starting(w, r)' => Starting(w, r)
    <3>1. \A w \in Workers : Held(w) => cmd'[worker[w].cmd].type = cmd[worker[w].cmd].type
        BY <1>2, Typed DEF TInv, Held, SameFacts, SameCommand
    <3> QED BY <1>1, <1>3, <3>1 DEF Starting, At, Type, Row
  <2>2. \A w \in Workers, r \in Runs : Creating(w, r)' <=> Creating(w, r)
      BY <1>1 DEF Creating
  <2> QED BY <1>1, <1>5, <2>1, <2>2 DEF TInv, AgentInv, OneSource, OneSourceOf
<1>8. IntentInv'
    BY <1>1, <1>2, <1>4, <1>5 DEF TInv, AgentInv, IntentInv, SameFacts, SameRun
<1> QED BY <1>1, <1>2, <1>3, <1>6, <1>7, <1>8, RowsStay

LEMMA ServerFine ==
    ASSUME TInv, IInv', ServerStep, UNCHANGED <<dbVars, worker, blind>>
    PROVE  FineStep
<1>0. /\ official \in [Runs -> OfficialStatus] /\ inflight \in [Runs -> BOOLEAN]
      /\ duplicate \in [Runs -> BOOLEAN]
    BY Typed DEF TInv
<1>1. PICK r \in Runs : LateAccept(r) \/ LateDrop(r) \/ GraphEnds(r)
    BY DEF ServerStep
<1>2. \A q \in Runs : q # r => /\ official'[q] = official[q] /\ inflight'[q] = inflight[q]
                               /\ duplicate'[q] = duplicate[q]
    BY <1>0, <1>1 DEF LateAccept, LateDrop, GraphEnds, Accepts
<1>3. /\ inflight[r] \/ official[r] = "active"
      /\ official'[r] = "none" => official[r] = "none"
      /\ official[r] \notin {"none", "active"} /\ official'[r] = "active" => inflight[r]
      /\ inflight'[r] => inflight[r] /\ ~LateAccept(r) /\ ~LateDrop(r)
      /\ official'[r] # "none" => official[r] # "none" \/ ~inflight'[r]
      /\ duplicate'[r] => duplicate[r] \/ (inflight[r] /\ official[r] # "none")
    BY <1>0, <1>1 DEF LateAccept, LateDrop, GraphEnds, Accepts
<1>4. SameFacts /\ worker' = worker /\ blind' = blind /\ run' = run /\ cmd' = cmd
    BY SameDb DEF dbVars
<1>5. \A v \in Workers : Held(v)' <=> Held(v)
    BY <1>4 DEF Held, At, Owns, Row
<1>6. \A v \in Workers, q \in Runs : (Starting(v, q)' <=> Starting(v, q))
                                  /\ (Creating(v, q)' <=> Creating(v, q))
    BY <1>4, <1>5 DEF Starting, Creating, At, Type, Row
<1>7. \A q \in Runs : Clean(q) => q # r /\ Clean(q)'
    BY <1>2, <1>3, <1>6 DEF Clean
<1>8. ServerMoves
  <2>1. official[r] \notin {"none", "active"} /\ official'[r] = "active" => blind[r]
      BY <1>3 DEF TInv, AgentInv, OneSource, OneSourceOf
  <2>2. Exists(r)
      BY <1>3 DEF TInv, AgentInv, UncreatedInv
  <2> QED BY <1>2, <1>3, <1>4, <2>1, <2>2 DEF ServerMoves
<1>9. ASSUME NEW q \in Runs, ~blind[q], OneSourceOf(q)
      PROVE  OneSourceOf(q)'
  <2>1. CASE q # r
      BY <1>2, <1>6, <1>7, <1>9, <2>1 DEF OneSourceOf
  <2>2. CASE q = r
    <3>1. \A v \in Workers : ~Creating(v, r) /\ ~Starting(v, r)
        BY <1>3, <1>9, <2>2 DEF OneSourceOf, Clean
    <3>2. ~duplicate'[r] /\ (official'[r] # "none" => ~inflight'[r])
        BY <1>3, <1>9, <2>2 DEF OneSourceOf
    <3> QED BY <1>6, <2>2, <3>1, <3>2 DEF OneSourceOf
  <2> QED BY <2>1, <2>2
<1>10. OneSource'
    BY <1>4, <1>9 DEF TInv, AgentInv, OneSource
<1>11. IntentInv'
    BY <1>4, <1>7 DEF TInv, AgentInv, IntentInv, OpenWork, IsUnfinished, RunOf, ResumeOf
<1> QED BY <1>4, <1>5, <1>8, <1>10, <1>11, RowsStay

-----------------------------------------------------------------------------
(***************************************************************************)
(* Steps of a worker that write no row                                     *)
(***************************************************************************)
Moved(w, pc, note) == [worker[w] EXCEPT !.pc = pc, !.note = note]

\* What a worker must carry to go to pc.
NextOK(w, pc, note) ==
    LET s    == worker[w]
        work == Type(w) \in WorkType
    IN  /\ pc \notin {"idle", "claimed"}
        /\ s.run = NoRun => pc = "cancel_finalize"
        /\ pc \in WorkPC => work
        /\ pc \in CancelPC => ~work
        /\ pc \in HandlePC => s.handle # NoRun
        /\ pc \in EndPC /\ work => s.handle # NoRun
        /\ pc \in {"finalize", "db_error"} => note # "cancelled"
        /\ pc \in {"register", "cancel_register"} => official'[s.run] # "none"
        /\ pc = "cancel_failure" /\ work => run[s.run].cancelReq
        /\ pc = "cancel_finalize" /\ s.run # NoRun =>
              s.handle # NoRun /\ (official'[s.handle] # "active" \/ blind[s.handle])

LEMMA WorkOrCancel ==
    ASSUME IInv, NEW w \in Workers, ~At(w, "idle")
    PROVE  Type(w) \in CancelType <=> Type(w) \notin WorkType
<1>1. Type(w) \in CommandType
    BY Parts DEF Type, CommandRow
<1> QED BY <1>1 DEF CommandType, WorkType, CancelType

LEMMA MovedCarries ==
    ASSUME TInv, NEW w \in Workers, ~At(w, "idle"), NEW pc, NEW note,
           NextOK(w, pc, note), UNCHANGED <<dbVars, blind>>,
           NEW s, s = Moved(w, pc, note)
    PROVE  Carries(s)'
<1>1. /\ s.pc = pc /\ s.note = note /\ s.run = worker[w].run /\ s.cmd = worker[w].cmd
      /\ s.handle = worker[w].handle /\ s.obs = worker[w].obs
    BY Typed DEF TInv, Moved, WorkerState
<1>2. Carries(worker[w])
    BY DEF TInv, CarriesInv
<1>3. Type(w) \in CancelType <=> Type(w) \notin WorkType
    BY WorkOrCancel DEF TInv
<1>4. run' = run /\ cmd' = cmd /\ blind' = blind
    BY DEF dbVars
<1> QED BY <1>1, <1>2, <1>3, <1>4 DEF Carries, NextOK, Type, Row, RunOf, ResumeOf, Exists

LEMMA GotoFine ==
    ASSUME TInv, IInv', NEW w \in Workers, ~At(w, "idle"), NEW pc, NEW note,
           Goto(w, pc, note), UNCHANGED <<dbVars, blind>>, NextOK(w, pc, note),
           NEW s, s = Moved(w, pc, note),
           NoCall(w, s) \/ StopCall(w, s) \/ SentCall(w, s) \/ CreateCall(w, s)
    PROVE  FineStep
<1>1. /\ s.pc = pc /\ s.cmd = worker[w].cmd /\ s.run = worker[w].run
      /\ s.handle = worker[w].handle
    BY Typed DEF TInv, Moved, WorkerState
<1>2. GoesOn(w, s)
  <2>1. Carries(s)'
      BY MovedCarries
  <2> QED BY <1>1, <2>1 DEF GoesOn, NextOK
<1>3. worker' = [worker EXCEPT ![w] = s]
    BY Typed DEF TInv, Goto, Moved
<1>4. SameFacts /\ blind' = blind /\ cmd' = cmd
    BY SameDb DEF dbVars
<1>5. \A v \in Workers : Held(v)' => Held(v)
    BY <1>1, <1>3, <1>4, Typed DEF TInv, Held, At, Owns, Row, Moved, WorkerState
<1> QED BY <1>2, <1>3, <1>4, <1>5, CallFine

LEMMA ReadFine ==
    ASSUME TInv, IInv', NEW w \in Workers, ~At(w, "idle"), NEW pc, NEW note,
           Read(w, pc, note), NextOK(w, pc, note),
           pc \in {"lookup", "create"} =>
              Starting(w, worker[w].run) \/ Creating(w, worker[w].run)
    PROVE  FineStep
<1>1. PICK s : s = Moved(w, pc, note)
    OBVIOUS
<1>2. s.pc = pc /\ s.run = worker[w].run
    BY <1>1, Typed DEF TInv, Moved, WorkerState
<1>3. NoCall(w, s)
    BY <1>2 DEF NoCall, Read
<1> QED BY <1>1, <1>3, GotoFine DEF Read

\* The worker stops; a request that it sent may still arrive.
LEMMA DoneFine ==
    ASSUME TInv, IInv', NEW w \in Workers, Done(w), SameFacts, blind' = blind,
           \A v \in Workers \ {w} : Held(v)' => Held(v),
           MaybeInFlight(w), UNCHANGED <<official, duplicate>>
    PROVE  FineStep
<1>1. PICK s : s = Idle
    OBVIOUS
<1>2. s.pc = "idle" /\ worker' = [worker EXCEPT ![w] = s]
    BY <1>1 DEF Idle, Done
<1>3. \A v \in Workers : Held(v)' => Held(v)
  <2>1. ~Held(w)'
      BY <1>2, Typed DEF TInv, Held, At
  <2> QED BY <2>1
<1>4. NoCall(w, s) \/ SentCall(w, s)
    BY <1>2 DEF MaybeInFlight, NoCall, SentCall, serverVars, Creating, At
<1> QED BY <1>2, <1>3, <1>4, CallFine

LEMMA GiveUpFine ==
    ASSUME TInv, IInv', NEW w \in Workers, GiveUp(w)
    PROVE  FineStep
<1>1. SameFacts /\ cmd' = cmd
    BY SameDb DEF GiveUp, dbVars
<1>2. \A v \in Workers \ {w} : Held(v)' => Held(v)
    BY <1>1, Typed DEF TInv, GiveUp, Done, Held, At, Owns, Row
<1> QED BY <1>1, <1>2, DoneFine DEF GiveUp, serverVars, MaybeInFlight

-----------------------------------------------------------------------------
(***************************************************************************)
(* What a worker carries decides where it may go                           *)
(***************************************************************************)
LEMMA Carried ==
    ASSUME TInv, NEW w \in Workers, ~At(w, "idle")
    PROVE  /\ Carries(worker[w])
           /\ Type(w) \in CancelType <=> Type(w) \notin WorkType
           /\ Type(w) \in WorkType <=> cmd[worker[w].cmd].type \in WorkType
           /\ cmd[worker[w].cmd].type = "cancel_task" => Type(w) \notin WorkType
           /\ worker[w].pc \in PC /\ worker[w].run \in {NoRun} \cup Runs
           /\ worker[w].handle \in {NoRun} \cup Runs
<1>1. worker[w] \in WorkerState
    BY Typed DEF TInv
<1> QED BY <1>1, WorkOrCancel DEF TInv, CarriesInv, Type, Row, WorkerState, WorkType

\* From a step that only a command which does work reaches.
LEMMA WorkGoes ==
    ASSUME TInv, NEW w \in Workers, worker[w].pc \in WorkPC
    PROVE  /\ NextOK(w, "remote_error", "error") /\ NextOK(w, "remote_error", "indeterminate")
           /\ NextOK(w, "create", "none")
           /\ official'[worker[w].run] # "none" => NextOK(w, "register", "none")
           /\ worker[w].handle # NoRun =>
                 /\ NextOK(w, "get", "none") /\ NextOK(w, "members", "none")
                 /\ NextOK(w, "mark", "none") /\ NextOK(w, "poll", "none")
                 /\ NextOK(w, "orphan_cancel", "none") /\ NextOK(w, "orphan", "none")
                 /\ NextOK(w, "finalize", "failed")
                 /\ \A s : NextOK(w, "remember", s)
           /\ NextOK(w, "schedule", "none")
           /\ worker[w].pc \in HandlePC => worker[w].handle # NoRun
<1>1. ~At(w, "idle")
    BY DEF At, WorkPC
<1>2. Type(w) \in WorkType /\ worker[w].run # NoRun
    BY <1>1, Carried DEF Carries, WorkPC
<1>3. worker[w].pc \in HandlePC => worker[w].handle # NoRun
    BY <1>1, Carried DEF Carries
<1> QED BY <1>2, <1>3 DEF NextOK, WorkPC, CancelPC, HandlePC, EndPC

LEMMA CancelGoes ==
    ASSUME TInv, NEW w \in Workers,
           worker[w].pc \in {"cancel_find", "cancel_call", "cancel_retry"}
    PROVE  /\ NextOK(w, "cancel_retry", "none") /\ NextOK(w, "cancel_retry", "error")
           /\ NextOK(w, "cancel_failure", "none")
           /\ official'[worker[w].run] # "none" => NextOK(w, "cancel_register", "none")
           /\ \A s : NextOK(w, "remember", s)
           /\ At(w, "cancel_call") =>
                 /\ worker[w].handle \in Runs
                 /\ official'[worker[w].handle] # "active" =>
                       NextOK(w, "cancel_finalize", "none")
<1>1. ~At(w, "idle")
    BY DEF At
<1>2. /\ Type(w) \notin WorkType /\ worker[w].run # NoRun
      /\ At(w, "cancel_call") => worker[w].handle # NoRun /\ worker[w].handle \in Runs
    BY <1>1, Carried DEF Carries, CancelPC, HandlePC, At, WorkType, CancelType
<1> QED BY <1>2 DEF NextOK, WorkPC, CancelPC, HandlePC, EndPC

LEMMA ExecuteFine ==
    ASSUME TInv, IInv', NEW w \in Workers, Execute(w)
    PROVE  FineStep
<1>1. ~At(w, "idle") /\ At(w, "claimed")
    BY DEF Execute, At
<1>2. CASE GiveUp(w)
    BY <1>2, GiveUpFine
<1>3. CASE Type(w) \in CancelType /\ ExecuteCancel(w)
  <2>1. /\ Type(w) \notin WorkType
        /\ worker[w].obs # "none" => worker[w].run # NoRun
        /\ worker[w].handle # NoRun => worker[w].run # NoRun
      BY <1>1, <1>3, Carried DEF Carries
  <2>2. /\ worker[w].run # NoRun => /\ NextOK(w, "finalize", "failed")
                                    /\ NextOK(w, "schedule", "none")
                                    /\ NextOK(w, "cancel_find", "none")
                                    /\ NextOK(w, "remember", worker[w].obs)
        /\ worker[w].handle # NoRun => NextOK(w, "cancel_call", "none")
        /\ worker[w].run = NoRun => NextOK(w, "cancel_finalize", "none")
      BY <2>1 DEF NextOK, WorkPC, CancelPC, HandlePC, EndPC
  <2> QED BY <1>1, <1>3, <2>1, <2>2, ReadFine DEF ExecuteCancel
<1>4. CASE Type(w) \notin CancelType /\ OwnsFresh(w) /\ ExecuteWork(w)
  <2>1. /\ Type(w) \in WorkType /\ worker[w].run # NoRun
      BY <1>1, <1>4, Carried DEF Carries
  <2>2. /\ NextOK(w, "remote_error", "error") /\ NextOK(w, "find", "none")
        /\ NextOK(w, "lookup", "none")
        /\ worker[w].handle # NoRun => NextOK(w, "drain", "none")
      BY <2>1 DEF NextOK, WorkPC, CancelPC, HandlePC, EndPC
  <2>3. worker[w].handle = NoRun /\ ~worker[w].reconcile => Starting(w, worker[w].run)
      BY <1>1, <1>4, <2>1 DEF Starting, Held, OwnsFresh
  <2> QED BY <1>1, <1>4, <2>2, <2>3, ReadFine DEF ExecuteWork
<1> QED BY <1>1, <1>2, <1>3, <1>4 DEF Execute

LEMMA ReadsFine ==
    ASSUME TInv, IInv', NEW w \in Workers,
           \/ Lookup(w) \/ CreateRejected(w) \/ Find(w) \/ Drain(w) \/ Get(w)
           \/ Members(w) \/ Poll(w) \/ Join(w) \/ FinalizeFails(w) \/ CancelFind(w)
    PROVE  FineStep
<1>1. ~At(w, "idle")
    BY DEF At, Lookup, CreateRejected, Find, Drain, Get, Members, Poll, Join,
           FinalizeFails, CancelFind
<1>2. CASE Lookup(w)
  <2>1. worker[w].pc \in WorkPC /\ Creating(w, worker[w].run)
      BY <1>2 DEF Lookup, At, WorkPC, Creating
  <2>2. Found(worker[w].run) /\ Read(w, "register", "none") => NextOK(w, "register", "none")
      BY <2>1, WorkGoes DEF Found, Read, serverVars
  <2> QED BY <1>1, <1>2, <2>1, <2>2, WorkGoes, ReadFine DEF Lookup
<1>3. CASE CreateRejected(w)
  <2>1. worker[w].pc \in WorkPC
      BY <1>3 DEF CreateRejected, At, WorkPC
  <2> QED BY <1>1, <1>3, <2>1, WorkGoes, ReadFine DEF CreateRejected
<1>4. CASE Find(w)
  <2>1. worker[w].pc \in WorkPC
      BY <1>4 DEF Find, At, WorkPC
  <2>2. Found(worker[w].run) /\ Read(w, "register", "none") => NextOK(w, "register", "none")
      BY <2>1, WorkGoes DEF Found, Read, serverVars
  <2> QED BY <1>1, <1>4, <2>1, <2>2, WorkGoes, ReadFine DEF Find
<1>5. CASE Drain(w)
  <2>1. worker[w].pc \in WorkPC \cap HandlePC
      BY <1>5 DEF Drain, At, WorkPC, HandlePC
  <2> QED BY <1>1, <1>5, <2>1, WorkGoes, ReadFine, GiveUpFine DEF Drain
<1>6. CASE Get(w)
  <2>1. worker[w].pc \in WorkPC \cap HandlePC
      BY <1>6 DEF Get, At, WorkPC, HandlePC
  <2> QED BY <1>1, <1>6, <2>1, WorkGoes, ReadFine DEF Get
<1>7. CASE Members(w)
  <2>1. worker[w].pc \in WorkPC \cap HandlePC
      BY <1>7 DEF Members, At, WorkPC, HandlePC
  <2> QED BY <1>1, <1>7, <2>1, WorkGoes, ReadFine DEF Members
<1>8. CASE Poll(w)
  <2>1. worker[w].pc \in WorkPC \cap HandlePC
      BY <1>8 DEF Poll, At, WorkPC, HandlePC
  <2> QED BY <1>1, <1>8, <2>1, WorkGoes, ReadFine DEF Poll
<1>9. CASE Join(w)
  <2>1. /\ worker[w].run # NoRun
        /\ Type(w) \in WorkType => worker[w].handle # NoRun
      BY <1>1, <1>9, Carried DEF Carries, Join, At, EndPC
  <2>2. \A out : out # "cancelled" => NextOK(w, "finalize", out)
      BY <2>1 DEF NextOK, WorkPC, CancelPC, HandlePC, EndPC
  <2>3. NextOK(w, "schedule", "none")
      BY <2>1 DEF NextOK, WorkPC, CancelPC, HandlePC, EndPC
  <2> QED BY <1>1, <1>9, <2>2, <2>3, ReadFine DEF Join
<1>10. CASE FinalizeFails(w)
  <2>1. /\ worker[w].run # NoRun /\ worker[w].note # "cancelled"
        /\ Type(w) \in WorkType => worker[w].handle # NoRun
      BY <1>1, <1>10, Carried DEF Carries, FinalizeFails, At, EndPC
  <2>2. NextOK(w, "db_error", worker[w].note)
      BY <2>1 DEF NextOK, WorkPC, CancelPC, HandlePC, EndPC
  <2> QED BY <1>1, <1>10, <2>2, ReadFine DEF FinalizeFails
<1>11. CASE CancelFind(w)
  <2>1. At(w, "cancel_find")
      BY <1>11 DEF CancelFind
  <2>2. Found(worker[w].run) /\ Read(w, "cancel_register", "none") =>
           NextOK(w, "cancel_register", "none")
      BY <2>1, CancelGoes DEF Found, Read, serverVars, At
  <2>3. NextOK(w, "cancel_retry", "none") /\ NextOK(w, "cancel_retry", "error")
      BY <2>1, CancelGoes DEF At
  <2> QED BY <1>1, <1>11, <2>2, <2>3, ReadFine DEF CancelFind
<1> QED BY <1>2, <1>3, <1>4, <1>5, <1>6, <1>7, <1>8, <1>9, <1>10, <1>11

LEMMA CreateFine ==
    ASSUME TInv, IInv', NEW w \in Workers, CreateAccepted(w) \/ CreateUncertain(w)
    PROVE  FineStep
<1>1. /\ ~At(w, "idle") /\ worker[w].pc \in WorkPC /\ Creating(w, worker[w].run)
      /\ UNCHANGED <<dbVars, blind>>
    BY DEF CreateAccepted, CreateUncertain, At, WorkPC, Creating
<1>2. CASE CreateAccepted(w)
  <2>1. PICK s : s = Moved(w, "register", "none")
      OBVIOUS
  <2>2. CreateCall(w, s)
      BY <1>1, <1>2, <2>1, Typed DEF TInv, CreateCall, CreateAccepted, Moved, WorkerState
  <2>3. official'[worker[w].run] # "none"
    <3>1. worker[w].run \in Runs
        BY <1>1, Carried DEF Carries, WorkPC, WorkType
    <3> QED BY <1>2, <3>1, Typed DEF TInv, CreateAccepted, Accepts
  <2>4. NextOK(w, "register", "none")
      BY <1>1, <2>3, WorkGoes
  <2> QED BY <1>1, <1>2, <2>1, <2>2, <2>4, GotoFine DEF CreateAccepted
<1>3. CASE CreateUncertain(w)
  <2>1. ASSUME NEW note \in {"indeterminate", "error"}, Goto(w, "remote_error", note)
        PROVE  FineStep
    <3>1. PICK s : s = Moved(w, "remote_error", note)
        OBVIOUS
    <3>2. SentCall(w, s)
        BY <1>1, <1>3, <3>1, Typed DEF TInv, SentCall, CreateUncertain, Moved, WorkerState
    <3>3. NextOK(w, "remote_error", note)
        BY <1>1, <2>1, WorkGoes
    <3> QED BY <1>1, <2>1, <3>1, <3>2, <3>3, GotoFine
  <2> QED BY <1>3, <2>1 DEF CreateUncertain
<1> QED BY <1>2, <1>3

LEMMA StopFine ==
    ASSUME TInv, IInv', NEW w \in Workers, OrphanCancel(w) \/ CancelCall(w)
    PROVE  FineStep
<1> DEFINE h == worker[w].handle
<1>1. /\ ~At(w, "idle") /\ UNCHANGED <<dbVars, blind>> /\ UNCHANGED <<inflight, duplicate>>
    BY DEF OrphanCancel, CancelCall, At
<1>2. /\ \A r \in Runs : \/ official'[r] = official[r]
                         \/ official[r] = "active" /\ official'[r] # "none"
      /\ Stop(h) /\ h \in Runs => official'[h] # "active"
  <2>1. official \in [Runs -> OfficialStatus]
      BY Typed DEF TInv
  <2>2. UNCHANGED official \/ Stop(h)
      BY DEF OrphanCancel, CancelCall, CancelLost
  <2> HIDE DEF h
  <2> QED BY <2>1, <2>2 DEF Stop
<1>3. ASSUME NEW pc, NEW note, Goto(w, pc, note), NextOK(w, pc, note),
             pc \notin {"lookup", "create"}
      PROVE  FineStep
  <2>1. PICK s : s = Moved(w, pc, note)
      OBVIOUS
  <2>2. StopCall(w, s)
      BY <1>1, <1>2, <1>3, <2>1, Typed DEF TInv, StopCall, Moved, WorkerState
  <2> QED BY <1>1, <1>3, <2>1, <2>2, GotoFine
<1>4. CASE OrphanCancel(w)
  <2>1. worker[w].pc \in WorkPC \cap HandlePC
      BY <1>4 DEF OrphanCancel, At, WorkPC, HandlePC
  <2>2. /\ NextOK(w, "finalize", "failed") /\ NextOK(w, "orphan", "none")
        /\ \A s : NextOK(w, "remember", s)
      BY <2>1, WorkGoes
  <2> QED BY <1>3, <1>4, <2>2 DEF OrphanCancel
<1>5. CASE CancelCall(w)
  <2>1. At(w, "cancel_call")
      BY <1>5 DEF CancelCall
  <2>2. /\ NextOK(w, "cancel_retry", "error") /\ h \in Runs
        /\ \A s : NextOK(w, "remember", s)
        /\ official'[h] # "active" => NextOK(w, "cancel_finalize", "none")
      BY <2>1, CancelGoes DEF At
  <2> QED BY <1>2, <1>3, <1>5, <2>2 DEF CancelCall
<1> QED BY <1>4, <1>5

LEMMA AbandonFine ==
    ASSUME TInv, IInv', NEW w \in Workers, HeartbeatLost(w) \/ Crash(w)
    PROVE  FineStep
<1>1. /\ MaybeInFlight(w) /\ Done(w) /\ UNCHANGED <<dbVars, blind>>
      /\ UNCHANGED <<official, duplicate>>
    BY DEF HeartbeatLost, Crash
<1>2. SameFacts /\ cmd' = cmd
    BY <1>1, SameDb DEF dbVars
<1>3. \A v \in Workers \ {w} : Held(v)' => Held(v)
    BY <1>1, <1>2, Typed DEF TInv, Done, Held, At, Owns, Row
<1> QED BY <1>1, <1>2, <1>3, DoneFine

LEMMA ReleaseFine ==
    ASSUME TInv, IInv', NEW w \in Workers, ReleaseOwnedLeases(w)
    PROVE  FineStep
<1>0. cmd \in [Commands -> CommandRow] /\ worker \in [Workers -> WorkerState]
    BY Typed DEF TInv
<1>1. /\ MaybeInFlight(w) /\ Done(w) /\ UNCHANGED <<task, run, pause, official, duplicate, blind>>
      /\ cmd' = [c \in Commands |->
                    IF cmd[c].status = "dispatching" /\ cmd[c].owner = w
                    THEN [cmd[c] EXCEPT !.owner = NoWorker, !.lease = "due"]
                    ELSE cmd[c]]
    BY DEF ReleaseOwnedLeases
<1>2. \A c \in Commands : /\ SameCommand(c)
                          /\ cmd'[c].owner \in {cmd[c].owner, NoWorker}
    BY <1>0, <1>1 DEF SameCommand, CommandRow
<1>3. SameFacts
    BY <1>1, <1>2 DEF SameFacts, SameRun
<1>4. \A v \in Workers \ {w} : Held(v)' => Held(v)
  <2>1. \A v \in Workers : ~At(v, "idle") => worker[v].cmd \in Commands
      BY Typed DEF TInv
  <2>2. \A v \in Workers \ {w} : worker'[v] = worker[v]
      BY <1>0, <1>1 DEF Done
  <2> QED BY <1>2, <2>1, <2>2, StoreAssumption DEF Held, At, Owns, Row, SameCommand
<1> QED BY <1>1, <1>3, <1>4, DoneFine
-----------------------------------------------------------------------------
(***************************************************************************)
(* Transactions of a worker that owns its command c and drives the Run r   *)
(***************************************************************************)
\* The transaction ends a command that does work.
EndsWork(c) == cmd[c].type \in WorkType /\ cmd'[c].status \in Finished

TxCommand(w, c) ==
    /\ \A d \in Commands \ {c} : cmd'[d] = cmd[d]
    /\ cmd'[c].type = cmd[c].type /\ cmd'[c].arg = cmd[c].arg
    /\ cmd'[c].expired = cmd[c].expired /\ cmd'[c].attempt = cmd[c].attempt
    /\ cmd'[c].status \in Unfinished \cup Finished
    /\ cmd'[c].owner \in {w, NoWorker}

TxRun(c, r) ==
    /\ \A q \in Runs \ {r} : run'[q] = run[q]
    /\ r \in Runs =>
          /\ run'[r].status # "absent" /\ run'[r].kind = run[r].kind
          /\ run[r].off => run'[r].off
          /\ run'[r].off => run[r].off \/ official[r] # "none"
          /\ run[r].cancelReq => run'[r].cancelReq
          /\ run'[r].intent => run[r].intent \/ cmd[c].type \in WorkType
          /\ run'[r].fence = run[r].fence \/ (run'[r].fence = c /\ cmd'[c].status \in Finished)
          /\ run'[r].status = "succeeded" => task' = "succeeded"
          /\ run'[r].status = "waiting_human" => run[r].status = "waiting_human" \/ EndsWork(c)

TxPause(c, r) ==
    /\ ReviewStep
    /\ \A p \in Runs :
          /\ pause'[p].status = "pending" => pause[p].status = "pending" \/ (p = r /\ EndsWork(c))
          /\ pause[p].status = "absent" => pause'[p].status = "absent" \/ (p = r /\ EndsWork(c))

TxTask(c, r) ==
    /\ task' \in TerminalStatus =>
          /\ r \in Runs => run'[r].status = task'
          /\ r = NoRun => task' # "succeeded"
    /\ task' \in ActiveStatus /\ cmd'[c].status \in Finished =>
          \/ \E q \in Runs : run'[q].cancelReq
          \/ task' = "waiting_human" /\ \E p \in Runs : pause'[p].status = "pending"
    /\ task' = "cancelled" => \A q \in Runs :
          Latest(q) /\ run[q].kind # "resume" => blind[q] \/ official[q] \notin {"none", "active"}

TxServer(c, r) ==
    /\ UNCHANGED serverVars
    /\ \A q \in Runs : blind[q] => blind'[q]
    /\ r \in Runs /\ cmd[c].type \in WorkType /\ cmd'[c].status \in Unfinished
          /\ ~run'[r].off /\ ~run'[r].intent /\ ~blind'[r] => Clean(r)

TxWorker(w, c, r) ==
    /\ \A v \in Workers \ {w} : worker'[v] = worker[v]
    /\ \/ worker'[w].pc = "idle"
       \/ /\ worker'[w].pc \notin {"idle", "claimed", "lookup", "create"}
          /\ worker'[w].cmd = c /\ worker'[w].run = r /\ r \in Runs
          /\ Carries(worker[w])'
          /\ task' = task /\ run'[r].status = run[r].status
          /\ worker'[w].handle = NoRun =>
                /\ worker[w].handle = NoRun
                /\ run'[r].off = run[r].off /\ run'[r].intent = run[r].intent

Tx(w, c, r) ==
    /\ TxCommand(w, c) /\ TxRun(c, r) /\ TxPause(c, r) /\ TxTask(c, r)
    /\ TxServer(c, r) /\ TxWorker(w, c, r)

LEMMA TxBasics ==
    ASSUME TInv, NEW w \in Workers, Held(w),
           NEW c, c = worker[w].cmd, NEW r, r = worker[w].run, Tx(w, c, r)
    PROVE  /\ c \in Commands /\ r \in {NoRun} \cup Runs
           /\ cmd[c].status = "dispatching" /\ cmd[c].attempt > 0
           /\ r = NoRun => NoRunYet /\ cmd[c].type = "cancel_task"
           /\ r # NoRun => r \in Runs /\ Exists(r)
           /\ cmd[c].type \in WorkType => OpenWork(c) /\ r = RunOf(c)
           /\ \A q \in Runs : (Exists(q)' <=> Exists(q)) /\ (Latest(q)' <=> Latest(q))
                              /\ run'[q].kind = run[q].kind
           /\ NoRunYet' <=> NoRunYet
           /\ \A d \in Commands :
                 /\ OpenWork(d)' => OpenWork(d) /\ (d = c => cmd'[c].status \notin Finished)
                 /\ InUse(d)' <=> InUse(d)
                 /\ cmd'[d].type = cmd[d].type /\ cmd'[d].arg = cmd[d].arg
                 /\ cmd'[d].attempt = cmd[d].attempt /\ cmd'[d].expired = cmd[d].expired
                 /\ RunOf(d)' = RunOf(d)
           /\ \A v \in Workers : Held(v)' => v = w /\ worker'[w].pc # "idle"
           /\ Grow /\ ServerMoves
<1>1. /\ c \in Commands /\ cmd[c].status = "dispatching" /\ cmd[c].attempt > 0
      /\ worker[w] \in WorkerState /\ Carries(worker[w]) /\ HeldOK(worker[w])
      /\ cmd[c].owner = w
    BY HeldFacts, Typed DEF TInv, Held, CarriesInv, HeldInv
<1>2. /\ r \in {NoRun} \cup Runs
      /\ r # NoRun => r \in Runs /\ Exists(r)
      /\ r = NoRun => NoRunYet /\ cmd[c].type = "cancel_task"
      /\ cmd[c].type \in WorkType => r = RunOf(c)
    BY <1>1 DEF WorkerState, Carries, HeldOK
<1>3. ASSUME NEW q \in Runs PROVE Exists(q)' <=> Exists(q)
  <2>1. CASE q = r
    <3>1. run'[q].status # "absent" /\ run[q].status # "absent"
        BY <1>2, <2>1 DEF Tx, TxRun, Exists, NoRun, Runs
    <3> QED BY <3>1 DEF Exists
  <2>2. CASE q # r
    <3>1. run'[q] = run[q]
        BY <2>2 DEF Tx, TxRun
    <3> QED BY <3>1 DEF Exists
  <2> QED BY <2>1, <2>2
<1>4. \A q \in Runs : run'[q].kind = run[q].kind
    BY <1>2 DEF Tx, TxRun
<1>5. \A q \in Runs : Latest(q)' <=> Latest(q)
    BY <1>3 DEF Latest
<1>6. NoRunYet' <=> NoRunYet
    BY <1>3 DEF NoRunYet
<1>7. cmd[c].type \in WorkType => OpenWork(c)
    BY <1>1 DEF OpenWork, IsUnfinished, Unfinished
<1>8. \A d \in Commands :
         /\ cmd'[d].type = cmd[d].type /\ cmd'[d].arg = cmd[d].arg
         /\ cmd'[d].attempt = cmd[d].attempt /\ cmd'[d].expired = cmd[d].expired
    BY DEF Tx, TxCommand
<1>9. \A d \in Commands : RunOf(d)' = RunOf(d)
    BY <1>8 DEF RunOf, ResumeOf
<1>10. \A d \in Commands :
         /\ OpenWork(d)' => OpenWork(d) /\ (d = c => cmd'[c].status \notin Finished)
         /\ InUse(d)' <=> InUse(d)
  <2>1. IsUnfinished(c) /\ InUse(c)
      BY <1>1 DEF IsUnfinished, Unfinished, InUse
  <2>2. (IsUnfinished(c)' <=> cmd'[c].status \notin Finished) /\ InUse(c)'
      BY DEF Tx, TxCommand, IsUnfinished, Unfinished, Finished, InUse
  <2> QED BY <1>8, <2>1, <2>2 DEF Tx, TxCommand, OpenWork, IsUnfinished, InUse
<1>11. ASSUME NEW v \in Workers, Held(v)'
       PROVE  v = w /\ worker'[w].pc # "idle"
  <2>1. CASE v # w
    <3>1. worker'[v] = worker[v]
        BY <2>1 DEF Tx, TxWorker
    <3>2. ~At(v, "idle") /\ worker[v].cmd \in Commands
        BY <1>11, <3>1, Typed DEF TInv, Held, At
    <3>3. worker[v].cmd # c
        BY <1>11, <2>1, <3>1, StoreAssumption DEF Held, Owns, Row, Tx, TxCommand
    <3>4. Held(v)
        BY <1>11, <3>1, <3>2, <3>3 DEF Held, Owns, Row, Tx, TxCommand
    <3> QED BY <2>1, <3>4, HeldFacts DEF TInv
  <2>2. CASE v = w
      BY <1>11, <2>2 DEF Held, At
  <2> QED BY <2>1, <2>2
<1>12. Grow
    BY <1>2, <1>3, <1>4, <1>8 DEF Grow, Exists, Tx, TxRun
<1>13. ServerMoves
    BY DEF ServerMoves, Tx, TxServer, serverVars
<1> QED BY <1>1, <1>2, <1>3, <1>4, <1>5, <1>6, <1>7, <1>8, <1>9, <1>10, <1>11, <1>12, <1>13

LEMMA TxRows ==
    ASSUME TInv, IInv', NEW w \in Workers, Held(w),
           NEW c, c = worker[w].cmd, NEW r, r = worker[w].run, Tx(w, c, r)
    PROVE  RowsInv'
<1>0. /\ TxCommand(w, c) /\ TxRun(c, r) /\ TxPause(c, r) /\ TxTask(c, r)
      /\ RowsInv /\ task \in ActiveStatus
    BY HeldFacts DEF Tx, TInv
<1>1. ArgInv'
    BY <1>0, TxBasics DEF RowsInv, ArgInv
<1>2. ASSUME NEW d \in Commands, OpenWork(d)'
      PROVE  WorkOK(d)'
  <2>1. OpenWork(d) /\ WorkOK(d) /\ RunOf(d)' = RunOf(d)
      BY <1>0, <1>2, TxBasics DEF RowsInv, WorkInv
  <2>2. EndsWork(c) => FALSE
      BY <1>2, <2>1, TxBasics DEF WorkOK, EndsWork
  <2>3. pause'[RunOf(d)].status = "absent"
      BY <1>0, <2>1, <2>2 DEF WorkOK, TxPause
  <2>4. cmd'[d].attempt = 0 => ~run'[RunOf(d)].intent
    <3>1. SUFFICES ASSUME cmd'[d].attempt = 0, run'[RunOf(d)].intent PROVE FALSE
        OBVIOUS
    <3>2. cmd[d].attempt = 0 /\ d # c /\ ~run[RunOf(d)].intent
        BY <2>1, <3>1, TxBasics DEF WorkOK
    <3>3. cmd[c].type \notin WorkType
        BY <2>1, <3>2, TxBasics DEF WorkOK
    <3> QED BY <1>0, <2>1, <3>1, <3>2, <3>3 DEF TxRun, WorkOK
  <2>5. \A e \in Commands : OpenWork(e)' => e = d
      BY <2>1, TxBasics DEF WorkOK
  <2>6. cmd'[d].type = cmd[d].type /\ cmd'[d].attempt = cmd[d].attempt
      BY TxBasics
  <2>7. \/ Latest(RunOf(d))'
        \/ cmd'[d].type = "submit" /\ cmd'[d].attempt = 0 /\ NoRunYet'
    <3>1. RunOf(d) \in Runs
        BY <2>1 DEF WorkOK
    <3>2. (Latest(RunOf(d))' <=> Latest(RunOf(d))) /\ (NoRunYet' <=> NoRunYet)
      <4>1. \A q \in Runs : Latest(q)' <=> Latest(q)
          BY TxBasics
      <4>2. PICK q \in Runs : q = RunOf(d)
          BY <3>1
      <4>3. Latest(q)' <=> Latest(q)
          BY <4>1
      <4>4. Latest(RunOf(d))' <=> Latest(q)'
          BY <2>1, <4>2 DEF Latest, Exists
      <4> QED BY <4>2, <4>3, <4>4, TxBasics
    <3> QED BY <2>1, <2>6, <3>2 DEF WorkOK
  <2> QED BY <2>1, <2>3, <2>4, <2>5, <2>7 DEF WorkOK
<1>3. ReviewInv'
  <2> SUFFICES ASSUME NEW p \in Runs, pause'[p].status = "pending",
                      run'[p].status = "waiting_human"
               PROVE  Latest(p)' /\ \A d \in Commands : ~OpenWork(d)'
      BY DEF ReviewInv
  <2>1. CASE p = r /\ EndsWork(c)
    <3>1. OpenWork(c) /\ WorkOK(c) /\ r = RunOf(c) /\ cmd[c].attempt > 0 /\ c \in Commands
        BY <1>0, <2>1, TxBasics DEF RowsInv, WorkInv, EndsWork
    <3>2. Latest(p)'
      <4>1. Latest(p)
          BY <2>1, <3>1 DEF WorkOK
      <4> QED BY <4>1, TxBasics
    <3>3. \A d \in Commands : ~OpenWork(d)'
        BY <2>1, <3>1, TxBasics DEF WorkOK, EndsWork
    <3> QED BY <3>2, <3>3
  <2>2. CASE ~(p = r /\ EndsWork(c))
    <3>1. pause[p].status = "pending" /\ run[p].status = "waiting_human"
        BY <1>0, <2>2 DEF TxPause, TxRun
    <3> QED BY <1>0, <3>1, TxBasics DEF RowsInv, ReviewInv
  <2> QED BY <2>1, <2>2
<1>4. AskedInv'
  <2>1. \A q \in Runs : run[q].cancelReq => run'[q].cancelReq
      BY <1>0, TxBasics DEF TxRun
  <2> QED BY <1>0, <2>1, TxBasics DEF RowsInv, AskedInv
<1>5. FenceInv'
  <2> SUFFICES ASSUME NEW q \in Runs, NEW d \in Commands, d <= run'[q].fence
               PROVE  cmd'[d].status \in Finished
      BY DEF FenceInv
  <2>1. cmd[d].status \in Finished => cmd'[d].status \in Finished
      BY <1>0, TxBasics DEF TxCommand, Finished
  <2>2. CASE run'[q].fence = run[q].fence
      BY <1>0, <2>1, <2>2 DEF RowsInv, FenceInv
  <2>3. CASE run'[q].fence # run[q].fence
    <3>1. q = r /\ run'[r].fence = c /\ cmd'[c].status \in Finished
        BY <1>0, <2>3 DEF TxRun
    <3>2. CASE d = c
        BY <3>1, <3>2
    <3>3. CASE d # c
      <4>1. d < c /\ c \in Commands /\ cmd[c].status = "dispatching" /\ cmd[c].attempt > 0
          BY <3>1, <3>3, TxBasics DEF Commands
      <4>2. ~IsUnfinished(d) /\ cmd[d].status # "absent" /\ cmd[d].status \in CommandStatus
          BY <4>1, Typed DEF TInv, SerialDispatch, QueueInv, CommandRow
      <4> QED BY <2>1, <4>2 DEF IsUnfinished, CommandStatus
    <3> QED BY <3>2, <3>3
  <2> QED BY <2>2, <2>3
<1>6. LatestInv'
  <2> SUFFICES ASSUME task' \in ActiveStatus, NEW q \in Runs, Latest(q)'
               PROVE  run'[q].status # "succeeded"
      BY DEF LatestInv
  <2>1. CASE q = r
      BY <1>0, <2>1 DEF TxRun, ActiveStatus
  <2>2. CASE q # r
      BY <1>0, <2>2, TxBasics DEF TxRun, RowsInv, LatestInv
  <2> QED BY <2>1, <2>2
<1>7. AbsentInv'
  <2> SUFFICES ASSUME NEW q \in Runs, ~Exists(q)'
               PROVE  /\ pause'[q].status = "absent" /\ ~run'[q].off
                      /\ ~run'[q].intent /\ ~run'[q].cancelReq
      BY DEF AbsentInv
  <2>1. ~Exists(q)
      BY TxBasics
  <2>2. r # NoRun => Exists(r)
      BY TxBasics
  <2>3. q # r
      BY <2>1, <2>2 DEF NoRun, Runs
  <2> QED BY <1>0, <2>1, <2>3 DEF TxRun, TxPause, RowsInv, AbsentInv
<1>8. TaskOutcomeFromRun'
  <2>1. r = NoRun => ~\E q \in Runs : Exists(q)'
      BY TxBasics DEF NoRunYet
  <2>2. r # NoRun => r \in Runs
      BY TxBasics
  <2> QED BY <1>0, <2>1, <2>2 DEF TxTask, TaskOutcomeFromRun
<1>9. UnattendedOnlyAfterCancel'
  <2>1. NothingUnfinished' => cmd'[c].status \in Finished
      BY <1>0, TxBasics DEF NothingUnfinished, IsUnfinished, TxCommand
  <2> QED BY <1>0, <2>1 DEF TxTask, UnattendedOnlyAfterCancel
<1>10. RunsInv'
    BY <1>0, TxBasics DEF RowsInv, RunsInv
<1> QED BY <1>1, <1>2, <1>3, <1>4, <1>5, <1>6, <1>7, <1>8, <1>9, <1>10 DEF RowsInv, WorkInv

LEMMA TxAgent ==
    ASSUME TInv, NEW w \in Workers, Held(w),
           NEW c, c = worker[w].cmd, NEW r, r = worker[w].run, Tx(w, c, r)
    PROVE  AgentInv'
<1>0. /\ TxCommand(w, c) /\ TxRun(c, r) /\ TxTask(c, r) /\ TxServer(c, r) /\ TxWorker(w, c, r)
      /\ AgentInv /\ task \in ActiveStatus
    BY HeldFacts DEF Tx, TInv
<1>1. \A q \in Runs : /\ official'[q] = official[q] /\ inflight'[q] = inflight[q]
                      /\ duplicate'[q] = duplicate[q]
    BY <1>0 DEF TxServer, serverVars
<1>2. \A v \in Workers, q \in Runs : /\ Creating(v, q)' => Creating(v, q)
                                     /\ ~Starting(v, q)'
  <2> SUFFICES ASSUME NEW v \in Workers, NEW q \in Runs
               PROVE  (Creating(v, q)' => Creating(v, q)) /\ ~Starting(v, q)'
      OBVIOUS
  <2>1. CASE v = w
      BY <1>0, <2>1 DEF TxWorker, Creating, Starting, At
  <2>2. CASE v # w
    <3>1. ~Held(v)'
        BY <2>2, TxBasics
    <3> QED BY <1>0, <2>2, <3>1 DEF TxWorker, Creating, Starting
  <2> QED BY <2>1, <2>2
<1>3. \A q \in Runs : Clean(q) => Clean(q)'
    BY <1>1, <1>2 DEF Clean
<1>4. OneSource'
  <2>1. ASSUME NEW q \in Runs, OneSourceOf(q) PROVE OneSourceOf(q)'
      BY <1>1, <1>2, <2>1 DEF OneSourceOf
  <2> QED BY <1>0, <2>1 DEF AgentInv, OneSource, TxServer
<1>5. IntentInv'
  <2> SUFFICES ASSUME NEW d \in Commands, OpenWork(d)', NEW q \in Runs, q = RunOf(d)',
                      ~run'[q].off, ~run'[q].intent, ~blind'[q]
               PROVE  Clean(q)'
      BY DEF IntentInv
  <2>1. OpenWork(d) /\ q = RunOf(d)
      BY TxBasics
  <2>2. CASE d = c
    <3>1. q = r /\ cmd[c].type \in WorkType /\ cmd'[c].status \in Unfinished
        BY <1>0, <2>1, <2>2, TxBasics DEF OpenWork, TxCommand
    <3> QED BY <1>0, <1>3, <3>1 DEF TxServer
  <2>3. CASE d # c
    <3>1. WorkOK(d) /\ cmd[d].attempt = 0
        BY <2>1, <2>3, HeldFacts DEF TInv, RowsInv, WorkInv, OpenWork
    <3>2. ~run[q].intent
        BY <2>1, <3>1 DEF WorkOK
    <3>3. ~run[q].off
        BY <1>0 DEF TxRun
    <3>4. ~blind[q]
        BY <1>0 DEF TxServer
    <3> QED BY <1>0, <1>3, <2>1, <3>2, <3>3, <3>4 DEF AgentInv, IntentInv
  <2> QED BY <2>2, <2>3
<1>6. RegisteredInv'
    BY <1>0, <1>1 DEF AgentInv, RegisteredInv, TxRun
<1>7. UncreatedInv'
    BY <1>0, <1>1, TxBasics DEF AgentInv, UncreatedInv
<1>8. StoppedInv'
    BY <1>0, <1>1, TxBasics DEF StoppedInv, TxTask, TxServer
<1> QED BY <1>4, <1>5, <1>6, <1>7, <1>8 DEF AgentInv

LEMMA TxFine ==
    ASSUME TInv, IInv', NEW w \in Workers, Held(w),
           NEW c, c = worker[w].cmd, NEW r, r = worker[w].run, Tx(w, c, r)
    PROVE  FineStep
<1>0. /\ TxCommand(w, c) /\ TxRun(c, r) /\ TxPause(c, r) /\ TxTask(c, r) /\ TxWorker(w, c, r)
      /\ task \in ActiveStatus /\ HeldOK(worker[w])
    BY HeldFacts DEF Tx, TInv, HeldInv
<1>1. RowsInv' /\ AgentInv'
    BY TxRows, TxAgent
<1>2. CarriesInv'
  <2>1. \A v \in Workers : \/ worker'[v] = worker[v]
                          \/ worker'[v].pc = "idle"
                          \/ Carries(worker[v])'
      BY <1>0 DEF TxWorker
  <2> QED BY <2>1, TxBasics, AllCarry
<1>3. ASSUME NEW v \in Workers, Held(v)'
      PROVE  HeldOK(worker[v])'
  <2>1. v = w /\ worker'[w].pc # "idle"
      BY <1>3, TxBasics
  <2>2. /\ worker'[w].cmd = c /\ worker'[w].run = r /\ r \in Runs
        /\ task' = task /\ run'[r].status = run[r].status
        /\ worker'[w].handle = NoRun =>
              /\ worker[w].handle = NoRun
              /\ run'[r].off = run[r].off /\ run'[r].intent = run[r].intent
      BY <1>0, <2>1 DEF TxWorker
  <2>3. c \in Commands /\ cmd'[c].type = cmd[c].type /\ cmd'[c].expired = cmd[c].expired
      BY TxBasics
  <2>4. r # NoRun /\ ~NoRunYet
      BY <2>2, TxBasics DEF NoRunYet, Runs, NoRun
  <2>5. cmd[c].type = "cancel_task" =>
           \A q \in Runs : q > r /\ Exists(q)' => run'[q].kind = "resume"
      BY <1>0, TxBasics DEF HeldOK
  <2> QED BY <1>0, <2>1, <2>2, <2>3, <2>4, <2>5 DEF HeldOK
<1>4. LifeStep
  <2>1. task' \in TaskStatus
      BY DEF IInv, StoreTypeOK
  <2>2. \A q \in Runs : run[q].status = "succeeded" => q # r
      BY <1>0, TxBasics DEF HeldOK, NoRun, Runs
  <2>3. CASE task' = "succeeded"
    <3>1. r \in Runs /\ run'[r].status = "succeeded"
        BY <1>0, <2>3, TxBasics DEF TxTask, TerminalStatus
    <3>2. Answers' = Answers \cup {r} /\ r \in Runs \ Answers
        BY <1>0, <2>2, <3>1 DEF Answers, TxRun
    <3>3. Lifecycle!Succeed
        BY <1>0, <2>3, <3>2 DEF Lifecycle!Succeed, Lifecycle!Active, ActiveStatus
    <3> QED BY <3>3 DEF LifeStep, Lifecycle!Next
  <2>4. CASE task' # "succeeded"
    <3>1. Answers' = Answers
        BY <1>0, <2>2, <2>4 DEF Answers, TxRun
    <3>2. CASE task' \in ActiveStatus
        BY <1>0, <3>1, <3>2 DEF LifeStep, Lifecycle!Next, Lifecycle!Work, Lifecycle!Active,
               ActiveStatus
    <3>3. CASE task' \in TerminalStatus
        BY <1>0, <2>4, <3>1, <3>3 DEF LifeStep, Lifecycle!Next, Lifecycle!End,
               Lifecycle!Active, Lifecycle!Ended, ActiveStatus, TerminalStatus
    <3> QED BY <2>1, <3>2, <3>3 DEF TaskStatus
  <2> QED BY <2>3, <2>4
<1> QED BY <1>0, <1>1, <1>2, <1>3, <1>4 DEF FineStep, TInv, HeldInv, TxPause
\* What is known of a worker that still owns its command.
LEMMA Owned ==
    ASSUME TInv, NEW w \in Workers, ~At(w, "idle"), Owns(w),
           NEW c, c = worker[w].cmd, NEW r, r = worker[w].run
    PROVE  /\ Held(w) /\ c \in Commands /\ cmd[c] \in CommandRow
           /\ cmd[c].status = "dispatching" /\ cmd[c].owner = w /\ cmd[c].attempt > 0
           /\ Type(w) = cmd[c].type /\ Row(w) = cmd[c]
           /\ cmd[c].type \in CancelType <=> cmd[c].type \notin WorkType
           /\ Carries(worker[w]) /\ HeldOK(worker[w]) /\ task \in ActiveStatus
           /\ r = NoRun => NoRunYet
           /\ r # NoRun => /\ r \in Runs /\ Exists(r) /\ run[r].status # "succeeded"
                           /\ run[r].fence < c /\ run[r].fence \in Nat /\ c \in Nat
           /\ cmd[c].type \in WorkType =>
                 /\ r # NoRun /\ r = RunOf(c) /\ OpenWork(c) /\ TaskAccepts(w)
                 /\ pause[r].status = "absent" /\ Latest(r)
                 /\ run[r].intent \/ run[r].off
                 /\ worker[w].handle # NoRun => worker[w].handle = r /\ run[r].off
           /\ cmd[c].type \in CancelType /\ r # NoRun => \E q \in Runs : run[q].cancelReq
<1>1. /\ Held(w) /\ c \in Commands /\ cmd[c].status = "dispatching" /\ cmd[c].owner = w
      /\ cmd[c].attempt > 0 /\ task \in ActiveStatus
    BY HeldFacts DEF TInv, Held
<1>2. /\ cmd[c] \in CommandRow /\ worker[w] \in WorkerState
      /\ Carries(worker[w]) /\ HeldOK(worker[w])
    BY <1>1, Typed DEF TInv, CarriesInv, HeldInv
<1>3. Type(w) = cmd[c].type /\ Row(w) = cmd[c]
    BY DEF Type, Row
<1>4. cmd[c].type \in CancelType <=> cmd[c].type \notin WorkType
    BY <1>3, WorkOrCancel DEF TInv
<1>5. r = NoRun => NoRunYet
    BY <1>2 DEF HeldOK
<1>6. r # NoRun => r \in Runs /\ Exists(r) /\ run[r].status # "succeeded"
    BY <1>2 DEF WorkerState, Carries, HeldOK
<1>7. ASSUME r # NoRun PROVE run[r].fence < c /\ run[r].fence \in Nat /\ c \in Nat
  <2>1. run[r].fence \in 0 .. MaxCommands
      BY <1>6, <1>7, Typed DEF TInv, RunRow
  <2>2. ~(c <= run[r].fence)
      BY <1>1, <1>6, <1>7 DEF TInv, RowsInv, FenceInv, Finished
  <2> QED BY <1>1, <2>1, <2>2, StoreAssumption DEF Commands
<1>8. ASSUME cmd[c].type \in WorkType
      PROVE  /\ r # NoRun /\ r = RunOf(c) /\ OpenWork(c) /\ TaskAccepts(w)
             /\ pause[r].status = "absent" /\ Latest(r)
             /\ run[r].intent \/ run[r].off
             /\ worker[w].handle # NoRun => worker[w].handle = r /\ run[r].off
  <2>1. r = RunOf(c) /\ r # NoRun
      BY <1>2, <1>8 DEF Carries, WorkType
  <2>2. OpenWork(c)
      BY <1>1, <1>8 DEF OpenWork, IsUnfinished, Unfinished
  <2>3. WorkOK(c)
      BY <1>1, <2>2 DEF TInv, RowsInv, WorkInv
  <2>4. TaskAccepts(w)
      BY <1>2, <1>3, <1>8 DEF HeldOK, TaskAccepts
  <2>5. worker[w].handle # NoRun => worker[w].handle = r /\ run[r].off
      BY <1>2, <1>8 DEF Carries, WorkType
  <2>6. run[r].intent \/ run[r].off
      BY <1>2, <1>8, <2>5 DEF HeldOK
  <2> QED BY <1>1, <2>1, <2>2, <2>3, <2>4, <2>5, <2>6 DEF WorkOK
<1>9. cmd[c].type \in CancelType /\ r # NoRun => \E q \in Runs : run[q].cancelReq
  <2>1. InUse(c)
      BY <1>1 DEF InUse
  <2>2. r # NoRun => ~NoRunYet
      BY <1>6 DEF NoRunYet
  <2> QED BY <1>1, <2>1, <2>2 DEF TInv, RowsInv, AskedInv
<1> QED BY <1>1, <1>2, <1>3, <1>4, <1>5, <1>6, <1>7, <1>8, <1>9

-----------------------------------------------------------------------------
(***************************************************************************)
(* The parts of a transaction                                              *)
(***************************************************************************)
LEMMA FinishTx ==
    ASSUME cmd \in [Commands -> CommandRow], NEW w \in Workers, NEW c \in Commands,
           NEW s \in Finished, FinishCommand(c, s)
    PROVE  TxCommand(w, c) /\ cmd'[c].status = s
<1>1. cmd' = [cmd EXCEPT ![c] = Close(cmd[c], s)]
    BY DEF FinishCommand
<1>2. /\ cmd'[c] = Close(cmd[c], s) /\ cmd[c] \in CommandRow
      /\ \A d \in Commands \ {c} : cmd'[d] = cmd[d]
    BY <1>1
<1> QED BY <1>2 DEF TxCommand, Close, CommandRow

LEMMA BackoffTx ==
    ASSUME cmd \in [Commands -> CommandRow], NEW w \in Workers, NEW c \in Commands,
           NEW s \in Unfinished, BackoffCommand(c, s)
    PROVE  TxCommand(w, c) /\ cmd'[c].status = s
<1>1. cmd' = [cmd EXCEPT ![c] = Backoff(cmd[c], s)]
    BY DEF BackoffCommand
<1>2. /\ cmd'[c] = Backoff(cmd[c], s) /\ cmd[c] \in CommandRow
      /\ \A d \in Commands \ {c} : cmd'[d] = cmd[d]
    BY <1>1
<1> QED BY <1>2 DEF TxCommand, Backoff, CommandRow

LEMMA DoneTx ==
    ASSUME worker \in [Workers -> WorkerState], NEW w \in Workers, Done(w), NEW c, NEW r
    PROVE  TxWorker(w, c, r)
BY DEF TxWorker, Done, Idle

\* The Run keeps what the other rows rely on.
LEMMA SameRunTx ==
    ASSUME NEW c, NEW r, run' = run,
           r \in Runs => Exists(r) /\ run[r].status # "succeeded"
    PROVE  TxRun(c, r)
BY DEF TxRun, Exists

LEMMA PersistTx ==
    ASSUME run \in [Runs -> RunRow], NEW c, NEW r \in Runs, NEW out \in TerminalStatus,
           cmd'[c].status \in Finished, out = "succeeded" => task' = "succeeded",
           run' = [run EXCEPT ![r] = PersistTerminal(run[r], out, c)]
    PROVE  TxRun(c, r) /\ run'[r].status = out
<1>1. /\ run'[r] = PersistTerminal(run[r], out, c) /\ run[r] \in RunRow
      /\ \A q \in Runs \ {r} : run'[q] = run[q]
    OBVIOUS
<1>2. PersistTerminal(run[r], out, c) =
         [run[r] EXCEPT !.status = out, !.hash = out, !.fence = c, !.intent = FALSE]
    BY DEF PersistTerminal
<1>3. /\ run'[r].status = out /\ run'[r].fence = c /\ ~run'[r].intent
      /\ run'[r].kind = run[r].kind /\ run'[r].off = run[r].off
      /\ run'[r].cancelReq = run[r].cancelReq
    BY <1>1, <1>2 DEF RunRow
<1> QED BY <1>1, <1>3 DEF TxRun, TerminalStatus

LEMMA QueuedTx ==
    ASSUME run \in [Runs -> RunRow], NEW c, NEW r \in Runs,
           NEW b \in BOOLEAN, b => cmd[c].type \in WorkType,
           run' = [run EXCEPT ![r].status = "queued", ![r].intent = b]
    PROVE  TxRun(c, r) /\ run'[r].intent = b /\ run'[r].off = run[r].off
                       /\ run'[r].cancelReq = run[r].cancelReq
<1>1. run' = [run EXCEPT ![r] = [run[r] EXCEPT !.status = "queued", !.intent = b]]
    OBVIOUS
<1>2. /\ run'[r] = [run[r] EXCEPT !.status = "queued", !.intent = b] /\ run[r] \in RunRow
      /\ \A q \in Runs \ {r} : run'[q] = run[q]
    BY <1>1
<1>3. /\ run'[r].status = "queued" /\ run'[r].fence = run[r].fence /\ run'[r].intent = b
      /\ run'[r].kind = run[r].kind /\ run'[r].off = run[r].off
      /\ run'[r].cancelReq = run[r].cancelReq
    BY <1>2 DEF RunRow
<1> QED BY <1>2, <1>3 DEF TxRun

LEMMA SamePauseTx ==
    ASSUME NEW c, NEW r, pause' = pause
    PROVE  TxPause(c, r)
BY DEF TxPause, ReviewStep

LEMMA ResolvedTx ==
    ASSUME pause \in [Runs -> PauseRow], NEW w \in Workers, NEW c, NEW r,
           pause' = ResolvedPauses(w)
    PROVE  TxPause(c, r)
<1>1. PICK p : p = Row(w).arg
    OBVIOUS
<1>2. CASE Type(w) = "respond" /\ pause[p].status = "responding" /\ p \in Runs
  <2>1. pause' = [pause EXCEPT ![p] = [pause[p] EXCEPT !.status = "resolved"]]
      BY <1>1, <1>2 DEF ResolvedPauses
  <2>2. pause'[p].status = "resolved" /\ \A q \in Runs : q # p => pause'[q] = pause[q]
      BY <1>2, <2>1 DEF PauseRow
  <2>3. ReviewStep
    <3> SUFFICES ASSUME NEW q \in Runs, pause'[q].status # pause[q].status
                 PROVE  q = p
        BY <1>2, <2>2 DEF ReviewStep
    <3> QED BY <2>2
  <2> QED BY <1>2, <2>2, <2>3 DEF TxPause
<1>3. CASE ~(Type(w) = "respond" /\ pause[p].status = "responding" /\ p \in Runs)
  <2>1. pause' = pause
      BY <1>1, <1>3 DEF ResolvedPauses
  <2> QED BY <2>1, SamePauseTx
<1> QED BY <1>2, <1>3

LEMMA ClosedTx ==
    ASSUME pause \in [Runs -> PauseRow], NEW c, NEW r, NEW asked,
           pause' = ClosedPauses(r, asked)
    PROVE  TxPause(c, r)
<1>1. ASSUME NEW p \in Runs, pause'[p].status # pause[p].status
      PROVE  /\ pause[p].status \in ActivePause
             /\ pause'[p].status = IF asked = "resolved" /\ pause[p].status = "responding"
                                   THEN "resolved" ELSE "cancelled"
  <2>1. /\ pause[p].status \in ActivePause
        /\ pause'[p] = [pause[p] EXCEPT !.status =
                           IF asked = "resolved" /\ pause[p].status = "responding"
                           THEN "resolved" ELSE "cancelled"]
      BY <1>1 DEF ClosedPauses
  <2> QED BY <2>1 DEF PauseRow
<1>2. ReviewStep
  <2> SUFFICES ASSUME NEW p \in Runs, pause'[p].status # pause[p].status
               PROVE  \/ pause[p].status = "pending" /\ pause'[p].status = "cancelled"
                      \/ pause[p].status = "responding"
                         /\ pause'[p].status \in {"resolved", "cancelled"}
      BY DEF ReviewStep
  <2> QED BY <1>1 DEF ActivePause
<1>3. \A p \in Runs :
         /\ pause'[p].status = "pending" => pause[p].status = "pending"
         /\ pause[p].status = "absent" => pause'[p].status = "absent"
    BY <1>1 DEF ActivePause
<1> QED BY <1>2, <1>3 DEF TxPause
\* The transaction ends the command, or leaves it for a later claim.
LEMMA EndTx ==
    ASSUME TInv, IInv', NEW w \in Workers, ~At(w, "idle"), Owns(w),
           NEW c, c = worker[w].cmd, NEW r, r = worker[w].run, NEW s \in Finished,
           FinishCommand(c, s), TxRun(c, r), TxPause(c, r), TxTask(c, r),
           Done(w), UNCHANGED <<serverVars, blind>>
    PROVE  FineStep
<1>1. Held(w) /\ c \in Commands
    BY Owned
<1>2. TxCommand(w, c) /\ cmd'[c].status = s /\ TxWorker(w, c, r)
    BY <1>1, FinishTx, DoneTx, Typed DEF TInv
<1>3. TxServer(c, r)
    BY <1>2 DEF TxServer, Finished, Unfinished
<1> QED BY <1>1, <1>2, <1>3, TxFine DEF Tx

LEMMA DropTx ==
    ASSUME TInv, IInv', NEW w \in Workers, ~At(w, "idle"), Owns(w),
           NEW s \in Finished, FinishCommand(worker[w].cmd, s),
           \E q \in Runs : run[q].cancelReq,
           Done(w), UNCHANGED <<task, run, pause, serverVars, blind>>
    PROVE  FineStep
<1>1. PICK c, r : c = worker[w].cmd /\ r = worker[w].run
    OBVIOUS
<1>2. TxRun(c, r)
  <2>1. r \in Runs => Exists(r) /\ run[r].status # "succeeded"
      BY <1>1, Owned DEF NoRun, Runs
  <2> QED BY <2>1, SameRunTx
<1>3. TxPause(c, r)
    BY SamePauseTx
<1>4. TxTask(c, r)
  <2>1. task' \notin TerminalStatus
      BY <1>1, Owned DEF ActiveStatus, TerminalStatus
  <2> QED BY <2>1 DEF TxTask, TerminalStatus
<1>5. UNCHANGED <<serverVars, blind>>
    OBVIOUS
<1> QED BY <1>1, <1>2, <1>3, <1>4, <1>5, EndTx

LEMMA LaterTx ==
    ASSUME TInv, IInv', NEW w \in Workers, ~At(w, "idle"), Owns(w),
           NEW c, c = worker[w].cmd, NEW r, r = worker[w].run,
           TxCommand(w, c), cmd'[c].status \in Unfinished, task' \in ActiveStatus,
           TxRun(c, r), pause' = pause, TxServer(c, r), Done(w)
    PROVE  FineStep
<1>1. Held(w)
    BY Owned
<1>2. TxWorker(w, c, r) /\ TxPause(c, r)
    BY DoneTx, SamePauseTx, Typed DEF TInv
<1>3. TxTask(c, r)
    BY DEF TxTask, ActiveStatus, TerminalStatus, Finished, Unfinished
<1> QED BY <1>1, <1>2, <1>3, TxFine DEF Tx

\* The command waits for the next claim; nothing else was decided.
LEMMA WaitTx ==
    ASSUME TInv, IInv', NEW w \in Workers, ~At(w, "idle"), Owns(w),
           BackoffCommand(worker[w].cmd, "dispatching"),
           Done(w), UNCHANGED <<task, run, pause, serverVars, blind>>
    PROVE  FineStep
<1>1. PICK c, r : c = worker[w].cmd /\ r = worker[w].run
    OBVIOUS
<1>2. TxCommand(w, c) /\ cmd'[c].status \in Unfinished
  <2>1. c \in Commands /\ BackoffCommand(c, "dispatching")
      BY <1>1, Owned
  <2> QED BY <2>1, BackoffTx, Typed DEF TInv, Unfinished
<1>3. TxRun(c, r)
  <2>1. r \in Runs => Exists(r) /\ run[r].status # "succeeded"
      BY <1>1, Owned DEF NoRun, Runs
  <2> QED BY <2>1, SameRunTx
<1>4. TxServer(c, r)
  <2>1. cmd[c].type \in WorkType => run'[r].intent \/ run'[r].off
      BY <1>1, Owned
  <2> QED BY <2>1 DEF TxServer
<1>5. task' \in ActiveStatus
    BY <1>1, Owned
<1> QED BY <1>1, <1>2, <1>3, <1>4, <1>5, LaterTx

-----------------------------------------------------------------------------
(***************************************************************************)
(* The transactions of a work command                                      *)
(***************************************************************************)
LEMMA ScheduleFine ==
    ASSUME TInv, IInv', NEW w \in Workers, Schedule(w)
    PROVE  FineStep
<1>1. ~At(w, "idle")
    BY DEF At, Schedule
<1>2. CASE GiveUp(w)
    BY <1>2, GiveUpFine
<1>3. CASE ~GiveUp(w)
    BY <1>1, <1>3, WaitTx DEF Schedule
<1> QED BY <1>2, <1>3

LEMMA OrphanFine ==
    ASSUME TInv, IInv', NEW w \in Workers, Orphan(w)
    PROVE  FineStep
<1>1. ~At(w, "idle") /\ worker[w].pc \in WorkPC
    BY DEF At, Orphan, WorkPC
<1>2. CASE GiveUp(w)
    BY <1>2, GiveUpFine
<1>3. CASE run[worker[w].run].cancelReq /\ Read(w, "cancel_failure", "none")
  <2>1. worker[w].run # NoRun
      BY <1>1, Carried DEF Carries, WorkPC
  <2>2. NextOK(w, "cancel_failure", "none")
      BY <1>3, <2>1 DEF NextOK, WorkPC, CancelPC, HandlePC, EndPC
  <2> QED BY <1>1, <1>3, <2>2, ReadFine
<1>4. CASE /\ Owns(w) /\ BackoffCommand(worker[w].cmd, "dispatching") /\ Done(w)
           /\ run' = [run EXCEPT ![worker[w].run].cancelReq = TRUE]
           /\ UNCHANGED <<task, pause, serverVars, blind>>
  <2>1. PICK c, r : c = worker[w].cmd /\ r = worker[w].run
      OBVIOUS
  <2>2. /\ c \in Commands /\ r \in Runs /\ Exists(r) /\ run[r].status # "succeeded"
        /\ run[r].intent \/ run[r].off
        /\ task \in ActiveStatus /\ run \in [Runs -> RunRow]
    <3>1. cmd[c].type \in WorkType
        BY <1>1, <2>1, Carried DEF Carries
    <3> QED BY <1>1, <1>4, <2>1, <3>1, Owned, Typed DEF TInv
  <2>3. TxCommand(w, c) /\ cmd'[c].status \in Unfinished
      BY <1>4, <2>1, <2>2, BackoffTx, Typed DEF TInv, Unfinished
  <2>4. /\ \A q \in Runs \ {r} : run'[q] = run[q]
        /\ run'[r] = [run[r] EXCEPT !.cancelReq = TRUE]
      BY <1>4, <2>1, <2>2
  <2>5. /\ run'[r].status = run[r].status /\ run'[r].kind = run[r].kind
        /\ run'[r].off = run[r].off /\ run'[r].intent = run[r].intent
        /\ run'[r].fence = run[r].fence /\ run'[r].cancelReq
      BY <2>2, <2>4 DEF RunRow
  <2>6. TxRun(c, r)
      BY <2>2, <2>4, <2>5 DEF TxRun, Exists
  <2>7. TxServer(c, r)
      BY <1>4, <2>2, <2>5 DEF TxServer
  <2> QED BY <1>1, <1>4, <2>1, <2>2, <2>3, <2>6, <2>7, LaterTx
<1> QED BY <1>2, <1>3, <1>4 DEF Orphan

LEMMA RegisterFine ==
    ASSUME TInv, IInv', NEW w \in Workers, Register(w)
    PROVE  FineStep
<1>1. ~At(w, "idle") /\ worker[w].pc \in WorkPC /\ worker[w].pc = "register"
    BY DEF At, Register, WorkPC
<1>2. CASE GiveUp(w)
    BY <1>2, GiveUpFine
<1>3. CASE OwnsFresh(w) /\ TaskAccepts(w)
  <2>1. PICK c, r : c = worker[w].cmd /\ r = worker[w].run
      OBVIOUS
  <2>2. Owns(w)
      BY <1>3 DEF OwnsFresh
  <2>3. /\ c \in Commands /\ r \in Runs /\ Exists(r) /\ run[r].status # "succeeded"
        /\ cmd[c].type \in WorkType /\ cmd[c].status = "dispatching" /\ cmd[c].owner = w
        /\ cmd[c].attempt > 0 /\ r = RunOf(c) /\ r # NoRun
        /\ official[r] # "none" /\ cmd[c] \in CommandRow /\ Held(w)
        /\ task \in ActiveStatus /\ run \in [Runs -> RunRow]
        /\ cmd \in [Commands -> CommandRow] /\ worker \in [Workers -> WorkerState]
    <3>1. cmd[c].type \in WorkType /\ official[r] # "none"
        BY <1>1, <2>1, Carried DEF Carries
    <3> QED BY <1>1, <2>1, <2>2, <3>1, Owned, Typed DEF TInv
  <2>4. /\ run' = [run EXCEPT ![r].off = TRUE, ![r].intent = FALSE]
        /\ UNCHANGED <<task, pause>> /\ UNCHANGED <<serverVars, blind>>
      BY <1>3, <2>1 DEF Register
  <2>5. /\ \A q \in Runs \ {r} : run'[q] = run[q]
        /\ run'[r] = [run[r] EXCEPT !.off = TRUE, !.intent = FALSE]
      BY <2>3, <2>4
  <2>6. /\ run'[r].status = run[r].status /\ run'[r].kind = run[r].kind
        /\ run'[r].off /\ ~run'[r].intent
        /\ run'[r].fence = run[r].fence /\ run'[r].cancelReq = run[r].cancelReq
      BY <2>3, <2>5 DEF RunRow
  <2>7. TxRun(c, r) /\ TxPause(c, r) /\ TxServer(c, r)
      BY <2>3, <2>4, <2>5, <2>6, SamePauseTx DEF TxRun, TxServer, Exists
  <2>8. CASE run[r].cancelReq
    <3>1. cmd' = [cmd EXCEPT ![c] = [Close(cmd[c], "cancelled") EXCEPT !.off = TRUE]] /\ Done(w)
        BY <1>3, <2>1, <2>3, <2>8 DEF Register
    <3>2. cmd'[c] = [Close(cmd[c], "cancelled") EXCEPT !.off = TRUE]
          /\ \A d \in Commands \ {c} : cmd'[d] = cmd[d]
        BY <2>3, <3>1
    <3>3. TxCommand(w, c) /\ cmd'[c].status = "cancelled"
        BY <2>3, <3>2 DEF TxCommand, Close, CommandRow, Finished
    <3>4. TxTask(c, r)
      <4>1. task' \notin TerminalStatus
          BY <2>3, <2>4 DEF ActiveStatus, TerminalStatus
      <4> QED BY <2>3, <2>6, <2>8, <4>1 DEF TxTask, TerminalStatus
    <3>5. TxWorker(w, c, r)
        BY <2>3, <3>1, DoneTx
    <3> QED BY <2>1, <2>3, <2>7, <3>3, <3>4, <3>5, TxFine DEF Tx
  <2>9. CASE ~run[r].cancelReq
    <3>1. /\ cmd' = [cmd EXCEPT ![c] = [cmd[c] EXCEPT !.off = TRUE]]
          /\ worker' = [worker EXCEPT ![w] = [worker[w] EXCEPT !.pc = "drain", !.handle = r]]
        BY <1>3, <2>1, <2>3, <2>9 DEF Register
    <3>2. /\ cmd'[c] = [cmd[c] EXCEPT !.off = TRUE]
          /\ \A d \in Commands \ {c} : cmd'[d] = cmd[d]
        BY <2>3, <3>1
    <3>3. TxCommand(w, c) /\ cmd'[c].status = "dispatching"
        BY <2>3, <3>2 DEF TxCommand, CommandRow, Unfinished
    <3>4. TxTask(c, r)
        BY <2>3, <2>4, <3>3 DEF TxTask, ActiveStatus, TerminalStatus, Finished
    <3>5. PICK s : s = [worker[w] EXCEPT !.pc = "drain", !.handle = r]
        OBVIOUS
    <3>6. /\ worker'[w] = s /\ \A v \in Workers \ {w} : worker'[v] = worker[v]
          /\ s.pc = "drain" /\ s.cmd = c /\ s.run = r /\ s.handle = r
        BY <2>1, <2>3, <3>1, <3>5 DEF WorkerState
    <3>7. Carries(s)'
      <4>1. RunOf(c)' = r /\ Exists(r)'
          BY <2>3, <2>6, <3>3 DEF RunOf, ResumeOf, Exists, TxCommand
      <4>2. cmd'[c].attempt > 0 /\ cmd'[c].type \in WorkType
          BY <2>3, <3>3 DEF TxCommand
      <4> QED BY <2>3, <2>6, <3>6, <4>1, <4>2
              DEF Carries, WorkPC, CancelPC, HandlePC, EndPC
    <3>8. TxWorker(w, c, r)
        BY <2>3, <2>4, <2>6, <3>6, <3>7 DEF TxWorker
    <3> QED BY <2>1, <2>3, <2>7, <3>3, <3>4, <3>8, TxFine DEF Tx
  <2> QED BY <2>8, <2>9
<1> QED BY <1>2, <1>3 DEF Register
LEMMA MarkFine ==
    ASSUME TInv, IInv', NEW w \in Workers, Mark(w)
    PROVE  FineStep
<1>1. ~At(w, "idle") /\ worker[w].pc \in WorkPC
    BY DEF At, Mark, WorkPC
<1>2. CASE GiveUp(w)
    BY <1>2, GiveUpFine
<1>3. CASE ~GiveUp(w)
  <2>1. PICK c, r, p : c = worker[w].cmd /\ r = worker[w].run /\ p = Row(w).arg
      OBVIOUS
  <2>2. PICK settled : settled = ResolvedPauses(w)
      OBVIOUS
  <2>3. /\ Owns(w)
        /\ pause' = [settled EXCEPT ![r].status = IF settled[r].status = "absent"
                                                  THEN "pending" ELSE settled[r].status]
        /\ run' = [run EXCEPT ![r].status = "waiting_human", ![r].ckpt = TRUE]
        /\ task' = "waiting_human" /\ FinishCommand(c, "dispatched")
        /\ Done(w) /\ UNCHANGED <<serverVars, blind>>
      BY <1>3, <2>1, <2>2 DEF Mark
  <2>4. /\ c \in Commands /\ r \in Runs /\ Exists(r) /\ pause[r].status = "absent"
        /\ cmd[c].type \in WorkType
        /\ run \in [Runs -> RunRow] /\ pause \in [Runs -> PauseRow]
    <3>1. cmd[c].type \in WorkType
        BY <1>1, <2>1, Carried DEF Carries
    <3> QED BY <1>1, <2>1, <2>3, <3>1, Owned, Typed DEF TInv
  <2>5. cmd'[c].status = "dispatched" /\ EndsWork(c)
    <3>1. "dispatched" \in Finished
        BY DEF Finished
    <3> QED BY <2>3, <2>4, <3>1, FinishTx, Typed DEF TInv, EndsWork
  <2>6. /\ settled[r].status = "absent" /\ settled \in [Runs -> PauseRow]
        /\ \A q \in Runs : \/ settled[q].status = pause[q].status
                           \/ pause[q].status = "responding" /\ settled[q].status = "resolved"
    <3>1. CASE Type(w) = "respond" /\ pause[p].status = "responding" /\ p \in Runs
      <4>1. settled = [pause EXCEPT ![p] = [pause[p] EXCEPT !.status = "resolved"]]
          BY <2>1, <2>2, <3>1 DEF ResolvedPauses
      <4>2. /\ settled[p].status = "resolved"
            /\ \A q \in Runs : q # p => settled[q] = pause[q]
          BY <2>4, <3>1, <4>1 DEF PauseRow
      <4>3. settled \in [Runs -> PauseRow]
          BY <2>2, <2>4, ResolvedPausesType
      <4> QED BY <2>4, <3>1, <4>2, <4>3
    <3>2. CASE ~(Type(w) = "respond" /\ pause[p].status = "responding" /\ p \in Runs)
      <4>1. settled = pause
          BY <2>1, <2>2, <2>4, <3>2 DEF ResolvedPauses
      <4> QED BY <2>4, <4>1
    <3> QED BY <3>1, <3>2
  <2>7. /\ pause'[r].status = "pending"
        /\ \A q \in Runs : q # r => pause'[q] = settled[q]
    <3>1. pause' = [settled EXCEPT ![r] = [settled[r] EXCEPT !.status = "pending"]]
        BY <2>3, <2>4, <2>6
    <3> QED BY <2>4, <2>6, <3>1 DEF PauseRow
  <2>8. TxPause(c, r)
    <3>1. ReviewStep
      <4> SUFFICES ASSUME NEW q \in Runs, pause'[q].status # pause[q].status
                   PROVE  \/ pause[q].status = "absent" /\ pause'[q].status = "pending"
                          \/ pause[q].status = "responding" /\ pause'[q].status = "resolved"
          BY DEF ReviewStep
      <4> QED BY <2>4, <2>6, <2>7
    <3> QED BY <2>5, <2>6, <2>7, <3>1 DEF TxPause
  <2>9. TxRun(c, r)
    <3>1. run' = [run EXCEPT ![r] = [run[r] EXCEPT !.status = "waiting_human", !.ckpt = TRUE]]
        BY <2>3, <2>4
    <3>2. /\ \A q \in Runs \ {r} : run'[q] = run[q]
          /\ run'[r] = [run[r] EXCEPT !.status = "waiting_human", !.ckpt = TRUE]
        BY <2>4, <3>1
    <3>3. /\ run'[r].status = "waiting_human" /\ run'[r].kind = run[r].kind
          /\ run'[r].off = run[r].off /\ run'[r].intent = run[r].intent
          /\ run'[r].fence = run[r].fence /\ run'[r].cancelReq = run[r].cancelReq
        BY <2>4, <3>2 DEF RunRow
    <3> QED BY <2>5, <3>2, <3>3 DEF TxRun
  <2>10. TxTask(c, r)
      BY <2>3, <2>4, <2>7 DEF TxTask, TerminalStatus
  <2>11. "dispatched" \in Finished
      BY DEF Finished
  <2> QED BY <1>1, <2>1, <2>3, <2>8, <2>9, <2>10, <2>11, EndTx
<1> QED BY <1>2, <1>3

LEMMA RememberFine ==
    ASSUME TInv, IInv', NEW w \in Workers, Remember(w)
    PROVE  FineStep
<1>1. ~At(w, "idle") /\ worker[w].pc = "remember"
    BY DEF At, Remember
<1>2. CASE GiveUp(w)
    BY <1>2, GiveUpFine
<1>3. CASE ~GiveUp(w)
  <2>1. PICK c, r : c = worker[w].cmd /\ r = worker[w].run
      OBVIOUS
  <2>2. /\ Owns(w) /\ run' = [run EXCEPT ![r].obs = worker[w].note]
        /\ Goto(w, "join", "none") \/ Goto(w, "finalize", "failed")
        /\ UNCHANGED <<task, cmd, pause>> /\ UNCHANGED <<serverVars, blind>>
      BY <1>3, <2>1 DEF Remember
  <2>3. /\ c \in Commands /\ r \in Runs /\ Exists(r) /\ run[r].status # "succeeded"
        /\ cmd[c].status = "dispatching" /\ cmd[c].owner = w /\ cmd[c].attempt > 0
        /\ Held(w) /\ r # NoRun /\ task \in ActiveStatus /\ Carries(worker[w])
        /\ run[r].intent \/ run[r].off \/ cmd[c].type \notin WorkType
        /\ run \in [Runs -> RunRow]
        /\ worker \in [Workers -> WorkerState] /\ worker[w] \in WorkerState
    <3>1. r # NoRun
        BY <1>1, <2>1, Carried DEF Carries
    <3> QED BY <1>1, <2>1, <2>2, <3>1, Owned, Typed DEF TInv
  <2>4. PICK s : s = worker'[w]
      OBVIOUS
  <2>5. /\ s.pc \in {"join", "finalize"} /\ s.note \in {"none", "failed"}
        /\ s.cmd = c /\ s.run = r /\ s.handle = worker[w].handle /\ s.obs = worker[w].obs
        /\ \A v \in Workers \ {w} : worker'[v] = worker[v]
      BY <2>1, <2>2, <2>3, <2>4 DEF Goto, WorkerState
  <2>6. /\ \A q \in Runs \ {r} : run'[q] = run[q]
        /\ run'[r] = [run[r] EXCEPT !.obs = worker[w].note]
      BY <2>2, <2>3
  <2>7. /\ run'[r].status = run[r].status /\ run'[r].kind = run[r].kind
        /\ run'[r].off = run[r].off /\ run'[r].intent = run[r].intent
        /\ run'[r].fence = run[r].fence /\ run'[r].cancelReq = run[r].cancelReq
      BY <2>3, <2>6 DEF RunRow
  <2>8. TxRun(c, r) /\ TxPause(c, r)
      BY <2>2, <2>3, <2>6, <2>7, SamePauseTx DEF TxRun, Exists
  <2>9. TxCommand(w, c) /\ cmd'[c].status = "dispatching"
      BY <2>2, <2>3 DEF TxCommand, Unfinished
  <2>10. TxTask(c, r)
      BY <2>2, <2>3, <2>9 DEF TxTask, ActiveStatus, TerminalStatus, Finished
  <2>11. TxServer(c, r)
      BY <2>2, <2>3, <2>7 DEF TxServer
  <2>12. Carries(s)'
    <3>1. /\ cmd'[c].attempt > 0 /\ cmd'[c].type = cmd[c].type
          /\ RunOf(c)' = RunOf(c) /\ Exists(r)'
        BY <2>2, <2>3, <2>7 DEF RunOf, ResumeOf, Exists
    <3>2. cmd[c].type \in WorkType => r = RunOf(c) /\ worker[w].handle # NoRun
        BY <1>1, <2>1, <2>3 DEF Carries, EndPC
    <3>3. worker[w].handle # NoRun =>
             /\ run'[worker[w].handle].off
             /\ worker[w].handle = r \/ (cmd[c].type = "cancel_task" /\ run'[r].kind = "resume")
      <4>1. worker[w].handle # NoRun =>
               /\ worker[w].handle \in Runs /\ run[worker[w].handle].off
               /\ worker[w].handle = r \/ (cmd[c].type = "cancel_task" /\ run[r].kind = "resume")
          BY <2>1, <2>3 DEF Carries, WorkerState
      <4>2. \A q \in Runs : run'[q].off = run[q].off
          BY <2>6, <2>7
      <4> QED BY <2>7, <4>1, <4>2
    <3> QED BY <2>3, <2>5, <3>1, <3>2, <3>3
            DEF Carries, WorkPC, CancelPC, HandlePC, EndPC
  <2>13. TxWorker(w, c, r)
      BY <2>2, <2>3, <2>4, <2>5, <2>7, <2>12 DEF TxWorker
  <2> QED BY <2>1, <2>3, <2>8, <2>9, <2>10, <2>11, <2>13, TxFine DEF Tx
<1> QED BY <1>2, <1>3

LEMMA FinalizeFine ==
    ASSUME TInv, IInv', NEW w \in Workers, Finalize(w)
    PROVE  FineStep
<1>1. ~At(w, "idle") /\ worker[w].pc = "finalize"
    BY DEF At, Finalize
<1>2. CASE GiveUp(w)
    BY <1>2, GiveUpFine
<1>3. CASE Owns(w) /\ ~ProjectionAccepted(w)
  <2>1. \E q \in Runs : run[q].cancelReq
    <3>1. worker[w].run # NoRun
        BY <1>1, Carried DEF Carries
    <3>2. Type(w) \in CancelType
        BY <1>1, <1>3, Owned DEF ProjectionAccepted
    <3> QED BY <1>1, <1>3, <3>1, <3>2, Owned
  <2>2. "cancelled" \in Finished
      BY DEF Finished
  <2> QED BY <1>1, <1>3, <2>1, <2>2, DropTx DEF Finalize
<1>4. CASE Owns(w) /\ ProjectionAccepted(w)
  <2>1. PICK c, r, out : c = worker[w].cmd /\ r = worker[w].run /\ out = worker[w].note
      OBVIOUS
  <2>2. /\ c \in Commands /\ r \in Runs /\ run[r].fence < c
        /\ run[r].fence \in Nat /\ c \in Nat
        /\ run \in [Runs -> RunRow] /\ pause \in [Runs -> PauseRow]
        /\ out \in TerminalStatus /\ out # "cancelled"
    <3>1. r # NoRun /\ out # "cancelled"
        BY <1>1, <2>1, Carried DEF Carries
    <3>2. out \in TerminalStatus
        BY <1>1, <2>1 DEF TInv, IInv, WorkerInv, WorkerOK
    <3> QED BY <1>1, <1>4, <2>1, <3>1, <3>2, Owned, Typed DEF TInv
  <2>3. ~(run[r].fence = c) /\ ~(run[r].fence > c)
      BY <2>2
  <2>4. /\ pause' = ProjectedPauses(w) /\ Done(w) /\ UNCHANGED <<serverVars, blind>>
        /\ run' = [run EXCEPT ![r] = PersistTerminal(run[r], out, c)]
        /\ task' = out /\ FinishCommand(c, "dispatched")
      BY <1>4, <2>1, <2>2, <2>3 DEF Finalize
  <2>5. "dispatched" \in Finished
      BY DEF Finished
  <2>6. cmd'[c].status = "dispatched"
      BY <2>2, <2>4, <2>5, FinishTx, Typed DEF TInv
  <2>7. TxRun(c, r) /\ run'[r].status = out
      BY <2>2, <2>4, <2>5, <2>6, PersistTx
  <2>8. TxPause(c, r)
      BY <2>1, <2>2, <2>4, ResolvedTx, ClosedTx DEF ProjectedPauses
  <2>9. TxTask(c, r)
      BY <2>2, <2>4, <2>7 DEF TxTask, TerminalStatus, ActiveStatus, NoRun, Runs
  <2> QED BY <1>1, <1>4, <2>1, <2>4, <2>5, <2>7, <2>8, <2>9, EndTx
<1> QED BY <1>2, <1>3, <1>4 DEF Finalize

LEMMA RecordDatabaseErrorFine ==
    ASSUME TInv, IInv', NEW w \in Workers, RecordDatabaseError(w)
    PROVE  FineStep
<1>1. ~At(w, "idle") /\ worker[w].pc = "db_error"
    BY DEF At, RecordDatabaseError
<1>2. CASE GiveUp(w)
    BY <1>2, GiveUpFine
<1>3. CASE Owns(w)
  <2>1. PICK c, r : c = worker[w].cmd /\ r = worker[w].run
      OBVIOUS
  <2>2. /\ c \in Commands /\ r \in Runs /\ run[r].fence < c
        /\ run[r].fence \in Nat /\ c \in Nat
        /\ run \in [Runs -> RunRow]
        /\ cmd[c].type \in WorkType => run[r].off
    <3>1. r # NoRun /\ (cmd[c].type \in WorkType => worker[w].handle # NoRun)
        BY <1>1, <2>1, Carried DEF Carries, EndPC
    <3> QED BY <1>1, <1>3, <2>1, <3>1, Owned, Typed DEF TInv
  <2>3. ~(run[r].fence = c)
      BY <2>2
  <2>4. CASE /\ task' = "queued" /\ BackoffCommand(c, "pending")
             /\ run' = [run EXCEPT ![r].status = "queued", ![r].intent = FALSE]
             /\ Done(w) /\ UNCHANGED <<pause, serverVars, blind>>
    <3>1. TxCommand(w, c) /\ cmd'[c].status \in Unfinished
        BY <2>2, <2>4, BackoffTx, Typed DEF TInv, Unfinished
    <3>2. TxRun(c, r) /\ run'[r].off = run[r].off
        BY <2>2, <2>4, QueuedTx
    <3>3. TxServer(c, r)
        BY <2>2, <2>4, <3>2 DEF TxServer
    <3> QED BY <1>1, <1>3, <2>1, <2>4, <3>1, <3>2, <3>3, LaterTx DEF ActiveStatus
  <2>5. CASE /\ task' = "failed" /\ FinishCommand(c, "failed")
             /\ run' = [run EXCEPT ![r] = PersistTerminal(run[r], "failed", c)]
             /\ Done(w) /\ UNCHANGED <<pause, serverVars, blind>>
    <3>1. "failed" \in Finished /\ "failed" \in TerminalStatus
        BY DEF Finished, TerminalStatus
    <3>2. cmd'[c].status = "failed"
        BY <2>2, <2>5, <3>1, FinishTx, Typed DEF TInv
    <3>3. TxRun(c, r) /\ run'[r].status = "failed"
        BY <2>2, <2>5, <3>1, <3>2, PersistTx
    <3>4. TxTask(c, r)
        BY <2>2, <2>5, <3>3 DEF TxTask, ActiveStatus
    <3>5. TxPause(c, r) /\ UNCHANGED <<serverVars, blind>>
        BY <2>5, SamePauseTx
    <3> QED BY <1>1, <1>3, <2>1, <2>5, <3>1, <3>3, <3>4, <3>5, EndTx
  <2> QED BY <1>3, <2>1, <2>3, <2>4, <2>5 DEF RecordDatabaseError
<1> QED BY <1>2, <1>3 DEF RecordDatabaseError
-----------------------------------------------------------------------------
(***************************************************************************)
(* _record_remote_error                                                    *)
(***************************************************************************)
LEMMA RemoteErrorBasics ==
    ASSUME TInv, NEW w \in Workers, At(w, "remote_error")
    PROVE  /\ ~At(w, "idle") /\ worker[w].pc \in WorkPC
           /\ cmd[worker[w].cmd].type \in WorkType
           /\ Type(w) \in WorkType
<1>1. ~At(w, "idle") /\ worker[w].pc \in WorkPC
    BY DEF At, WorkPC
<1> QED BY <1>1, Carried DEF Carries

\* What an error leaves without an intent was created by nobody, unless the
\* intent is dropped blindly.
LEMMA RequeueFine ==
    ASSUME TInv, IInv', NEW w \in Workers, At(w, "remote_error"), Owns(w),
           NEW c, c = worker[w].cmd, NEW r, r = worker[w].run, NEW keep \in BOOLEAN,
           run' = [run EXCEPT ![r].status = "queued", ![r].intent = keep],
           blind' = [blind EXCEPT ![r] = blind[r] \/ (~keep /\ OutcomeUnknown(r))],
           task' = RequeuedTask(w), TxCommand(w, c), cmd'[c].status \in Unfinished,
           Done(w), UNCHANGED <<pause, serverVars>>
    PROVE  FineStep
<1>1. /\ ~At(w, "idle") /\ c \in Commands /\ r \in Runs
      /\ cmd[c].type \in WorkType /\ run \in [Runs -> RunRow]
      /\ blind \in [Runs -> BOOLEAN] /\ official \in [Runs -> OfficialStatus]
    BY RemoteErrorBasics, Owned, Typed DEF TInv
<1>2. TxRun(c, r) /\ run'[r].intent = keep /\ run'[r].off = run[r].off
  <2>1. keep => cmd[c].type \in WorkType
      BY <1>1
  <2> QED BY ONLY <1>1, <2>1, QueuedTx, keep \in BOOLEAN,
                  run' = [run EXCEPT ![r].status = "queued", ![r].intent = keep]
<1>3. task' \in ActiveStatus
    BY DEF RequeuedTask, ActiveStatus
<1>4. \A q \in Runs : blind[q] => blind'[q]
    BY <1>1
<1>5. ASSUME ~run'[r].off, ~run'[r].intent, ~blind'[r]
      PROVE  Clean(r)
  <2>1. ~OutcomeUnknown(r) /\ ~run[r].off
      BY <1>1, <1>2, <1>5
  <2> QED BY <1>1, <2>1 DEF OutcomeUnknown, Clean, Creating
<1>6. TxServer(c, r)
    BY <1>4, <1>5 DEF TxServer
<1> QED BY <1>1, <1>2, <1>3, <1>6, LaterTx

LEMMA RemoteErrorRequeuesFine ==
    ASSUME TInv, IInv', NEW w \in Workers, RemoteErrorRequeues(w)
    PROVE  FineStep
<1>1. PICK c, r, keep : /\ c = worker[w].cmd /\ r = worker[w].run
                        /\ keep = (worker[w].note = "indeterminate")
    OBVIOUS
<1>2. /\ At(w, "remote_error") /\ Owns(w) /\ keep \in BOOLEAN
      /\ run' = [run EXCEPT ![r].status = "queued", ![r].intent = keep]
      /\ blind' = [blind EXCEPT ![r] = blind[r] \/ (~keep /\ OutcomeUnknown(r))]
      /\ task' = RequeuedTask(w)
      /\ cmd' = [cmd EXCEPT ![c] = RequeuedCommand(w)]
      /\ Done(w) /\ UNCHANGED <<pause, serverVars>>
    BY <1>1 DEF RemoteErrorRequeues
<1>3. /\ c \in Commands /\ cmd \in [Commands -> CommandRow] /\ Row(w) = cmd[c]
      /\ cmd[c].status = "dispatching" /\ cmd[c].owner = w
    BY <1>1, <1>2, RemoteErrorBasics, Owned, Typed DEF TInv
<1>4. TxCommand(w, c) /\ cmd'[c].status \in Unfinished
  <2>1. CASE RequeuedCommand(w) = [Row(w) EXCEPT !.lease = "due"]
    <3>1. /\ cmd'[c] = [cmd[c] EXCEPT !.lease = "due"]
          /\ \A d \in Commands \ {c} : cmd'[d] = cmd[d]
        BY <1>2, <1>3, <2>1
    <3> QED BY <1>3, <3>1 DEF TxCommand, CommandRow, Unfinished
  <2>2. CASE RequeuedCommand(w) = Backoff(Row(w), "pending")
    <3>1. BackoffCommand(c, "pending")
        BY <1>2, <1>3, <2>2 DEF BackoffCommand
    <3> QED BY <1>3, <3>1, BackoffTx DEF Unfinished
  <2> QED BY <2>1, <2>2 DEF RequeuedCommand
<1> QED BY <1>1, <1>2, <1>4, RequeueFine

LEMMA RemoteErrorFallsBackFine ==
    ASSUME TInv, IInv', NEW w \in Workers, RemoteErrorFallsBack(w)
    PROVE  FineStep
<1>1. PICK c, r, keep : c = worker[w].cmd /\ r = worker[w].run /\ keep = FALSE
    OBVIOUS
<1>2. /\ At(w, "remote_error") /\ Owns(w) /\ keep \in BOOLEAN
      /\ run' = [run EXCEPT ![r].status = "queued", ![r].intent = keep]
      /\ blind' = [blind EXCEPT ![r] = blind[r] \/ (~keep /\ OutcomeUnknown(r))]
      /\ task' = RequeuedTask(w) /\ BackoffCommand(c, "pending")
      /\ Done(w) /\ UNCHANGED <<pause, serverVars>>
    BY <1>1 DEF RemoteErrorFallsBack
<1>3. c \in Commands /\ cmd \in [Commands -> CommandRow]
    BY <1>1, <1>2, RemoteErrorBasics, Owned, Typed DEF TInv
<1>4. TxCommand(w, c) /\ cmd'[c].status \in Unfinished
    BY <1>2, <1>3, BackoffTx DEF Unfinished
<1> QED BY <1>1, <1>2, <1>4, RequeueFine

LEMMA RemoteErrorFailsFine ==
    ASSUME TInv, IInv', NEW w \in Workers, RemoteErrorFails(w)
    PROVE  FineStep
<1>1. PICK c, r, p : c = worker[w].cmd /\ r = worker[w].run /\ p = Row(w).arg
    OBVIOUS
<1>2. /\ At(w, "remote_error") /\ Owns(w) /\ PauseLineageOK(w)
      /\ run' = [run EXCEPT ![r] = PersistTerminal(run[r], "failed", c)]
      /\ task' = "failed" /\ FinishCommand(c, "failed")
      /\ pause' = IF Type(w) = "respond"
                  THEN [pause EXCEPT ![p].status = "resume_failed"] ELSE pause
      /\ Done(w) /\ UNCHANGED <<serverVars, blind>>
    BY <1>1 DEF RemoteErrorFails
<1>3. /\ ~At(w, "idle") /\ c \in Commands /\ r \in Runs
      /\ run \in [Runs -> RunRow] /\ pause \in [Runs -> PauseRow]
    BY <1>1, <1>2, RemoteErrorBasics, Owned, Typed DEF TInv
<1>4. "failed" \in Finished /\ "failed" \in TerminalStatus
    BY DEF Finished, TerminalStatus
<1>5. cmd'[c].status = "failed"
    BY <1>2, <1>3, <1>4, FinishTx, Typed DEF TInv
<1>6. TxRun(c, r) /\ run'[r].status = "failed"
    BY <1>2, <1>3, <1>4, <1>5, PersistTx
<1>7. TxTask(c, r)
    BY <1>2, <1>3, <1>6 DEF TxTask, ActiveStatus
<1>8. TxPause(c, r)
  <2>1. CASE Type(w) = "respond" /\ p \in Runs
    <3>1. pause[p].status \in {"responding", "expired"}
        BY <1>1, <1>2, <2>1 DEF PauseLineageOK
    <3>2. pause' = [pause EXCEPT ![p] = [pause[p] EXCEPT !.status = "resume_failed"]]
        BY <1>2, <2>1
    <3>3. /\ pause'[p].status = "resume_failed"
          /\ \A q \in Runs : q # p => pause'[q] = pause[q]
        BY <1>3, <2>1, <3>2 DEF PauseRow
    <3>4. ReviewStep
      <4> SUFFICES ASSUME NEW q \in Runs, pause'[q].status # pause[q].status
                   PROVE  q = p
          BY <3>1, <3>3 DEF ReviewStep
      <4> QED BY <3>3
    <3> QED BY <3>1, <3>3, <3>4 DEF TxPause
  <2>2. CASE ~(Type(w) = "respond" /\ p \in Runs)
    <3>1. pause' = pause
        BY <1>2, <1>3, <2>2
    <3> QED BY <3>1, SamePauseTx
  <2> QED BY <2>1, <2>2
<1> QED BY <1>1, <1>2, <1>3, <1>4, <1>6, <1>7, <1>8, EndTx

LEMMA RemoteErrorDropsFine ==
    ASSUME TInv, IInv', NEW w \in Workers, RemoteErrorDrops(w)
    PROVE  FineStep
<1>1. At(w, "remote_error")
    BY DEF RemoteErrorDrops
<1>2. CASE GiveUp(w)
    BY <1>2, GiveUpFine
<1>3. CASE Owns(w) /\ run[worker[w].run].cancelReq /\ ~GiveUp(w)
  <2>1. /\ ~At(w, "idle") /\ worker[w].run \in Runs
      BY <1>1, <1>3, RemoteErrorBasics, Owned
  <2>2. "cancelled" \in Finished
      BY DEF Finished
  <2> QED BY <1>3, <2>1, <2>2, DropTx DEF RemoteErrorDrops
<1> QED BY <1>2, <1>3 DEF RemoteErrorDrops

-----------------------------------------------------------------------------
(***************************************************************************)
(* The transactions of a cancel command                                    *)
(***************************************************************************)
LEMMA CancelRetryFine ==
    ASSUME TInv, IInv', NEW w \in Workers, CancelRetry(w)
    PROVE  FineStep
<1>1. ~At(w, "idle") /\ At(w, "cancel_retry")
    BY DEF At, CancelRetry
<1>2. CASE GiveUp(w)
    BY <1>2, GiveUpFine
<1>3. CASE Read(w, "cancel_failure", "none")
    BY <1>1, <1>3, CancelGoes, ReadFine DEF At
<1>4. CASE ~GiveUp(w) /\ ~Read(w, "cancel_failure", "none")
    BY <1>1, <1>4, WaitTx DEF CancelRetry
<1> QED BY <1>2, <1>3, <1>4

LEMMA CancelRegisterFine ==
    ASSUME TInv, IInv', NEW w \in Workers, CancelRegister(w)
    PROVE  FineStep
<1>1. ~At(w, "idle") /\ worker[w].pc = "cancel_register"
    BY DEF At, CancelRegister
<1>2. CASE GiveUp(w)
    BY <1>2, GiveUpFine
<1>3. CASE Owns(w)
  <2>1. PICK c, r : c = worker[w].cmd /\ r = worker[w].run
      OBVIOUS
  <2>2. /\ c \in Commands /\ r \in Runs /\ Exists(r) /\ run[r].status # "succeeded"
        /\ cmd[c].type \in CancelType /\ cmd[c].type \notin WorkType
        /\ cmd[c].status = "dispatching" /\ cmd[c].owner = w
        /\ cmd[c].attempt > 0 /\ r # NoRun /\ official[r] # "none" /\ Held(w)
        /\ task \in ActiveStatus /\ run \in [Runs -> RunRow] /\ cmd[c] \in CommandRow
        /\ cmd \in [Commands -> CommandRow] /\ worker \in [Workers -> WorkerState]
    <3>1. cmd[c].type \in CancelType /\ official[r] # "none" /\ r # NoRun
        BY <1>1, <2>1, Carried DEF Carries, CancelPC
    <3> QED BY <1>1, <1>3, <2>1, <3>1, Owned, Typed DEF TInv
  <2>3. /\ run' = [run EXCEPT ![r].off = TRUE]
        /\ cmd' = [cmd EXCEPT ![c].off = TRUE]
        /\ worker' = [worker EXCEPT ![w].pc = "cancel_call", ![w].handle = r]
        /\ UNCHANGED <<task, pause>> /\ UNCHANGED <<serverVars, blind>>
      BY <1>3, <2>1 DEF CancelRegister
  <2>4. /\ \A q \in Runs \ {r} : run'[q] = run[q]
        /\ run'[r] = [run[r] EXCEPT !.off = TRUE]
        /\ \A d \in Commands \ {c} : cmd'[d] = cmd[d]
        /\ cmd'[c] = [cmd[c] EXCEPT !.off = TRUE]
      BY <2>2, <2>3
  <2>5. /\ run'[r].status = run[r].status /\ run'[r].kind = run[r].kind
        /\ run'[r].off /\ run'[r].intent = run[r].intent
        /\ run'[r].fence = run[r].fence /\ run'[r].cancelReq = run[r].cancelReq
      BY <2>2, <2>4 DEF RunRow
  <2>6. TxRun(c, r) /\ TxPause(c, r) /\ TxServer(c, r)
      BY <2>2, <2>3, <2>4, <2>5, SamePauseTx DEF TxRun, TxServer, Exists
  <2>7. TxCommand(w, c) /\ cmd'[c].status = "dispatching"
      BY <2>2, <2>4 DEF TxCommand, CommandRow, Unfinished
  <2>8. TxTask(c, r)
      BY <2>2, <2>3, <2>7 DEF TxTask, ActiveStatus, TerminalStatus, Finished
  <2>9. PICK s : s = [worker[w] EXCEPT !.pc = "cancel_call", !.handle = r]
      OBVIOUS
  <2>10. /\ worker'[w] = s /\ \A v \in Workers \ {w} : worker'[v] = worker[v]
         /\ s.pc = "cancel_call" /\ s.cmd = c /\ s.run = r /\ s.handle = r
    <3>1. worker' = [worker EXCEPT ![w] = s]
        BY <2>2, <2>3, <2>9
    <3> QED BY <2>1, <2>2, <2>9, <3>1 DEF WorkerState
  <2>11. Carries(s)'
    <3>1. /\ cmd'[c].attempt > 0 /\ cmd'[c].type \in CancelType /\ cmd'[c].type \notin WorkType
          /\ Exists(r)'
        BY <2>2, <2>5, <2>7 DEF Exists, TxCommand
    <3> QED BY <2>2, <2>5, <2>10, <3>1 DEF Carries, WorkPC, CancelPC, HandlePC, EndPC
  <2>12. TxWorker(w, c, r)
      BY <2>2, <2>3, <2>5, <2>10, <2>11 DEF TxWorker
  <2> QED BY <2>1, <2>2, <2>6, <2>7, <2>8, <2>12, TxFine DEF Tx
<1> QED BY <1>2, <1>3 DEF CancelRegister

\* The row of the Run, if there is one, is that of PersistTerminal.
LEMMA EndRunTx ==
    ASSUME run \in [Runs -> RunRow], NEW w \in Workers,
           NEW c, c = worker[w].cmd, NEW r, r = worker[w].run, r \in {NoRun} \cup Runs,
           NEW out \in {"failed", "cancelled"}, EndRun(w, out), cmd'[c].status \in Finished
    PROVE  TxRun(c, r) /\ (r \in Runs => run'[r].status = out)
<1>1. CASE r \in Runs
  <2>1. run' = [run EXCEPT ![r] = PersistTerminal(run[r], out, c)]
      BY <1>1 DEF EndRun
  <2>2. out \in TerminalStatus
      BY DEF TerminalStatus
  <2> QED BY <1>1, <2>1, <2>2, PersistTx
<1>2. CASE r \notin Runs
  <2>1. run' = run
      BY <1>2 DEF EndRun
  <2> QED BY <1>2, <2>1, SameRunTx
<1> QED BY <1>1, <1>2

LEMMA CancelFailureFine ==
    ASSUME TInv, IInv', NEW w \in Workers, CancelFailure(w)
    PROVE  FineStep
<1>1. ~At(w, "idle") /\ worker[w].pc = "cancel_failure"
    BY DEF At, CancelFailure
<1>2. CASE GiveUp(w)
    BY <1>2, GiveUpFine
<1>3. CASE Owns(w)
  <2>1. PICK c, r : c = worker[w].cmd /\ r = worker[w].run
      OBVIOUS
  <2>2. /\ c \in Commands /\ r \in Runs /\ task \in ActiveStatus
        /\ run \in [Runs -> RunRow] /\ pause \in [Runs -> PauseRow]
        /\ \E q \in Runs : run[q].cancelReq
    <3>1. r # NoRun /\ (Type(w) \in WorkType => run[r].cancelReq)
        BY <1>1, <2>1, Carried DEF Carries
    <3> QED BY <1>1, <1>3, <2>1, <3>1, Owned, Typed DEF TInv
  <2>3. task \notin TerminalStatus
      BY <2>2 DEF ActiveStatus, TerminalStatus
  <2>4. /\ pause' = ClosedPauses(r, "cancelled")
        /\ task' = "failed" \/ task' = task
        /\ FinishCommand(c, "failed") /\ EndRun(w, "failed")
        /\ Done(w) /\ UNCHANGED <<serverVars, blind>>
      BY <1>3, <2>1, <2>3 DEF CancelFailure
  <2>5. "failed" \in Finished
      BY DEF Finished
  <2>6. cmd'[c].status = "failed"
      BY <2>2, <2>4, <2>5, FinishTx, Typed DEF TInv
  <2>7. TxRun(c, r) /\ run'[r].status = "failed"
      BY <2>1, <2>2, <2>4, <2>5, <2>6, EndRunTx
  <2>8. TxPause(c, r)
      BY <2>2, <2>4, ClosedTx
  <2>9. TxTask(c, r)
    <3>1. \E q \in Runs : run'[q].cancelReq
        BY <2>2, <2>7 DEF TxRun
    <3> QED BY <2>2, <2>3, <2>4, <2>7, <3>1 DEF TxTask, ActiveStatus
  <2> QED BY <1>1, <1>3, <2>1, <2>4, <2>5, <2>7, <2>8, <2>9, EndTx
<1> QED BY <1>2, <1>3 DEF CancelFailure

\* A cancellation ends the Task only after the official Run of the newest
\* Run was stopped.
LEMMA StopsNewest ==
    ASSUME TInv, NEW w \in Workers, At(w, "cancel_finalize"), Owns(w), TargetIsLatest(w),
           NEW q \in Runs, Latest(q), run[q].kind # "resume"
    PROVE  blind[q] \/ official[q] \notin {"none", "active"}
<1> DEFINE r == worker[w].run
           h == worker[w].handle
<1>1. ~At(w, "idle")
    BY DEF At
<1>2. /\ Carries(worker[w]) /\ HeldOK(worker[w]) /\ Type(w) = cmd[worker[w].cmd].type
      /\ r # NoRun => r \in Runs /\ Exists(r)
      /\ r = NoRun => NoRunYet
    BY <1>1, Owned
<1>3. r \in Runs /\ Exists(r)
    BY <1>2 DEF NoRunYet, Latest
<1>4. q = r
  <2>1. CASE Type(w) = "cancel_task"
    <3>1. ~(q > r)
        BY <1>2, <2>1 DEF HeldOK, Latest
    <3>2. ~(r > q)
        BY <1>3 DEF Latest
    <3> QED BY <1>3, <3>1, <3>2 DEF Runs
  <2>2. CASE Type(w) = "cancel_run" /\ Latest(r)
      BY <1>3, <2>2 DEF Latest, Runs
  <2> QED BY <2>1, <2>2 DEF TargetIsLatest
<1>5. r # NoRun
    BY <1>3 DEF Runs, NoRun
<1>6. h # NoRun /\ (official[h] # "active" \/ blind[h]) /\ run[h].off
    BY <1>2, <1>5 DEF Carries, At
<1>7. h = r
    BY <1>2, <1>4, <1>6 DEF Carries
<1>8. official[r] # "none"
    BY <1>3, <1>6, <1>7 DEF TInv, AgentInv, RegisteredInv
<1> QED BY <1>4, <1>6, <1>7, <1>8

LEMMA CancelFinalizeFine ==
    ASSUME TInv, IInv', NEW w \in Workers, CancelFinalize(w)
    PROVE  FineStep
<1>1. ~At(w, "idle") /\ At(w, "cancel_finalize")
    BY DEF At, CancelFinalize
<1>2. CASE GiveUp(w)
    BY <1>2, GiveUpFine
<1>3. CASE Owns(w)
  <2>1. PICK c, r : c = worker[w].cmd /\ r = worker[w].run
      OBVIOUS
  <2>2. /\ c \in Commands /\ r \in {NoRun} \cup Runs /\ task \in ActiveStatus
        /\ r \in Runs => run[r].fence < c /\ run[r].fence \in Nat /\ c \in Nat
        /\ run \in [Runs -> RunRow] /\ pause \in [Runs -> PauseRow]
        /\ r # NoRun => \E q \in Runs : run[q].cancelReq
    <3>1. Type(w) \in CancelType
        BY <1>1, Carried DEF Carries, CancelPC, At, CancelType, WorkType
    <3> QED BY <1>1, <1>3, <2>1, <3>1, Owned, Typed DEF TInv, NoRun, Runs
  <2>3. task \notin TerminalStatus /\ ~FenceNewer(w)
      BY <2>1, <2>2 DEF ActiveStatus, TerminalStatus, FenceNewer
  <2>4. /\ pause' = ClosedPauses(r, "cancelled")
        /\ task' = IF TargetIsLatest(w) THEN "cancelled" ELSE task
        /\ FinishCommand(c, "dispatched") /\ EndRun(w, "cancelled")
        /\ Done(w) /\ UNCHANGED <<serverVars, blind>>
      BY <1>3, <2>1, <2>3 DEF CancelFinalize
  <2>5. "dispatched" \in Finished
      BY DEF Finished
  <2>6. cmd'[c].status = "dispatched"
      BY <2>2, <2>4, <2>5, FinishTx, Typed DEF TInv
  <2>7. TxRun(c, r) /\ (r \in Runs => run'[r].status = "cancelled")
      BY <2>1, <2>2, <2>4, <2>5, <2>6, EndRunTx
  <2>8. TxPause(c, r)
      BY <2>2, <2>4, ClosedTx
  <2>9. TxTask(c, r)
    <3>1. CASE TargetIsLatest(w)
      <4>1. task' = "cancelled"
          BY <2>4, <3>1
      <4>2. \A q \in Runs : Latest(q) /\ run[q].kind # "resume" =>
               blind[q] \/ official[q] \notin {"none", "active"}
          BY <1>1, <1>3, <3>1, StopsNewest
      <4> QED BY <2>7, <4>1, <4>2 DEF TxTask, ActiveStatus
    <3>2. CASE ~TargetIsLatest(w)
      <4>1. task' = task /\ r # NoRun
        <5>1. r = NoRun => Type(w) = "cancel_task"
            BY <1>1, <2>1, Carried DEF Carries, Type, Row
        <5> QED BY <2>4, <3>2, <5>1 DEF TargetIsLatest
      <4>2. \E q \in Runs : run'[q].cancelReq
          BY <2>2, <2>7, <4>1 DEF TxRun
      <4> QED BY <2>2, <2>3, <4>1, <4>2 DEF TxTask, TerminalStatus
    <3> QED BY <3>1, <3>2
  <2> QED BY <1>1, <1>3, <2>1, <2>4, <2>5, <2>7, <2>8, <2>9, EndTx
<1> QED BY <1>2, <1>3 DEF CancelFinalize
-----------------------------------------------------------------------------
(***************************************************************************)
(* Steps of users, of the timer and of a claim that leave the workers alone*)
(***************************************************************************)
LEMMA RequestFine ==
    ASSUME TInv, IInv', RowsInv', HeldInv', Grow, ReviewStep, LifeStep,
           UNCHANGED <<serverVars, worker, blind>>,
           \A v \in Workers : Held(v)' => Held(v),
           \A q \in Runs : run'[q].off => run[q].off,
           \A c \in Commands, q \in Runs : OpenWork(c)' /\ q = RunOf(c)' =>
              \/ ~Exists(q)
              \/ /\ OpenWork(c) /\ q = RunOf(c)
                 /\ run'[q].off = run[q].off /\ run'[q].intent = run[q].intent,
           task' = "cancelled" =>
              task = "cancelled" /\ \A q \in Runs : Exists(q)' <=> Exists(q)
    PROVE  FineStep
<1>1. worker' = worker /\ blind' = blind /\ UNCHANGED serverVars
    OBVIOUS
<1>2. ServerMoves
    BY <1>1 DEF ServerMoves, serverVars
<1>3. CarriesInv'
    BY <1>1, <1>2, AllCarry
<1>4. ASSUME NEW v \in Workers, NEW q \in Runs
      PROVE  (Creating(v, q)' <=> Creating(v, q)) /\ (Starting(v, q)' => Starting(v, q))
  <2>1. Held(v) => Type(v)' = Type(v)
    <3>1. Held(v) => worker[v].cmd \in Commands /\ cmd[worker[v].cmd].attempt > 0
        BY HeldFacts DEF TInv
    <3> QED BY <1>1, <3>1 DEF Grow, Type, Row
  <2>2. Starting(v, q)' => Held(v)
      BY DEF Starting
  <2> QED BY <1>1, <2>1, <2>2 DEF Creating, Starting, At
<1>5. \A q \in Runs : Clean(q)' <=> Clean(q)
    BY <1>1, <1>4 DEF Clean, serverVars
<1>6. OneSource'
  <2>1. ASSUME NEW q \in Runs, OneSourceOf(q) PROVE OneSourceOf(q)'
      BY <1>1, <1>4, <1>5, <2>1 DEF OneSourceOf, serverVars
  <2> QED BY <1>1, <2>1 DEF TInv, AgentInv, OneSource
<1>7. IntentInv'
  <2> SUFFICES ASSUME NEW c \in Commands, OpenWork(c)', NEW q \in Runs, q = RunOf(c)',
                      ~run'[q].off, ~run'[q].intent, ~blind'[q]
               PROVE  Clean(q)
      BY <1>5 DEF IntentInv
  <2>1. CASE ~Exists(q)
    <3>1. official[q] = "none" /\ ~inflight[q]
        BY <2>1 DEF TInv, AgentInv, UncreatedInv
    <3>2. ASSUME NEW v \in Workers, Creating(v, q) PROVE FALSE
      <4>1. ~At(v, "idle") /\ worker[v].run # NoRun
          BY <3>2 DEF Creating, At, Runs, NoRun
      <4>2. Exists(worker[v].run)
          BY <4>1 DEF TInv, CarriesInv, Carries
      <4> QED BY <2>1, <3>2, <4>2 DEF Creating
    <3> QED BY <3>1, <3>2 DEF Clean
  <2>2. CASE Exists(q)
      BY <1>1, <2>2 DEF TInv, AgentInv, IntentInv
  <2> QED BY <2>1, <2>2
<1>8. RegisteredInv'
    BY <1>1 DEF TInv, AgentInv, RegisteredInv, serverVars
<1>9. UncreatedInv'
    BY <1>1 DEF TInv, AgentInv, UncreatedInv, serverVars, Grow, Exists
<1>10. StoppedInv'
  <2> SUFFICES ASSUME task' = "cancelled", NEW q \in Runs, Latest(q)',
                      run'[q].kind # "resume"
               PROVE  blind[q] \/ official[q] \notin {"none", "active"}
      BY <1>1 DEF StoppedInv, serverVars
  <2>1. Latest(q) /\ run[q].kind # "resume"
      BY DEF Latest, Grow
  <2> QED BY <2>1 DEF TInv, AgentInv, StoppedInv
<1> QED BY <1>3, <1>6, <1>7, <1>8, <1>9, <1>10 DEF FineStep, TInv, AgentInv

\* A step that ends whatever command is in dispatch leaves no worker an owner.
LEMMA NoneHeld ==
    ASSUME \A v \in Workers : ~Held(v)'
    PROVE  HeldInv'
BY DEF HeldInv

LEMMA ClaimableFacts ==
    ASSUME TInv, NEW c \in Commands, Claimable(c)
    PROVE  /\ task \in ActiveStatus /\ IsUnfinished(c) /\ InUse(c)
           /\ \A v \in Workers : Held(v) => worker[v].cmd = c
           /\ \A d \in Commands : d < c => cmd[d].status \in Finished
           /\ cmd[c].type \in WorkType => OpenWork(c) /\ WorkOK(c)
<1>1. IsUnfinished(c) /\ InUse(c) /\ task \in ActiveStatus
    BY DEF Claimable, Eligible, IsUnfinished, Unfinished, InUse
<1>2. \A v \in Workers : Held(v) => worker[v].cmd = c
  <2> SUFFICES ASSUME NEW v \in Workers, Held(v), worker[v].cmd # c PROVE FALSE
      OBVIOUS
  <2>1. c > worker[v].cmd /\ worker[v].cmd \in Commands
        /\ cmd[worker[v].cmd].status = "dispatching"
      BY <1>1, HeldFacts DEF TInv
  <2> QED BY <2>1 DEF Claimable, PriorFinished, IsUnfinished, Unfinished
<1>3. ASSUME NEW d \in Commands, d < c PROVE cmd[d].status \in Finished
  <2>1. ~IsUnfinished(d) /\ cmd[d].status # "absent" /\ cmd[d].status \in CommandStatus
      BY <1>1, <1>3, Typed
         DEF TInv, QueueInv, CommandRow, Claimable, PriorFinished, InUse
  <2> QED BY <2>1 DEF CommandStatus, IsUnfinished
<1>4. cmd[c].type \in WorkType => OpenWork(c) /\ WorkOK(c)
    BY <1>1 DEF OpenWork, TInv, RowsInv, WorkInv
<1> QED BY <1>1, <1>2, <1>3, <1>4

\* The claim ends the command; it may end its Run and the Task with it.
LEMMA EndAtClaim ==
    ASSUME TInv, IInv', NEW c \in Commands, Claimable(c), NEW s \in Finished,
           FinishCommand(c, s), UNCHANGED <<pause, serverVars, worker, blind>>,
           \/ UNCHANGED <<task, run>> /\ \E q \in Runs : run[q].cancelReq
           \/ /\ cmd[c].type \in {"retry", "fork"} /\ task' = "failed"
              /\ run' = [run EXCEPT ![cmd[c].arg] = PersistTerminal(run[cmd[c].arg], "failed", c)]
    PROVE  FineStep
<1>0. /\ run \in [Runs -> RunRow] /\ cmd \in [Commands -> CommandRow] /\ RowsInv
      /\ pause' = pause
    BY Typed DEF TInv
<1>1. /\ task \in ActiveStatus /\ IsUnfinished(c) /\ InUse(c)
      /\ \A v \in Workers : Held(v) => worker[v].cmd = c
      /\ \A d \in Commands : d < c => cmd[d].status \in Finished
      /\ cmd[c].type \in WorkType => OpenWork(c) /\ WorkOK(c)
    BY ClaimableFacts
<1>2. /\ cmd'[c].status = s /\ \A d \in Commands \ {c} : cmd'[d] = cmd[d]
      /\ \A d \in Commands :
            /\ cmd'[d].type = cmd[d].type /\ cmd'[d].arg = cmd[d].arg
            /\ cmd'[d].expired = cmd[d].expired /\ cmd'[d].attempt = cmd[d].attempt
  <2>1. \A d \in Commands \ {c} : cmd'[d] = cmd[d]
      BY <1>0 DEF FinishCommand
  <2>2. cmd'[c] = Close(cmd[c], s) /\ cmd[c] \in CommandRow
      BY <1>0 DEF FinishCommand
  <2>3. /\ cmd'[c].status = s /\ cmd'[c].type = cmd[c].type /\ cmd'[c].arg = cmd[c].arg
        /\ cmd'[c].expired = cmd[c].expired /\ cmd'[c].attempt = cmd[c].attempt
      BY <2>2 DEF Close, CommandRow
  <2> QED BY <2>1, <2>3
<1>3. \A v \in Workers : ~Held(v)'
  <2> SUFFICES ASSUME NEW v \in Workers, Held(v)' PROVE FALSE
      OBVIOUS
  <2>1. worker'[v] = worker[v] /\ ~At(v, "idle") /\ worker[v].cmd \in Commands
      BY Typed DEF TInv, Held, At
  <2>2. worker[v].cmd # c
      BY <1>2, <2>1 DEF Held, Owns, Row, Finished
  <2>3. Held(v)
      BY <1>2, <2>1, <2>2 DEF Held, Owns, Row
  <2> QED BY <1>1, <2>2, <2>3
<1>4. \A d \in Commands :
         /\ OpenWork(d)' => OpenWork(d) /\ d # c
         /\ InUse(d)' <=> InUse(d)
         /\ RunOf(d)' = RunOf(d)
  <2>1. \A d \in Commands : RunOf(d)' = RunOf(d)
      BY <1>2 DEF RunOf, ResumeOf
  <2>2. ~IsUnfinished(c)' /\ InUse(c)'
      BY <1>2 DEF IsUnfinished, Unfinished, Finished, InUse
  <2> QED BY <1>1, <1>2, <2>1, <2>2 DEF OpenWork, IsUnfinished, InUse
<1>5. CASE UNCHANGED <<task, run>> /\ \E q \in Runs : run[q].cancelReq
  <2>1. task' = task /\ run' = run
      BY <1>5
  <2>2. /\ NoRunYet' <=> NoRunYet
        /\ \A q \in Runs : (Exists(q)' <=> Exists(q)) /\ (Latest(q)' <=> Latest(q))
      BY <2>1 DEF NoRunYet, Exists, Latest
  <2>3. WorkInv'
      BY <1>0, <1>2, <1>4, <2>1, <2>2 DEF RowsInv, WorkInv, WorkOK
  <2>4. FenceInv'
      BY <1>0, <1>2, <2>1 DEF RowsInv, FenceInv
  <2>5. RunsInv' /\ ArgInv' /\ ReviewInv' /\ LatestInv' /\ AbsentInv' /\ TaskOutcomeFromRun'
      BY <1>0, <1>2, <1>4, <2>1, <2>2 DEF RowsInv, RunsInv, ArgInv, ReviewInv, LatestInv,
         AbsentInv, TaskOutcomeFromRun
  <2>6. AskedInv' /\ UnattendedOnlyAfterCancel'
      BY <1>5, <2>1 DEF AskedInv, UnattendedOnlyAfterCancel
  <2>7. RowsInv'
      BY <2>3, <2>4, <2>5, <2>6 DEF RowsInv
  <2>8. ReviewStep /\ LifeStep
    <3>1. Answers' = Answers
        BY <2>1 DEF Answers
    <3> QED BY <1>0, <2>1, <3>1 DEF ReviewStep, LifeStep
  <2>9. Grow
      BY <1>2, <2>1 DEF Grow, Exists
  <2> QED BY <1>1, <1>3, <1>4, <2>1, <2>2, <2>7, <2>8, <2>9, NoneHeld, RequestFine
          DEF ActiveStatus
<1>6. CASE /\ cmd[c].type \in {"retry", "fork"} /\ task' = "failed"
           /\ run' = [run EXCEPT ![cmd[c].arg] = PersistTerminal(run[cmd[c].arg], "failed", c)]
  <2>1. PICK r : r = cmd[c].arg
      OBVIOUS
  <2>2. /\ r \in Runs /\ Latest(r) /\ Exists(r) /\ run[r].status # "succeeded"
        /\ \A d \in Commands : ~OpenWork(d)'
    <3>1. WorkOK(c) /\ RunOf(c) = r
        BY <1>1, <1>6, <2>1 DEF WorkType, RunOf
    <3>2. Latest(r) /\ r \in Runs
        BY <1>6, <3>1 DEF WorkOK
    <3> QED BY <1>0, <1>1, <1>4, <3>1, <3>2 DEF WorkOK, RowsInv, LatestInv, Latest
  <2>3. TxRun(c, r) /\ run'[r].status = "failed"
      BY <1>0, <1>2, <1>6, <2>1, <2>2, PersistTx DEF TerminalStatus
  <2>4. \A q \in Runs :
           /\ Exists(q)' <=> Exists(q)
           /\ run'[q].kind = run[q].kind /\ (run[q].off => run'[q].off)
           /\ run[q].cancelReq => run'[q].cancelReq
           /\ run'[q].status = "waiting_human" => run[q].status = "waiting_human"
    <3> SUFFICES ASSUME NEW q \in Runs
                 PROVE  /\ Exists(q)' <=> Exists(q)
                        /\ run'[q].kind = run[q].kind /\ (run[q].off => run'[q].off)
                        /\ run[q].cancelReq => run'[q].cancelReq
                        /\ run'[q].status = "waiting_human" => run[q].status = "waiting_human"
        OBVIOUS
    <3>1. CASE q = r
        BY <2>2, <2>3, <3>1 DEF TxRun, Exists
    <3>2. CASE q # r
      <4>1. run'[q] = run[q]
          BY <2>3, <3>2 DEF TxRun
      <4> QED BY <4>1 DEF Exists
    <3> QED BY <3>1, <3>2
  <2>5. (NoRunYet' <=> NoRunYet) /\ \A q \in Runs : Latest(q)' <=> Latest(q)
      BY <2>4 DEF NoRunYet, Latest
  <2>6. WorkInv' /\ ArgInv' /\ RunsInv'
      BY <1>0, <1>2, <1>4, <2>2, <2>4, <2>5 DEF RowsInv, WorkInv, ArgInv, RunsInv
  <2>7. ReviewInv'
      BY <1>0, <2>2, <2>4, <2>5 DEF RowsInv, ReviewInv
  <2>8. AskedInv'
      BY <1>0, <1>2, <1>4, <2>2, <2>4, <2>5 DEF RowsInv, AskedInv
  <2>9. FenceInv'
    <3> SUFFICES ASSUME NEW q \in Runs, NEW d \in Commands, d <= run'[q].fence
                 PROVE  cmd'[d].status \in Finished
        BY DEF FenceInv
    <3>1. CASE run'[q].fence = run[q].fence
        BY <1>0, <1>2, <3>1 DEF RowsInv, FenceInv
    <3>2. CASE run'[q].fence # run[q].fence
      <4>1. run'[q].fence = c
          BY <2>3, <3>2 DEF TxRun
      <4>2. d = c \/ d < c
          BY <4>1 DEF Commands
      <4> QED BY <1>1, <1>2, <4>2 DEF Commands
    <3> QED BY <3>1, <3>2
  <2>10. LatestInv' /\ UnattendedOnlyAfterCancel'
      BY <1>6 DEF LatestInv, UnattendedOnlyAfterCancel, ActiveStatus
  <2>11. AbsentInv'
    <3> SUFFICES ASSUME NEW q \in Runs, ~Exists(q)'
                 PROVE  /\ pause'[q].status = "absent" /\ ~run'[q].off
                        /\ ~run'[q].intent /\ ~run'[q].cancelReq
        BY DEF AbsentInv
    <3>1. ~Exists(q) /\ q # r
        BY <2>2, <2>4
    <3> QED BY <1>0, <2>3, <3>1 DEF TxRun, RowsInv, AbsentInv
  <2>12. TaskOutcomeFromRun'
      BY <1>6, <2>2, <2>3 DEF TaskOutcomeFromRun
  <2>13. RowsInv'
      BY <2>6, <2>7, <2>8, <2>9, <2>10, <2>11, <2>12 DEF RowsInv
  <2>14. LifeStep
    <3>1. Answers' = Answers
        BY <2>2, <2>3 DEF Answers, TxRun
    <3> QED BY <1>1, <1>6, <3>1 DEF LifeStep, Lifecycle!Next, Lifecycle!End,
               Lifecycle!Active, Lifecycle!Ended, ActiveStatus
  <2>15. ReviewStep
      BY <1>0 DEF ReviewStep
  <2>16. Grow
      BY <1>2, <2>4 DEF Grow, Exists
  <2>17. \A q \in Runs : run'[q].off => run[q].off
    <3>1. run'[r].off = run[r].off
        BY <1>0, <1>6, <2>1, <2>2 DEF PersistTerminal, RunRow
    <3> QED BY <2>3, <3>1 DEF TxRun
  <2> QED BY <1>3, <1>6, <2>2, <2>13, <2>14, <2>15, <2>16, <2>17, NoneHeld, RequestFine
<1> QED BY <1>5, <1>6

LEMMA ClaimEndsFine ==
    ASSUME TInv, IInv', NEW w \in Workers, NEW c \in Commands,
           ClaimDrops(w, c) \/ ClaimRefusesLineage(w, c)
    PROVE  FineStep
<1>1. /\ Claimable(c) /\ "cancelled" \in Finished /\ "failed" \in Finished
    BY DEF ClaimDrops, ClaimRefusesLineage, Finished
<1>2. CASE ClaimDrops(w, c)
  <2>1. \E q \in Runs : run[q].cancelReq
    <3>1. CASE CancelTargetGone(c)
      <4>1. InUse(c) /\ cmd[c].type = "cancel_run"
          BY <1>1, <3>1, ClaimableFacts DEF CancelTargetGone
      <4>2. cmd[c].arg \in Runs /\ Exists(cmd[c].arg)
          BY <4>1 DEF TInv, RowsInv, ArgInv
      <4> QED BY <4>1, <4>2 DEF TInv, RowsInv, AskedInv, CancelType, NoRunYet
    <3>2. CASE SubmitSuperseded(c)
        BY <3>2 DEF SubmitSuperseded
    <3> QED BY <1>2, <3>1, <3>2 DEF ClaimDrops
  <2>2. /\ FinishCommand(c, "cancelled") /\ UNCHANGED <<task, run>>
        /\ UNCHANGED <<pause, serverVars, worker, blind>>
      BY <1>2 DEF ClaimDrops
  <2> QED BY <1>1, <2>1, <2>2, EndAtClaim
<1>3. CASE ClaimRefusesLineage(w, c)
  <2>1. cmd[c].type \in {"retry", "fork"}
      BY <1>3 DEF ClaimRefusesLineage, LineageBroken
  <2>2. /\ FinishCommand(c, "failed") /\ task' = "failed"
        /\ run' = [run EXCEPT ![cmd[c].arg] = PersistTerminal(run[cmd[c].arg], "failed", c)]
        /\ UNCHANGED <<pause, serverVars, worker, blind>>
      BY <1>3 DEF ClaimRefusesLineage
  <2> QED BY <1>1, <2>1, <2>2, EndAtClaim
<1> QED BY <1>2, <1>3

\* Whose command and which Run a claim takes.
LEMMA ClaimTarget ==
    ASSUME TInv, NEW c \in Commands, Claimable(c), ~CancelTargetGone(c),
           NEW r \in Runs \cup {NoRun}, TargetOf(c, r)
    PROVE  /\ cmd[c].type \in WorkType =>
                 /\ r = RunOf(c) /\ r \in Runs
                 /\ Latest(r) \/ (NoRunYet /\ r = 1)
           /\ cmd[c].type \notin WorkType /\ r # NoRun =>
                 r \in Runs /\ Exists(r) /\ run[r].status # "succeeded"
           /\ r = NoRun => NoRunYet /\ cmd[c].type = "cancel_task"
           /\ cmd[c].type = "cancel_task" /\ r # NoRun => Latest(r)
<1>1. /\ InUse(c) /\ task \in ActiveStatus /\ RowsInv
      /\ cmd[c].type \in WorkType => OpenWork(c) /\ WorkOK(c)
    BY ClaimableFacts DEF TInv
<1>2. /\ cmd[c].type \in CommandType /\ \A p, q \in Runs : Latest(p) /\ Latest(q) => p = q
  <2>1. ASSUME NEW p \in Runs, NEW q \in Runs, Latest(p), Latest(q) PROVE p = q
      BY <2>1 DEF Latest, Runs
  <2>2. cmd[c] \in CommandRow
      BY Typed DEF TInv
  <2> QED BY <2>1, <2>2 DEF CommandRow
<1>3. CASE cmd[c].type = "submit"
  <2>1. RunOf(c) = 1 /\ 1 \in Runs /\ (Latest(1) \/ NoRunYet)
      BY <1>1, <1>3 DEF RunOf, WorkOK, WorkType
  <2>2. r = 1
    <3>1. CASE \E q \in Runs : Exists(q)
      <4>1. r \in Runs /\ Latest(r)
          BY <1>3, <3>1 DEF TargetOf
      <4>2. Latest(1)
          BY <2>1, <3>1 DEF NoRunYet
      <4> QED BY <1>2, <2>1, <4>1, <4>2
    <3>2. CASE ~\E q \in Runs : Exists(q)
        BY <1>3, <3>2 DEF TargetOf
    <3> QED BY <3>1, <3>2
  <2> QED BY <1>3, <2>1, <2>2 DEF WorkType, NoRun
<1>4. CASE cmd[c].type \in {"retry", "fork"}
  <2>1. RunOf(c) = cmd[c].arg /\ r = cmd[c].arg
      BY <1>4 DEF RunOf, TargetOf
  <2>2. r \in Runs /\ Latest(r)
      BY <1>1, <1>4, <2>1 DEF WorkOK, WorkType
  <2> QED BY <1>4, <2>1, <2>2 DEF NoRun, Runs, WorkType
<1>5. CASE cmd[c].type = "respond"
  <2>1. RunOf(c) \in Runs /\ Latest(RunOf(c))
      BY <1>1, <1>5 DEF WorkOK, WorkType
  <2>2. \E q \in Runs : Exists(q)
      BY <2>1 DEF Latest
  <2>3. r \in Runs /\ Latest(r)
      BY <1>5, <2>2 DEF TargetOf
  <2> QED BY <1>2, <1>5, <2>1, <2>3 DEF NoRun, Runs, WorkType
<1>6. CASE cmd[c].type = "cancel_run"
  <2>1. r = cmd[c].arg /\ r \in Runs /\ Exists(r)
      BY <1>1, <1>6 DEF TargetOf, RowsInv, ArgInv
  <2>2. run[r].status \notin TerminalStatus
      BY <1>6, <2>1 DEF CancelTargetGone
  <2> QED BY <1>6, <2>1, <2>2 DEF TerminalStatus, WorkType, NoRun, Runs
<1>7. CASE cmd[c].type = "cancel_task"
  <2>1. CASE \E q \in Runs : Exists(q)
    <3>1. r \in Runs /\ Latest(r)
        BY <1>7, <2>1 DEF TargetOf
    <3>2. Exists(r) /\ run[r].status # "succeeded"
        BY <1>1, <3>1 DEF RowsInv, LatestInv, Latest
    <3> QED BY <1>7, <3>1, <3>2 DEF WorkType, NoRun, Runs
  <2>2. CASE ~\E q \in Runs : Exists(q)
      BY <1>7, <2>2 DEF TargetOf, NoRunYet, WorkType
  <2> QED BY <2>1, <2>2
<1> QED BY <1>2, <1>3, <1>4, <1>5, <1>6, <1>7 DEF CommandType, WorkType, CancelType

\* What a claim writes.
LEMMA ClaimWrites ==
    ASSUME TInv, NEW w \in Workers, NEW c \in Commands, Claim(w, c)
    PROVE  \E r \in Runs \cup {NoRun} :
              /\ TargetOf(c, r)
              /\ cmd'[c].status = "dispatching" /\ cmd'[c].owner = w /\ cmd'[c].attempt > 0
              /\ \A d \in Commands \ {c} : cmd'[d] = cmd[d]
              /\ \A d \in Commands : cmd'[d].type = cmd[d].type /\ cmd'[d].arg = cmd[d].arg
                                     /\ cmd'[d].expired = cmd[d].expired
              /\ \A v \in Workers \ {w} : worker'[v] = worker[v]
              /\ worker'[w].pc = "claimed" /\ worker'[w].cmd = c /\ worker'[w].run = r
              /\ worker'[w].handle = HandleOf(c, r)
              /\ worker'[w].reconcile = (r # NoRun /\ run[r].intent /\ ~run[r].off)
              /\ worker'[w].obs = (IF r = NoRun THEN "none" ELSE run[r].obs)
              /\ \A q \in Runs : q # r \/ cmd[c].type \notin WorkType => run'[q] = run[q]
              /\ cmd[c].type \notin WorkType => task' = task
              /\ cmd[c].type \in WorkType /\ r \in Runs =>
                    /\ run'[r].status = "running" /\ run'[r].off = run[r].off
                    /\ run'[r].intent = (run[r].intent \/ ~run[r].off)
                    /\ run'[r].kind = run[r].kind /\ run'[r].cancelReq = run[r].cancelReq
                    /\ run'[r].fence = run[r].fence
              /\ cmd[c].type \in WorkType =>
                    task' = IF cmd[c].type = "respond" /\ ~cmd[c].expired
                            THEN "waiting_human" ELSE "running"
<1>0. /\ run \in [Runs -> RunRow] /\ cmd \in [Commands -> CommandRow]
      /\ worker \in [Workers -> WorkerState]
    BY Typed DEF TInv
<1>1. PICK r \in Runs \cup {NoRun} :
         /\ TargetOf(c, r)
         /\ worker' = [worker EXCEPT ![w] =
                [pc |-> "claimed", cmd |-> c, run |-> r,
                 fence |-> NextAttempt(cmd[c].attempt),
                 handle |-> HandleOf(c, r),
                 reconcile |-> r # NoRun /\ run[r].intent /\ ~run[r].off,
                 obs |-> IF r = NoRun THEN "none" ELSE run[r].obs,
                 note |-> "none"]]
         /\ IF cmd[c].type \in WorkType
            THEN /\ run' = [run EXCEPT ![r] = Claimed(@)]
                 /\ task' = IF cmd[c].type = "respond" /\ ~cmd[c].expired
                            THEN "waiting_human" ELSE "running"
            ELSE UNCHANGED <<run, task>>
    BY DEF Claim
<1>2. PICK n : n = NextAttempt(cmd[c].attempt)
    OBVIOUS
<1>3. n > 0
  <2>1. cmd[c].attempt \in Nat /\ MaxFence \in Nat /\ MaxFence > 0
      BY <1>0, StoreAssumption DEF CommandRow
  <2> QED BY <1>2, <2>1 DEF NextAttempt
<1>4. cmd' = [cmd EXCEPT ![c] = [cmd[c] EXCEPT !.status = "dispatching", !.owner = w,
                                               !.lease = "valid", !.attempt = n]]
    BY <1>0, <1>2 DEF Claim
<1>5. /\ cmd'[c].status = "dispatching" /\ cmd'[c].owner = w /\ cmd'[c].attempt = n
      /\ cmd'[c].type = cmd[c].type /\ cmd'[c].arg = cmd[c].arg
      /\ cmd'[c].expired = cmd[c].expired
      /\ \A d \in Commands \ {c} : cmd'[d] = cmd[d]
    BY <1>0, <1>4 DEF CommandRow
<1>6. /\ \A v \in Workers \ {w} : worker'[v] = worker[v]
      /\ worker'[w].pc = "claimed" /\ worker'[w].cmd = c /\ worker'[w].run = r
      /\ worker'[w].handle = HandleOf(c, r)
      /\ worker'[w].reconcile = (r # NoRun /\ run[r].intent /\ ~run[r].off)
      /\ worker'[w].obs = (IF r = NoRun THEN "none" ELSE run[r].obs)
    BY <1>0, <1>1
<1>7. \A q \in Runs : q # r \/ cmd[c].type \notin WorkType => run'[q] = run[q]
    BY <1>0, <1>1
<1>8. ASSUME cmd[c].type \in WorkType, r \in Runs
      PROVE  /\ run'[r].status = "running" /\ run'[r].off = run[r].off
             /\ run'[r].intent = (run[r].intent \/ ~run[r].off)
             /\ run'[r].kind = run[r].kind /\ run'[r].cancelReq = run[r].cancelReq
             /\ run'[r].fence = run[r].fence
  <2>1. run'[r] = Claimed(run[r]) /\ run[r] \in RunRow
      BY <1>0, <1>1, <1>8
  <2> QED BY <2>1 DEF Claimed, RunRow
<1> QED BY <1>1, <1>3, <1>5, <1>6, <1>7, <1>8

LEMMA ClaimFine ==
    ASSUME TInv, IInv', NEW w \in Workers, NEW c \in Commands, Claim(w, c)
    PROVE  FineStep
<1>0. /\ run \in [Runs -> RunRow] /\ cmd \in [Commands -> CommandRow]
      /\ worker \in [Workers -> WorkerState] /\ RowsInv
    BY Typed DEF TInv
<1>1. /\ Claimable(c) /\ ~CancelTargetGone(c) /\ At(w, "idle")
      /\ pause' = pause /\ UNCHANGED serverVars /\ blind' = blind
    BY DEF Claim
<1>2. /\ task \in ActiveStatus /\ IsUnfinished(c) /\ InUse(c)
      /\ \A v \in Workers : Held(v) => worker[v].cmd = c
      /\ cmd[c].type \in WorkType => OpenWork(c) /\ WorkOK(c)
    BY <1>1, ClaimableFacts
<1>3. PICK r \in Runs \cup {NoRun} :
              /\ TargetOf(c, r)
              /\ cmd'[c].status = "dispatching" /\ cmd'[c].owner = w /\ cmd'[c].attempt > 0
              /\ \A d \in Commands \ {c} : cmd'[d] = cmd[d]
              /\ \A d \in Commands : cmd'[d].type = cmd[d].type /\ cmd'[d].arg = cmd[d].arg
                                     /\ cmd'[d].expired = cmd[d].expired
              /\ \A v \in Workers \ {w} : worker'[v] = worker[v]
              /\ worker'[w].pc = "claimed" /\ worker'[w].cmd = c /\ worker'[w].run = r
              /\ worker'[w].handle = HandleOf(c, r)
              /\ worker'[w].reconcile = (r # NoRun /\ run[r].intent /\ ~run[r].off)
              /\ worker'[w].obs = (IF r = NoRun THEN "none" ELSE run[r].obs)
              /\ \A q \in Runs : q # r \/ cmd[c].type \notin WorkType => run'[q] = run[q]
              /\ cmd[c].type \notin WorkType => task' = task
              /\ cmd[c].type \in WorkType /\ r \in Runs =>
                    /\ run'[r].status = "running" /\ run'[r].off = run[r].off
                    /\ run'[r].intent = (run[r].intent \/ ~run[r].off)
                    /\ run'[r].kind = run[r].kind /\ run'[r].cancelReq = run[r].cancelReq
                    /\ run'[r].fence = run[r].fence
              /\ cmd[c].type \in WorkType =>
                    task' = IF cmd[c].type = "respond" /\ ~cmd[c].expired
                            THEN "waiting_human" ELSE "running"
    BY ClaimWrites
<1>4. /\ cmd[c].type \in WorkType =>
            /\ r = RunOf(c) /\ r \in Runs
            /\ Latest(r) \/ (NoRunYet /\ r = 1)
      /\ cmd[c].type \notin WorkType /\ r # NoRun =>
            r \in Runs /\ Exists(r) /\ run[r].status # "succeeded"
      /\ r = NoRun => NoRunYet /\ cmd[c].type = "cancel_task"
      /\ cmd[c].type = "cancel_task" /\ r # NoRun => Latest(r)
    BY <1>1, <1>3, ClaimTarget
<1>5. PICK h : h = HandleOf(c, r)
    OBVIOUS
<1>6. /\ h # NoRun => /\ h \in Runs /\ run[h].off
                      /\ h = r \/ (cmd[c].type = "cancel_task" /\ run[r].kind = "resume")
      /\ h = NoRun /\ r # NoRun => ~run[r].off
      /\ r = NoRun => h = NoRun
  <2>1. r # NoRun => r \in Runs /\ run[r].parent \in {NoRun} \cup Runs
      BY <1>0 DEF RunRow
  <2> QED BY <1>5, <2>1 DEF HandleOf
<1> DEFINE work == cmd[c].type \in WorkType
<1>7. \A q \in Runs :
         /\ run'[q].off = run[q].off /\ run'[q].cancelReq = run[q].cancelReq
         /\ run'[q].kind = run[q].kind /\ run'[q].fence = run[q].fence
         /\ Exists(q)' <=> Exists(q) \/ (work /\ q = r)
         /\ run'[q].status = "succeeded" => run[q].status = "succeeded"
         /\ run'[q].status = "waiting_human" => run[q].status = "waiting_human"
  <2> SUFFICES ASSUME NEW q \in Runs
               PROVE  /\ run'[q].off = run[q].off /\ run'[q].cancelReq = run[q].cancelReq
                      /\ run'[q].kind = run[q].kind /\ run'[q].fence = run[q].fence
                      /\ Exists(q)' <=> Exists(q) \/ (work /\ q = r)
                      /\ run'[q].status = "succeeded" => run[q].status = "succeeded"
                      /\ run'[q].status = "waiting_human" => run[q].status = "waiting_human"
      OBVIOUS
  <2>1. CASE q # r \/ ~work
    <3>1. run'[q] = run[q]
        BY <1>3, <2>1
    <3> QED BY <2>1, <3>1 DEF Exists
  <2>2. CASE q = r /\ work
      BY <1>3, <2>2 DEF Exists
  <2> QED BY <2>1, <2>2
<1>8. \A q \in Runs : Latest(q)' <=> IF work THEN q = r ELSE Latest(q)
  <2>1. CASE ~work
      BY <1>7, <2>1 DEF Latest
  <2>2. CASE work
    <3>1. r \in Runs /\ \A q \in Runs : q > r => ~Exists(q)
        BY <1>4, <2>2 DEF Latest, NoRunYet
    <3>2. \A q \in Runs : q > r => ~Exists(q)'
        BY <1>7, <3>1 DEF Runs
    <3>3. Exists(r)' /\ Latest(r)'
        BY <1>7, <2>2, <3>1, <3>2 DEF Latest
    <3>4. ASSUME NEW q \in Runs, Latest(q)' PROVE q = r
        BY <3>1, <3>2, <3>3, <3>4 DEF Latest, Runs
    <3> QED BY <2>2, <3>3, <3>4
  <2> QED BY <2>1, <2>2
<1>9. ~work => (NoRunYet' <=> NoRunYet)
    BY <1>7 DEF NoRunYet
<1>10. \A d \in Commands :
          /\ IsUnfinished(d)' <=> IsUnfinished(d)
          /\ OpenWork(d)' <=> OpenWork(d)
          /\ InUse(d)' <=> InUse(d)
          /\ RunOf(d)' = RunOf(d)
          /\ cmd'[d].status \in Finished <=> cmd[d].status \in Finished
  <2>1. \A d \in Commands : RunOf(d)' = RunOf(d)
      BY <1>3 DEF RunOf, ResumeOf
  <2>2. /\ IsUnfinished(c)' /\ InUse(c)' /\ cmd'[c].status \notin Finished
        /\ cmd[c].status \notin Finished
      BY <1>2, <1>3 DEF IsUnfinished, Unfinished, InUse, Finished
  <2> QED BY <1>2, <1>3, <2>1, <2>2 DEF OpenWork, IsUnfinished, InUse
<1>11. /\ work => task' \in ActiveStatus /\ (task' = "running" \/ (task' = "waiting_human" /\
                     cmd[c].type = "respond" /\ ~cmd[c].expired))
       /\ task' \in ActiveStatus /\ task' \notin TerminalStatus
    BY <1>2, <1>3 DEF ActiveStatus, TerminalStatus
<1> HIDE DEF work
<1>12. /\ work => cmd[c].type \in WorkType
       /\ ~work => cmd[c].type \notin WorkType /\ \A q \in Runs : run'[q] = run[q]
    BY <1>3 DEF work
<1>13. RowsInv'
  <2>1. RunsInv'
    <3>1. ASSUME NEW p \in Runs, NEW q \in Runs, p < q, Exists(q)' PROVE Exists(p)'
      <4>1. CASE Exists(q)
          BY <1>0, <1>7, <3>1, <4>1 DEF RowsInv, RunsInv
      <4>2. CASE ~Exists(q)
        <5>1. work /\ q = r
            BY <1>7, <3>1, <4>2
        <5>2. r = 1
            BY <1>4, <1>12, <4>2, <5>1 DEF Latest
        <5> QED BY <3>1, <5>1, <5>2 DEF Runs
      <4> QED BY <4>1, <4>2
    <3>2. NoRunYet' \/ \E q \in Runs : Latest(q)'
        BY <1>0, <1>4, <1>8, <1>9, <1>12 DEF RowsInv, RunsInv
    <3> QED BY <3>1, <3>2 DEF RunsInv
  <2>2. ArgInv'
      BY <1>0, <1>3, <1>7, <1>10 DEF RowsInv, ArgInv
  <2>3. WorkInv'
    <3> SUFFICES ASSUME NEW d \in Commands, OpenWork(d) PROVE WorkOK(d)'
        BY <1>10 DEF WorkInv
    <3>1. WorkOK(d)
        BY <1>0 DEF RowsInv, WorkInv
    <3>2. CASE work
      <4>1. d = c
          BY <1>2, <1>12, <3>1, <3>2 DEF WorkOK
      <4>2. Latest(r)' /\ r = RunOf(c)' /\ r \in Runs /\ ~(cmd'[c].attempt = 0)
          BY <1>3, <1>4, <1>8, <1>10, <1>12, <3>2
      <4> QED BY <1>1, <1>4, <1>10, <1>12, <3>1, <3>2, <4>1, <4>2 DEF WorkOK
    <3>3. CASE ~work
      <4>1. d # c
          BY <1>12, <3>3 DEF OpenWork
      <4>2. cmd'[d] = cmd[d]
          BY <1>3, <4>1
      <4> QED BY <1>1, <1>8, <1>9, <1>10, <1>12, <3>1, <3>3, <4>2 DEF WorkOK
    <3> QED BY <3>2, <3>3
  <2>4. ReviewInv'
    <3> SUFFICES ASSUME NEW p \in Runs, pause'[p].status = "pending",
                        run'[p].status = "waiting_human"
                 PROVE  Latest(p)' /\ \A d \in Commands : ~OpenWork(d)'
        BY DEF ReviewInv
    <3>1. Latest(p) /\ \A d \in Commands : ~OpenWork(d)
        BY <1>0, <1>1, <1>7 DEF RowsInv, ReviewInv
    <3>2. ~work
        BY <1>2, <1>12, <3>1
    <3> QED BY <1>8, <1>10, <3>1, <3>2
  <2>5. AskedInv'
      BY <1>0, <1>2, <1>3, <1>7, <1>9, <1>10, <1>12 DEF RowsInv, AskedInv
  <2>6. FenceInv'
      BY <1>0, <1>7, <1>10 DEF RowsInv, FenceInv
  <2>7. LatestInv'
      BY <1>0, <1>2, <1>3, <1>4, <1>8, <1>12 DEF RowsInv, LatestInv
  <2>8. AbsentInv'
    <3> SUFFICES ASSUME NEW q \in Runs, ~Exists(q)'
                 PROVE  /\ pause'[q].status = "absent" /\ ~run'[q].off
                        /\ ~run'[q].intent /\ ~run'[q].cancelReq
        BY DEF AbsentInv
    <3>1. ~Exists(q) /\ run'[q] = run[q]
        BY <1>3, <1>7, <1>12
    <3> QED BY <1>0, <1>1, <3>1 DEF RowsInv, AbsentInv
  <2>9. TaskOutcomeFromRun' /\ UnattendedOnlyAfterCancel'
      BY <1>2, <1>10, <1>11 DEF TaskOutcomeFromRun, UnattendedOnlyAfterCancel, NothingUnfinished
  <2> QED BY <2>1, <2>2, <2>3, <2>4, <2>5, <2>6, <2>7, <2>8, <2>9 DEF RowsInv
<1>14. ReviewStep
    BY <1>1 DEF ReviewStep
<1>15. LifeStep
  <2>1. \A q \in Runs : run'[q].status = "succeeded" <=> run[q].status = "succeeded"
    <3> SUFFICES ASSUME NEW q \in Runs
                 PROVE  run'[q].status = "succeeded" <=> run[q].status = "succeeded"
        OBVIOUS
    <3>1. CASE q # r \/ ~work
        BY <1>3, <1>12, <3>1
    <3>2. CASE q = r /\ work
      <4>1. Latest(r) \/ ~Exists(r)
          BY <1>4, <1>12, <3>2 DEF NoRunYet
      <4>2. run[r].status # "succeeded"
          BY <1>0, <1>2, <3>2, <4>1 DEF RowsInv, LatestInv, Exists
      <4> QED BY <1>7, <3>2, <4>2
    <3> QED BY <3>1, <3>2
  <2>2. Answers' = Answers
      BY <2>1 DEF Answers
  <2> QED BY <1>2, <1>11, <2>2 DEF LifeStep, Lifecycle!Next, Lifecycle!Work,
             Lifecycle!Active, ActiveStatus
<1>16. Grow /\ ServerMoves
  <2>1. Grow
      BY <1>3, <1>7 DEF Grow, Exists
  <2>2. ServerMoves
      BY <1>1 DEF ServerMoves, serverVars
  <2> QED BY <2>1, <2>2
<1>17. PICK s : s = worker'[w]
    OBVIOUS
<1>18. /\ s.pc = "claimed" /\ s.cmd = c /\ s.run = r /\ s.handle = h
       /\ s.reconcile = (r # NoRun /\ run[r].intent /\ ~run[r].off)
       /\ s.obs = (IF r = NoRun THEN "none" ELSE run[r].obs)
    BY <1>3, <1>5, <1>17
<1>19. CarriesInv'
  <2>1. Carries(s)'
    <3>1. r # NoRun => Exists(r)' /\ r \in Runs
        BY <1>4, <1>7, <1>12
    <3>2. h # NoRun => /\ run'[h].off
                       /\ h = r \/ (cmd'[c].type = "cancel_task" /\ run'[r].kind = "resume")
        BY <1>3, <1>6, <1>7, <3>1
    <3>3. cmd'[c].type \in WorkType => r = RunOf(c)'
        BY <1>3, <1>4, <1>10
    <3>4. r = NoRun => cmd'[c].type = "cancel_task" /\ h = NoRun /\ s.obs = "none"
        BY <1>3, <1>4, <1>6, <1>18
    <3> QED BY <1>3, <1>18, <3>1, <3>2, <3>3, <3>4
            DEF Carries, WorkPC, CancelPC, HandlePC, EndPC
  <2>2. \A v \in Workers : \/ worker'[v] = worker[v]
                          \/ worker'[v].pc = "idle"
                          \/ Carries(worker[v])'
    <3> SUFFICES ASSUME NEW v \in Workers
                 PROVE  \/ worker'[v] = worker[v]
                        \/ worker'[v].pc = "idle"
                        \/ Carries(worker[v])'
        OBVIOUS
    <3>1. CASE v = w
        BY <1>17, <2>1, <3>1
    <3>2. CASE v # w
        BY <1>3, <3>2
    <3> QED BY <3>1, <3>2
  <2> QED BY <1>16, <2>2, AllCarry
<1>20. \A v \in Workers : Held(v)' => v = w
  <2> SUFFICES ASSUME NEW v \in Workers, Held(v)', v # w PROVE FALSE
      OBVIOUS
  <2>1. worker'[v] = worker[v] /\ ~At(v, "idle") /\ worker[v].cmd \in Commands
      BY <1>3, Typed DEF TInv, Held, At
  <2>2. worker[v].cmd # c
      BY <1>3, <2>1 DEF Held, Owns, Row
  <2>3. Held(v)
      BY <1>3, <2>1, <2>2 DEF Held, Owns, Row
  <2> QED BY <1>2, <2>2, <2>3
<1>21. HeldInv'
  <2>1. HeldOK(s)'
    <3>1. r = NoRun => NoRunYet'
        BY <1>4, <1>9, <1>12 DEF WorkType
    <3>2. cmd'[c].type = "cancel_task" =>
             \A q \in Runs : q > r /\ Exists(q)' => run'[q].kind = "resume"
      <4> SUFFICES ASSUME cmd[c].type = "cancel_task", NEW q \in Runs, q > r, Exists(q)'
                   PROVE  FALSE
          BY <1>3
      <4>1. Exists(q) /\ (r # NoRun => Latest(r))
          BY <1>4, <1>7, <1>12 DEF WorkType
      <4> QED BY <1>4, <4>1 DEF Latest, NoRunYet
    <3>3. r # NoRun => run'[r].status # "succeeded"
      <4>1. CASE work
          BY <1>3, <1>4, <1>12, <4>1
      <4>2. CASE ~work
          BY <1>4, <1>12, <4>2
      <4> QED BY <4>1, <4>2
    <3>4. cmd'[c].type \in WorkType => run'[r].intent \/ run'[r].off
      <4> SUFFICES ASSUME cmd[c].type \in WorkType PROVE run'[r].intent \/ run'[r].off
          BY <1>3
      <4> QED BY <1>3, <1>4
    <3>5. cmd'[c].type \in WorkType =>
             task' = "running" \/ (task' = "waiting_human" /\ cmd'[c].type = "respond"
                                                           /\ ~cmd'[c].expired)
        BY <1>3, <1>11, <1>12
    <3> QED BY <1>18, <3>1, <3>2, <3>3, <3>4, <3>5 DEF HeldOK
  <2> QED BY <1>17, <1>20, <2>1 DEF HeldInv
<1>22. /\ \A v \in Workers, q \in Runs : Creating(v, q)' <=> Creating(v, q)
       /\ \A q \in Runs : Clean(q)' <=> Clean(q)
  <2>1. ASSUME NEW v \in Workers, NEW q \in Runs
        PROVE  Creating(v, q)' <=> Creating(v, q)
    <3>1. CASE v = w
        BY <1>1, <1>3, <3>1 DEF Creating, At
    <3>2. CASE v # w
        BY <1>3, <3>2 DEF Creating
    <3> QED BY <3>1, <3>2
  <2> QED BY <1>1, <2>1 DEF Clean, serverVars
<1>23. \A v \in Workers, q \in Runs : Starting(v, q)' =>
          q = r /\ work /\ ~run[q].off /\ ~run[q].intent
  <2> SUFFICES ASSUME NEW v \in Workers, NEW q \in Runs, Starting(v, q)'
               PROVE  q = r /\ work /\ ~run[q].off /\ ~run[q].intent
      OBVIOUS
  <2>1. v = w
      BY <1>20 DEF Starting
  <2>2. q = r /\ ~s.reconcile /\ h = NoRun
      BY <1>3, <1>17, <1>18, <2>1 DEF Starting
  <2>3. cmd[c].type \in WorkType
      BY <1>3, <2>1 DEF Starting, Type, Row
  <2>4. r # NoRun /\ ~run[r].off
      BY <1>6, <2>2 DEF NoRun, Runs
  <2> QED BY <1>18, <2>2, <2>3, <2>4 DEF work
<1>24. OneSource'
  <2>1. ASSUME NEW q \in Runs, ~blind[q], OneSourceOf(q)
        PROVE  OneSourceOf(q)'
    <3>1. \A v \in Workers : Starting(v, q)' => Clean(q)
        BY <1>2, <1>4, <1>12, <1>23, <2>1 DEF TInv, AgentInv, IntentInv
    <3> QED BY <1>1, <1>22, <2>1, <3>1 DEF OneSourceOf, serverVars
  <2> QED BY <1>1, <2>1 DEF TInv, AgentInv, OneSource
<1>25. IntentInv'
  <2> SUFFICES ASSUME NEW d \in Commands, OpenWork(d), NEW q \in Runs, q = RunOf(d),
                      ~run'[q].off, ~run'[q].intent, ~blind[q]
               PROVE  Clean(q)
      BY <1>1, <1>10, <1>22 DEF IntentInv
  <2>1. CASE work
    <3>1. d = c /\ q = r
        BY <1>2, <1>4, <1>12, <2>1 DEF WorkOK
    <3> QED BY <1>3, <1>4, <1>12, <2>1, <3>1
  <2>2. CASE ~work
      BY <1>12, <2>2 DEF TInv, AgentInv, IntentInv
  <2> QED BY <2>1, <2>2
<1>26. RegisteredInv' /\ UncreatedInv' /\ StoppedInv'
  <2>1. task' # "cancelled"
      BY <1>11 DEF ActiveStatus
  <2> QED BY <1>1, <1>7, <2>1 DEF TInv, AgentInv, RegisteredInv, UncreatedInv, StoppedInv, serverVars
<1> QED BY <1>13, <1>14, <1>15, <1>19, <1>21, <1>24, <1>25, <1>26
        DEF FineStep, TInv, AgentInv

-----------------------------------------------------------------------------
(***************************************************************************)
(* Requests that add a Run                                                 *)
(***************************************************************************)
LEMMA AppendFacts ==
    ASSUME TInv, worker' = worker, NEW type, NEW arg, NEW expired,
           AppendCommand(NewCommand(type, arg, expired))
    PROVE  \E c \in Commands :
              /\ cmd[c].status = "absent" /\ cmd[c].attempt = 0
              /\ cmd'[c].status = "pending" /\ cmd'[c].type = type /\ cmd'[c].arg = arg
              /\ cmd'[c].expired = expired /\ cmd'[c].attempt = 0
              /\ \A d \in Commands \ {c} : cmd'[d] = cmd[d]
              /\ \A v \in Workers : Held(v)' => Held(v) /\ worker[v].cmd # c
<1>0. cmd \in [Commands -> CommandRow]
    BY Typed DEF TInv
<1>1. PICK c \in Commands : FreshCommand(c)
                            /\ cmd' = [cmd EXCEPT ![c] = NewCommand(type, arg, expired)]
    BY DEF AppendCommand
<1>2. /\ cmd'[c] = NewCommand(type, arg, expired)
      /\ \A d \in Commands \ {c} : cmd'[d] = cmd[d]
    BY <1>0, <1>1
<1>3. cmd[c].status = "absent" /\ cmd[c].attempt = 0
    BY <1>1, Typed DEF TInv, FreshCommand, QueueInv
<1>4. /\ cmd'[c].status = "pending" /\ cmd'[c].type = type /\ cmd'[c].arg = arg
      /\ cmd'[c].expired = expired /\ cmd'[c].attempt = 0
    BY <1>2 DEF NewCommand
<1>5. ASSUME NEW v \in Workers, Held(v)' PROVE Held(v) /\ worker[v].cmd # c
  <2>1. worker[v].cmd \in Commands /\ ~At(v, "idle") /\ worker'[v] = worker[v]
      BY <1>5, Typed DEF TInv, Held, At
  <2>2. worker[v].cmd # c
      BY <1>4, <1>5, <2>1 DEF Held, Owns, Row
  <2> QED BY <1>2, <1>5, <2>1, <2>2 DEF Held, Owns, Row
<1> QED BY <1>2, <1>3, <1>4, <1>5

\* A retry or a fork starts from a queue without open commands.
LEMMA NewWorkFine ==
    ASSUME TInv, IInv', UNCHANGED <<serverVars, worker, blind>>,
           NothingUnfinished, ~NoRunYet, task' = "queued",
           NEW type \in {"retry", "fork"}, NEW r \in Runs, FreshRun(r),
           AppendCommand(NewCommand(type, r, FALSE)),
           run'[r].status = "queued", run'[r].off = FALSE, run'[r].intent = FALSE,
           run'[r].fence = 0,
           \A q \in Runs \ {r} :
              /\ run'[q].off = run[q].off /\ run'[q].intent = run[q].intent
              /\ run'[q].cancelReq = run[q].cancelReq /\ run'[q].kind = run[q].kind
              /\ run'[q].fence = run[q].fence
              /\ \/ run'[q].status = run[q].status
                 \/ run'[q].status = "cancelled" /\ run[q].status = "waiting_human",
           \A p \in Runs :
              /\ ~(pause'[p].status = "pending" /\ run'[p].status = "waiting_human")
              /\ \/ pause'[p].status = pause[p].status
                 \/ pause[p].status = "pending" /\ pause'[p].status = "cancelled"
    PROVE  FineStep
<1>0. /\ RowsInv /\ worker' = worker /\ task \in TaskStatus /\ r > 0
    BY Typed DEF TInv, Runs
<1>1. PICK c \in Commands :
              /\ cmd[c].status = "absent" /\ cmd[c].attempt = 0
              /\ cmd'[c].status = "pending" /\ cmd'[c].type = type /\ cmd'[c].arg = r
              /\ cmd'[c].attempt = 0
              /\ \A d \in Commands \ {c} : cmd'[d] = cmd[d]
              /\ \A v \in Workers : Held(v)' => Held(v) /\ worker[v].cmd # c
  <2>1. PICK e : e = FALSE
      OBVIOUS
  <2>2. AppendCommand(NewCommand(type, r, e))
      BY <2>1
  <2> HIDE <2>1
  <2> QED BY <1>0, <2>2, AppendFacts
<1>2. /\ ~Exists(r) /\ \A q \in Runs : q < r => Exists(q)
      /\ \A q \in Runs : q > r => ~Exists(q)
    BY <1>0 DEF FreshRun, RowsInv, RunsInv
<1>3. \A q \in Runs : Exists(q)' <=> Exists(q) \/ q = r
  <2> SUFFICES ASSUME NEW q \in Runs PROVE Exists(q)' <=> Exists(q) \/ q = r
      OBVIOUS
  <2>1. CASE q = r
      BY <2>1 DEF Exists
  <2>2. CASE q # r
      BY <2>2 DEF Exists
  <2> QED BY <2>1, <2>2
<1>4. \A q \in Runs : Latest(q)' <=> q = r
    BY <1>2, <1>3 DEF Latest, Runs
<1>5. /\ pause[r].status = "absent" /\ pause'[r].status = "absent"
      /\ ~run[r].cancelReq
    BY <1>0, <1>2 DEF RowsInv, AbsentInv
<1>6. \A v \in Workers : ~Held(v)'
  <2> SUFFICES ASSUME NEW v \in Workers, Held(v) PROVE FALSE
      BY <1>1
  <2>1. worker[v].cmd \in Commands /\ cmd[worker[v].cmd].status = "dispatching"
      BY HeldFacts DEF TInv
  <2> QED BY <2>1 DEF NothingUnfinished, IsUnfinished, Unfinished
<1>7. \A d \in Commands :
         /\ OpenWork(d)' <=> d = c
         /\ InUse(d)' <=> InUse(d) \/ d = c
         /\ d # c => RunOf(d)' = RunOf(d)
  <2>1. OpenWork(c)' /\ InUse(c)'
      BY <1>1 DEF OpenWork, IsUnfinished, Unfinished, InUse, WorkType
  <2>2. ASSUME NEW d \in Commands, d # c
        PROVE  ~OpenWork(d)' /\ (InUse(d)' <=> InUse(d)) /\ RunOf(d)' = RunOf(d)
      BY <1>1, <2>2 DEF OpenWork, IsUnfinished, NothingUnfinished, InUse, RunOf, ResumeOf
  <2> QED BY <2>1, <2>2
<1>8. RunOf(c)' = r
    BY <1>1 DEF RunOf
<1>9. RowsInv'
  <2>1. RunsInv'
    <3>1. ASSUME NEW p \in Runs, NEW q \in Runs, p < q, Exists(q)' PROVE Exists(p)'
        BY <1>0, <1>2, <1>3, <3>1 DEF RowsInv, RunsInv
    <3> QED BY <1>4, <3>1 DEF RunsInv
  <2>2. ArgInv'
    <3> SUFFICES ASSUME NEW d \in Commands, InUse(d)', NEW a, a = cmd'[d].arg,
                        cmd'[d].type \in {"respond", "retry", "fork", "cancel_run"}
                 PROVE  a \in Runs /\ Exists(a)'
        BY DEF ArgInv, Exists
    <3>1. CASE d = c
        BY <1>1, <1>3, <3>1
    <3>2. CASE d # c
      <4>1. a \in Runs /\ Exists(a)
          BY <1>0, <1>1, <1>7, <3>2 DEF RowsInv, ArgInv
      <4> QED BY <1>3, <4>1
    <3> QED BY <3>1, <3>2
  <2>3. WorkInv'
    <3>1. WorkOK(c)'
        BY <1>1, <1>4, <1>5, <1>7, <1>8 DEF WorkOK
    <3> QED BY <1>7, <3>1 DEF WorkInv
  <2>4. ReviewInv'
      BY DEF ReviewInv
  <2>5. AskedInv'
    <3> SUFFICES ASSUME NEW d \in Commands, InUse(d)', cmd'[d].type \in CancelType
                 PROVE  \E q \in Runs : run'[q].cancelReq
        BY DEF AskedInv
    <3>1. d # c
        BY <1>1 DEF CancelType
    <3>2. PICK q \in Runs : run[q].cancelReq
        BY <1>0, <1>1, <1>7, <3>1 DEF RowsInv, AskedInv
    <3> QED BY <1>5, <3>2
  <2>6. FenceInv'
    <3> SUFFICES ASSUME NEW q \in Runs, NEW d \in Commands, d <= run'[q].fence
                 PROVE  cmd'[d].status \in Finished
        BY DEF FenceInv
    <3>1. q # r
        BY DEF Commands
    <3>2. cmd[d].status \in Finished
        BY <1>0, <3>1 DEF RowsInv, FenceInv
    <3> QED BY <1>1, <3>2 DEF Finished
  <2>7. LatestInv' /\ TaskOutcomeFromRun'
      BY <1>4 DEF LatestInv, TaskOutcomeFromRun, TerminalStatus
  <2>8. AbsentInv'
    <3> SUFFICES ASSUME NEW q \in Runs, ~Exists(q)'
                 PROVE  /\ pause'[q].status = "absent" /\ ~run'[q].off
                        /\ ~run'[q].intent /\ ~run'[q].cancelReq
        BY DEF AbsentInv
    <3>1. ~Exists(q) /\ q # r
        BY <1>3
    <3> QED BY <1>0, <3>1 DEF RowsInv, AbsentInv
  <2>9. UnattendedOnlyAfterCancel'
      BY <1>7 DEF UnattendedOnlyAfterCancel, NothingUnfinished, OpenWork
  <2> QED BY <2>1, <2>2, <2>3, <2>4, <2>5, <2>6, <2>7, <2>8, <2>9 DEF RowsInv
<1>10. Grow
  <2>1. \A q \in Runs : Exists(q) =>
          /\ run'[q].status # "absent" /\ run'[q].kind = run[q].kind
          /\ run[q].off => run'[q].off
          /\ run[q].cancelReq => run'[q].cancelReq
      BY <1>2 DEF Exists
  <2>2. \A d \in Commands : cmd[d].attempt > 0 =>
          /\ cmd'[d].attempt > 0 /\ cmd'[d].type = cmd[d].type
          /\ cmd'[d].arg = cmd[d].arg /\ cmd'[d].expired = cmd[d].expired
      BY <1>1
  <2> QED BY <2>1, <2>2 DEF Grow
<1>11. ReviewStep
  <2> SUFFICES ASSUME NEW p \in Runs, pause'[p].status # pause[p].status
               PROVE  pause[p].status = "pending" /\ pause'[p].status = "cancelled"
      BY DEF ReviewStep
  <2> QED OBVIOUS
<1>12. LifeStep
  <2>1. \A q \in Runs : run'[q].status = "succeeded" <=> run[q].status = "succeeded"
      BY <1>2 DEF Exists
  <2>2. Answers' = Answers
      BY <2>1 DEF Answers
  <2>3. task \in Lifecycle!Active \cup Lifecycle!Ended
      BY <1>0 DEF TaskStatus, ActiveStatus, TerminalStatus, Lifecycle!Active, Lifecycle!Ended
  <2>4. "queued" \in Lifecycle!Active
      BY DEF Lifecycle!Active
  <2> QED BY <2>2, <2>3, <2>4 DEF LifeStep, Lifecycle!Next, Lifecycle!Work, Lifecycle!Reopen
<1>13. \A q \in Runs : run'[q].off => run[q].off
    OBVIOUS
<1>14. \A d \in Commands, q \in Runs : OpenWork(d)' /\ q = RunOf(d)' => ~Exists(q)
    BY <1>2, <1>7, <1>8
<1> QED BY <1>6, <1>9, <1>10, <1>11, <1>12, <1>13, <1>14, NoneHeld, RequestFine

LEMMA RetryTaskFine ==
    ASSUME TInv, IInv', RetryTask, UNCHANGED <<serverVars, worker, blind>>
    PROVE  FineStep
<1>0. run \in [Runs -> RunRow] /\ RowsInv
    BY Typed DEF TInv
<1>1. PICK src \in Runs, r \in Runs :
         /\ Latest(src) /\ run[src].status \in {"failed", "blocked", "cancelled"}
         /\ FreshRun(r)
         /\ run' = [run EXCEPT ![r] = NewRun("retry", src, "queued", FALSE)]
         /\ AppendCommand(NewCommand("retry", r, FALSE))
    BY DEF RetryTask
<1>2. /\ run'[r].status = "queued" /\ run'[r].off = FALSE /\ run'[r].intent = FALSE
      /\ run'[r].fence = 0
  <2>1. run'[r] = NewRun("retry", src, "queued", FALSE)
      BY <1>0, <1>1
  <2> QED BY <2>1 DEF NewRun
<1>3. \A q \in Runs \ {r} : run'[q] = run[q]
    BY <1>0, <1>1
<1>4. pause' = pause /\ NothingUnfinished /\ task' = "queued"
    BY DEF RetryTask
<1>5. ASSUME NEW p \in Runs, pause'[p].status = "pending", run'[p].status = "waiting_human"
      PROVE  FALSE
  <2>1. run[p].status = "waiting_human"
      BY <1>2, <1>3, <1>5
  <2>2. Latest(p)
      BY <1>0, <1>4, <1>5, <2>1 DEF RowsInv, ReviewInv
  <2>3. p = src
      BY <1>1, <2>2 DEF Latest, Runs
  <2> QED BY <1>1, <2>1, <2>3
<1>6. ~NoRunYet
    BY <1>1 DEF NoRunYet, Latest
<1> QED BY <1>1, <1>2, <1>3, <1>4, <1>5, <1>6, NewWorkFine

LEMMA ForkTaskFine ==
    ASSUME TInv, IInv', NEW src \in Runs, ForkTask(src),
           UNCHANGED <<serverVars, worker, blind>>
    PROVE  FineStep
<1>0. /\ run \in [Runs -> RunRow] /\ pause \in [Runs -> PauseRow] /\ RowsInv
    BY Typed DEF TInv
<1>1. PICK r \in Runs :
         /\ FreshRun(r)
         /\ run' = [q \in Runs |->
                       IF q = r THEN NewRun("fork", src, "queued", TRUE)
                       ELSE IF pause[q].status = "pending"
                       THEN [run[q] EXCEPT !.status = "cancelled"]
                       ELSE run[q]]
         /\ AppendCommand(NewCommand("fork", r, FALSE))
    BY DEF ForkTask
<1>2. /\ run'[r].status = "queued" /\ run'[r].off = FALSE /\ run'[r].intent = FALSE
      /\ run'[r].fence = 0
  <2>1. run'[r] = NewRun("fork", src, "queued", TRUE)
      BY <1>1
  <2> QED BY <2>1 DEF NewRun
<1>3. /\ NothingUnfinished /\ task' = "queued" /\ Exists(src)
      /\ \A p \in Runs : pause[p].status = "pending" => run[p].status = "waiting_human"
      /\ pause' = [p \in Runs |-> IF pause[p].status = "pending"
                                  THEN [pause[p] EXCEPT !.status = "cancelled"]
                                  ELSE pause[p]]
    BY DEF ForkTask, PendingPausesCancelled
<1>4. ASSUME NEW q \in Runs \ {r}
      PROVE  /\ run'[q].off = run[q].off /\ run'[q].intent = run[q].intent
             /\ run'[q].cancelReq = run[q].cancelReq /\ run'[q].kind = run[q].kind
             /\ run'[q].fence = run[q].fence
             /\ \/ run'[q].status = run[q].status
                \/ run'[q].status = "cancelled" /\ run[q].status = "waiting_human"
  <2>1. CASE pause[q].status = "pending"
    <3>1. run'[q] = [run[q] EXCEPT !.status = "cancelled"] /\ run[q] \in RunRow
        BY <1>0, <1>1, <2>1
    <3> QED BY <1>3, <2>1, <3>1 DEF RunRow
  <2>2. CASE pause[q].status # "pending"
      BY <1>1, <2>2
  <2> QED BY <2>1, <2>2
<1>5. ASSUME NEW p \in Runs
      PROVE  /\ pause'[p].status # "pending"
             /\ \/ pause'[p].status = pause[p].status
                \/ pause[p].status = "pending" /\ pause'[p].status = "cancelled"
    BY <1>0, <1>3 DEF PauseRow
<1>6. ~NoRunYet
    BY <1>3 DEF NoRunYet
<1> QED BY <1>1, <1>2, <1>3, <1>4, <1>5, <1>6, NewWorkFine

\* A response or an expiry adds the Run that resumes the newest one.
LEMMA NewResumeFine ==
    ASSUME TInv, IInv', UNCHANGED <<serverVars, worker, blind>>,
           task' = task, task = "waiting_human",
           NEW p \in Runs, pause[p].status = "pending", run[p].status = "waiting_human",
           NEW r \in Runs, r = ResumeOf(p), ~Exists(r),
           NEW e, AppendCommand(NewCommand("respond", p, e)),
           run' = [run EXCEPT ![r] = NewRun("resume", p, "queued", FALSE)],
           NEW s \in {"responding", "expired"}, pause' = [pause EXCEPT ![p].status = s]
    PROVE  FineStep
<1>0. /\ RowsInv /\ worker' = worker /\ r = p + 1 /\ p # r /\ r > 0
      /\ run \in [Runs -> RunRow] /\ pause \in [Runs -> PauseRow]
    BY Typed DEF TInv, Runs, ResumeOf
<1>1. PICK c \in Commands :
              /\ cmd[c].status = "absent" /\ cmd[c].attempt = 0
              /\ cmd'[c].status = "pending" /\ cmd'[c].type = "respond" /\ cmd'[c].arg = p
              /\ cmd'[c].attempt = 0
              /\ \A d \in Commands \ {c} : cmd'[d] = cmd[d]
              /\ \A v \in Workers : Held(v)' => Held(v) /\ worker[v].cmd # c
    BY <1>0, AppendFacts
<1>2. Latest(p) /\ Exists(p) /\ (\A d \in Commands : ~OpenWork(d))
    BY <1>0 DEF RowsInv, ReviewInv, Latest
<1>3. /\ run'[r].status = "queued" /\ run'[r].off = FALSE /\ run'[r].intent = FALSE
      /\ run'[r].fence = 0 /\ run'[r].kind = "resume" /\ run'[r].cancelReq = FALSE
      /\ \A q \in Runs \ {r} : run'[q] = run[q]
  <2>1. run'[r] = NewRun("resume", p, "queued", FALSE)
      BY <1>0
  <2>2. \A q \in Runs \ {r} : run'[q] = run[q]
      BY <1>0
  <2> QED BY <2>1, <2>2 DEF NewRun
<1>4. /\ pause'[p].status = s
      /\ \A q \in Runs \ {p} : pause'[q] = pause[q]
    BY <1>0 DEF PauseRow
<1>5. \A q \in Runs : Exists(q)' <=> Exists(q) \/ q = r
  <2> SUFFICES ASSUME NEW q \in Runs PROVE Exists(q)' <=> Exists(q) \/ q = r
      OBVIOUS
  <2>1. CASE q = r
      BY <1>3, <2>1 DEF Exists
  <2>2. CASE q # r
      BY <1>3, <2>2 DEF Exists
  <2> QED BY <2>1, <2>2
<1>6. \A q \in Runs : Latest(q)' <=> q = r
  <2>1. \A q \in Runs : q > r => ~Exists(q)'
      BY <1>0, <1>2, <1>5 DEF Latest, Runs
  <2>2. Latest(r)'
      BY <1>5, <2>1 DEF Latest
  <2>3. ASSUME NEW q \in Runs, Latest(q)' PROVE q = r
      BY <1>5, <2>1, <2>3 DEF Latest, Runs
  <2> QED BY <2>2, <2>3
<1>7. pause[r].status = "absent" /\ pause'[r].status = "absent" /\ ~run[r].cancelReq
    BY <1>0, <1>4 DEF RowsInv, AbsentInv
<1>8. \A d \in Commands :
         /\ OpenWork(d)' <=> d = c
         /\ InUse(d)' <=> InUse(d) \/ d = c
         /\ d # c => RunOf(d)' = RunOf(d)
  <2>1. OpenWork(c)' /\ InUse(c)'
      BY <1>1 DEF OpenWork, IsUnfinished, Unfinished, InUse, WorkType
  <2>2. ASSUME NEW d \in Commands, d # c
        PROVE  ~OpenWork(d)' /\ (InUse(d)' <=> InUse(d)) /\ RunOf(d)' = RunOf(d)
      BY <1>1, <1>2, <2>2 DEF OpenWork, IsUnfinished, InUse, RunOf, ResumeOf
  <2> QED BY <2>1, <2>2
<1>9. RunOf(c)' = r
    BY <1>0, <1>1 DEF RunOf, ResumeOf
<1>10. RowsInv'
  <2>1. RunsInv'
    <3>1. ASSUME NEW a \in Runs, NEW b \in Runs, a < b, Exists(b)' PROVE Exists(a)'
      <4>1. CASE b = r
        <5>1. a = p \/ a < p
            BY <1>0, <3>1, <4>1 DEF Runs
        <5> QED BY <1>0, <1>2, <1>5, <5>1 DEF RowsInv, RunsInv
      <4>2. CASE b # r
          BY <1>0, <1>5, <3>1, <4>2 DEF RowsInv, RunsInv
      <4> QED BY <4>1, <4>2
    <3> QED BY <1>6, <3>1 DEF RunsInv
  <2>2. ArgInv'
    <3> SUFFICES ASSUME NEW d \in Commands, InUse(d)', NEW a, a = cmd'[d].arg,
                        cmd'[d].type \in {"respond", "retry", "fork", "cancel_run"}
                 PROVE  a \in Runs /\ Exists(a)'
        BY DEF ArgInv, Exists
    <3>1. CASE d = c
        BY <1>1, <1>2, <1>5, <3>1
    <3>2. CASE d # c
      <4>1. a \in Runs /\ Exists(a)
          BY <1>0, <1>1, <1>8, <3>2 DEF RowsInv, ArgInv
      <4> QED BY <1>5, <4>1
    <3> QED BY <3>1, <3>2
  <2>3. WorkInv'
    <3>1. WorkOK(c)'
        BY <1>1, <1>3, <1>6, <1>7, <1>8, <1>9 DEF WorkOK
    <3> QED BY <1>8, <3>1 DEF WorkInv
  <2>4. ReviewInv'
    <3> SUFFICES ASSUME NEW q \in Runs, pause'[q].status = "pending",
                        run'[q].status = "waiting_human"
                 PROVE  FALSE
        BY DEF ReviewInv
    <3>1. q # p /\ q # r
        BY <1>3, <1>4
    <3>2. pause[q].status = "pending" /\ run[q].status = "waiting_human"
        BY <1>3, <1>4, <3>1
    <3>3. Latest(q)
        BY <1>0, <3>2 DEF RowsInv, ReviewInv
    <3> QED BY <1>2, <3>1, <3>3 DEF Latest, Runs
  <2>5. AskedInv'
    <3> SUFFICES ASSUME NEW d \in Commands, InUse(d)', cmd'[d].type \in CancelType
                 PROVE  \E q \in Runs : run'[q].cancelReq
        BY DEF AskedInv
    <3>1. d # c
        BY <1>1 DEF CancelType
    <3>2. PICK q \in Runs : run[q].cancelReq
        BY <1>0, <1>1, <1>2, <1>8, <3>1 DEF RowsInv, AskedInv, NoRunYet
    <3> QED BY <1>3, <1>7, <3>2
  <2>6. FenceInv'
    <3> SUFFICES ASSUME NEW q \in Runs, NEW d \in Commands, d <= run'[q].fence
                 PROVE  cmd'[d].status \in Finished
        BY DEF FenceInv
    <3>1. q # r
      <4>1. run'[r].fence = 0
          BY <1>3
      <4>2. ~(d <= 0)
          BY DEF Commands
      <4> QED BY <4>1, <4>2
    <3>2. cmd[d].status \in Finished
        BY <1>0, <1>3, <3>1 DEF RowsInv, FenceInv
    <3> QED BY <1>1, <3>2 DEF Finished
  <2>7. LatestInv' /\ TaskOutcomeFromRun'
      BY <1>3, <1>6 DEF LatestInv, TaskOutcomeFromRun, TerminalStatus
  <2>8. AbsentInv'
    <3> SUFFICES ASSUME NEW q \in Runs, ~Exists(q)'
                 PROVE  /\ pause'[q].status = "absent" /\ ~run'[q].off
                        /\ ~run'[q].intent /\ ~run'[q].cancelReq
        BY DEF AbsentInv
    <3>1. ~Exists(q) /\ q # r /\ q # p
        BY <1>2, <1>5
    <3> QED BY <1>0, <1>3, <1>4, <3>1 DEF RowsInv, AbsentInv
  <2>9. UnattendedOnlyAfterCancel'
      BY <1>8 DEF UnattendedOnlyAfterCancel, NothingUnfinished, OpenWork
  <2> QED BY <2>1, <2>2, <2>3, <2>4, <2>5, <2>6, <2>7, <2>8, <2>9 DEF RowsInv
<1>11. Grow
  <2>1. \A q \in Runs : Exists(q) =>
          /\ run'[q].status # "absent" /\ run'[q].kind = run[q].kind
          /\ run[q].off => run'[q].off
          /\ run[q].cancelReq => run'[q].cancelReq
      BY <1>3 DEF Exists
  <2>2. \A d \in Commands : cmd[d].attempt > 0 =>
          /\ cmd'[d].attempt > 0 /\ cmd'[d].type = cmd[d].type
          /\ cmd'[d].arg = cmd[d].arg /\ cmd'[d].expired = cmd[d].expired
      BY <1>1
  <2> QED BY <2>1, <2>2 DEF Grow
<1>12. ReviewStep
  <2> SUFFICES ASSUME NEW q \in Runs, pause'[q].status # pause[q].status
               PROVE  pause[q].status = "pending" /\ pause'[q].status \in {"responding", "expired"}
      BY DEF ReviewStep
  <2> QED BY <1>4
<1>13. LifeStep
  <2>1. \A q \in Runs : run'[q].status = "succeeded" <=> run[q].status = "succeeded"
      BY <1>3 DEF Exists
  <2>2. Answers' = Answers
      BY <2>1 DEF Answers
  <2> QED BY <2>2 DEF LifeStep
<1>14. HeldInv'
  <2>1. \A q \in Runs : Exists(q) =>
              /\ run'[q].status = run[q].status
              /\ run[q].intent \/ run[q].off => run'[q].intent \/ run'[q].off
      BY <1>3
  <2>2. \A q \in Runs : ~Exists(q) /\ run'[q].status # "absent" =>
              run'[q].kind = "resume" /\ ~NoRunYet
      BY <1>2, <1>3 DEF NoRunYet, Exists
  <2>3. \A v \in Workers : Held(v)' =>
              /\ Held(v) /\ worker'[v].cmd = worker[v].cmd
              /\ worker'[v].run = worker[v].run /\ worker'[v].handle = worker[v].handle
      BY <1>0, <1>1
  <2> QED BY <1>11, <2>1, <2>2, <2>3, HeldKept
<1>15. \A q \in Runs : run'[q].off => run[q].off
    BY <1>3
<1>16. \A d \in Commands, q \in Runs : OpenWork(d)' /\ q = RunOf(d)' => ~Exists(q)
    BY <1>8, <1>9
<1> QED BY <1>1, <1>10, <1>11, <1>12, <1>13, <1>14, <1>15, <1>16, RequestFine

LEMMA RespondFine ==
    ASSUME TInv, IInv', NEW p \in Runs,
           \/ RespondInterrupts(p) /\ UNCHANGED <<serverVars, worker, blind>>
           \/ \E w \in Workers : ExpireDueInterrupt(w, p)
    PROVE  FineStep
<1>1. PICK r \in Runs : r = ResumeOf(p)
    BY DEF RespondInterrupts, ExpireDueInterrupt
<1>2. /\ task' = task /\ task = "waiting_human" /\ ~Exists(r)
      /\ pause[p].status = "pending" /\ run[p].status = "waiting_human"
      /\ run' = [run EXCEPT ![r] = NewRun("resume", p, "queued", FALSE)]
      /\ UNCHANGED <<serverVars, worker, blind>>
    BY <1>1 DEF RespondInterrupts, ExpireDueInterrupt, LatestWaiting
<1>3. \E s \in {"responding", "expired"} : pause' = [pause EXCEPT ![p].status = s]
    BY DEF RespondInterrupts, ExpireDueInterrupt, AcceptedPause
<1>4. \E e \in BOOLEAN : AppendCommand(NewCommand("respond", p, e))
    BY DEF RespondInterrupts, ExpireDueInterrupt
<1> QED BY <1>1, <1>2, <1>3, <1>4, NewResumeFine

-----------------------------------------------------------------------------
(***************************************************************************)
(* Requests that withdraw commands                                         *)
(***************************************************************************)
LEMMA WithdrawFacts ==
    ASSUME TInv, worker' = worker, NEW c \in Commands, FreshCommand(c),
           NEW type, NEW arg, NEW e, WithdrawAndAppend(c, NewCommand(type, arg, e))
    PROVE  /\ cmd[c].status = "absent" /\ cmd[c].attempt = 0
           /\ cmd'[c].status = "pending" /\ cmd'[c].type = type /\ cmd'[c].arg = arg
           /\ cmd'[c].attempt = 0
           /\ \A d \in Commands \ {c} :
                 /\ cmd'[d].type = cmd[d].type /\ cmd'[d].arg = cmd[d].arg
                 /\ cmd'[d].expired = cmd[d].expired /\ cmd'[d].attempt = cmd[d].attempt
                 /\ \/ cmd'[d] = cmd[d]
                    \/ IsUnfinished(d) /\ cmd'[d].status = "cancelled"
                 /\ IsUnfinished(d)' => /\ cmd'[d] = cmd[d] /\ cmd[d].status = "dispatching"
                                        /\ cmd[d].type = "submit"
           /\ \A v \in Workers : Held(v)' => Held(v) /\ worker[v].cmd # c
<1>0. cmd \in [Commands -> CommandRow]
    BY Typed DEF TInv
<1>1. /\ cmd'[c] = NewCommand(type, arg, e)
      /\ \A d \in Commands \ {c} :
            cmd'[d] = IF Withdrawn(d) THEN Close(cmd[d], "cancelled") ELSE cmd[d]
    BY DEF WithdrawAndAppend
<1>2. cmd[c].status = "absent" /\ cmd[c].attempt = 0
    BY Typed DEF TInv, FreshCommand, QueueInv
<1>3. /\ cmd'[c].status = "pending" /\ cmd'[c].type = type /\ cmd'[c].arg = arg
      /\ cmd'[c].attempt = 0
    BY <1>1 DEF NewCommand
<1>4. ASSUME NEW d \in Commands \ {c}
      PROVE  /\ cmd'[d].type = cmd[d].type /\ cmd'[d].arg = cmd[d].arg
             /\ cmd'[d].expired = cmd[d].expired /\ cmd'[d].attempt = cmd[d].attempt
             /\ \/ cmd'[d] = cmd[d]
                \/ IsUnfinished(d) /\ cmd'[d].status = "cancelled"
             /\ IsUnfinished(d)' => /\ cmd'[d] = cmd[d] /\ cmd[d].status = "dispatching"
                                    /\ cmd[d].type = "submit"
  <2>1. CASE Withdrawn(d)
    <3>1. cmd'[d] = Close(cmd[d], "cancelled") /\ cmd[d] \in CommandRow
        BY <1>0, <1>1, <2>1
    <3>2. /\ cmd'[d].type = cmd[d].type /\ cmd'[d].arg = cmd[d].arg
          /\ cmd'[d].expired = cmd[d].expired /\ cmd'[d].attempt = cmd[d].attempt
          /\ cmd'[d].status = "cancelled"
        BY <3>1 DEF Close, CommandRow
    <3> QED BY <2>1, <3>2 DEF Withdrawn, IsUnfinished, Unfinished
  <2>2. CASE ~Withdrawn(d)
    <3>1. cmd'[d] = cmd[d]
        BY <1>1, <2>2
    <3> QED BY <2>2, <3>1 DEF Withdrawn, IsUnfinished, Unfinished
  <2> QED BY <2>1, <2>2
<1>5. ASSUME NEW v \in Workers, Held(v)' PROVE Held(v) /\ worker[v].cmd # c
  <2>1. worker[v].cmd \in Commands /\ ~At(v, "idle") /\ worker'[v] = worker[v]
      BY <1>5, Typed DEF TInv, Held, At
  <2>2. worker[v].cmd # c
      BY <1>3, <1>5, <2>1 DEF Held, Owns, Row
  <2>3. cmd'[worker[v].cmd] = cmd[worker[v].cmd]
      BY <1>4, <1>5, <2>1, <2>2 DEF Held, Owns, Row
  <2> QED BY <1>5, <2>1, <2>2, <2>3 DEF Held, Owns, Row
<1> QED BY <1>2, <1>3, <1>4, <1>5

LEMMA WithdrawFine ==
    ASSUME TInv, IInv', UNCHANGED <<serverVars, worker, blind, task, pause>>,
           NEW c \in Commands, FreshCommand(c), NEW type \in CancelType, NEW arg, NEW e,
           WithdrawAndAppend(c, NewCommand(type, arg, e)),
           type = "cancel_run" => arg \in Runs /\ Exists(arg),
           \A q \in Runs :
              /\ run'[q].status = run[q].status /\ run'[q].kind = run[q].kind
              /\ run'[q].off = run[q].off /\ run'[q].intent = run[q].intent
              /\ run'[q].fence = run[q].fence
              /\ run[q].cancelReq => run'[q].cancelReq
              /\ run'[q].cancelReq => run[q].cancelReq \/ Exists(q),
           NoRunYet \/ \E q \in Runs : run'[q].cancelReq
    PROVE  FineStep
<1>0. /\ RowsInv /\ worker' = worker /\ task' = task /\ pause' = pause
      /\ UNCHANGED <<serverVars, worker, blind>>
    BY DEF TInv
<1>1. /\ cmd[c].status = "absent" /\ cmd[c].attempt = 0
      /\ cmd'[c].status = "pending" /\ cmd'[c].type = type /\ cmd'[c].arg = arg
      /\ cmd'[c].attempt = 0
      /\ \A d \in Commands \ {c} :
            /\ cmd'[d].type = cmd[d].type /\ cmd'[d].arg = cmd[d].arg
            /\ cmd'[d].expired = cmd[d].expired /\ cmd'[d].attempt = cmd[d].attempt
            /\ \/ cmd'[d] = cmd[d]
               \/ IsUnfinished(d) /\ cmd'[d].status = "cancelled"
            /\ IsUnfinished(d)' => /\ cmd'[d] = cmd[d] /\ cmd[d].status = "dispatching"
                                   /\ cmd[d].type = "submit"
      /\ \A v \in Workers : Held(v)' => Held(v) /\ worker[v].cmd # c
    BY <1>0, WithdrawFacts
<1>2. /\ \A q \in Runs : (Exists(q)' <=> Exists(q)) /\ (Latest(q)' <=> Latest(q))
      /\ NoRunYet' <=> NoRunYet
    BY DEF Exists, Latest, NoRunYet
<1>3. \A d \in Commands :
         /\ d # c => RunOf(d)' = RunOf(d) /\ (InUse(d)' <=> InUse(d))
         /\ OpenWork(d)' => /\ d # c /\ OpenWork(d) /\ cmd[d].status = "dispatching"
                            /\ cmd[d].type = "submit"
  <2>1. ASSUME NEW d \in Commands, d # c
        PROVE  RunOf(d)' = RunOf(d) /\ (InUse(d)' <=> InUse(d))
    <3>1. RunOf(d)' = RunOf(d)
        BY <1>1, <2>1 DEF RunOf, ResumeOf
    <3> QED BY <1>1, <2>1, <3>1 DEF InUse, IsUnfinished, Unfinished
  <2>2. ASSUME NEW d \in Commands, OpenWork(d)'
        PROVE  /\ d # c /\ OpenWork(d) /\ cmd[d].status = "dispatching"
               /\ cmd[d].type = "submit"
    <3>1. d # c
        BY <1>1, <2>2 DEF OpenWork, WorkType, CancelType
    <3> QED BY <1>1, <2>2, <3>1 DEF OpenWork, IsUnfinished
  <2> QED BY <2>1, <2>2
<1>4. RowsInv'
  <2>1. RunsInv' /\ LatestInv' /\ AbsentInv' /\ TaskOutcomeFromRun'
    <3>1. RunsInv' /\ LatestInv' /\ TaskOutcomeFromRun'
        BY <1>0, <1>2 DEF RowsInv, RunsInv, LatestInv, TaskOutcomeFromRun
    <3>2. AbsentInv'
        BY <1>0, <1>2 DEF RowsInv, AbsentInv
    <3> QED BY <3>1, <3>2
  <2>2. ArgInv'
    <3> SUFFICES ASSUME NEW d \in Commands, InUse(d)', NEW a, a = cmd'[d].arg,
                        cmd'[d].type \in {"respond", "retry", "fork", "cancel_run"}
                 PROVE  a \in Runs /\ Exists(a)'
        BY DEF ArgInv, Exists
    <3>1. CASE d = c
        BY <1>1, <1>2, <3>1 DEF CancelType
    <3>2. CASE d # c
      <4>1. a \in Runs /\ Exists(a)
          BY <1>0, <1>1, <1>3, <3>2 DEF RowsInv, ArgInv
      <4> QED BY <1>2, <4>1
    <3> QED BY <3>1, <3>2
  <2>3. WorkInv'
    <3> SUFFICES ASSUME NEW d \in Commands, OpenWork(d)' PROVE WorkOK(d)'
        BY DEF WorkInv
    <3>1. d # c /\ OpenWork(d) /\ WorkOK(d) /\ RunOf(d)' = RunOf(d)
        BY <1>0, <1>3 DEF RowsInv, WorkInv
    <3>2. cmd'[d].type = cmd[d].type /\ cmd'[d].attempt = cmd[d].attempt
        BY <1>1, <3>1
    <3>3. \A x \in Commands : OpenWork(x)' => x = d
        BY <1>3, <3>1 DEF WorkOK
    <3> QED BY <1>0, <1>2, <3>1, <3>2, <3>3 DEF WorkOK
  <2>4. ReviewInv'
      BY <1>0, <1>2, <1>3 DEF RowsInv, ReviewInv
  <2>5. AskedInv'
    <3>1. ASSUME NoRunYet, NEW d \in Commands, OpenWork(d)' PROVE FALSE
      <4>1. OpenWork(d) /\ cmd[d].attempt > 0 /\ WorkOK(d)
          BY <1>0, <1>3, <3>1, Typed DEF TInv, QueueInv, RowsInv, WorkInv
      <4>2. Latest(RunOf(d)) /\ RunOf(d) \in Runs
          BY <4>1 DEF WorkOK
      <4> QED BY <3>1, <4>2 DEF Latest, NoRunYet
    <3> QED BY <1>2, <3>1 DEF AskedInv
  <2>6. FenceInv'
    <3> SUFFICES ASSUME NEW q \in Runs, NEW d \in Commands, d <= run'[q].fence
                 PROVE  cmd'[d].status \in Finished
        BY DEF FenceInv
    <3>1. cmd[d].status \in Finished
        BY <1>0 DEF RowsInv, FenceInv
    <3>2. d # c /\ ~IsUnfinished(d)
        BY <1>1, <3>1 DEF Finished, IsUnfinished, Unfinished
    <3> QED BY <1>1, <3>1, <3>2
  <2>7. UnattendedOnlyAfterCancel'
      BY <1>1 DEF UnattendedOnlyAfterCancel, NothingUnfinished, IsUnfinished, Unfinished
  <2> QED BY <2>1, <2>2, <2>3, <2>4, <2>5, <2>6, <2>7 DEF RowsInv
<1>5. Grow
  <2>1. \A d \in Commands : cmd[d].attempt > 0 =>
          /\ cmd'[d].attempt > 0 /\ cmd'[d].type = cmd[d].type
          /\ cmd'[d].arg = cmd[d].arg /\ cmd'[d].expired = cmd[d].expired
      BY <1>1
  <2> QED BY <2>1 DEF Grow, Exists
<1>6. HeldInv'
  <2>1. \A v \in Workers : Held(v)' =>
              /\ Held(v) /\ worker'[v].cmd = worker[v].cmd
              /\ worker'[v].run = worker[v].run /\ worker'[v].handle = worker[v].handle
      BY <1>0, <1>1
  <2> QED BY <1>0, <1>5, <2>1, HeldKept DEF Exists
<1>7. ReviewStep
    BY <1>0 DEF ReviewStep
<1>8. LifeStep
  <2>1. Answers' = Answers
      BY DEF Answers
  <2> QED BY <1>0, <2>1 DEF LifeStep
<1>9. /\ \A v \in Workers : Held(v)' => Held(v)
      /\ \A q \in Runs : run'[q].off => run[q].off
      /\ task' = "cancelled" =>
            task = "cancelled" /\ \A q \in Runs : Exists(q)' <=> Exists(q)
    BY <1>0, <1>1, <1>2
<1>10. \A d \in Commands, q \in Runs : OpenWork(d)' /\ q = RunOf(d)' =>
          /\ OpenWork(d) /\ q = RunOf(d)
          /\ run'[q].off = run[q].off /\ run'[q].intent = run[q].intent
    BY <1>3
<1> QED BY <1>0, <1>4, <1>5, <1>6, <1>7, <1>8, <1>9, <1>10, RequestFine

LEMMA CancelFine ==
    ASSUME TInv, IInv', CancelTask \/ (\E r \in Runs : CancelRun(r)),
           UNCHANGED <<serverVars, worker, blind>>
    PROVE  FineStep
<1>0. run \in [Runs -> RunRow] /\ RowsInv
    BY Typed DEF TInv
<1>1. CASE CancelTask
  <2>1. PICK c \in Commands : FreshCommand(c)
                              /\ WithdrawAndAppend(c, NewCommand("cancel_task", NoRun, FALSE))
      BY <1>1 DEF CancelTask
  <2>2. /\ UNCHANGED <<task, pause>>
        /\ run' = [q \in Runs |-> IF Latest(q) THEN [run[q] EXCEPT !.cancelReq = TRUE]
                                  ELSE run[q]]
      BY <1>1 DEF CancelTask
  <2>3. ASSUME NEW q \in Runs
        PROVE  /\ run'[q].status = run[q].status /\ run'[q].kind = run[q].kind
               /\ run'[q].off = run[q].off /\ run'[q].intent = run[q].intent
               /\ run'[q].fence = run[q].fence
               /\ run[q].cancelReq => run'[q].cancelReq
               /\ run'[q].cancelReq => run[q].cancelReq \/ Exists(q)
               /\ Latest(q) => run'[q].cancelReq
    <3>1. CASE Latest(q)
      <4>1. run'[q] = [run[q] EXCEPT !.cancelReq = TRUE] /\ run[q] \in RunRow
          BY <1>0, <2>2, <3>1
      <4> QED BY <3>1, <4>1 DEF RunRow, Latest
    <3>2. CASE ~Latest(q)
        BY <2>2, <3>2
    <3> QED BY <3>1, <3>2
  <2>4. NoRunYet \/ \E q \in Runs : run'[q].cancelReq
      BY <1>0, <2>3 DEF RowsInv, RunsInv
  <2> QED BY <2>1, <2>2, <2>3, <2>4, WithdrawFine DEF CancelType
<1>2. ASSUME NEW r \in Runs, CancelRun(r) PROVE FineStep
  <2>1. PICK c \in Commands : FreshCommand(c)
                              /\ WithdrawAndAppend(c, NewCommand("cancel_run", r, FALSE))
      BY <1>2 DEF CancelRun
  <2>2. /\ UNCHANGED <<task, pause>> /\ Exists(r)
        /\ run' = [run EXCEPT ![r] = [run[r] EXCEPT !.cancelReq = TRUE]]
      BY <1>0, <1>2 DEF CancelRun, Exists, ActiveStatus
  <2>3. ASSUME NEW q \in Runs
        PROVE  /\ run'[q].status = run[q].status /\ run'[q].kind = run[q].kind
               /\ run'[q].off = run[q].off /\ run'[q].intent = run[q].intent
               /\ run'[q].fence = run[q].fence
               /\ run[q].cancelReq => run'[q].cancelReq
               /\ run'[q].cancelReq => run[q].cancelReq \/ Exists(q)
               /\ q = r => run'[q].cancelReq
    <3>1. CASE q = r
      <4>1. run'[q] = [run[q] EXCEPT !.cancelReq = TRUE] /\ run[q] \in RunRow
          BY <1>0, <2>2, <3>1
      <4> QED BY <2>2, <3>1, <4>1 DEF RunRow
    <3>2. CASE q # r
        BY <1>0, <2>2, <3>2
    <3> QED BY <3>1, <3>2
  <2>4. NoRunYet \/ \E q \in Runs : run'[q].cancelReq
      BY <2>3
  <2> QED BY <2>1, <2>2, <2>3, <2>4, WithdrawFine DEF CancelType
<1> QED BY <1>1, <1>2

-----------------------------------------------------------------------------
(***************************************************************************)
(* The invariant                                                           *)
(***************************************************************************)
LEMMA InitTInv == Init => TInv
<1> SUFFICES ASSUME Init PROVE TInv
    OBVIOUS
<1>1. /\ task = "queued" /\ pause = [r \in Runs |-> [status |-> "absent", due |-> FALSE]]
      /\ run = [r \in Runs |-> NewRun("submit", NoRun, "absent", FALSE)]
      /\ worker = [w \in Workers |-> Idle]
      /\ official = [r \in Runs |-> "none"] /\ duplicate = [r \in Runs |-> FALSE]
      /\ inflight = [r \in Runs |-> FALSE]
    BY DEF Init, StoreInit, ServerInit
<1>2. \A r \in Runs : /\ run[r].status = "absent" /\ run[r].off = FALSE
                      /\ run[r].intent = FALSE /\ run[r].cancelReq = FALSE
                      /\ run[r].fence = 0 /\ pause[r].status = "absent"
  <2>1. \A r \in Runs : run[r] = NewRun("submit", NoRun, "absent", FALSE)
      BY <1>1
  <2>2. \A r \in Runs : pause[r].status = "absent"
      BY <1>1
  <2> QED BY <2>1, <2>2 DEF NewRun
<1>3. /\ 1 \in Commands /\ 1 \in Runs
      /\ cmd[1].status = "pending" /\ cmd[1].type = "submit" /\ cmd[1].attempt = 0
      /\ \A c \in Commands : /\ c # 1 => cmd[c].status = "absent"
                             /\ cmd[c].type = "submit"
  <2> DEFINE row == NewCommand("submit", NoRun, FALSE)
             gap == [row EXCEPT !.status = "absent"]
  <2>1. row.status = "pending" /\ row.type = "submit" /\ row.attempt = 0
      BY DEF NewCommand
  <2>2. gap.status = "absent" /\ gap.type = "submit"
      BY DEF NewCommand
  <2>3. cmd = [c \in Commands |-> IF c = 1 THEN row ELSE gap]
      BY DEF Init, StoreInit
  <2>4. 1 \in Commands /\ 1 \in Runs
      BY StoreAssumption DEF Commands, Runs
  <2> HIDE DEF row, gap
  <2> QED BY <2>1, <2>2, <2>3, <2>4
<1>4. NoRunYet /\ \A r \in Runs : ~Exists(r) /\ ~Latest(r)
    BY <1>2 DEF NoRunYet, Exists, Latest
<1>5. \A c \in Commands : OpenWork(c) <=> c = 1
    BY <1>3 DEF OpenWork, IsUnfinished, Unfinished, WorkType
<1>6. RowsInv
  <2>1. RunsInv /\ ReviewInv /\ LatestInv /\ AbsentInv
      BY <1>2, <1>4 DEF RunsInv, ReviewInv, LatestInv, AbsentInv
  <2>2. ArgInv /\ AskedInv
      BY <1>3 DEF ArgInv, AskedInv, CancelType
  <2>3. WorkInv
    <3>1. RunOf(1) = 1
        BY <1>3 DEF RunOf
    <3> QED BY <1>2, <1>3, <1>4, <1>5, <3>1 DEF WorkInv, WorkOK
  <2>4. FenceInv
    <3>1. \A d \in Commands : ~(d <= 0)
        BY DEF Commands
    <3> QED BY <1>2, <3>1 DEF FenceInv
  <2>5. TaskOutcomeFromRun /\ UnattendedOnlyAfterCancel
    <3>1. ~NothingUnfinished
        BY <1>3 DEF NothingUnfinished, IsUnfinished, Unfinished
    <3> QED BY <1>1, <3>1 DEF TaskOutcomeFromRun, UnattendedOnlyAfterCancel, TerminalStatus
  <2> QED BY <2>1, <2>2, <2>3, <2>4, <2>5 DEF RowsInv
<1>7. \A w \in Workers : worker[w].pc = "idle"
    BY <1>1 DEF Idle
<1>8. CarriesInv /\ HeldInv
    BY <1>7 DEF CarriesInv, HeldInv, Held, At
<1>9. \A r \in Runs : Clean(r) /\ OneSourceOf(r)
  <2>1. \A w \in Workers, r \in Runs : ~Creating(w, r) /\ ~Starting(w, r)
      BY <1>7 DEF Creating, Starting, At
  <2> QED BY <1>1, <2>1 DEF Clean, OneSourceOf
<1>10. AgentInv
    BY <1>1, <1>2, <1>9 DEF AgentInv, OneSource, IntentInv, RegisteredInv, UncreatedInv, StoppedInv
<1> QED BY <1>6, <1>8, <1>10, InitIInv DEF TInv

\* One case per action: every step keeps the invariant, moves a review forward
\* and is a step of the abstract lifecycle.
LEMMA NextFine ==
    ASSUME TInv, [Next]_vars
    PROVE  FineStep
<1>0. IInv'
    BY NextGood DEF TInv, GoodStep
<1>1. ASSUME NEW w \in Workers, ClaimStep(w) PROVE FineStep
    BY <1>0, <1>1, ClaimEndsFine, ClaimFine, RespondFine DEF ClaimStep
<1>2. ASSUME NEW w \in Workers, WorkStep(w) PROVE FineStep
    BY <1>0, <1>2, ExecuteFine, ReadsFine, CreateFine, StopFine, AbandonFine, RegisterFine,
       ScheduleFine, OrphanFine, MarkFine, RememberFine, FinalizeFine,
       RecordDatabaseErrorFine, RemoteErrorRequeuesFine, RemoteErrorFallsBackFine,
       RemoteErrorFailsFine, RemoteErrorDropsFine
    DEF WorkStep
<1>3. ASSUME NEW w \in Workers, CancelStep(w) PROVE FineStep
    BY <1>0, <1>3, ReadsFine, StopFine, CancelRegisterFine, CancelRetryFine,
       CancelFailureFine, CancelFinalizeFine
    DEF CancelStep
<1>4. ASSUME NEW w \in Workers, Crash(w) \/ ReleaseOwnedLeases(w) PROVE FineStep
    BY <1>0, <1>4, AbandonFine, ReleaseFine
<1>5. CASE UserRequest /\ UNCHANGED <<serverVars, worker, blind>>
    BY <1>0, <1>5, CancelFine, RetryTaskFine, ForkTaskFine, RespondFine DEF UserRequest
<1>6. CASE ServerStep /\ UNCHANGED <<dbVars, worker, blind>>
    BY <1>0, <1>6, ServerFine
<1>7. CASE TimePasses
    BY <1>0, <1>7, TimeFine
<1>8. CASE UNCHANGED vars
  <2>1. /\ UNCHANGED dbVars /\ UNCHANGED <<worker, blind>> /\ UNCHANGED serverVars
        /\ cmd' = cmd /\ run' = run /\ worker' = worker /\ blind' = blind
        /\ official' = official /\ inflight' = inflight /\ duplicate' = duplicate
      BY <1>8 DEF vars, dbVars, serverVars
  <2>2. ServerMoves
      BY <2>1 DEF ServerMoves, serverVars
  <2>3. \A v \in Workers : Held(v)' <=> Held(v)
      BY <2>1 DEF Held, At, Owns, Row
  <2>4. \A r \in Runs : Clean(r)' <=> Clean(r)
      BY <2>1 DEF Clean, Creating
  <2>5. OneSource'
    <3>1. ASSUME NEW q \in Runs, OneSourceOf(q) PROVE OneSourceOf(q)'
      <4>1. \A v \in Workers : Creating(v, q)' <=> Creating(v, q)
          BY <2>1 DEF Creating
      <4>2. \A v \in Workers : Starting(v, q)' <=> Starting(v, q)
          BY <2>1, <2>3 DEF Starting, At, Type, Row
      <4> QED BY <2>1, <2>4, <3>1, <4>1, <4>2 DEF OneSourceOf
    <3> QED BY <2>1, <3>1 DEF TInv, AgentInv, OneSource
  <2>6. IntentInv'
      BY <2>1, <2>4 DEF TInv, AgentInv, IntentInv, OpenWork, IsUnfinished, RunOf, ResumeOf
  <2> QED BY <1>0, <2>1, <2>2, <2>3, <2>5, <2>6, SameDb, RowsStay
<1> QED BY <1>1, <1>2, <1>3, <1>4, <1>5, <1>6, <1>7, <1>8 DEF Next

LEMMA OutcomeInvariantHolds == Spec => []TInv
<1>1. TInv /\ [Next]_vars => TInv'
    BY NextFine DEF FineStep
<1> QED BY InitTInv, <1>1, PTL DEF Spec

-----------------------------------------------------------------------------
(***************************************************************************)
(* The properties                                                          *)
(***************************************************************************)
\* Whatever crashes, is lost or arrives late, a Product Run gets a second
\* official Run only after an error dropped its create intent while an earlier
\* create request was unsettled: the intent that the claim makes durable, the
\* find before every create and the lease leave a Run one source of official
\* Runs, for any number of workers.
THEOREM AtMostOneOfficialRunHolds == Spec => []AtMostOneOfficialRun
<1>1. TInv => AtMostOneOfficialRun
  <2> SUFFICES ASSUME TInv, NEW r \in Runs, duplicate[r] PROVE blind[r]
      BY DEF AtMostOneOfficialRun
  <2> QED BY DEF TInv, AgentInv, OneSource, OneSourceOf
<1> QED BY OutcomeInvariantHolds, <1>1, PTL

\* A cancelled Task leaves no official Run of its newest Run behind: every place
\* that writes the status "cancelled" has seen the official Run stopped or ended,
\* whichever worker does it and however late the create request arrived.
THEOREM CancelledRunStoppedHolds == Spec => []CancelledRunStopped
<1>1. TInv => CancelledRunStopped
    BY DEF TInv, AgentInv, StoppedInv, CancelledRunStopped
<1> QED BY OutcomeInvariantHolds, <1>1, PTL

\* No error path, lost lease or crash leaves an active Task without a command
\* that drives it or a review that waits for its owner; only a cancellation can.
THEOREM UnattendedOnlyAfterCancelHolds == Spec => []UnattendedOnlyAfterCancel
<1>1. TInv => UnattendedOnlyAfterCancel
    BY DEF TInv, RowsInv
<1> QED BY OutcomeInvariantHolds, <1>1, PTL

\* The status a Task ends with is the status of one of its Runs, whichever
\* transaction ended it.
THEOREM TaskOutcomeFromRunHolds == Spec => []TaskOutcomeFromRun
<1>1. TInv => TaskOutcomeFromRun
    BY DEF TInv, RowsInv
<1> QED BY OutcomeInvariantHolds, <1>1, PTL

\* A review that can be answered belongs to the newest Run, so the Run that an
\* answer or the timer of _expire_due_interrupt_once inserts has a free attempt.
THEOREM OpenReviewIsNewestHolds == Spec => []OpenReviewIsNewest
<1>1. TInv => OpenReviewIsNewest
    BY DEF TInv, RowsInv, ReviewInv, OpenReviewIsNewest
<1> QED BY OutcomeInvariantHolds, <1>1, PTL

\* An accepted answer is not replaced by the timer, a fork or a second answer,
\* and no step of any worker opens a settled review again.
THEOREM ReviewMovesForwardHolds == Spec => ReviewMovesForward
<1>1. TInv /\ [Next]_vars =>
         [\A p \in Runs : pause'[p].status # pause[p].status =>
            pause'[p].status \in
              CASE pause[p].status = "absent" -> {"pending"}
                [] pause[p].status = "pending" -> {"responding", "expired", "cancelled"}
                [] pause[p].status = "responding" -> {"resolved", "cancelled", "resume_failed"}
                [] pause[p].status = "expired" -> {"resume_failed"}
                [] OTHER -> {}]_vars
    BY NextFine DEF FineStep, ReviewStep
<1> QED BY OutcomeInvariantHolds, <1>1, PTL DEF Spec, ReviewMovesForward

\* The dispatcher, with its workers, leases, retries and late answers, is an
\* implementation of TaskLifecycle: a Task ends once, a result is published
\* only by the step that ends it as succeeded, and stays published.
THEOREM ImplementsLifecycleHolds == Spec => ImplementsLifecycle
<1>1. Init => Lifecycle!Init
  <2> SUFFICES ASSUME Init PROVE Lifecycle!Init
      OBVIOUS
  <2>1. task = "queued" /\ \A r \in Runs : run[r] = NewRun("submit", NoRun, "absent", FALSE)
      BY DEF Init, StoreInit
  <2>2. Answers = {}
      BY <2>1 DEF Answers, NewRun
  <2> QED BY <2>1, <2>2 DEF Lifecycle!Init
<1>2. TInv /\ [Next]_vars => [Lifecycle!Next]_(Lifecycle!lifeVars)
    BY NextFine DEF FineStep, LifeStep, Lifecycle!lifeVars
<1> QED BY OutcomeInvariantHolds, <1>1, <1>2, PTL DEF Spec, ImplementsLifecycle, Lifecycle!Spec
=============================================================================
