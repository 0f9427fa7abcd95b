----------------------- MODULE ProjectionReconcilerProofs -----------------------
(***************************************************************************)
(* What is finished stays finished, for every number of dispatchers and    *)
(* reconcilers, of crashes and of lost leases.  The lock of the Task row   *)
(* is what protects a completed command from a claim that chose it from an *)
(* old snapshot; the conditions that each transaction reads again protect  *)
(* it from everybody else, so the locks of the other two rows, and the     *)
(* order in which they are taken, do not matter here.                      *)
(***************************************************************************)
EXTENDS ProjectionReconciler, TLAPS

CommandRow ==
    [status: {"pending", "dispatching", "completed"}, owner: Procs \cup {Nobody},
     lease: {"none", "valid", "due"}, attempt: Nat]
ProductRun == [known: BOOLEAN, ended: BOOLEAN, observed: BOOLEAN, fresh: BOOLEAN]
OfficialStates == {"absent", "running", "ended"}
Modes == {"none", "absence", "register", "running", "terminal"}
Claiming  == {"claim task", "claim command"}
Finishing == {"finish task", "finish command"}
OtherPcs == {"idle", "claim", "execute", "finish", "find", "register", "get", "observe",
             "observe command", "observe run", "adopt command", "release"}
ProcState == [pc: OtherPcs \cup Claiming \cup Finishing, attempt: Nat, mode: Modes]

LockTypeOK ==
    /\ cmd \in CommandRow
    /\ prun \in ProductRun
    /\ taskActive \in BOOLEAN
    /\ officialRun \in OfficialStates
    /\ rowLock \in [LockRows -> Procs \cup {Nobody}]
    /\ proc \in [Procs -> ProcState]

\* a claim that has the Task row, found it active; nobody else ends it meanwhile
TaskHeld ==
    \A p \in Procs :
        /\ proc[p].pc \in Claiming \cup Finishing => rowLock["task"] = p
        /\ proc[p].pc \in Claiming => taskActive

\* an end is recorded, or about to be, only of an official Run that has ended
EndSeen ==
    /\ prun.observed \/ prun.ended => officialRun = "ended"
    /\ \A p \in Procs :
          proc[p].pc \in Finishing \cup {"finish"} \/ proc[p].mode = "terminal" =>
              officialRun = "ended"

\* the transaction that completes the command ends Task and Run with it
DoneTogether ==
    /\ taskActive <=> cmd.status # "completed"
    /\ cmd.status = "completed" => prun.ended /\ cmd.lease = "none"

LockInv == LockTypeOK /\ TaskHeld /\ EndSeen /\ DoneTogether

CompletedKept == cmd.status = "completed" => cmd' = cmd

USE DEF Procs, LockRows, Claiming, Finishing, OtherPcs, Modes, OfficialStates

-----------------------------------------------------------------------------
(* What the invariant needs of a step, in three parts. *)

\* the workers: one of them, p, may move, and the others keep what they hold
WorkersOK ==
    /\ rowLock' \in [LockRows -> Procs \cup {Nobody}]
    /\ proc' \in [Procs -> ProcState]
    /\ \A q \in Procs :
          /\ proc'[q].pc \in Claiming \cup Finishing => rowLock'["task"] = q
          /\ proc'[q].pc \in Claiming => taskActive'
          /\ proc'[q].pc \in Finishing \cup {"finish"} \/ proc'[q].mode = "terminal" =>
                officialRun' = "ended"

\* the rows
RowsOK ==
    /\ cmd' \in CommandRow /\ prun' \in ProductRun /\ taskActive' \in BOOLEAN
    /\ officialRun' \in OfficialStates
    /\ prun'.observed \/ prun'.ended => officialRun' = "ended"
    /\ taskActive' <=> cmd'.status # "completed"
    /\ cmd'.status = "completed" => prun'.ended /\ cmd'.lease = "none"

Safe == WorkersOK /\ RowsOK /\ CompletedKept

LEMMA SafeKeepsInv == Safe => LockInv' /\ CompletedKept
BY DEF Safe, WorkersOK, RowsOK, LockInv, LockTypeOK, TaskHeld, EndSeen, DoneTogether

\* A step of one worker that leaves the Task row to whom it belongs, and gets
\* no further than it knows.
LEMMA OneWorkerMoves ==
    ASSUME LockInv, NEW p \in Procs, NEW s \in ProcState,
           proc' = [proc EXCEPT ![p] = s],
           rowLock' \in [LockRows -> Procs \cup {Nobody}],
           \A q \in Procs : q # p /\ rowLock["task"] = q => rowLock'["task"] = q,
           s.pc \in Claiming \cup Finishing => rowLock'["task"] = p,
           s.pc \in Claiming => taskActive',
           taskActive' = taskActive \/ rowLock["task"] = p,
           s.pc \in Finishing \cup {"finish"} \/ s.mode = "terminal" => officialRun' = "ended",
           officialRun = "ended" => officialRun' = "ended"
    PROVE  WorkersOK
<1>1. proc' \in [Procs -> ProcState]
  BY DEF LockInv, LockTypeOK
<1>2. proc'[p] = s
  BY DEF LockInv, LockTypeOK
<1>3. \A q \in Procs : q # p => proc'[q] = proc[q]
  BY DEF LockInv, LockTypeOK
<1>4. ASSUME NEW q \in Procs, q # p
      PROVE  /\ proc'[q].pc \in Claiming \cup Finishing => rowLock'["task"] = q
             /\ proc'[q].pc \in Claiming => taskActive'
             /\ proc'[q].pc \in Finishing \cup {"finish"} \/ proc'[q].mode = "terminal" =>
                   officialRun' = "ended"
  <2>1. proc'[q] = proc[q]
    BY <1>3, <1>4
  <2>2. proc[q].pc \in Claiming \cup Finishing => rowLock["task"] = q /\ rowLock'["task"] = q
    BY <1>4 DEF LockInv, TaskHeld
  <2>3. proc[q].pc \in Claiming => taskActive'
    <3>1. proc[q].pc \in Claiming => taskActive /\ rowLock["task"] # p
      BY <1>4, <2>2 DEF LockInv, TaskHeld
    <3> QED BY <3>1 DEF LockInv, LockTypeOK
  <2>4. proc[q].pc \in Finishing \cup {"finish"} \/ proc[q].mode = "terminal" =>
            officialRun' = "ended"
    BY DEF LockInv, EndSeen
  <2> QED BY <2>1, <2>2, <2>3, <2>4
<1> QED BY <1>1, <1>2, <1>4 DEF WorkersOK

\* The rows do not change.
LEMMA SameRows ==
    ASSUME LockInv, UNCHANGED <<cmd, prun, taskActive>>,
           officialRun' \in {officialRun, "ended"}
    PROVE  RowsOK /\ CompletedKept
BY DEF LockInv, LockTypeOK, EndSeen, DoneTogether, RowsOK, CompletedKept

\* A commit releases the locks of its own transaction.
LEMMA CommitReleases ==
    ASSUME LockInv, NEW p \in Procs, Commit(p)
    PROVE  /\ rowLock' \in [LockRows -> Procs \cup {Nobody}]
           /\ \A q \in Procs : q # p /\ rowLock["task"] = q => rowLock'["task"] = q
BY DEF LockInv, LockTypeOK, Commit

\* The states that Goto reaches.
LEMMA GotoState ==
    ASSUME LockInv, NEW p \in Procs, NEW pc \in OtherPcs \cup Claiming \cup Finishing
    PROVE  [proc[p] EXCEPT !.pc = pc] \in ProcState
           /\ [proc[p] EXCEPT !.pc = pc].pc = pc
           /\ [proc[p] EXCEPT !.pc = pc].mode = proc[p].mode
BY DEF LockInv, LockTypeOK, ProcState

LEMMA GotoMoves ==
    ASSUME LockInv, NEW p \in Procs, NEW pc \in OtherPcs \cup Claiming \cup Finishing,
           Goto(p, pc),
           rowLock' \in [LockRows -> Procs \cup {Nobody}],
           \A q \in Procs : q # p /\ rowLock["task"] = q => rowLock'["task"] = q,
           pc \in Claiming \cup Finishing => rowLock'["task"] = p,
           pc \in Claiming => taskActive',
           taskActive' = taskActive \/ rowLock["task"] = p,
           pc \in Finishing \cup {"finish"} => officialRun' = "ended",
           officialRun = "ended" => officialRun' = "ended"
    PROVE  WorkersOK
<1> DEFINE s == [proc[p] EXCEPT !.pc = pc]
<1>1. s \in ProcState /\ s.pc = pc /\ s.mode = proc[p].mode
  BY GotoState
<1>2. proc' = [proc EXCEPT ![p] = s]
  BY DEF Goto
<1>3. s.mode = "terminal" => officialRun' = "ended"
  BY <1>1 DEF LockInv, EndSeen
<1> HIDE DEF s
<1> QED BY <1>1, <1>2, <1>3, OneWorkerMoves

\* A transaction commits and its worker goes on without a lock.
LEMMA CommitMoves ==
    ASSUME LockInv, NEW p \in Procs, NEW pc \in OtherPcs \ {"finish"},
           Commit(p), Goto(p, pc), UNCHANGED officialRun,
           taskActive' = taskActive \/ rowLock["task"] = p
    PROVE  WorkersOK
<1>1. /\ rowLock' \in [LockRows -> Procs \cup {Nobody}]
      /\ \A q \in Procs : q # p /\ rowLock["task"] = q => rowLock'["task"] = q
  BY CommitReleases
<1>2. pc \notin Claiming \cup Finishing \cup {"finish"}
  OBVIOUS
<1> QED BY <1>1, <1>2, GotoMoves

LEMMA TakeMoves ==
    ASSUME LockInv, NEW p \in Procs, NEW row \in LockRows,
           NEW pc \in OtherPcs \cup Claiming \cup Finishing, Take(p, row, pc),
           pc \in Claiming \cup Finishing => row = "task" \/ rowLock["task"] = p,
           pc \in Claiming => taskActive,
           pc \in Finishing \cup {"finish"} => officialRun = "ended"
    PROVE  Safe
<1>1. /\ rowLock' = [rowLock EXCEPT ![row] = p] /\ rowLock[row] = Nobody /\ Goto(p, pc)
      /\ UNCHANGED <<cmd, prun, taskActive, officialRun>>
  BY DEF Take, Free
<1>2. /\ rowLock' \in [LockRows -> Procs \cup {Nobody}]
      /\ \A q \in Procs : q # p /\ rowLock["task"] = q => rowLock'["task"] = q
      /\ row = "task" \/ rowLock["task"] = p => rowLock'["task"] = p
  BY <1>1, ReconcilerAssumption DEF LockInv, LockTypeOK
<1>3. WorkersOK
  BY <1>1, <1>2, GotoMoves
<1>4. RowsOK /\ CompletedKept
  BY <1>1, SameRows
<1> QED BY <1>3, <1>4 DEF Safe

-----------------------------------------------------------------------------
(* The dispatcher. *)

LEMMA ClaimSnapshotSafe ==
    ASSUME LockInv, NEW d \in Dispatchers, ClaimSnapshot(d)
    PROVE  Safe
<1> DEFINE s == [pc |-> "claim", attempt |-> cmd.attempt, mode |-> "none"]
<1>1. s \in ProcState
  BY DEF LockInv, LockTypeOK, CommandRow, ProcState
<1>2. /\ proc' = [proc EXCEPT ![d] = s] /\ UNCHANGED <<cmd, prun, taskActive, officialRun, rowLock>>
  BY DEF ClaimSnapshot
<1>3. WorkersOK
  BY <1>1, <1>2, OneWorkerMoves DEF LockInv, LockTypeOK
<1> QED BY <1>2, <1>3, SameRows DEF Safe

LEMMA ClaimLockTaskSafe ==
    ASSUME LockInv, NEW d \in Dispatchers, ClaimLockTask(d)
    PROVE  Safe
<1>1. UNCHANGED <<cmd, prun, taskActive, officialRun>>
  BY DEF ClaimLockTask
<1>2. CASE Free("task") /\ taskActive
  <2>1. rowLock' = [rowLock EXCEPT !["task"] = d] /\ Goto(d, "claim task")
    BY <1>2 DEF ClaimLockTask
  <2>2. /\ rowLock' \in [LockRows -> Procs \cup {Nobody}]
        /\ \A q \in Procs : q # d /\ rowLock["task"] = q => rowLock'["task"] = q
        /\ rowLock'["task"] = d
    BY <1>2, <2>1, ReconcilerAssumption DEF LockInv, LockTypeOK, Free
  <2>3. WorkersOK
    BY <1>1, <1>2, <2>1, <2>2, GotoMoves
  <2> QED BY <1>1, <2>3, SameRows DEF Safe
<1>3. CASE ~(Free("task") /\ taskActive)
  <2>1. UNCHANGED rowLock /\ Goto(d, "idle")
    BY <1>3 DEF ClaimLockTask
  <2>2. WorkersOK
    BY <1>1, <2>1, GotoMoves DEF LockInv, LockTypeOK
  <2> QED BY <1>1, <2>2, SameRows DEF Safe
<1> QED BY <1>2, <1>3

LEMMA ClaimLockCommandSafe ==
    ASSUME LockInv, NEW d \in Dispatchers, ClaimLockCommand(d)
    PROVE  Safe
<1>1. proc[d].pc = "claim task" /\ Take(d, "command", "claim command")
  BY DEF ClaimLockCommand
<1>2. rowLock["task"] = d /\ taskActive
  BY <1>1 DEF LockInv, TaskHeld
<1> QED BY <1>1, <1>2, TakeMoves

\* The claim writes the command only while it holds an active Task.
LEMMA ClaimCommitSafe ==
    ASSUME LockInv, NEW d \in Dispatchers, ClaimCommit(d)
    PROVE  Safe
<1> DEFINE s == [pc |-> "execute", attempt |-> proc[d].attempt + 1, mode |-> "none"]
<1>1. taskActive /\ proc[d].attempt \in Nat
  BY DEF ClaimCommit, LockInv, TaskHeld, LockTypeOK, ProcState
<1>2. s \in ProcState
  BY <1>1 DEF ProcState
<1>3. proc' = [proc EXCEPT ![d] = s] /\ Commit(d) /\ UNCHANGED <<taskActive, officialRun>>
  BY DEF ClaimCommit
<1>4. WorkersOK
  BY <1>2, <1>3, CommitReleases, OneWorkerMoves
<1>5. cmd' \in CommandRow /\ cmd'.status = "dispatching"
  <2> DEFINE c == [status |-> "dispatching", owner |-> d, lease |-> "valid",
                   attempt |-> proc[d].attempt + 1]
  <2>1. c \in CommandRow /\ c.status = "dispatching"
    BY <1>1 DEF CommandRow
  <2>2. cmd' = c
    BY DEF ClaimCommit
  <2> HIDE DEF c
  <2> QED BY <2>1, <2>2
<1>6. prun' \in ProductRun /\ prun'.ended = prun.ended /\ prun'.observed = prun.observed
  BY DEF ClaimCommit, LockInv, LockTypeOK, ProductRun
<1>7. RowsOK /\ CompletedKept
  BY <1>1, <1>3, <1>5, <1>6 DEF LockInv, LockTypeOK, EndSeen, DoneTogether, RowsOK, CompletedKept
<1> QED BY <1>4, <1>7 DEF Safe

LEMMA ExecuteSafe ==
    ASSUME LockInv, NEW d \in Dispatchers, Execute(d)
    PROVE  Safe
<1>1. UNCHANGED <<cmd, prun, taskActive, rowLock>>
  BY DEF Execute
<1>2. CASE officialRun = "absent" /\ officialRun' = "running" /\ UNCHANGED proc
  BY <1>1, <1>2 DEF LockInv, LockTypeOK, TaskHeld, EndSeen, DoneTogether, Safe, WorkersOK,
                    RowsOK, CompletedKept
<1>3. CASE UNCHANGED officialRun /\ Goto(d, "finish") /\ officialRun \notin {"absent", "running"}
  \* the only other state is "ended"
  <2>1. officialRun = "ended"
    BY <1>3 DEF LockInv, LockTypeOK
  <2>2. WorkersOK
    BY <1>1, <1>3, <2>1, GotoMoves DEF LockInv, LockTypeOK
  <2> QED BY <1>1, <1>3, <2>2, SameRows DEF Safe
<1> QED BY <1>2, <1>3 DEF Execute

LEMMA FinishLocksSafe ==
    ASSUME LockInv, NEW d \in Dispatchers, FinishLockTask(d) \/ FinishLockCommand(d)
    PROVE  Safe
<1>1. CASE FinishLockTask(d)
  <2>1. proc[d].pc = "finish" /\ Take(d, "task", "finish task")
    BY <1>1 DEF FinishLockTask
  <2>2. officialRun = "ended"
    BY <2>1 DEF LockInv, EndSeen
  <2> QED BY <2>1, <2>2, TakeMoves
<1>2. CASE FinishLockCommand(d)
  <2>1. proc[d].pc = "finish task" /\ Take(d, "command", "finish command")
    BY <1>2 DEF FinishLockCommand
  <2>2. officialRun = "ended" /\ rowLock["task"] = d
    BY <2>1 DEF LockInv, EndSeen, TaskHeld
  <2> QED BY <2>1, <2>2, TakeMoves
<1> QED BY <1>1, <1>2

\* The Task ends under the lock of its row, so no claim holds it.
LEMMA FinishCommitSafe ==
    ASSUME LockInv, NEW d \in Dispatchers, FinishCommit(d)
    PROVE  Safe
<1>1. /\ rowLock["task"] = d /\ officialRun = "ended"
      /\ Goto(d, "idle") /\ Commit(d) /\ UNCHANGED officialRun
  BY DEF FinishCommit, LockInv, TaskHeld, EndSeen
<1>2. WorkersOK
  BY <1>1, CommitMoves
<1>3. CASE StillDispatchedTo(d)
  <2>1. /\ cmd.status = "dispatching" /\ taskActive' = FALSE
        /\ cmd' = [cmd EXCEPT !.status = "completed", !.owner = Nobody, !.lease = "none"]
        /\ prun' = [prun EXCEPT !.known = TRUE, !.ended = TRUE]
    BY <1>3 DEF FinishCommit, StillDispatchedTo
  <2>2. cmd' \in CommandRow /\ cmd'.status = "completed" /\ cmd'.lease = "none"
    BY <2>1 DEF LockInv, LockTypeOK, CommandRow
  <2>3. prun' \in ProductRun /\ prun'.ended
    BY <2>1 DEF LockInv, LockTypeOK, ProductRun
  <2>4. RowsOK /\ CompletedKept
    BY <1>1, <2>1, <2>2, <2>3 DEF RowsOK, CompletedKept
  <2> QED BY <1>2, <2>4 DEF Safe
<1>4. CASE ~StillDispatchedTo(d)
  BY <1>1, <1>2, <1>4, SameRows DEF FinishCommit, Safe
<1> QED BY <1>3, <1>4

-----------------------------------------------------------------------------
(* The reconciler. *)

LEMMA AdoptCommandSafe ==
    ASSUME LockInv, NEW r \in Reconcilers, AdoptCommand(r)
    PROVE  Safe
<1>1. /\ rowLock' = [rowLock EXCEPT !["command"] = r] /\ Goto(r, "adopt command")
      /\ UNCHANGED <<cmd, prun, taskActive, officialRun>>
  BY DEF AdoptCommand
<1>2. /\ rowLock' \in [LockRows -> Procs \cup {Nobody}] /\ rowLock'["task"] = rowLock["task"]
  BY <1>1 DEF LockInv, LockTypeOK
<1>3. WorkersOK
  BY <1>1, <1>2, GotoMoves
<1> QED BY <1>1, <1>3, SameRows DEF Safe

LEMMA AdoptCommitSafe ==
    ASSUME LockInv, NEW r \in Reconcilers, AdoptCommit(r)
    PROVE  Safe
<1>1. Commit(r) /\ UNCHANGED <<prun, taskActive, officialRun>>
  BY DEF AdoptCommit
<1>2. CASE IsReconcilableRun
  <2> DEFINE pc == IF prun.known THEN "register" ELSE "find"
             s == [pc |-> pc, attempt |-> cmd.attempt, mode |-> "none"]
  <2>1. s \in ProcState
    BY DEF LockInv, LockTypeOK, CommandRow, ProcState
  <2>2. proc' = [proc EXCEPT ![r] = s] /\ cmd' = [cmd EXCEPT !.owner = r, !.lease = "valid"]
    BY <1>2 DEF AdoptCommit
  <2>3. s.pc \notin Claiming \cup Finishing \cup {"finish"} /\ s.mode = "none"
    OBVIOUS
  <2>4. cmd.status # "completed"
    BY <1>2 DEF IsReconcilableRun, LockInv, DoneTogether
  <2>5. cmd' \in CommandRow /\ cmd'.status = cmd.status
    BY <2>2 DEF LockInv, LockTypeOK, CommandRow
  <2>6. RowsOK /\ CompletedKept
    BY <1>1, <2>4, <2>5 DEF LockInv, LockTypeOK, EndSeen, DoneTogether, RowsOK, CompletedKept
  <2> HIDE DEF s
  <2>7. WorkersOK
    <3>1. /\ rowLock' \in [LockRows -> Procs \cup {Nobody}]
          /\ \A q \in Procs : q # r /\ rowLock["task"] = q => rowLock'["task"] = q
      BY <1>1, CommitReleases
    <3>2. proc' = [proc EXCEPT ![r] = s]
      BY <2>2 DEF s
    <3> QED BY <1>1, <2>1, <2>3, <3>1, <3>2, OneWorkerMoves
  <2> QED BY <2>6, <2>7 DEF Safe
<1>3. CASE ~IsReconcilableRun
  <2>1. UNCHANGED cmd /\ Goto(r, "idle")
    BY <1>3 DEF AdoptCommit
  <2>2. WorkersOK
    BY <1>1, <2>1, CommitMoves
  <2> QED BY <1>1, <2>1, <2>2, SameRows DEF Safe
<1> QED BY <1>2, <1>3

\* "terminal" is what runner.get said of a Run that has ended.
LEMMA LookSafe ==
    ASSUME LockInv, NEW r \in Reconcilers, Look(r)
    PROVE  Safe
<1>1. UNCHANGED <<cmd, prun, taskActive, officialRun, rowLock>>
  BY DEF Look
<1>2. CASE Goto(r, "release")
  <2>1. WorkersOK
    BY <1>1, <1>2, GotoMoves DEF LockInv, LockTypeOK
  <2> QED BY <1>1, <2>1, SameRows DEF Safe
<1>3. ASSUME NEW mode \in Modes, mode = "terminal" => officialRun = "ended",
             proc' = [proc EXCEPT ![r].pc = "observe", ![r].mode = mode]
      PROVE  Safe
  <2> DEFINE s == [proc[r] EXCEPT !.pc = "observe", !.mode = mode]
  <2>1. s \in ProcState /\ s.pc = "observe" /\ s.mode = mode
    BY DEF LockInv, LockTypeOK, ProcState
  <2>2. proc' = [proc EXCEPT ![r] = s]
    BY <1>3 DEF LockInv, LockTypeOK
  <2> HIDE DEF s
  <2>3. WorkersOK
    BY <1>1, <1>3, <2>1, <2>2, OneWorkerMoves DEF LockInv, LockTypeOK
  <2> QED BY <1>1, <2>3, SameRows DEF Safe
<1>4. CASE proc' = [proc EXCEPT ![r].pc = "observe",
                 ![r].mode = IF officialRun = "absent" THEN "absence" ELSE "register"]
  BY <1>3, <1>4
<1>5. CASE proc' = [proc EXCEPT ![r].pc = "observe", ![r].mode = "register"]
  BY <1>3, <1>5
<1>6. CASE proc' = [proc EXCEPT ![r].pc = "observe",
                 ![r].mode = IF officialRun = "ended" THEN "terminal" ELSE "running"]
  BY <1>3, <1>6
<1> QED BY <1>2, <1>4, <1>5, <1>6 DEF Look

LEMMA ObserveLocksSafe ==
    ASSUME LockInv, NEW r \in Reconcilers, ObserveLockCommand(r) \/ ObserveLockRun(r)
    PROVE  Safe
<1>1. CASE ObserveLockCommand(r)
  <2>1. UNCHANGED <<cmd, prun, taskActive, officialRun>>
    BY <1>1 DEF ObserveLockCommand
  <2>2. CASE rowLock' = [rowLock EXCEPT !["command"] = r] /\ Goto(r, "observe command")
    <3>1. rowLock' \in [LockRows -> Procs \cup {Nobody}] /\ rowLock'["task"] = rowLock["task"]
      BY <2>2 DEF LockInv, LockTypeOK
    <3>2. WorkersOK
      BY <2>1, <2>2, <3>1, GotoMoves
    <3> QED BY <2>1, <3>2, SameRows DEF Safe
  <2>3. CASE UNCHANGED rowLock /\ Goto(r, "release")
    <3>1. WorkersOK
      BY <2>1, <2>3, GotoMoves DEF LockInv, LockTypeOK
    <3> QED BY <2>1, <3>1, SameRows DEF Safe
  <2> QED BY <1>1, <2>2, <2>3 DEF ObserveLockCommand
<1>2. CASE ObserveLockRun(r)
  BY <1>2, TakeMoves DEF ObserveLockRun
<1> QED BY <1>1, <1>2

\* An observation writes only while the Task is active.
LEMMA ObserveCommitSafe ==
    ASSUME LockInv, NEW r \in Reconcilers, ObserveCommit(r)
    PROVE  Safe
<1> DEFINE valid == taskActive /\ ~prun.ended
           mode == proc[r].mode
<1>1. Commit(r) /\ UNCHANGED <<taskActive, officialRun>>
  BY DEF ObserveCommit
<1>2. WorkersOK
  <2>1. PICK pc \in {"get", "release"} : Goto(r, pc)
    BY DEF ObserveCommit
  <2> QED BY <1>1, <2>1, CommitMoves
<1>3. CASE valid
  <2>1. cmd.status # "completed"
    BY <1>3 DEF LockInv, DoneTogether
  <2>2. \/ cmd' = [cmd EXCEPT !.owner = Nobody, !.lease = "due"]
        \/ cmd' = cmd
    BY DEF ObserveCommit
  <2>3. cmd' \in CommandRow /\ cmd'.status = cmd.status
    BY <2>2 DEF LockInv, LockTypeOK, CommandRow
  <2>4. prun' = [prun EXCEPT !.fresh = TRUE, !.known = prun.known \/ mode # "absence",
                             !.observed = prun.observed \/ mode = "terminal"]
    BY <1>3 DEF ObserveCommit
  <2>5. /\ prun' \in ProductRun /\ prun'.ended = prun.ended
        /\ prun'.observed = (prun.observed \/ mode = "terminal")
    BY <2>4 DEF LockInv, LockTypeOK, ProductRun
  <2>6. prun'.observed \/ prun'.ended => officialRun' = "ended"
    BY <1>1, <2>5 DEF LockInv, EndSeen
  <2>7. RowsOK /\ CompletedKept
    BY <1>1, <2>1, <2>3, <2>5, <2>6 DEF LockInv, LockTypeOK, DoneTogether, RowsOK, CompletedKept
  <2> QED BY <1>2, <2>7 DEF Safe
<1>4. CASE ~valid
  BY <1>1, <1>2, <1>4, SameRows DEF ObserveCommit, Safe
<1> QED BY <1>3, <1>4

\* A release, at the end of an iteration or at shutdown, writes a dispatching
\* command.
LEMMA LeaseGivenUp ==
    ASSUME LockInv, UNCHANGED <<prun, taskActive, officialRun>>,
           \/ cmd' = cmd
           \/ cmd.status = "dispatching" /\ cmd' = [cmd EXCEPT !.owner = Nobody, !.lease = "due"]
    PROVE  RowsOK /\ CompletedKept
<1>1. cmd' \in CommandRow /\ cmd'.status = cmd.status
  BY DEF LockInv, LockTypeOK, CommandRow
<1> QED BY <1>1 DEF LockInv, LockTypeOK, EndSeen, DoneTogether, RowsOK, CompletedKept

LEMMA ReleaseSafe ==
    ASSUME LockInv, NEW r \in Reconcilers, ReleaseCommand(r) \/ ReleaseOwned(r)
    PROVE  Safe
<1>1. /\ proc' = [proc EXCEPT ![r] = ProcIdle]
      /\ UNCHANGED <<prun, taskActive, officialRun, rowLock>>
      /\ \/ cmd' = cmd
         \/ cmd.status = "dispatching" /\ cmd' = [cmd EXCEPT !.owner = Nobody, !.lease = "due"]
  BY DEF ReleaseCommand, ReleaseOwned, OwnsCommand
<1>2. ProcIdle \in ProcState /\ ProcIdle.pc = "idle" /\ ProcIdle.mode = "none"
  BY DEF ProcIdle, ProcState
<1>3. WorkersOK
  BY <1>1, <1>2, OneWorkerMoves DEF LockInv, LockTypeOK
<1>4. RowsOK /\ CompletedKept
  BY <1>1, LeaseGivenUp
<1> QED BY <1>3, <1>4 DEF Safe

-----------------------------------------------------------------------------
(* The database, the Agent Server, the clock, crashes. *)

LEMMA AbortSafe ==
    ASSUME LockInv, NEW p \in Procs, AbortVictim(p)
    PROVE  Safe
<1>1. Commit(p) /\ UNCHANGED <<cmd, prun, taskActive, officialRun>>
  BY DEF AbortVictim
<1>2. PICK pc \in {"release", "idle"} : Goto(p, pc)
  BY DEF AbortVictim
<1>3. WorkersOK
  BY <1>1, <1>2, CommitMoves
<1> QED BY <1>1, <1>3, SameRows DEF Safe

LEMMA DeathSafe ==
    ASSUME LockInv, NEW p \in Procs, WorkerDies(p)
    PROVE  Safe
<1>1. /\ Commit(p) /\ UNCHANGED <<cmd, prun, taskActive, officialRun>>
      /\ proc' = [proc EXCEPT ![p] = ProcIdle]
  BY DEF WorkerDies
<1>2. ProcIdle \in ProcState /\ ProcIdle.pc = "idle" /\ ProcIdle.mode = "none"
  BY DEF ProcIdle, ProcState
<1>3. WorkersOK
  BY <1>1, <1>2, CommitReleases, OneWorkerMoves
<1> QED BY <1>1, <1>3, SameRows DEF Safe

\* Nothing moves but the rows, or the official Run.
LEMMA SameWorkers ==
    ASSUME LockInv, UNCHANGED <<rowLock, proc, taskActive>>,
           officialRun = "ended" => officialRun' = "ended"
    PROVE  WorkersOK
BY DEF LockInv, LockTypeOK, TaskHeld, EndSeen, WorkersOK

LEMMA ClockSafe ==
    ASSUME LockInv, OfficialRunEnds \/ CommandLeaseExpires \/ HeartbeatStale
    PROVE  Safe
<1>1. CASE OfficialRunEnds
  BY <1>1, SameWorkers, SameRows DEF OfficialRunEnds, Safe
<1>2. CASE CommandLeaseExpires
  <2>1. /\ cmd.lease = "valid" /\ cmd' = [cmd EXCEPT !.lease = "due"]
        /\ UNCHANGED <<prun, taskActive, officialRun, rowLock, proc>>
    BY <1>2 DEF CommandLeaseExpires
  <2>2. cmd.status # "completed"
    BY <2>1 DEF LockInv, DoneTogether
  <2>3. cmd' \in CommandRow /\ cmd'.status = cmd.status
    BY <2>1 DEF LockInv, LockTypeOK, CommandRow
  <2>4. RowsOK /\ CompletedKept
    BY <2>1, <2>2, <2>3 DEF LockInv, LockTypeOK, EndSeen, DoneTogether, RowsOK, CompletedKept
  <2> QED BY <2>1, <2>4, SameWorkers DEF Safe
<1>3. CASE HeartbeatStale
  <2>1. /\ prun' = [prun EXCEPT !.fresh = FALSE]
        /\ UNCHANGED <<cmd, taskActive, officialRun, rowLock, proc>>
    BY <1>3 DEF HeartbeatStale
  <2>2. prun' \in ProductRun /\ prun'.ended = prun.ended /\ prun'.observed = prun.observed
    BY <2>1 DEF LockInv, LockTypeOK, ProductRun
  <2>3. RowsOK /\ CompletedKept
    BY <2>1, <2>2 DEF LockInv, LockTypeOK, EndSeen, DoneTogether, RowsOK, CompletedKept
  <2> QED BY <2>1, <2>3, SameWorkers DEF Safe
<1> QED BY <1>1, <1>2, <1>3

-----------------------------------------------------------------------------
(* The theorem. *)

LEMMA EveryStepSafe ==
    ASSUME LockInv, ReconcilerNext
    PROVE  Safe
<1>1. ASSUME NEW d \in Dispatchers, DispatcherStep(d) PROVE Safe
  BY <1>1, ClaimSnapshotSafe, ClaimLockTaskSafe, ClaimLockCommandSafe, ClaimCommitSafe,
     ExecuteSafe, FinishLocksSafe, FinishCommitSafe DEF DispatcherStep
<1>2. ASSUME NEW r \in Reconcilers, ReconcilerStep(r) \/ ReleaseOwned(r) PROVE Safe
  BY <1>2, AdoptCommandSafe, AdoptCommitSafe, LookSafe, ObserveLocksSafe, ObserveCommitSafe,
     ReleaseSafe DEF ReconcilerStep
<1>3. ASSUME NEW p \in Procs, AbortVictim(p) \/ WorkerDies(p) PROVE Safe
  BY <1>3, AbortSafe, DeathSafe
<1> QED BY <1>1, <1>2, <1>3, ClockSafe DEF ReconcilerNext

LEMMA LockInitInv == ReconcilerInit => LockInv
<1> SUFFICES ASSUME ReconcilerInit PROVE LockInv
  OBVIOUS
<1>1. /\ cmd \in CommandRow /\ cmd.status = "pending"
      /\ prun \in ProductRun /\ ~prun.ended /\ ~prun.observed
      /\ taskActive = TRUE /\ officialRun = "absent"
  BY DEF ReconcilerInit, CommandRow, ProductRun
<1>2. rowLock \in [LockRows -> Procs \cup {Nobody}]
  BY DEF ReconcilerInit, NoLocks
<1>3. /\ proc \in [Procs -> ProcState]
      /\ \A p \in Procs : proc[p].pc = "idle" /\ proc[p].mode = "none"
  BY DEF ReconcilerInit, ProcIdle, ProcState
<1> QED BY <1>1, <1>2, <1>3 DEF LockInv, LockTypeOK, TaskHeld, EndSeen, DoneTogether

LEMMA LockStepInv == LockInv /\ [ReconcilerNext]_lockVars => LockInv'
<1>1. ASSUME LockInv, ReconcilerNext PROVE LockInv'
  BY <1>1, EveryStepSafe, SafeKeepsInv
<1>2. ASSUME LockInv, UNCHANGED lockVars PROVE LockInv'
  BY <1>2 DEF lockVars, LockInv, LockTypeOK, TaskHeld, EndSeen, DoneTogether
<1> QED BY <1>1, <1>2

\* FinishedStaysFinished: no claim from an old snapshot, late observation or
\* release touches a completed command, and an end is recorded only of an
\* official Run that has ended.
THEOREM FinishedStaysFinishedHolds == ReconcilerSpec => FinishedStaysFinished
<1> DEFINE Finished ==
        /\ cmd.status = "completed" => cmd' = cmd /\ prun'.ended
        /\ prun'.observed \/ prun'.ended => officialRun' = "ended"
<1>1. LockInv /\ [ReconcilerNext]_lockVars => [Finished]_lockVars
  <2>1. ASSUME LockInv, ReconcilerNext PROVE Finished
    BY <2>1, EveryStepSafe DEF Safe, RowsOK, CompletedKept
  <2> QED BY <2>1
<1>2. FinishedStaysFinished <=> [][Finished]_lockVars
  BY DEF FinishedStaysFinished
<1> HIDE DEF Finished
<1> QED BY <1>1, <1>2, LockInitInv, LockStepInv, PTL DEF ReconcilerSpec
=============================================================================
