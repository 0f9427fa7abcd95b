---------------------------- MODULE AnalysisProofs ----------------------------
(***************************************************************************)
(* Theorems about the parts that make and record an analysis, one part of  *)
(* this module for each of them.                                           *)
(***************************************************************************)
EXTENDS AnalysisGraph, SearchProviders, WorkerReadiness, RunLedger, LegacyRuns,
        TLAPS, FiniteSetTheorems, SequenceTheorems

-----------------------------------------------------------------------------
(***************************************************************************)
(* The Product says that it is ready only on news that is recent enough,   *)
(* for every set of workers and all limits.                                *)
(*                                                                         *)
(* LoopsHonest is what the flag of the loops means between two computations *)
(* of it: a tick makes loops older, and is possible only after the monitor *)
(* ran.  ProbeHonest bounds how long the Agent Server may have been silent *)
(* when a probe has an answer, and once a probe succeeded.                 *)
(***************************************************************************)
Loop == [phase: {"between", "running", "ended"}, age: Nat, failures: Nat, succeeded: BOOLEAN]
ReadinessTypeOK ==
    /\ process \in [state: {"down", "running", "stopping"}, since: Nat, checked: BOOLEAN]
    /\ loops \in [Loops -> Loop]
    /\ loopsReady \in BOOLEAN
    /\ probe \in [live: BOOLEAN, busy: BOOLEAN, took: Nat, saw: BOOLEAN, once: BOOLEAN,
                  failures: Nat, age: Nat]
    /\ world \in [agent: BOOLEAN, silent: Nat]

RestingLoops ==
    process.state = "running" => \A w \in Loops : loops[w].phase # "running" => loops[w].age = 0

LoopsHonest ==
    loopsReady =>
        /\ process.state = "running"
        /\ \A w \in Loops :
              /\ loops[w].succeeded /\ loops[w].failures < FailureThreshold
              /\ loops[w].age < LoopStaleAfter + (IF process.checked THEN 0 ELSE 1)

ProbeHonest ==
    /\ world.agent => world.silent = 0
    /\ probe.busy => probe.took <= ProbeTimeout
    /\ probe.busy /\ probe.saw => world.silent <= probe.took
    /\ probe.once /\ probe.age <= AgentStaleAfter => world.silent <= probe.age + ProbeTimeout

ReadinessInv == ReadinessTypeOK /\ RestingLoops /\ LoopsHonest /\ ProbeHonest

LEMMA ReadinessBounds ==
    /\ LoopStaleAfter \in Nat \ {0} /\ FailureThreshold \in Nat \ {0}
    /\ AgentStaleAfter \in Nat \ {0} /\ ProbeTimeout \in Nat \ {0}
    /\ ShutdownBudget \in Nat \ {0}
  BY ReadinessAssumption

LEMMA CappedNat ==
    ASSUME NEW n \in Nat, NEW b \in Nat
    PROVE  Capped(n, b) \in Nat /\ Capped(n, b) <= n /\ Capped(n, b) <= b
           /\ (Capped(n, b) < b => Capped(n, b) = n)
  BY DEF Capped

LEMMA ReadinessInitInv == ReadinessInit => ReadinessInv
<1> SUFFICES ASSUME ReadinessInit PROVE ReadinessInv
  OBVIOUS
<1>1. loops \in [Loops -> Loop]
  <2>1. NewLoop \in Loop
    BY DEF NewLoop, Loop
  <2> QED
    BY <2>1 DEF ReadinessInit
<1>2. RestingLoops /\ LoopsHonest
  BY DEF ReadinessInit, RestingLoops, LoopsHonest
<1>3. ProbeHonest
  BY ReadinessBounds DEF ReadinessInit, ProbeHonest, NewProbe
<1>4. probe \in [live: BOOLEAN, busy: BOOLEAN, took: Nat, saw: BOOLEAN, once: BOOLEAN,
                failures: Nat, age: Nat]
  BY DEF ReadinessInit, NewProbe
<1>5. /\ process \in [state: {"down", "running", "stopping"}, since: Nat, checked: BOOLEAN]
      /\ world \in [agent: BOOLEAN, silent: Nat] /\ loopsReady \in BOOLEAN
  BY DEF ReadinessInit
<1> QED
  BY <1>1, <1>2, <1>3, <1>4, <1>5 DEF ReadinessInv, ReadinessTypeOK

LEMMA ReadyFromInv == ReadinessInv => ReadyIsHonest
  BY ReadinessBounds DEF ReadinessInv, ReadinessTypeOK, LoopsHonest, ProbeHonest, ReadyIsHonest,
     ProductReady, AgentReady, Loop

\* what _refresh_readiness returns of loops at rest and at work
LEMMA RefreshHonest ==
    ASSUME NEW ls, ls \in [Loops -> Loop],
           \A w \in Loops : ls[w].phase # "running" => ls[w].age = 0,
           RefreshedReadiness(ls, process.state)
    PROVE  /\ process.state = "running"
           /\ \A w \in Loops : /\ ls[w].succeeded /\ ls[w].failures < FailureThreshold
                               /\ ls[w].age < LoopStaleAfter
  BY ReadinessBounds DEF RefreshedReadiness, StaleLoops, Loop

\* The part of the Agent Server's monitor is untouched by the worker process.
LEMMA ProbeUntouched ==
    ASSUME ReadinessInv, UNCHANGED <<probe, world>>
    PROVE  ProbeHonest' /\ probe' \in [live: BOOLEAN, busy: BOOLEAN, took: Nat, saw: BOOLEAN,
                                       once: BOOLEAN, failures: Nat, age: Nat]
           /\ world' \in [agent: BOOLEAN, silent: Nat]
  BY DEF ReadinessInv, ReadinessTypeOK, ProbeHonest

LEMMA LoopsUntouched ==
    ASSUME ReadinessInv, UNCHANGED <<process, loops, loopsReady>>
    PROVE  RestingLoops' /\ LoopsHonest' /\ loopsReady' \in BOOLEAN
           /\ loops' \in [Loops -> Loop]
           /\ process' \in [state: {"down", "running", "stopping"}, since: Nat, checked: BOOLEAN]
  BY DEF ReadinessInv, ReadinessTypeOK, RestingLoops, LoopsHonest

LEMMA IterationKeeps ==
    ASSUME ReadinessInv, NEW w \in Loops, NEW ok \in BOOLEAN,
           BeginIteration(w) \/ CancelIteration(w) \/ EndIteration(w, ok)
    PROVE  ReadinessInv'
<1>1. loops \in [Loops -> Loop] /\ loops[w] \in Loop
  BY DEF ReadinessInv, ReadinessTypeOK
<1>2. CASE BeginIteration(w)
  <2>1. PICK l : l = [loops[w] EXCEPT !.phase = "running", !.age = 0]
    OBVIOUS
  <2>2. /\ l \in Loop /\ l.age = 0 /\ l.succeeded = loops[w].succeeded
        /\ l.failures = loops[w].failures /\ l.phase = "running"
    BY <1>1, <2>1 DEF Loop
  <2>3. loops' = [loops EXCEPT ![w] = l]
    BY <1>2, <2>1 DEF BeginIteration
  <2>4. /\ loops' \in [Loops -> Loop] /\ loops'[w] = l
        /\ \A v \in Loops : v # w => loops'[v] = loops[v]
    BY <1>1, <2>2, <2>3
  <2>5. RestingLoops' /\ LoopsHonest'
    BY <1>2, <2>2, <2>4, ReadinessBounds
       DEF BeginIteration, ReadinessInv, ReadinessTypeOK, RestingLoops, LoopsHonest
  <2> QED
    BY <1>2, <2>4, <2>5, ProbeUntouched DEF BeginIteration, ReadinessInv, ReadinessTypeOK
<1>3. CASE CancelIteration(w)
  <2>1. PICK l : l = [loops[w] EXCEPT !.phase = "ended"]
    OBVIOUS
  <2>2. l \in Loop
    BY <1>1, <2>1 DEF Loop
  <2>3. loops' = [loops EXCEPT ![w] = l]
    BY <1>3, <2>1 DEF CancelIteration
  <2>4. loops' \in [Loops -> Loop]
    BY <1>1, <2>2, <2>3
  <2>5. RestingLoops' /\ LoopsHonest'
    BY <1>3 DEF CancelIteration, ReadinessInv, RestingLoops, LoopsHonest
  <2> QED
    BY <1>3, <2>4, <2>5, ProbeUntouched DEF CancelIteration, ReadinessInv, ReadinessTypeOK
<1>4. CASE EndIteration(w, ok)
  <2>1. PICK f \in Nat : f = IF ok THEN 0 ELSE Capped(loops[w].failures + 1, FailureThreshold)
    BY <1>1, CappedNat, ReadinessBounds DEF Loop
  <2>2. PICK p \in {"between", "ended"} :
            p = IF process.state = "running" THEN "between" ELSE "ended"
    OBVIOUS
  <2>3. PICK s \in BOOLEAN : s = (loops[w].succeeded \/ ok)
    OBVIOUS
  <2>4. PICK l : l = [phase |-> p, age |-> 0, failures |-> f, succeeded |-> s]
    OBVIOUS
  <2>5. l \in Loop /\ l.age = 0
    BY <2>4 DEF Loop
  <2>6. loops' = [loops EXCEPT ![w] = l]
    BY <1>4, <2>1, <2>2, <2>3, <2>4 DEF EndIteration
  <2>7. /\ loops' \in [Loops -> Loop] /\ loops'[w] = l
        /\ \A v \in Loops : v # w => loops'[v] = loops[v]
    BY <1>1, <2>5, <2>6
  <2>8. PICK ls : ls = loops'
    OBVIOUS
  <2>9. loopsReady' = RefreshedReadiness(ls, process.state) /\ UNCHANGED <<process, probe, world>>
    BY <1>4, <2>8 DEF EndIteration
  <2>10. RestingLoops'
    BY <2>5, <2>7, <2>9 DEF ReadinessInv, RestingLoops
  <2>11. LoopsHonest'
    <3> SUFFICES ASSUME loopsReady' PROVE LoopsHonest'
      BY DEF LoopsHonest
    <3>1. RefreshedReadiness(ls, process.state)
      BY <2>9
    <3>2. process.state = "running"
      BY <3>1 DEF RefreshedReadiness
    <3>3. \A v \in Loops : ls[v].phase # "running" => ls[v].age = 0
      BY <2>8, <2>9, <2>10, <3>2 DEF RestingLoops
    <3>4. \A v \in Loops : /\ ls[v].succeeded /\ ls[v].failures < FailureThreshold
                           /\ ls[v].age < LoopStaleAfter
      BY <2>7, <2>8, <3>1, <3>3, RefreshHonest
    <3>5. \A v \in Loops : ls[v].age \in Nat
      BY <2>7, <2>8 DEF Loop
    <3> QED
      BY <2>8, <2>9, <3>2, <3>4, <3>5, ReadinessBounds DEF LoopsHonest
  <2>12. loopsReady' \in BOOLEAN
    BY <2>9 DEF RefreshedReadiness
  <2> QED
    BY <2>7, <2>9, <2>10, <2>11, <2>12, ProbeUntouched DEF ReadinessInv, ReadinessTypeOK
<1> QED
  BY <1>2, <1>3, <1>4

LEMMA RuntimeKeeps ==
    ASSUME ReadinessInv, StartRuntime \/ MonitorLoops \/ StopRuntime \/ EndRuntime
    PROVE  ReadinessInv'
<1>1. loops \in [Loops -> Loop] /\ process.state \in {"down", "running", "stopping"}
      /\ process.since \in Nat /\ process.checked \in BOOLEAN
  BY DEF ReadinessInv, ReadinessTypeOK
<1>2. NewLoop \in Loop
  BY DEF NewLoop, Loop
<1>3. CASE StartRuntime \/ EndRuntime
  <2>1. PICK st \in {"down", "running"}, c \in BOOLEAN :
            process' = [state |-> st, since |-> 0, checked |-> c]
    BY <1>3 DEF StartRuntime, EndRuntime
  <2>2. loops' = [w \in Loops |-> NewLoop] /\ UNCHANGED <<probe, world>>
    BY <1>3 DEF StartRuntime, EndRuntime
  <2>3. loopsReady' = FALSE
    BY <1>3 DEF StartRuntime, EndRuntime, ReadinessInv, ReadinessTypeOK, LoopsHonest
  <2>4. RestingLoops' /\ LoopsHonest' /\ loops' \in [Loops -> Loop]
    BY <1>2, <2>2, <2>3 DEF RestingLoops, LoopsHonest, NewLoop
  <2> QED
    BY <2>1, <2>2, <2>3, <2>4, ProbeUntouched DEF ReadinessInv, ReadinessTypeOK
<1>4. CASE MonitorLoops
  <2>1. /\ process' = [process EXCEPT !.checked = TRUE] /\ process.state = "running"
        /\ loopsReady' = RefreshedReadiness(loops, process.state)
        /\ UNCHANGED <<loops, probe, world>>
    BY <1>4 DEF MonitorLoops
  <2>2. /\ process' \in [state: {"down", "running", "stopping"}, since: Nat, checked: BOOLEAN]
        /\ process'.state = "running"
    BY <2>1 DEF ReadinessInv, ReadinessTypeOK
  <2>3. process'.checked = TRUE
    BY <2>1 DEF ReadinessInv, ReadinessTypeOK
  <2>4. \A w \in Loops : loops[w].phase # "running" => loops[w].age = 0
    BY <2>1 DEF ReadinessInv, RestingLoops
  <2>5. RestingLoops'
    BY <2>1, <2>4 DEF RestingLoops
  <2>6. loopsReady' => \A w \in Loops : /\ loops[w].succeeded /\ loops[w].failures < FailureThreshold
                                        /\ loops[w].age < LoopStaleAfter
    BY <1>1, <2>1, <2>4, RefreshHonest
  <2>7. LoopsHonest'
    BY <1>1, <2>1, <2>2, <2>3, <2>6, ReadinessBounds DEF LoopsHonest, Loop
  <2>8. loopsReady' \in BOOLEAN
    BY <2>1 DEF RefreshedReadiness
  <2> QED
    BY <1>1, <2>1, <2>2, <2>5, <2>7, <2>8, ProbeUntouched DEF ReadinessInv, ReadinessTypeOK
<1>5. CASE StopRuntime
  <2>1. process' = [state |-> "stopping", since |-> 0, checked |-> TRUE] /\ loopsReady' = FALSE
        /\ UNCHANGED <<probe, world>>
    BY <1>5 DEF StopRuntime
  <2>2. loops' \in [Loops -> Loop]
    <3>1. \A w \in Loops : [loops[w] EXCEPT !.phase = IF @ = "between" THEN "ended" ELSE @] \in Loop
      BY <1>1 DEF Loop
    <3> QED
      BY <1>5, <3>1 DEF StopRuntime
  <2>3. RestingLoops' /\ LoopsHonest'
    BY <2>1 DEF RestingLoops, LoopsHonest
  <2> QED
    BY <2>1, <2>2, <2>3, ProbeUntouched DEF ReadinessInv, ReadinessTypeOK
<1> QED
  BY <1>3, <1>4, <1>5

LEMMA ProbeKeeps ==
    ASSUME ReadinessInv,
           \/ StartMonitor \/ StopMonitor \/ BeginProbe \/ AgentAnswersProbe
           \/ (\E ok \in BOOLEAN : EndProbe(ok)) \/ AgentChanges
    PROVE  ReadinessInv'
<1> DEFINE Probe == [live: BOOLEAN, busy: BOOLEAN, took: Nat, saw: BOOLEAN, once: BOOLEAN,
                     failures: Nat, age: Nat]
<1>1. probe \in Probe /\ world \in [agent: BOOLEAN, silent: Nat]
  BY DEF ReadinessInv, ReadinessTypeOK
<1>2. UNCHANGED <<process, loops, loopsReady>>
  BY DEF StartMonitor, StopMonitor, BeginProbe, AgentAnswersProbe, EndProbe, AgentChanges
<1>3. SUFFICES ProbeHonest' /\ probe' \in Probe /\ world' \in [agent: BOOLEAN, silent: Nat]
  BY <1>2, LoopsUntouched DEF ReadinessInv, ReadinessTypeOK
<1>4. CASE StartMonitor \/ StopMonitor
  <2>1. NewProbe \in Probe /\ NewProbe.busy = FALSE /\ NewProbe.once = FALSE
    BY DEF NewProbe
  <2>2. probe' \in Probe /\ probe'.busy = FALSE /\ probe'.once = FALSE
    BY <1>4, <2>1 DEF StartMonitor, StopMonitor
  <2>3. world' = world
    BY <1>4 DEF StartMonitor, StopMonitor
  <2> QED
    BY <1>1, <2>2, <2>3 DEF ReadinessInv, ProbeHonest
<1>5. CASE BeginProbe
  <2>1. probe' = [probe EXCEPT !.busy = TRUE, !.took = 0, !.saw = FALSE] /\ world' = world
    BY <1>5 DEF BeginProbe
  <2>2. /\ probe' \in Probe /\ probe'.took = 0 /\ probe'.saw = FALSE
        /\ probe'.once = probe.once /\ probe'.age = probe.age
    BY <1>1, <2>1
  <2> QED
    BY <1>1, <2>1, <2>2, ReadinessBounds DEF ReadinessInv, ProbeHonest
<1>6. CASE AgentAnswersProbe
  <2>1. probe' = [probe EXCEPT !.saw = TRUE] /\ world' = world /\ world.agent
    BY <1>6 DEF AgentAnswersProbe
  <2>2. /\ probe' \in Probe /\ probe'.took = probe.took /\ probe'.busy = probe.busy
        /\ probe'.once = probe.once /\ probe'.age = probe.age
    BY <1>1, <2>1
  <2> QED
    BY <1>1, <2>1, <2>2 DEF ReadinessInv, ProbeHonest
<1>7. ASSUME NEW ok \in BOOLEAN, EndProbe(ok)
      PROVE  ProbeHonest' /\ probe' \in Probe /\ world' \in [agent: BOOLEAN, silent: Nat]
  <2>1. PICK o \in BOOLEAN : o = (probe.once \/ ok)
    OBVIOUS
  <2>2. PICK f \in Nat : f = IF ok THEN 0 ELSE Capped(probe.failures + 1, FailureThreshold)
    BY <1>1, CappedNat, ReadinessBounds
  <2>3. PICK a \in Nat : a = IF ok THEN 0 ELSE probe.age
    BY <1>1
  <2>4. probe' = [probe EXCEPT !.busy = FALSE, !.took = 0, !.saw = FALSE, !.once = o,
                               !.failures = f, !.age = a]
    BY <1>7, <2>1, <2>2, <2>3 DEF EndProbe
  <2>5. probe' \in Probe /\ probe'.busy = FALSE /\ probe'.once = o /\ probe'.age = a
    BY <1>1, <2>4
  <2>6. world' = world /\ probe.busy /\ (ok => probe.saw)
    BY <1>7 DEF EndProbe
  <2>7. o /\ a <= AgentStaleAfter => world.silent <= a + ProbeTimeout
    <3>1. CASE ok
      <4>1. world.silent <= probe.took /\ probe.took <= ProbeTimeout
        BY <2>6, <3>1 DEF ReadinessInv, ProbeHonest
      <4> QED
        BY <1>1, <2>3, <3>1, <4>1, ReadinessBounds
    <3>2. CASE ~ok
      BY <2>1, <2>3, <3>2 DEF ReadinessInv, ProbeHonest
    <3> QED
      BY <3>1, <3>2
  <2> QED
    BY <1>1, <2>5, <2>6, <2>7 DEF ReadinessInv, ProbeHonest
<1>8. CASE AgentChanges
  <2>1. PICK b \in BOOLEAN : b = ~world.agent
    OBVIOUS
  <2>2. world' = [world EXCEPT !.agent = b, !.silent = 0] /\ probe' = probe
    BY <1>8, <2>1 DEF AgentChanges
  <2>3. world' \in [agent: BOOLEAN, silent: Nat] /\ world'.silent = 0
    BY <1>1, <2>2
  <2> QED
    BY <1>1, <2>2, <2>3, ReadinessBounds DEF ReadinessInv, ProbeHonest
<1> QED
  BY <1>4, <1>5, <1>6, <1>7, <1>8

\* A tick: everything is one older, at most up to its bound.
LEMMA TickKeeps ==
    ASSUME ReadinessInv, Tick
    PROVE  ReadinessInv'
<1> DEFINE Probe == [live: BOOLEAN, busy: BOOLEAN, took: Nat, saw: BOOLEAN, once: BOOLEAN,
                     failures: Nat, age: Nat]
<1>1. /\ probe \in Probe /\ world \in [agent: BOOLEAN, silent: Nat]
      /\ loops \in [Loops -> Loop]
      /\ process \in [state: {"down", "running", "stopping"}, since: Nat, checked: BOOLEAN]
  BY DEF ReadinessInv, ReadinessTypeOK
<1>2. /\ process.state = "running" => process.checked
      /\ probe.busy => probe.took < ProbeTimeout
      /\ loopsReady' = loopsReady
  BY DEF Tick
<1>3. /\ process' \in [state: {"down", "running", "stopping"}, since: Nat, checked: BOOLEAN]
      /\ process'.state = process.state /\ process'.checked = FALSE
  <2>1. PICK n \in Nat : n = Capped(process.since + 1, ShutdownBudget)
    BY <1>1, CappedNat, ReadinessBounds
  <2>2. process' = [process EXCEPT !.checked = FALSE, !.since = n]
    BY <2>1 DEF Tick
  <2> QED
    BY <1>1, <2>2
<1>4. /\ loops' \in [Loops -> Loop]
      /\ \A w \in Loops :
            /\ loops'[w].phase = loops[w].phase /\ loops'[w].succeeded = loops[w].succeeded
            /\ loops'[w].failures = loops[w].failures
            /\ loops'[w].phase # "running" => loops'[w].age = 0
            /\ loops'[w].age <= loops[w].age + 1
  <2>1. loops' = [w \in Loops |->
            [loops[w] EXCEPT !.age = IF loops[w].phase = "running"
                                     THEN Capped(@ + 1, LoopStaleAfter + 1) ELSE 0]]
    BY DEF Tick
  <2>2. ASSUME NEW w \in Loops
        PROVE  /\ loops'[w] \in Loop
               /\ loops'[w].phase = loops[w].phase /\ loops'[w].succeeded = loops[w].succeeded
               /\ loops'[w].failures = loops[w].failures
               /\ loops'[w].phase # "running" => loops'[w].age = 0
               /\ loops'[w].age <= loops[w].age + 1
    <3>1. PICK n \in Nat : n = IF loops[w].phase = "running"
                               THEN Capped(loops[w].age + 1, LoopStaleAfter + 1) ELSE 0
      BY <1>1, ReadinessBounds DEF Loop, Capped
    <3>2. n <= loops[w].age + 1
      BY <1>1, <3>1, ReadinessBounds DEF Loop, Capped
    <3>3. loops'[w] = [loops[w] EXCEPT !.age = n]
      BY <2>1, <3>1
    <3>4. loops[w] \in Loop
      BY <1>1
    <3> QED
      BY <3>1, <3>2, <3>3, <3>4 DEF Loop
  <2> QED
    BY <2>1, <2>2
<1>5. RestingLoops'
  BY <1>4 DEF RestingLoops
<1>6. LoopsHonest'
  <2> SUFFICES ASSUME loopsReady PROVE LoopsHonest'
    BY <1>2 DEF LoopsHonest
  <2>1. /\ process.state = "running" /\ process.checked
        /\ \A w \in Loops : /\ loops[w].succeeded /\ loops[w].failures < FailureThreshold
                            /\ loops[w].age < LoopStaleAfter
    BY <1>1, <1>2, ReadinessBounds DEF ReadinessInv, LoopsHonest, Loop
  <2>2. \A w \in Loops : loops[w].age \in Nat /\ loops'[w].age \in Nat
    BY <1>1, <1>4 DEF Loop
  <2>3. \A w \in Loops : loops'[w].age < LoopStaleAfter + 1
    BY <1>4, <2>1, <2>2, ReadinessBounds
  <2> QED
    BY <1>3, <1>4, <2>1, <2>3 DEF LoopsHonest
<1>7. PICK t \in Nat : t = IF probe.busy THEN probe.took + 1 ELSE 0
  BY <1>1
<1>8. PICK a \in Nat : a = Capped(probe.age + 1, AgentStaleAfter + 1)
  BY <1>1, CappedNat, ReadinessBounds
<1>9. PICK s \in Nat : s = IF world.agent THEN 0
                           ELSE Capped(world.silent + 1, AgentStaleAfter + ProbeTimeout + 1)
  BY <1>1, CappedNat, ReadinessBounds
<1>10. probe' = [probe EXCEPT !.took = t, !.age = a] /\ world' = [world EXCEPT !.silent = s]
  BY <1>7, <1>8, <1>9 DEF Tick
<1>11. /\ probe' \in Probe /\ probe'.took = t /\ probe'.age = a /\ probe'.busy = probe.busy
       /\ probe'.saw = probe.saw /\ probe'.once = probe.once
       /\ world' \in [agent: BOOLEAN, silent: Nat] /\ world'.silent = s /\ world'.agent = world.agent
  BY <1>1, <1>10
<1>12. s <= world.silent + 1 /\ (world.agent => s = 0)
  BY <1>1, <1>9, ReadinessBounds DEF Capped
<1>13. a <= AgentStaleAfter => a = probe.age + 1
  <2>1. Capped(probe.age + 1, AgentStaleAfter + 1) < AgentStaleAfter + 1
            => Capped(probe.age + 1, AgentStaleAfter + 1) = probe.age + 1
    BY <1>1, CappedNat, ReadinessBounds
  <2> QED
    BY <1>8, <2>1, ReadinessBounds
<1>14. ProbeHonest'
  <2>1. probe.busy => t <= ProbeTimeout
    BY <1>1, <1>2, <1>7, ReadinessBounds
  <2>2. probe.busy /\ probe.saw => s <= t
    BY <1>1, <1>7, <1>12 DEF ReadinessInv, ProbeHonest
  <2>3. probe.once /\ a <= AgentStaleAfter => s <= a + ProbeTimeout
    <3> SUFFICES ASSUME probe.once, a <= AgentStaleAfter PROVE s <= a + ProbeTimeout
      OBVIOUS
    <3>1. world.silent <= probe.age + ProbeTimeout
      BY <1>1, <1>13, ReadinessBounds DEF ReadinessInv, ProbeHonest
    <3> QED
      BY <1>1, <1>12, <1>13, <3>1, ReadinessBounds
  <2> QED
    BY <1>11, <1>12, <2>1, <2>2, <2>3 DEF ProbeHonest
<1> QED
  BY <1>2, <1>3, <1>4, <1>5, <1>6, <1>11, <1>14 DEF ReadinessInv, ReadinessTypeOK

\* The Product is never called ready on old news (ReadyIsHonest).
THEOREM ReadyIsHonestHolds == ReadinessSpec => []ReadyIsHonest
<1>1. ASSUME ReadinessInv, [ReadinessNext]_readinessVars PROVE ReadinessInv'
  <2>1. CASE UNCHANGED readinessVars
    BY <1>1, <2>1, ProbeUntouched, LoopsUntouched
       DEF readinessVars, ReadinessInv, ReadinessTypeOK
  <2> QED
    BY <1>1, <2>1, IterationKeeps, RuntimeKeeps, ProbeKeeps, TickKeeps DEF ReadinessNext
<1> QED
  BY <1>1, ReadinessInitInv, ReadyFromInv, PTL DEF ReadinessSpec

-----------------------------------------------------------------------------
(***************************************************************************)
(* A search or a snapshot ends inside its budget, for every set of threads,*)
(* delays, endpoints and fields.                                           *)
(*                                                                         *)
(* SlowElapsed is the time a search has used when every attempt so far was *)
(* met by silence: with the reserve for the back-off it leaves room for    *)
(* all three attempts.  RuntimeKnown says when Tavily may stand in.        *)
(***************************************************************************)
SearchCall ==
    [stage: {"search", "evidence"}, purpose: {"research", "deep", "market"},
     provider: Providers, tool: {"web_search", "web_search_preview"}, attempt: 1..3,
     elapsed: Nat, slow: BOOLEAN]
Runtime == [provider: Providers \cup {"none"}, fallback: BOOLEAN]

SlowElapsed(provider, attempt) ==
    IF attempt = 1 THEN 0
    ELSE IF attempt = 2
    THEN (IF provider = "tavily" THEN 76 ELSE IF provider = "ddgs" THEN 56 ELSE 58)
    ELSE (IF provider = "tavily" THEN 102 ELSE IF provider = "ddgs" THEN 92 ELSE 93)

\* Tavily is a fallback only where a probe reached it
KnownRuntime(r) == r \in Runtime /\ (r.fallback => settings.strict /\ r.provider = "builtin")
RuntimeKnown ==
    /\ starters \in [Starters -> Runtime]
    /\ \A s \in Starters : KnownRuntime(starters[s])
    /\ KnownRuntime(runtime)
    /\ settings.requested \in Providers /\ settings.strict \in BOOLEAN

StandsIn(c) ==
    c.provider # runtime.provider =>
        settings.strict /\ runtime = [provider |-> "builtin", fallback |-> TRUE]

\* a search under way, and one that has ended
SearchOK(c) ==
    /\ c \in SearchCall /\ c.elapsed < SearchBudget
    /\ c.slow => c.elapsed = SlowElapsed(c.provider, c.attempt)
Ended(c) ==
    c.elapsed <= SearchBudget + (IF c.provider = "ddgs" THEN 4 ELSE 0)

CallOK ==
    /\ call.stage \in {"idle", "search", "evidence", "okx", "done"}
    /\ call # NoCall => runtime.provider \in Providers
    /\ call.stage = "search" => SearchOK(call) /\ StandsIn(call)
    /\ call.stage = "evidence" => call \in SearchCall /\ Ended(call) /\ ~call.slow
    /\ call.stage = "okx" =>
          call \in [stage: {"okx"}, attempt: 1..3, elapsed: 0..(OkxBudget - 1)]
    /\ call.stage = "done" =>
          \/ /\ DOMAIN call = {"stage", "result", "okx"} /\ call.okx <= OkxBudget
          \/ /\ DOMAIN call = {"stage", "result", "search"} /\ Ended(call.search)
             /\ call.search.slow /\ call.result = "failed" => call.search.attempt = MaxAttempts

ProvidersInv == RuntimeKnown /\ CallOK

LEMMA ProvidersInitInv == ProvidersInit => ProvidersInv
<1> SUFFICES ASSUME ProvidersInit PROVE ProvidersInv
  OBVIOUS
<1>1. NoRuntime \in Runtime /\ NoRuntime.fallback = FALSE
  BY DEF NoRuntime, Runtime
<1>2. RuntimeKnown
  BY <1>1 DEF ProvidersInit, RuntimeKnown, KnownRuntime
<1>3. CallOK
  BY DEF ProvidersInit, CallOK, NoCall
<1> QED
  BY <1>2, <1>3 DEF ProvidersInv

LEMMA BudgetFromInv == ProvidersInv => SearchWithinBudget
<1> SUFFICES ASSUME ProvidersInv PROVE SearchWithinBudget
  OBVIOUS
<1>1. call.stage \in {"search", "okx"} =>
          call.elapsed < IF call.stage = "okx" THEN OkxBudget ELSE SearchBudget
  BY DEF ProvidersInv, CallOK, SearchOK, OkxBudget, SearchBudget
<1>2. call.stage = "done" =>
          IF "okx" \in DOMAIN call THEN call.okx <= OkxBudget
          ELSE /\ call.search.elapsed <= SearchBudget + (IF call.search.provider = "ddgs" THEN 4 ELSE 0)
               /\ call.search.slow /\ call.result = "failed" => call.search.attempt = MaxAttempts
  BY DEF ProvidersInv, CallOK, Ended
<1>3. call.stage = "search" /\ call.provider # runtime.provider =>
          settings.strict /\ runtime = [provider |-> "builtin", fallback |-> TRUE]
  BY DEF ProvidersInv, CallOK, StandsIn
<1> QED
  BY <1>1, <1>2, <1>3 DEF SearchWithinBudget

\* What an attempt may take, and what silence leaves.
LEMMA GrantWithin ==
    ASSUME NEW provider \in Providers, NEW attempt \in 1..3, NEW elapsed \in 0..119,
           NEW t, t = ClientTimeout(provider, Grant(provider, attempt, SearchBudget - elapsed))
    PROVE  /\ t \in Nat /\ elapsed + t <= SearchBudget + (IF provider = "ddgs" THEN 4 ELSE 0)
           /\ elapsed = SlowElapsed(provider, attempt) /\ attempt < 3 =>
                 elapsed + t + BackoffBefore(attempt + 1) = SlowElapsed(provider, attempt + 1)
<1> DEFINE remaining == SearchBudget - elapsed
           future == FutureBackoff(attempt)
           reserve == IF future < remaining \div 2 THEN future ELSE remaining \div 2
           usable == remaining - reserve
<1>1. remaining \in 1..120 /\ remaining = 120 - elapsed
  BY DEF SearchBudget
<1>2. future = IF attempt = 1 THEN 12 ELSE IF attempt = 2 THEN 8 ELSE 0
  BY DEF FutureBackoff
<1>3. reserve \in Nat /\ reserve < remaining /\ (remaining >= 26 => reserve = future)
  BY <1>1, <1>2
<1>4. usable \in 1..remaining /\ (remaining >= 26 => usable = remaining - future)
  BY <1>1, <1>2, <1>3
<1> DEFINE g == Grant(provider, attempt, remaining)
<1>5. g = IF attempt = 1 THEN FirstShare(provider, usable)
          ELSE usable \div (MaxAttempts - attempt + 1)
  BY DEF Grant
<1> HIDE DEF usable, remaining, future, reserve
<1>6. g \in 0..remaining
  <2>1. CASE attempt = 1
    BY <1>1, <1>4, <1>5, <2>1 DEF FirstShare
  <2>2. CASE attempt = 2
    BY <1>1, <1>4, <1>5, <2>2 DEF MaxAttempts
  <2>3. CASE attempt = 3
    BY <1>1, <1>4, <1>5, <2>3 DEF MaxAttempts
  <2> QED
    BY <2>1, <2>2, <2>3
<1>7. t = ClientTimeout(provider, g)
  BY DEF remaining
<1>8. ASSUME elapsed = SlowElapsed(provider, attempt), attempt < 3
      PROVE  elapsed + t + BackoffBefore(attempt + 1) = SlowElapsed(provider, attempt + 1)
  <2>1. CASE attempt = 1
    <3>1. usable = 108
      BY <1>1, <1>2, <1>4, <1>8, <2>1 DEF SlowElapsed
    <3>2. g = IF provider = "tavily" THEN 72 ELSE 54
      BY <1>5, <2>1, <3>1 DEF FirstShare
    <3>3. t = IF provider = "tavily" THEN 72 ELSE IF provider = "ddgs" THEN 52 ELSE 54
      BY <1>7, <3>2 DEF ClientTimeout
    <3> QED
      BY <1>8, <2>1, <3>3 DEF SlowElapsed, BackoffBefore
  <2>2. CASE attempt = 2
    <3>1. usable = IF provider = "tavily" THEN 36 ELSE IF provider = "ddgs" THEN 56 ELSE 54
      BY <1>1, <1>2, <1>4, <1>8, <2>2 DEF SlowElapsed
    <3>2. g = IF provider = "tavily" THEN 18 ELSE IF provider = "ddgs" THEN 28 ELSE 27
      BY <1>5, <2>2, <3>1 DEF MaxAttempts
    <3>3. t = IF provider = "tavily" THEN 18 ELSE IF provider = "ddgs" THEN 28 ELSE 27
      BY <1>7, <3>2 DEF ClientTimeout
    <3> QED
      BY <1>8, <2>2, <3>3 DEF SlowElapsed, BackoffBefore
  <2> QED
    BY <1>8, <2>1, <2>2
<1>9. t \in Nat /\ elapsed + t <= SearchBudget + (IF provider = "ddgs" THEN 4 ELSE 0)
  BY <1>1, <1>6, <1>7 DEF ClientTimeout, SearchBudget
<1> QED
  BY <1>8, <1>9

LEMMA RuntimeKeepsKnown ==
    ASSUME ProvidersInv, NEW s \in Starters, BuildRuntime(s) \/ CacheRuntime(s)
    PROVE  ProvidersInv'
<1>1. settings' = settings /\ call' = call
  BY DEF BuildRuntime, CacheRuntime
<1>2. NoRuntime \in Runtime /\ NoRuntime.fallback = FALSE
  BY DEF NoRuntime, Runtime
<1>3. ASSUME NEW r \in Runtime, r.fallback => settings.strict /\ r.provider = "builtin",
             starters' = [starters EXCEPT ![s] = r], runtime' \in Runtime,
             runtime'.fallback => settings.strict /\ runtime'.provider = "builtin"
      PROVE  RuntimeKnown'
  <2>1. starters' \in [Starters -> Runtime]
    BY <1>3 DEF ProvidersInv, RuntimeKnown
  <2>2. \A q \in Starters : starters'[q] = IF q = s THEN r ELSE starters[q]
    BY <1>3 DEF ProvidersInv, RuntimeKnown
  <2> QED
    BY <1>1, <1>3, <2>1, <2>2 DEF ProvidersInv, RuntimeKnown, KnownRuntime
<1>4. CASE CacheRuntime(s)
  <2>1. RuntimeKnown'
    BY <1>2, <1>3, <1>4 DEF CacheRuntime, ProvidersInv, RuntimeKnown, KnownRuntime
  <2>2. call # NoCall => runtime' = runtime
    BY <1>4 DEF CacheRuntime, ProvidersInv, CallOK, NoRuntime, Providers
  <2>3. call.stage # "idle" => call # NoCall
    BY DEF NoCall
  <2> QED
    BY <1>1, <2>1, <2>2, <2>3 DEF ProvidersInv, CallOK, StandsIn
<1>5. CASE BuildRuntime(s)
  <2>1. runtime' = runtime
    BY <1>5 DEF BuildRuntime
  <2>2. PICK rd : /\ starters' = [starters EXCEPT ![s] = Assemble(rd)]
                  /\ rd.provider \in Providers \cup {"none"} /\ rd.connected \in BOOLEAN
                  /\ rd.connected => settings.strict
    <3>1. CASE settings.strict
      <4>1. PICK f \in Findings : starters' = [starters EXCEPT ![s] = Assemble(EstablishSearchReadiness(f))]
        BY <1>5, <3>1 DEF BuildRuntime
      <4>2. /\ EstablishSearchReadiness(f).provider \in Providers \cup {"none"}
            /\ EstablishSearchReadiness(f).connected \in BOOLEAN
        BY DEF EstablishSearchReadiness, SelectSearchProvider, NotReady, Providers, Findings
      <4> QED
        BY <3>1, <4>1, <4>2
    <3>2. CASE ~settings.strict
      <4>1. PICK rd : rd = [provider |-> settings.requested, connected |-> FALSE]
        OBVIOUS
      <4>2. starters' = [starters EXCEPT ![s] = Assemble(rd)]
        BY <1>5, <3>2, <4>1 DEF BuildRuntime
      <4>3. rd.provider \in Providers /\ rd.connected = FALSE
        BY <4>1 DEF ProvidersInv, RuntimeKnown
      <4> QED
        BY <3>2, <4>2, <4>3
    <3> QED
      BY <3>1, <3>2
  <2>3. PICK r : r = Assemble(rd)
    OBVIOUS
  <2>4. r \in Runtime /\ (r.fallback => settings.strict /\ r.provider = "builtin")
    BY <2>2, <2>3 DEF Assemble, Runtime
  <2>5. RuntimeKnown'
    BY <1>3, <2>1, <2>2, <2>3, <2>4 DEF ProvidersInv, RuntimeKnown, KnownRuntime
  <2> QED
    BY <1>1, <2>1, <2>5 DEF ProvidersInv, CallOK, StandsIn
<1> QED
  BY <1>4, <1>5

\* A step of the call leaves the settings and the runtime as they are.
LEMMA CallMoves ==
    ASSUME ProvidersInv, UNCHANGED <<settings, starters, runtime>>
    PROVE  RuntimeKnown'
  BY DEF ProvidersInv, RuntimeKnown, KnownRuntime

LEMMA NewSearchOK ==
    ASSUME NEW purpose \in {"research", "deep", "market"}, NEW provider \in Providers
    PROVE  SearchOK(NewSearch(purpose, provider)) /\ NewSearch(purpose, provider).stage = "search"
           /\ NewSearch(purpose, provider).provider = provider
  BY DEF NewSearch, SearchOK, SearchCall, SearchBudget, SlowElapsed

LEMMA SearchBegins ==
    ASSUME ProvidersInv, NEW purpose \in {"research", "deep", "market"}, NEW provider \in Providers,
           runtime.provider \in Providers,
           provider # runtime.provider =>
               settings.strict /\ runtime = [provider |-> "builtin", fallback |-> TRUE],
           call' = NewSearch(purpose, provider), UNCHANGED <<settings, starters, runtime>>
    PROVE  ProvidersInv'
<1>1. PICK c : c = NewSearch(purpose, provider)
  OBVIOUS
<1>2. SearchOK(c) /\ c.stage = "search" /\ c.provider = provider
  BY <1>1, NewSearchOK
<1>3. call' = c
  BY <1>1
<1>4. CallOK'
  BY <1>2, <1>3 DEF CallOK, StandsIn, SearchOK
<1> QED
  BY <1>4, CallMoves DEF ProvidersInv

LEMMA SearchEnds ==
    ASSUME ProvidersInv, NEW c, NEW result, Ended(c), runtime.provider \in Providers,
           c.slow /\ result = "failed" => c.attempt = MaxAttempts,
           Done(c, result), UNCHANGED <<settings, starters, runtime>>
    PROVE  ProvidersInv'
<1>1. PICK d : d = [stage |-> "done", result |-> result, search |-> c]
  OBVIOUS
<1>2. /\ d.stage = "done" /\ d.result = result /\ d.search = c
      /\ DOMAIN d = {"stage", "result", "search"}
  BY <1>1
<1>3. call' = d
  BY <1>1 DEF Done
<1>4. CallOK'
  BY <1>2, <1>3 DEF CallOK
<1> QED
  BY <1>4, CallMoves DEF ProvidersInv

\* One attempt: its reply is evidence, or worth another attempt, or ends the search.
LEMMA AttemptKeeps ==
    ASSUME ProvidersInv, SearchAttempt
    PROVE  ProvidersInv'
<1> DEFINE remaining == SearchBudget - call.elapsed
           timeout == ClientTimeout(call.provider, Grant(call.provider, call.attempt, remaining))
           back == BackoffBefore(call.attempt + 1)
<1>1. /\ SearchOK(call) /\ StandsIn(call) /\ call # NoCall
      /\ UNCHANGED <<settings, starters, runtime>>
  BY DEF SearchAttempt, ProvidersInv, CallOK, NoCall
<1>2. /\ call \in SearchCall /\ call.elapsed \in 0..119 /\ call.attempt \in 1..3
      /\ call.provider \in Providers /\ call.slow \in BOOLEAN /\ call.stage = "search"
      /\ call.slow => call.elapsed = SlowElapsed(call.provider, call.attempt)
      /\ runtime.provider \in Providers
  BY <1>1 DEF SearchOK, SearchCall, SearchBudget, SearchAttempt, ProvidersInv, CallOK
<1>3. /\ timeout \in Nat
      /\ call.elapsed + timeout <= SearchBudget + (IF call.provider = "ddgs" THEN 4 ELSE 0)
      /\ call.elapsed = SlowElapsed(call.provider, call.attempt) /\ call.attempt < 3 =>
            call.elapsed + timeout + back = SlowElapsed(call.provider, call.attempt + 1)
  BY <1>2, GrantWithin
<1>4. back \in {4, 8}
  BY DEF BackoffBefore
<1>5. PICK reply \in Replies(call.provider) :
         \E took \in IF reply = "timeout" THEN {timeout} ELSE {0, timeout \div 2},
            after \in IF reply = "transient" THEN RetryAfters \cup {0} ELSE {0} :
            LET c     == [call EXCEPT !.elapsed = @ + took,
                                      !.slow = @ /\ reply = "timeout",
                                      !.tool = NextTool(@, reply)]
                delay == IF after > back THEN after ELSE back
            IN  IF reply = "evidence"
                THEN call' = [c EXCEPT !.stage = "evidence"]
                ELSE IF CanRetry(call.attempt, Retryable(reply), delay, SearchBudget - c.elapsed)
                THEN call' = [c EXCEPT !.attempt = @ + 1, !.elapsed = @ + delay]
                ELSE SearchFails(c, Retryable(reply))
  BY DEF SearchAttempt
<1>6. PICK took \in IF reply = "timeout" THEN {timeout} ELSE {0, timeout \div 2},
           after \in IF reply = "transient" THEN RetryAfters \cup {0} ELSE {0} :
            LET c     == [call EXCEPT !.elapsed = @ + took,
                                      !.slow = @ /\ reply = "timeout",
                                      !.tool = NextTool(@, reply)]
                delay == IF after > back THEN after ELSE back
            IN  IF reply = "evidence"
                THEN call' = [c EXCEPT !.stage = "evidence"]
                ELSE IF CanRetry(call.attempt, Retryable(reply), delay, SearchBudget - c.elapsed)
                THEN call' = [c EXCEPT !.attempt = @ + 1, !.elapsed = @ + delay]
                ELSE SearchFails(c, Retryable(reply))
  BY <1>5
<1> HIDE DEF timeout, back
<1>7. took \in Nat /\ took <= timeout /\ (reply = "timeout" => took = timeout)
  BY <1>3
<1>8. after \in Nat
  BY ProvidersAssumption
<1>9. PICK delay \in Nat : /\ delay = IF after > back THEN after ELSE back
                           /\ delay >= 1 /\ (reply = "timeout" => delay = back)
  BY <1>4, <1>8
<1>10. PICK e \in Nat : e = call.elapsed + took
  BY <1>2, <1>7
<1>11. PICK slow \in BOOLEAN : slow = (call.slow /\ reply = "timeout")
  OBVIOUS
<1>12. PICK tool \in {"web_search", "web_search_preview"} : tool = NextTool(call.tool, reply)
  BY <1>2 DEF NextTool, SearchCall
<1>13. PICK c : c = [call EXCEPT !.elapsed = e, !.slow = slow, !.tool = tool]
  OBVIOUS
<1>14. /\ c \in SearchCall /\ c.elapsed = e /\ c.slow = slow /\ c.provider = call.provider
       /\ c.attempt = call.attempt /\ c.purpose = call.purpose /\ c.stage = "search"
  BY <1>2, <1>13 DEF SearchCall
<1>15. IF reply = "evidence"
       THEN call' = [c EXCEPT !.stage = "evidence"]
       ELSE IF CanRetry(call.attempt, Retryable(reply), delay, SearchBudget - e)
       THEN call' = [c EXCEPT !.attempt = @ + 1, !.elapsed = @ + delay]
       ELSE SearchFails(c, Retryable(reply))
  <2>1. c = [call EXCEPT !.elapsed = @ + took, !.slow = @ /\ reply = "timeout",
                         !.tool = NextTool(@, reply)]
    BY <1>10, <1>11, <1>12, <1>13
  <2> QED
    BY <1>6, <1>9, <1>14, <2>1
<1>16. e <= SearchBudget + (IF call.provider = "ddgs" THEN 4 ELSE 0)
  BY <1>2, <1>3, <1>7, <1>10 DEF SearchBudget
<1>17. Ended(c)
  BY <1>14, <1>16 DEF Ended
<1>18. slow /\ call.attempt < 3 =>
           /\ e + delay = SlowElapsed(call.provider, call.attempt + 1)
           /\ e + delay < SearchBudget
  <2> SUFFICES ASSUME slow, call.attempt < 3
               PROVE  /\ e + delay = SlowElapsed(call.provider, call.attempt + 1)
                      /\ e + delay < SearchBudget
    OBVIOUS
  <2>1. took = timeout /\ delay = back /\ call.elapsed = SlowElapsed(call.provider, call.attempt)
    BY <1>2, <1>7, <1>9, <1>11
  <2>2. call.elapsed + timeout + back = SlowElapsed(call.provider, call.attempt + 1)
    BY <1>3, <2>1
  <2>3. SlowElapsed(call.provider, call.attempt + 1) < 120
    BY <1>2 DEF SlowElapsed
  <2> QED
    BY <1>2, <1>3, <1>4, <1>10, <2>1, <2>2, <2>3 DEF SearchBudget
<1>19. CASE reply = "evidence"
  <2>1. PICK d : d = [c EXCEPT !.stage = "evidence"]
    OBVIOUS
  <2>2. /\ d \in SearchCall /\ d.stage = "evidence" /\ d.elapsed = c.elapsed
        /\ d.provider = c.provider /\ d.slow = slow
    BY <1>14, <2>1 DEF SearchCall
  <2>3. ~slow
    BY <1>11, <1>19
  <2>4. Ended(d)
    BY <1>17, <2>2 DEF Ended
  <2>5. call' = d
    BY <1>15, <1>19, <2>1
  <2>6. CallOK'
    BY <1>1, <1>2, <2>2, <2>3, <2>4, <2>5 DEF CallOK, Ended
  <2> QED
    BY <1>1, <2>6, CallMoves DEF ProvidersInv
<1>20. CASE reply # "evidence" /\ CanRetry(call.attempt, Retryable(reply), delay, SearchBudget - e)
  <2>1. call.attempt < 3 /\ e + delay < SearchBudget
    BY <1>2, <1>20 DEF CanRetry, MaxAttempts, SearchBudget
  <2>2. PICK n \in 1..3 : n = call.attempt + 1
    BY <1>2, <2>1
  <2>3. PICK f \in Nat : f = e + delay
    OBVIOUS
  <2>4. PICK d : d = [c EXCEPT !.attempt = n, !.elapsed = f]
    OBVIOUS
  <2>5. /\ d \in SearchCall /\ d.elapsed = f /\ d.attempt = n /\ d.slow = slow
        /\ d.provider = call.provider /\ d.stage = "search"
    BY <1>14, <2>4 DEF SearchCall
  <2>6. call' = d
    BY <1>14, <1>15, <1>20, <2>2, <2>3, <2>4
  <2>7. SearchOK(d)
    BY <1>18, <2>1, <2>2, <2>3, <2>5 DEF SearchOK
  <2>8. StandsIn(d)
    BY <1>1, <2>5 DEF StandsIn
  <2>9. CallOK'
    BY <1>1, <1>2, <2>5, <2>6, <2>7, <2>8 DEF CallOK, SearchOK, StandsIn
  <2> QED
    BY <1>1, <2>9, CallMoves DEF ProvidersInv
<1>21. CASE reply # "evidence" /\ ~CanRetry(call.attempt, Retryable(reply), delay, SearchBudget - e)
  <2>1. SearchFails(c, Retryable(reply))
    BY <1>15, <1>21
  <2>2. CASE CanFallbackToTavily(c, Retryable(reply))
    <3>1. call' = NewSearch("research", "tavily")
      BY <2>1, <2>2 DEF SearchFails
    <3>2. settings.strict /\ runtime = [provider |-> "builtin", fallback |-> TRUE]
      <4>1. runtime.fallback /\ KnownRuntime(runtime)
        BY <2>2 DEF CanFallbackToTavily, ProvidersInv, RuntimeKnown
      <4> QED
        BY <4>1 DEF KnownRuntime, Runtime
    <3> QED
      BY <1>1, <1>2, <3>1, <3>2, SearchBegins DEF Providers
  <2>3. CASE ~CanFallbackToTavily(c, Retryable(reply))
    <3>1. Done(c, "failed")
      BY <2>1, <2>3 DEF SearchFails
    <3>2. c.slow => c.attempt = MaxAttempts
      <4> SUFFICES ASSUME slow, call.attempt # 3 PROVE FALSE
        BY <1>14 DEF MaxAttempts
      <4>1. call.attempt < 3
        BY <1>2
      <4>2. reply = "timeout" /\ Retryable(reply)
        BY <1>11 DEF Retryable
      <4>3. e + delay < SearchBudget
        BY <1>18, <4>1
      <4> QED
        BY <1>21, <4>1, <4>2, <4>3 DEF CanRetry, MaxAttempts, SearchBudget
    <3> QED
      BY <1>1, <1>2, <1>17, <3>1, <3>2, SearchEnds
  <2> QED
    BY <2>2, <2>3
<1> QED
  BY <1>19, <1>20, <1>21

LEMMA EvidenceKeeps ==
    ASSUME ProvidersInv, ResearchFromEvidence \/ MarketFromEvidence
    PROVE  ProvidersInv'
<1>1. /\ call.stage = "evidence" /\ call # NoCall /\ UNCHANGED <<settings, starters, runtime>>
      /\ \E result : Done(call, result)
  BY DEF ResearchFromEvidence, MarketFromEvidence, NoCall
<1>2. Ended(call) /\ ~call.slow /\ runtime.provider \in Providers
  BY <1>1 DEF ProvidersInv, CallOK
<1> QED
  BY <1>1, <1>2, SearchEnds

LEMMA OkxKeeps ==
    ASSUME ProvidersInv, OkxAttempt
    PROVE  ProvidersInv'
<1>1. /\ call.stage = "okx" /\ call # NoCall /\ runtime.provider \in Providers
      /\ call \in [stage: {"okx"}, attempt: 1..3, elapsed: 0..(OkxBudget - 1)]
      /\ UNCHANGED <<settings, starters, runtime>>
  BY DEF OkxAttempt, ProvidersInv, CallOK, NoCall
<1>2. PICK replies \in [DOMAIN Endpoints -> EndpointReplies],
           took \in {0, (OkxBudget - call.elapsed) \div 2, OkxBudget - call.elapsed} :
          LET outcome   == FetchOnce(replies)
              elapsed   == call.elapsed + took
              delay     == BackoffBefore(call.attempt + 1)
          IN  CASE outcome = "snapshot" -> call' = [stage |-> "done", result |-> "okx", okx |-> elapsed]
                [] outcome = "rejected" -> call' = [stage |-> "done", result |-> "failed", okx |-> elapsed]
                [] OTHER -> IF call.attempt < MaxAttempts /\ delay < OkxBudget - elapsed
                            THEN call' = [call EXCEPT !.attempt = @ + 1, !.elapsed = elapsed + delay]
                            ELSE call' = NewSearch("market", runtime.provider)
  BY DEF OkxAttempt
<1>3. PICK e \in 0..OkxBudget : e = call.elapsed + took
  BY <1>1 DEF OkxBudget
<1>4. PICK delay \in {4, 8} : delay = BackoffBefore(call.attempt + 1)
  BY DEF BackoffBefore
<1>5. \/ \E result \in {"okx", "failed"} : call' = [stage |-> "done", result |-> result, okx |-> e]
      \/ /\ call.attempt < MaxAttempts /\ delay < OkxBudget - e
         /\ call' = [call EXCEPT !.attempt = @ + 1, !.elapsed = e + delay]
      \/ call' = NewSearch("market", runtime.provider)
  <2>1. PICK outcome : outcome = FetchOnce(replies)
    OBVIOUS
  <2>2. CASE outcome = "snapshot"
    BY <1>2, <1>3, <2>1, <2>2
  <2>3. CASE outcome = "rejected"
    BY <1>2, <1>3, <2>1, <2>3
  <2>4. CASE outcome \notin {"snapshot", "rejected"}
    BY <1>2, <1>3, <1>4, <2>1, <2>4
  <2> QED
    BY <2>2, <2>3, <2>4
<1>6. ASSUME NEW result \in {"okx", "failed"},
             call' = [stage |-> "done", result |-> result, okx |-> e]
      PROVE  ProvidersInv'
  <2>1. PICK d : d = [stage |-> "done", result |-> result, okx |-> e]
    OBVIOUS
  <2>2. d.stage = "done" /\ DOMAIN d = {"stage", "result", "okx"} /\ d.okx <= OkxBudget
    BY <1>3, <2>1 DEF OkxBudget
  <2>3. call' = d
    BY <1>6, <2>1
  <2>4. CallOK'
    BY <1>1, <2>2, <2>3 DEF CallOK
  <2> QED
    BY <1>1, <2>4, CallMoves DEF ProvidersInv
<1>7. CASE /\ call.attempt < MaxAttempts /\ delay < OkxBudget - e
           /\ call' = [call EXCEPT !.attempt = @ + 1, !.elapsed = e + delay]
  <2>1. PICK n \in 1..3 : n = call.attempt + 1
    BY <1>1, <1>7 DEF MaxAttempts
  <2>2. PICK f \in 0..(OkxBudget - 1) : f = e + delay
    BY <1>3, <1>7 DEF OkxBudget
  <2>3. call' = [call EXCEPT !.attempt = n, !.elapsed = f]
    BY <1>7, <2>1, <2>2
  <2>4. call' \in [stage: {"okx"}, attempt: 1..3, elapsed: 0..(OkxBudget - 1)]
    BY <1>1, <2>3
  <2>5. CallOK'
    BY <1>1, <2>4 DEF CallOK
  <2> QED
    BY <1>1, <2>5, CallMoves DEF ProvidersInv
<1>8. CASE call' = NewSearch("market", runtime.provider)
  BY <1>1, <1>8, SearchBegins
<1> QED
  BY <1>5, <1>6, <1>7, <1>8

LEMMA StartsKeep ==
    ASSUME ProvidersInv, StartMarket \/ Return \/ (\E p \in {"research", "deep"} : StartSearch(p))
    PROVE  ProvidersInv'
<1>1. runtime \in Runtime
  BY DEF ProvidersInv, RuntimeKnown, KnownRuntime
<1>2. ASSUME runtime # NoRuntime PROVE runtime.provider \in Providers
  BY <1>1, <1>2 DEF ProvidersInv, RuntimeKnown, KnownRuntime, Runtime, NoRuntime
<1>3. ASSUME NEW p \in {"research", "deep"}, StartSearch(p) PROVE ProvidersInv'
  BY <1>2, <1>3, SearchBegins DEF StartSearch
<1>4. CASE StartMarket
  <2>1. call' \in [stage: {"okx"}, attempt: 1..3, elapsed: 0..(OkxBudget - 1)]
    BY <1>4 DEF StartMarket, OkxBudget
  <2>2. runtime.provider \in Providers /\ UNCHANGED <<settings, starters, runtime>>
    BY <1>2, <1>4 DEF StartMarket
  <2>3. CallOK'
    BY <2>1, <2>2 DEF CallOK
  <2> QED
    BY <2>2, <2>3, CallMoves DEF ProvidersInv
<1>5. CASE Return
  <2>1. call' = NoCall /\ UNCHANGED <<settings, starters, runtime>>
    BY <1>5 DEF Return
  <2>2. CallOK'
    BY <2>1 DEF CallOK, NoCall
  <2> QED
    BY <2>1, <2>2, CallMoves DEF ProvidersInv
<1> QED
  BY <1>3, <1>4, <1>5

\* A search or a snapshot ends inside its budget, and Tavily stands in only where the
\* probe of this process reached it (SearchWithinBudget).
THEOREM SearchWithinBudgetHolds == ProvidersSpec => []SearchWithinBudget
<1>1. ASSUME ProvidersInv, [ProvidersNext]_providerVars PROVE ProvidersInv'
  <2>1. CASE UNCHANGED providerVars
    BY <1>1, <2>1 DEF providerVars, ProvidersInv, RuntimeKnown, KnownRuntime, CallOK, StandsIn
  <2> QED
    BY <1>1, <2>1, RuntimeKeepsKnown, AttemptKeeps, EvidenceKeeps, OkxKeeps, StartsKeep
       DEF ProvidersNext
<1> QED
  BY <1>1, ProvidersInitInv, BudgetFromInv, PTL DEF ProvidersSpec

-----------------------------------------------------------------------------
(***************************************************************************)
(* The legacy application calls an opening allowed only on full grounds.   *)
(*                                                                         *)
(* GatesGround is about one run's data: what the production control gate,  *)
(* the symbol check and the risk check together let through.  The rest     *)
(* follows an allowed run to its plan row, its trace and its alert: by     *)
(* then nothing of its data changes any more.                              *)
(***************************************************************************)
Gathered(snapshot) ==
    /\ "liquidation" \notin DOMAIN snapshot.points
    /\ snapshot.added \cap EXECUTION_FACT_TYPES = {}
    /\ \A name \in DOMAIN snapshot.points : snapshot.points[name].age \in Int

Reported(swarm) == \A agent \in DOMAIN swarm : swarm[agent] \in SwarmOutcomes

ElapsedTypes == [sinceFetch: Int, sinceSearch: Int, sincePlan: Int]

(* Below the cap: liquidations are always missing. *)
LEMMA CapHolds ==
    ASSUME NEW plan, NEW snapshot, Gathered(snapshot), ParsedPlan(plan),
           FactsGatePassed(snapshot), GateCandidateViolations(plan, snapshot) = {}
    PROVE  plan.probability <= 58
<1>1. plan.probability \in Int
  BY DEF ParsedPlan
<1>2. "liquidation" \in MissingAuxiliaryFacts(snapshot)
  BY DEF Gathered, MissingAuxiliaryFacts, AUXILIARY_FACT_TYPES, FreshFrom
<1>3. FactsGateCaps(snapshot) = {58}
  <2>1. CanSatisfyEventFact(snapshot)
    BY DEF FactsGatePassed
  <2>2. 58 \in FactsGateCaps(snapshot)
    BY <1>2 DEF FactsGateCaps
  <2>3. \A cap \in FactsGateCaps(snapshot) : cap = 58
    BY <2>1 DEF FactsGateCaps
  <2> QED
    BY <2>2, <2>3
<1>4. ConfidencePolicy(snapshot) = {58}
  BY <1>3 DEF ConfidencePolicy, SearchEvidenceCaps
<1>5. Min({58}) = 58
  <2>1. \A x \in {58} : (\A y \in {58} : x =< y) <=> x = 58
    OBVIOUS
  <2> QED
    BY <2>1 DEF Min
<1>6. "confidence_cap_exceeded" \notin GateCandidateViolations(plan, snapshot)
  OBVIOUS
<1>7. ~(plan.probability > Min(ConfidencePolicy(snapshot)))
  BY <1>4, <1>6 DEF GateCandidateViolations
<1> QED
  BY <1>1, <1>4, <1>5, <1>7

LEMMA PricesInOrder ==
    ASSUME NEW plan, ParsedPlan(plan), plan.main_action \in LEGACY_OPENING_ACTIONS,
           ~PlanSemanticViolated(plan)
    PROVE  /\ 0 \notin {plan.stop_price, plan.entry_trigger, plan.target_1}
           /\ IF plan.main_action \in LONG_OPENING_ACTIONS
              THEN plan.stop_price < plan.entry_trigger /\ plan.entry_trigger < plan.target_1
              ELSE plan.stop_price > plan.entry_trigger /\ plan.entry_trigger > plan.target_1
<1>1. plan.entry_trigger \in Int /\ plan.stop_price \in Int /\ plan.target_1 \in Int
  BY DEF ParsedPlan
<1>2. 0 \notin {plan.entry_trigger, plan.stop_price, plan.target_1}
  BY DEF PlanSemanticViolated
<1>3. CASE plan.main_action \in LONG_OPENING_ACTIONS
  <2>1. ~LongGeometryBroken(plan)
    BY <1>3 DEF PlanSemanticViolated
  <2> QED
    BY <1>1, <1>2, <1>3, <2>1 DEF LongGeometryBroken
<1>4. CASE plan.main_action \notin LONG_OPENING_ACTIONS
  <2>1. ~ShortGeometryBroken(plan)
    BY <1>4 DEF PlanSemanticViolated, LEGACY_OPENING_ACTIONS
  <2> QED
    BY <1>1, <1>2, <1>4, <2>1 DEF ShortGeometryBroken
<1> QED
  BY <1>3, <1>4

LEMMA SwarmAgrees ==
    ASSUME NEW swarm, Reported(swarm), WorkersReady(swarm)
    PROVE  /\ DOMAIN swarm # {}
           /\ \A agent \in DOMAIN swarm : swarm[agent] \in {"ok", "tool_hard_block"}
<1>1. DOMAIN swarm # {}
  BY DEF WorkersReady, HarnessPassed, WorkersReport
<1>2. ASSUME NEW agent \in DOMAIN swarm PROVE swarm[agent] \in {"ok", "tool_hard_block"}
  <2>1. PICK outcome \in SwarmOutcomes : swarm[agent] = outcome
    BY DEF Reported
  <2>2. ContributionStatus(outcome) \notin {"failed", "partial"}
    BY <2>1 DEF WorkersReady, HarnessPassed
  <2>3. ContributionStatus(outcome) \in {"ok", "partial"}
    BY <2>1 DEF WorkersReady, RequiredDropped, DroppedContributions
  <2>4. outcome # "hard_block"
    BY <1>1, <2>1 DEF WorkersReady, WorkerHardBlocks, WorkersReport
  <2>5. outcome \in {"ok", "tool_hard_block"}
    BY <2>2, <2>3, <2>4 DEF ContributionStatus, SwarmOutcomes
  <2> QED
    BY <2>1, <2>5
<1> QED
  BY <1>1, <1>2

LEMMA FactsFresh ==
    ASSUME NEW snapshot, NEW elapsed \in ElapsedTypes, Gathered(snapshot),
           FactsGatePassed(snapshot), StalePoints(snapshot, elapsed) = {},
           NEW name \in EXECUTION_FACT_TYPES
    PROVE  /\ name \in DOMAIN snapshot.points
           /\ snapshot.points[name].source = "exchange_native"
           /\ snapshot.points[name].age # Undated
           /\ snapshot.points[name].age <= (IF name = "order_book" THEN 1 ELSE 4)
           /\ snapshot.points[name].age + elapsed.sinceFetch <= 4
<1>1. CanSatisfyExecutionFact(snapshot, name)
  BY DEF FactsGatePassed, MissingExecutionFacts
<1>2. FreshFrom(snapshot, name, {"exchange_native"})
  BY <1>1 DEF CanSatisfyExecutionFact
<1>3. /\ name \in DOMAIN snapshot.points
      /\ snapshot.points[name].source = "exchange_native"
      /\ FreshnessStatus(snapshot, name) = "fresh"
  BY <1>2 DEF FreshFrom
<1>4. PICK age \in Int : snapshot.points[name].age = age
  BY <1>3 DEF Gathered
<1>5. FreshnessTtl(name) = IF name = "order_book" THEN 1 ELSE 4
  <2>1. CASE name = "order_book"
    BY <2>1 DEF FreshnessTtl, EVENT_FACT
  <2>2. CASE name \in {"mark", "index"}
    BY <2>2 DEF FreshnessTtl, EVENT_FACT
  <2> QED
    BY <2>1, <2>2 DEF EXECUTION_FACT_TYPES
<1>6. age # Undated /\ ~(age > FreshnessTtl(name))
  BY <1>3, <1>4 DEF FreshnessStatus
<1>7. name \notin snapshot.added
  BY DEF Gathered
<1>8. PICK since \in Int : elapsed.sinceFetch = since
  BY DEF ElapsedTypes
<1>9. StaleThreshold(name) = 4
  BY DEF StaleThreshold, EXECUTION_FACT_TYPES
<1>10. name \notin StalePoints(snapshot, elapsed)
  OBVIOUS
<1>11. ~(age + since > 4)
  BY <1>3, <1>4, <1>7, <1>8, <1>9, <1>10 DEF StalePoints
<1> QED
  BY <1>3, <1>4, <1>5, <1>6, <1>8, <1>11

(* What the gates together let through has the grounds of an opening. *)
LEMMA GatesGround ==
    ASSUME NEW run, Gathered(run.snapshot), Reported(run.swarm), ParsedPlan(run.plan),
           run.elapsed \in ElapsedTypes, run.plan.main_action \in LEGACY_OPENING_ACTIONS,
           MergeRiskVerdicts(RequestSymbol, run.plan, run.snapshot, run.swarm, run.elapsed)
    PROVE  Grounded(run)
<1> DEFINE snapshot == run.snapshot
           plan == run.plan
<1>1. /\ GateCandidateViolations(plan, snapshot) = {}
      /\ ~PlanSemanticViolated(plan)
      /\ WorkersReady(run.swarm)
  BY DEF MergeRiskVerdicts, ProductionControlAllows
<1>2. plan.main_action \notin BlockedActions(snapshot)
  <2>1. "action_not_allowed" \notin GateCandidateViolations(plan, snapshot)
    BY <1>1
  <2> QED
    BY <2>1 DEF GateCandidateViolations
<1>3. FactsGatePassed(snapshot) /\ plan.main_action \notin FLIP_ACTIONS
  BY <1>2 DEF BlockedActions
<1>4. plan.expires_in > run.elapsed.sincePlan /\ StalePoints(snapshot, run.elapsed) = {}
  BY DEF MergeRiskVerdicts, CheckPlan
<1>5. plan.instrument = RequestSymbol
  <2>1. Cardinality({RequestSymbol, snapshot.symbol, plan.instrument}) = 1
    BY DEF MergeRiskVerdicts, SymbolsConsistent
  <2>2. IsFiniteSet({RequestSymbol, snapshot.symbol, plan.instrument})
    <3>1. IsFiniteSet({})
      BY FS_EmptySet
    <3>2. IsFiniteSet({plan.instrument})
      BY FS_Singleton
    <3>3. IsFiniteSet({plan.instrument} \cup {snapshot.symbol})
      BY <3>2, FS_AddElement
    <3>4. IsFiniteSet(({plan.instrument} \cup {snapshot.symbol}) \cup {RequestSymbol})
      BY <3>3, FS_AddElement
    <3>5. ({plan.instrument} \cup {snapshot.symbol}) \cup {RequestSymbol}
            = {RequestSymbol, snapshot.symbol, plan.instrument}
      OBVIOUS
    <3> QED
      BY <3>4, <3>5
  <2>3. \E x : {RequestSymbol, snapshot.symbol, plan.instrument} = {x}
    BY <2>1, <2>2, FS_Singleton
  <2> QED
    BY <2>3
<1>6. \A name \in EXECUTION_FACT_TYPES :
        /\ name \in DOMAIN snapshot.points
        /\ snapshot.points[name].source = "exchange_native"
        /\ snapshot.points[name].age # Undated
        /\ snapshot.points[name].age <= (IF name = "order_book" THEN 1 ELSE 4)
        /\ snapshot.points[name].age + run.elapsed.sinceFetch <= 4
  BY <1>3, <1>4, FactsFresh
<1>7. /\ EVENT_FACT \in DOMAIN snapshot.points
      /\ snapshot.event.complete /\ snapshot.event.validFor > 0
  BY <1>3 DEF FactsGatePassed, CanSatisfyEventFact, FreshFrom
<1>8. /\ DOMAIN run.swarm # {}
      /\ \A agent \in DOMAIN run.swarm : run.swarm[agent] \in {"ok", "tool_hard_block"}
  BY <1>1, SwarmAgrees
<1>9. plan.probability <= 58
  BY <1>1, <1>3, CapHolds
<1>10. /\ 0 \notin {plan.stop_price, plan.entry_trigger, plan.target_1}
       /\ IF plan.main_action \in LONG_OPENING_ACTIONS
          THEN plan.stop_price < plan.entry_trigger /\ plan.entry_trigger < plan.target_1
          ELSE plan.stop_price > plan.entry_trigger /\ plan.entry_trigger > plan.target_1
  BY <1>1, PricesInOrder
<1> QED
  BY <1>3, <1>4, <1>5, <1>6, <1>7, <1>8, <1>9, <1>10 DEF Grounded

RunFields == {"stage", "owner", "snapshot", "swarm", "plan", "elapsed", "allowed", "error",
              "attempts"}
AfterAllowed == {"journal", "finish", "push", "done", "raised"}

(* What is known of the data of a run at each stage. *)
RunSound(run) ==
    /\ DOMAIN run = RunFields
    /\ run.allowed \in BOOLEAN
    /\ run.elapsed \in ElapsedTypes
    /\ run.stage \in {"research", "swarm", "decide", "control"} =>
        DOMAIN run.snapshot = {"symbol", "event", "added", "unavailable", "points"}
    /\ run.stage = "research" => run.snapshot.added = {}
    /\ run.stage \in {"research", "swarm", "decide", "control"} => Gathered(run.snapshot)
    /\ run.stage \in {"decide", "control"} => Reported(run.swarm)
    /\ run.stage = "control" => ParsedPlan(run.plan)
    /\ run.allowed => run.stage \in AfterAllowed
    /\ run.allowed /\ run.plan.main_action \in LEGACY_OPENING_ACTIONS => Grounded(run)

RunsSound == DOMAIN legacyRuns = LegacyRunIds /\ \A r \in LegacyRunIds : RunSound(legacyRuns[r])

(* A plan row, a trace and an alert call allowed only a run that is, and   *)
(* the trace does before the phone.                                        *)
TraceTold(r) ==
    /\ DOMAIN traceRows[r] = {"status", "planId"}
    /\ traceRows[r].status = "allowed" =>
        legacyRuns[r].allowed /\ legacyRuns[r].stage \in {"push", "done", "raised"}
    /\ legacyRuns[r].stage = "push" /\ legacyRuns[r].allowed => traceRows[r].status = "allowed"

PlanTold(r) == \A id \in DOMAIN planRows :
                  planRows[id].trace = r /\ planRows[id].allowed => legacyRuns[r].allowed

AlertTold(r) == \A row \in alerts :
                  row.trace = r /\ row.allowed =>
                      legacyRuns[r].allowed /\ traceRows[r].status = "allowed"

ToldAsDecided ==
    DOMAIN traceRows = LegacyRunIds /\ \A r \in LegacyRunIds : TraceTold(r) /\ PlanTold(r) /\ AlertTold(r)

LegacyInv == RunsSound /\ ToldAsDecided

LEMMA LegacyInitInv == LegacyInit => LegacyInv
<1> SUFFICES ASSUME LegacyInit PROVE LegacyInv
  OBVIOUS
<1>1. RunSound(FreshRun)
  BY DEF RunSound, FreshRun, RunFields, ElapsedTypes, JustNow
<1>2. RunsSound
  BY <1>1 DEF LegacyInit, RunsSound
<1>3. ASSUME NEW r \in LegacyRunIds PROVE TraceTold(r) /\ PlanTold(r) /\ AlertTold(r)
  <2>1. legacyRuns[r].stage = "unused" /\ traceRows[r] = [status |-> "none", planId |-> "none"]
        /\ alerts = {}
    BY DEF LegacyInit, FreshRun
  <2>2. \A id \in DOMAIN planRows : planRows[id].allowed = FALSE
    BY DEF LegacyInit, NoRow
  <2> QED
    BY <2>1, <2>2 DEF TraceTold, PlanTold, AlertTold
<1>4. DOMAIN traceRows = LegacyRunIds
  BY DEF LegacyInit
<1> QED
  BY <1>2, <1>3, <1>4 DEF LegacyInv, ToldAsDecided

-----------------------------------------------------------------------------
(* Operators that make a snapshot. *)

LEMMA ProvidedGathered ==
    ASSUME NEW snapshot \in MarketSnapshots
    PROVE  /\ DOMAIN snapshot = {"symbol", "event", "added", "unavailable", "points"}
           /\ snapshot.added = {}
           /\ Gathered(snapshot)
  BY LegacyAssumption DEF ProvidedSnapshot, Gathered

LEMMA EnrichedGathered ==
    ASSUME NEW snapshot \in MarketSnapshots, NEW event,
           NEW enriched, enriched = EnrichWithEventStatus(snapshot, event)
    PROVE  /\ DOMAIN enriched = {"symbol", "event", "added", "unavailable", "points"}
           /\ enriched.added = {}
           /\ Gathered(enriched)
<1>1. CASE event = NoEvent \/ EVENT_FACT \in DOMAIN snapshot.points
  BY <1>1, ProvidedGathered DEF EnrichWithEventStatus
<1>2. CASE ~(event = NoEvent \/ EVENT_FACT \in DOMAIN snapshot.points)
  <2> DEFINE points == [name \in DOMAIN snapshot.points \cup {EVENT_FACT} |->
                           IF name = EVENT_FACT THEN [source |-> event.source, age |-> 0]
                           ELSE snapshot.points[name]]
  <2>1. enriched = [snapshot EXCEPT !.points = points, !.event = event]
    BY <1>2 DEF EnrichWithEventStatus
  <2>2. \A name \in DOMAIN points : points[name].age \in Int
    BY ProvidedGathered DEF Gathered
  <2>3. "liquidation" \notin DOMAIN points
    BY ProvidedGathered DEF Gathered, EVENT_FACT
  <2> HIDE DEF points
  <2>4. enriched.points = points /\ enriched.added = {}
        /\ DOMAIN enriched = {"symbol", "event", "added", "unavailable", "points"}
    BY <2>1, ProvidedGathered
  <2> QED
    BY <2>2, <2>3, <2>4 DEF Gathered
<1> QED
  BY <1>1, <1>2

LEMMA SearchedGathered ==
    ASSUME NEW snapshot, Gathered(snapshot), NEW found \in {{}, {"web_mark"}},
           DOMAIN snapshot = {"symbol", "event", "added", "unavailable", "points"},
           NEW searched, searched = SynthesizeSearchEvidence(snapshot, found)
    PROVE  /\ DOMAIN searched = {"symbol", "event", "added", "unavailable", "points"}
           /\ Gathered(searched)
<1> DEFINE points == [name \in DOMAIN snapshot.points \cup found |->
                         IF name \in found THEN [source |-> "search_derived", age |-> 0]
                         ELSE snapshot.points[name]]
           unavailable == snapshot.unavailable \cup
                             (IF EXECUTION_FACT_TYPES \subseteq DOMAIN snapshot.points
                              THEN {} ELSE {"confidence_cap"})
<1>1. searched = [snapshot EXCEPT !.points = points, !.added = found,
                                  !.unavailable = unavailable]
  BY DEF SynthesizeSearchEvidence
<1>2. \A name \in DOMAIN points : points[name].age \in Int
  BY DEF Gathered
<1>3. "liquidation" \notin DOMAIN points
  BY DEF Gathered
<1> HIDE DEF points, unavailable
<1>4. searched.points = points /\ searched.added = found
      /\ DOMAIN searched = {"symbol", "event", "added", "unavailable", "points"}
  BY <1>1
<1>5. found \cap EXECUTION_FACT_TYPES = {}
  BY DEF EXECUTION_FACT_TYPES
<1> QED
  BY <1>2, <1>3, <1>4, <1>5 DEF Gathered

-----------------------------------------------------------------------------
(* One run moves: its data, and what has been told of it. *)

LEMMA RunMoves ==
    ASSUME LegacyInv, NEW r \in LegacyRunIds, NEW n, RunSound(n),
           legacyRuns' = [legacyRuns EXCEPT ![r] = n]
    PROVE  RunsSound'
<1>1. ASSUME NEW q \in LegacyRunIds PROVE RunSound(legacyRuns'[q])
  BY <1>1 DEF LegacyInv, RunsSound
<1> QED
  BY <1>1 DEF LegacyInv, RunsSound

(* Nothing is told, and the run keeps whether it is allowed.  *)
LEMMA NothingTold ==
    ASSUME LegacyInv, NEW r \in LegacyRunIds, NEW n,
           legacyRuns' = [legacyRuns EXCEPT ![r] = n],
           traceRows' = traceRows, planRows' = planRows, alerts' = alerts,
           legacyRuns[r].allowed => n.allowed,
           legacyRuns[r].stage \in {"push", "done", "raised"} => n.stage \in {"push", "done", "raised"},
           n.stage # "push"
    PROVE  ToldAsDecided'
<1>1. ASSUME NEW q \in LegacyRunIds PROVE TraceTold(q)' /\ PlanTold(q)' /\ AlertTold(q)'
  <2>1. TraceTold(q) /\ PlanTold(q) /\ AlertTold(q)
    BY DEF LegacyInv, ToldAsDecided
  <2>2. \/ q = r /\ legacyRuns'[q] = n
        \/ legacyRuns'[q] = legacyRuns[q]
    BY DEF LegacyInv, RunsSound
  <2>3. TraceTold(q)'
    BY <2>1, <2>2 DEF TraceTold
  <2>4. PlanTold(q)'
    BY <2>1, <2>2 DEF PlanTold
  <2>5. AlertTold(q)'
    BY <2>1, <2>2 DEF AlertTold
  <2> QED
    BY <2>3, <2>4, <2>5
<1> QED
  BY <1>1 DEF LegacyInv, ToldAsDecided

LEMMA StartTraceInv ==
    ASSUME LegacyInv, NEW r \in LegacyRunIds, NEW owner, NEW mode,
           StartTrace(r, owner, mode), UNCHANGED <<planRows, alerts>>
    PROVE  LegacyInv'
<1> DEFINE run == legacyRuns[r]
<1>1. PICK stage \in {"fetch", "audit"} :
        legacyRuns' = [legacyRuns EXCEPT ![r].owner = owner, ![r].stage = stage]
  BY DEF StartTrace
<1>2. run.stage = "unused" /\ RunSound(run)
  BY DEF StartTrace, At, LegacyInv, RunsSound
<1>3. PICK n : n = [run EXCEPT !.owner = owner, !.stage = stage]
  OBVIOUS
<1>4. legacyRuns' = [legacyRuns EXCEPT ![r] = n]
  BY <1>1, <1>3 DEF LegacyInv, RunsSound
<1>5. /\ n.stage = stage /\ n.allowed = run.allowed /\ n.elapsed = run.elapsed
      /\ DOMAIN n = RunFields
  BY <1>2, <1>3 DEF RunSound, RunFields
<1>6. run.allowed = FALSE
  BY <1>2 DEF RunSound, AfterAllowed
<1>7. RunSound(n)
  BY <1>2, <1>5, <1>6 DEF RunSound
<1>8. RunsSound'
  BY <1>4, <1>7, RunMoves
<1>9. ASSUME NEW q \in LegacyRunIds PROVE TraceTold(q)' /\ PlanTold(q)' /\ AlertTold(q)'
  <2>1. TraceTold(q) /\ PlanTold(q) /\ AlertTold(q)
    BY DEF LegacyInv, ToldAsDecided
  <2>2. IF q = r THEN legacyRuns'[q] = n ELSE legacyRuns'[q] = legacyRuns[q]
    BY <1>4 DEF LegacyInv, RunsSound
  <2>3. traceRows'[q] = IF q = r THEN [traceRows[r] EXCEPT !.status = "running"]
                        ELSE traceRows[q]
    BY DEF StartTrace, LegacyInv, ToldAsDecided
  <2>4. DOMAIN traceRows'[q] = {"status", "planId"}
        /\ (q = r => traceRows'[q].status = "running")
    BY <2>1, <2>3 DEF TraceTold
  <2>5. TraceTold(q)'
    BY <1>5, <2>1, <2>2, <2>3, <2>4 DEF TraceTold
  <2>6. PlanTold(q)'
    BY <1>5, <2>1, <2>2 DEF PlanTold
  <2>7. AlertTold(q)'
    BY <1>5, <1>6, <2>1, <2>2, <2>3 DEF AlertTold
  <2> QED
    BY <2>5, <2>6, <2>7
<1>10. DOMAIN traceRows' = LegacyRunIds
  BY DEF StartTrace, LegacyInv, ToldAsDecided
<1> QED
  BY <1>8, <1>9, <1>10 DEF LegacyInv, ToldAsDecided

LEMMA FetchMarketInv ==
    ASSUME LegacyInv, NEW r \in LegacyRunIds, FetchMarket(r) PROVE LegacyInv'
<1> DEFINE run == legacyRuns[r]
<1>1. run.stage = "fetch" /\ RunSound(run)
  BY DEF FetchMarket, At, LegacyInv, RunsSound
<1>2. PICK snapshot \in MarketSnapshots, event \in EventPoints :
        legacyRuns' = [legacyRuns EXCEPT ![r].stage = "research",
            ![r].snapshot = EnrichWithEventStatus(snapshot, event)]
  BY DEF FetchMarket
<1>3. PICK enriched : enriched = EnrichWithEventStatus(snapshot, event)
  OBVIOUS
<1>4. PICK n : n = [run EXCEPT !.stage = "research", !.snapshot = enriched]
  OBVIOUS
<1>5. legacyRuns' = [legacyRuns EXCEPT ![r] = n]
  BY <1>2, <1>3, <1>4 DEF LegacyInv, RunsSound
<1>6. /\ n.stage = "research" /\ n.snapshot = enriched /\ n.allowed = run.allowed
      /\ n.elapsed = run.elapsed /\ DOMAIN n = RunFields
  BY <1>1, <1>4 DEF RunSound, RunFields
<1>7. RunSound(n)
  <2>1. /\ DOMAIN enriched = {"symbol", "event", "added", "unavailable", "points"}
        /\ enriched.added = {} /\ Gathered(enriched)
    BY <1>3, EnrichedGathered
  <2> QED
    BY <1>1, <1>6, <2>1 DEF RunSound, AfterAllowed
<1> QED
  BY <1>1, <1>5, <1>6, <1>7, RunMoves, NothingTold DEF FetchMarket, LegacyInv

LEMMA ResearchInv ==
    ASSUME LegacyInv, NEW r \in LegacyRunIds, Research(r) PROVE LegacyInv'
<1> DEFINE run == legacyRuns[r]
<1>1. run.stage = "research" /\ RunSound(run)
  BY DEF Research, At, LegacyInv, RunsSound
<1>2. CASE legacyRuns' = [legacyRuns EXCEPT ![r].stage = "swarm"]
  <2>1. PICK n : n = [run EXCEPT !.stage = "swarm"]
    OBVIOUS
  <2>2. legacyRuns' = [legacyRuns EXCEPT ![r] = n]
    BY <1>2, <2>1 DEF LegacyInv, RunsSound
  <2>3. /\ n.stage = "swarm" /\ n.snapshot = run.snapshot /\ n.allowed = run.allowed
        /\ n.elapsed = run.elapsed /\ DOMAIN n = RunFields
    BY <1>1, <2>1 DEF RunSound, RunFields
  <2>4. RunSound(n)
    BY <1>1, <2>3 DEF RunSound, AfterAllowed
  <2> QED
    BY <1>1, <2>2, <2>3, <2>4, RunMoves, NothingTold DEF Research, LegacyInv
<1>3. ASSUME NEW found \in {{}, {"web_mark"}}, NEW d \in 0..MaxDelay,
             legacyRuns' = [legacyRuns EXCEPT ![r].stage = "swarm",
                    ![r].snapshot = SynthesizeSearchEvidence(@, found),
                    ![r].elapsed.sinceFetch = d]
      PROVE  LegacyInv'
  <2>1. PICK searched : searched = SynthesizeSearchEvidence(run.snapshot, found)
    OBVIOUS
  <2>2. PICK elapsed : elapsed = [run.elapsed EXCEPT !.sinceFetch = d]
    OBVIOUS
  <2>3. elapsed \in ElapsedTypes
    BY <1>1, <2>2 DEF RunSound, ElapsedTypes
  <2>4. PICK n : n = [run EXCEPT !.stage = "swarm", !.snapshot = searched, !.elapsed = elapsed]
    OBVIOUS
  <2>5. legacyRuns' = [legacyRuns EXCEPT ![r] = n]
    BY <1>1, <1>3, <2>1, <2>2, <2>4 DEF LegacyInv, RunsSound, RunSound, RunFields
  <2>6. /\ n.stage = "swarm" /\ n.snapshot = searched /\ n.allowed = run.allowed
        /\ n.elapsed = elapsed /\ DOMAIN n = RunFields
    BY <1>1, <2>4 DEF RunSound, RunFields
  <2>7. DOMAIN searched = {"symbol", "event", "added", "unavailable", "points"}
        /\ Gathered(searched)
    BY <1>1, <2>1, SearchedGathered DEF RunSound
  <2>8. RunSound(n)
    BY <1>1, <2>3, <2>6, <2>7 DEF RunSound, AfterAllowed
  <2> QED
    BY <1>1, <2>5, <2>6, <2>8, RunMoves, NothingTold DEF Research, LegacyInv
<1> QED
  BY <1>2, <1>3 DEF Research

LEMMA LaterTypes ==
    ASSUME NEW elapsed \in ElapsedTypes, NEW d \in 0..MaxDelay
    PROVE  Later(elapsed, d) \in ElapsedTypes
  BY DEF Later, ElapsedTypes

LEMMA RunShadowSwarmInv ==
    ASSUME LegacyInv, NEW r \in LegacyRunIds, RunShadowSwarm(r) PROVE LegacyInv'
<1> DEFINE run == legacyRuns[r]
<1>1. run.stage = "swarm" /\ RunSound(run)
  BY DEF RunShadowSwarm, At, LegacyInv, RunsSound
<1>2. PICK swarm \in SwarmReports :
        legacyRuns' = [legacyRuns EXCEPT ![r].stage = "decide", ![r].swarm = swarm]
  BY DEF RunShadowSwarm
<1>3. PICK n : n = [run EXCEPT !.stage = "decide", !.swarm = swarm]
  OBVIOUS
<1>4. legacyRuns' = [legacyRuns EXCEPT ![r] = n]
  BY <1>2, <1>3 DEF LegacyInv, RunsSound
<1>5. /\ n.stage = "decide" /\ n.swarm = swarm /\ n.allowed = run.allowed
      /\ n.snapshot = run.snapshot /\ n.elapsed = run.elapsed /\ DOMAIN n = RunFields
  BY <1>1, <1>3 DEF RunSound, RunFields
<1>6. Reported(swarm)
  BY LegacyAssumption DEF Reported
<1>7. RunSound(n)
  BY <1>1, <1>5, <1>6 DEF RunSound, AfterAllowed
<1> QED
  BY <1>1, <1>4, <1>5, <1>7, RunMoves, NothingTold DEF RunShadowSwarm, LegacyInv

LEMMA DecideFinalInv ==
    ASSUME LegacyInv, NEW r \in LegacyRunIds, DecideFinal(r) PROVE LegacyInv'
<1> DEFINE run == legacyRuns[r]
<1>1. run.stage = "decide" /\ RunSound(run)
  BY DEF DecideFinal, At, LegacyInv, RunsSound
<1>2. PICK plan \in DecisionPayloads, d \in 0..MaxDelay :
        legacyRuns' = [legacyRuns EXCEPT ![r].stage = "control", ![r].plan = plan,
            ![r].elapsed = [Later(@, d) EXCEPT !.sincePlan = 0]]
  BY DEF DecideFinal
<1>3. PICK elapsed : elapsed = [Later(run.elapsed, d) EXCEPT !.sincePlan = 0]
  OBVIOUS
<1>4. elapsed \in ElapsedTypes
  <2>1. PICK later \in ElapsedTypes : later = Later(run.elapsed, d)
    BY <1>1, LaterTypes DEF RunSound
  <2> QED
    BY <1>3, <2>1 DEF ElapsedTypes
<1>5. PICK n : n = [run EXCEPT !.stage = "control", !.plan = plan, !.elapsed = elapsed]
  OBVIOUS
<1>6. legacyRuns' = [legacyRuns EXCEPT ![r] = n]
  BY <1>1, <1>2, <1>3, <1>5 DEF LegacyInv, RunsSound, RunSound, RunFields
<1>7. /\ n.stage = "control" /\ n.plan = plan /\ n.swarm = run.swarm /\ n.allowed = run.allowed
      /\ n.snapshot = run.snapshot /\ n.elapsed = elapsed /\ DOMAIN n = RunFields
  BY <1>1, <1>5 DEF RunSound, RunFields
<1>8. RunSound(n)
  BY <1>1, <1>4, <1>7, LegacyAssumption DEF RunSound, AfterAllowed
<1> QED
  BY <1>1, <1>6, <1>7, <1>8, RunMoves, NothingTold DEF DecideFinal, LegacyInv

(* A run that is blocked is not allowed, and lost what it gathered. *)
LEMMA BlockedSound ==
    ASSUME NEW run, NEW id, NEW n,
           n = BlockedRun(run, id, FALSE) \/ n = BlockedRun(run, id, TRUE)
    PROVE  RunSound(n) /\ n.allowed = FALSE /\ n.stage = "journal"
<1>1. /\ DOMAIN n = RunFields /\ n.allowed = FALSE /\ n.stage = "journal"
      /\ n.elapsed = JustNow
  BY DEF BlockedRun, FreshRun, RunFields
<1>2. JustNow \in ElapsedTypes
  BY DEF JustNow, ElapsedTypes
<1> QED
  BY <1>1, <1>2 DEF RunSound

LEMMA ControlDecisionInv ==
    ASSUME LegacyInv, NEW r \in LegacyRunIds, ControlDecision(r) PROVE LegacyInv'
<1> DEFINE run == legacyRuns[r]
<1>1. run.stage = "control" /\ RunSound(run)
  BY DEF ControlDecision, At, LegacyInv, RunsSound
<1>2. PICK d \in 0..MaxDelay :
        LET elapsed == Later(run.elapsed, d)
            allowed == MergeRiskVerdicts(RequestSymbol, run.plan, run.snapshot,
                                         run.swarm, elapsed)
        IN  legacyRuns' = [legacyRuns EXCEPT ![r] =
                IF allowed
                THEN [run EXCEPT !.stage = "journal", !.elapsed = elapsed, !.allowed = TRUE]
                ELSE BlockedRun(run, run.plan.id, FALSE)]
  BY DEF ControlDecision
<1>3. PICK elapsed \in ElapsedTypes : elapsed = Later(run.elapsed, d)
  BY <1>1, LaterTypes DEF RunSound
<1>4. CASE MergeRiskVerdicts(RequestSymbol, run.plan, run.snapshot, run.swarm, elapsed)
  <2>1. PICK n : n = [run EXCEPT !.stage = "journal", !.elapsed = elapsed, !.allowed = TRUE]
    OBVIOUS
  <2>2. legacyRuns' = [legacyRuns EXCEPT ![r] = n]
    BY <1>2, <1>3, <1>4, <2>1
  <2>3. /\ n.stage = "journal" /\ n.plan = run.plan /\ n.swarm = run.swarm /\ n.allowed = TRUE
        /\ n.snapshot = run.snapshot /\ n.elapsed = elapsed /\ DOMAIN n = RunFields
    BY <1>1, <2>1 DEF RunSound, RunFields
  <2>4. n.plan.main_action \in LEGACY_OPENING_ACTIONS => Grounded(n)
    <3>1. Gathered(n.snapshot) /\ Reported(n.swarm) /\ ParsedPlan(n.plan)
      BY <1>1, <2>3 DEF RunSound
    <3>2. MergeRiskVerdicts(RequestSymbol, n.plan, n.snapshot, n.swarm, n.elapsed)
      BY <1>4, <2>3
    <3> QED
      BY <2>3, <3>1, <3>2, GatesGround
  <2>5. RunSound(n)
    BY <2>3, <2>4 DEF RunSound, AfterAllowed
  <2> QED
    BY <1>1, <2>2, <2>3, <2>5, RunMoves, NothingTold DEF ControlDecision, LegacyInv
<1>5. CASE ~MergeRiskVerdicts(RequestSymbol, run.plan, run.snapshot, run.swarm, elapsed)
  <2>1. PICK n : n = BlockedRun(run, run.plan.id, FALSE)
    OBVIOUS
  <2>2. legacyRuns' = [legacyRuns EXCEPT ![r] = n]
    BY <1>2, <1>3, <1>5, <2>1, Zenon
  <2>3. RunSound(n) /\ n.allowed = FALSE /\ n.stage = "journal"
    BY <2>1, BlockedSound
  <2>4. run.allowed = FALSE
    BY <1>1 DEF RunSound, AfterAllowed
  <2> QED
    BY <1>1, <2>2, <2>3, <2>4, RunMoves, NothingTold DEF ControlDecision, LegacyInv
<1> QED
  BY <1>4, <1>5

LEMMA BlockedFailurePlanInv ==
    ASSUME LegacyInv, NEW r \in LegacyRunIds, BlockedFailurePlan(r) PROVE LegacyInv'
<1> DEFINE run == legacyRuns[r]
<1>1. run.stage \in {"fetch", "research", "decide", "control"} /\ RunSound(run)
  BY DEF BlockedFailurePlan, LegacyInv, RunsSound
<1>2. PICK n : n = BlockedRun(run, "built", TRUE)
  OBVIOUS
<1>3. legacyRuns' = [legacyRuns EXCEPT ![r] = n]
  BY <1>2, Zenon DEF BlockedFailurePlan
<1>4. RunSound(n) /\ n.allowed = FALSE /\ n.stage = "journal"
  BY <1>2, BlockedSound
<1>5. run.allowed = FALSE
  BY <1>1 DEF RunSound, AfterAllowed
<1> QED
  BY <1>1, <1>3, <1>4, <1>5, RunMoves, NothingTold DEF BlockedFailurePlan, LegacyInv

LEMMA AuditOnlyRunInv ==
    ASSUME LegacyInv, NEW r \in LegacyRunIds, AuditOnlyRun(r) PROVE LegacyInv'
<1> DEFINE run == legacyRuns[r]
<1>1. run.stage = "audit" /\ RunSound(run)
  BY DEF AuditOnlyRun, At, LegacyInv, RunsSound
<1>2. PICK swarm \in SwarmReports :
        legacyRuns' = [legacyRuns EXCEPT ![r].stage = "journal", ![r].swarm = swarm,
            ![r].attempts = MaxPushAttempts]
  BY DEF AuditOnlyRun
<1>3. PICK n : n = [run EXCEPT !.stage = "journal", !.swarm = swarm,
                               !.attempts = MaxPushAttempts]
  OBVIOUS
<1>4. legacyRuns' = [legacyRuns EXCEPT ![r] = n]
  BY <1>2, <1>3 DEF LegacyInv, RunsSound
<1>5. /\ n.stage = "journal" /\ n.allowed = run.allowed /\ n.elapsed = run.elapsed
      /\ DOMAIN n = RunFields
  BY <1>1, <1>3 DEF RunSound, RunFields
<1>6. RunSound(n)
  BY <1>1, <1>5 DEF RunSound, AfterAllowed
<1> QED
  BY <1>1, <1>4, <1>5, <1>6, RunMoves, NothingTold DEF AuditOnlyRun, LegacyInv

LEMMA JournalRaisesInv ==
    ASSUME LegacyInv, NEW r \in LegacyRunIds, JournalRaises(r) PROVE LegacyInv'
<1> DEFINE run == legacyRuns[r]
<1>1. run.stage \in {"audit", "journal", "finish", "push"} /\ RunSound(run)
  BY DEF JournalRaises, LegacyInv, RunsSound
<1>2. PICK n : n = [run EXCEPT !.stage = "raised"]
  OBVIOUS
<1>3. legacyRuns' = [legacyRuns EXCEPT ![r] = n]
  BY <1>2 DEF JournalRaises, LegacyInv, RunsSound
<1>4. /\ n.stage = "raised" /\ n.allowed = run.allowed /\ n.elapsed = run.elapsed
      /\ n.plan = run.plan /\ n.snapshot = run.snapshot /\ n.swarm = run.swarm
      /\ DOMAIN n = RunFields
  BY <1>1, <1>2 DEF RunSound, RunFields
<1>5. Grounded(run) => Grounded(n)
  BY <1>4 DEF Grounded
<1>6. RunSound(n)
  BY <1>1, <1>4, <1>5 DEF RunSound, AfterAllowed
<1> QED
  BY <1>1, <1>3, <1>4, <1>6, RunMoves, NothingTold DEF JournalRaises, LegacyInv

-----------------------------------------------------------------------------
(* The steps that tell. *)

LEMMA AppendPlanRunInv ==
    ASSUME LegacyInv, NEW r \in LegacyRunIds, AppendPlanRun(r) PROVE LegacyInv'
<1> DEFINE run == legacyRuns[r]
<1>1. run.stage = "journal" /\ RunSound(run)
  BY DEF AppendPlanRun, At, LegacyInv, RunsSound
<1>2. PICK n : n = [run EXCEPT !.stage = "finish"]
  OBVIOUS
<1>3. legacyRuns' = [legacyRuns EXCEPT ![r] = n]
  BY <1>2 DEF AppendPlanRun, LegacyInv, RunsSound
<1>4. /\ n.stage = "finish" /\ n.allowed = run.allowed /\ n.elapsed = run.elapsed
      /\ n.plan = run.plan /\ n.snapshot = run.snapshot /\ n.swarm = run.swarm
      /\ DOMAIN n = RunFields
  BY <1>1, <1>2 DEF RunSound, RunFields
<1>5. RunSound(n)
  <2>1. Grounded(run) => Grounded(n)
    BY <1>4 DEF Grounded
  <2> QED
    BY <1>1, <1>4, <2>1 DEF RunSound, AfterAllowed
<1>6. RunsSound'
  BY <1>3, <1>5, RunMoves
<1>7. ASSUME NEW q \in LegacyRunIds PROVE TraceTold(q)' /\ PlanTold(q)' /\ AlertTold(q)'
  <2>1. TraceTold(q) /\ PlanTold(q) /\ AlertTold(q)
    BY DEF LegacyInv, ToldAsDecided
  <2>2. IF q = r THEN legacyRuns'[q] = n ELSE legacyRuns'[q] = legacyRuns[q]
    BY <1>3 DEF LegacyInv, RunsSound
  <2>3. traceRows' = traceRows /\ alerts' = alerts
    BY DEF AppendPlanRun
  <2>4. TraceTold(q)'
    BY <1>1, <1>4, <2>1, <2>2, <2>3 DEF TraceTold
  <2>5. AlertTold(q)'
    BY <1>4, <2>1, <2>2, <2>3 DEF AlertTold
  <2>6. PlanTold(q)'
    <3> SUFFICES ASSUME NEW id \in DOMAIN planRows',
                        planRows'[id].trace = q, planRows'[id].allowed
                 PROVE  legacyRuns'[q].allowed
      BY DEF PlanTold
    <3>1. \/ planRows'[id] = planRows[id]
          \/ planRows'[id] = [trace |-> r, allowed |-> run.allowed]
      BY DEF AppendPlanRun
    <3>2. id \in DOMAIN planRows
      BY DEF AppendPlanRun
    <3>3. CASE planRows'[id] = planRows[id]
      BY <1>4, <2>1, <2>2, <3>2, <3>3 DEF PlanTold
    <3>4. CASE planRows'[id] = [trace |-> r, allowed |-> run.allowed]
      BY <1>4, <2>2, <3>4
    <3> QED
      BY <3>1, <3>3, <3>4
  <2> QED
    BY <2>4, <2>5, <2>6
<1>8. DOMAIN traceRows' = LegacyRunIds
  BY DEF AppendPlanRun, LegacyInv, ToldAsDecided
<1> QED
  BY <1>6, <1>7, <1>8 DEF LegacyInv, ToldAsDecided

LEMMA FinishTraceInv ==
    ASSUME LegacyInv, NEW r \in LegacyRunIds, FinishTrace(r) PROVE LegacyInv'
<1> DEFINE run == legacyRuns[r]
<1>1. run.stage = "finish" /\ RunSound(run)
  BY DEF FinishTrace, At, LegacyInv, RunsSound
<1>2. PICK stage \in {"push", "done"} :
        legacyRuns' = [legacyRuns EXCEPT ![r].stage = stage]
  BY DEF FinishTrace
<1>3. PICK n : n = [run EXCEPT !.stage = stage]
  OBVIOUS
<1>4. legacyRuns' = [legacyRuns EXCEPT ![r] = n]
  BY <1>2, <1>3 DEF LegacyInv, RunsSound
<1>5. /\ n.stage = stage /\ n.allowed = run.allowed /\ n.elapsed = run.elapsed
      /\ n.plan = run.plan /\ n.snapshot = run.snapshot /\ n.swarm = run.swarm
      /\ DOMAIN n = RunFields
  BY <1>1, <1>3 DEF RunSound, RunFields
<1>6. RunSound(n)
  <2>1. Grounded(run) => Grounded(n)
    BY <1>5 DEF Grounded
  <2> QED
    BY <1>1, <1>5, <2>1 DEF RunSound, AfterAllowed
<1>7. RunsSound'
  BY <1>4, <1>6, RunMoves
<1>8. PICK status : status = IF run.allowed THEN "allowed" ELSE "blocked"
  OBVIOUS
<1>9. PICK row : row = [status |-> status, planId |-> PlanId(r)]
  OBVIOUS
<1>10. traceRows' = [traceRows EXCEPT ![r] = row]
  BY <1>8, <1>9 DEF FinishTrace
<1>11. ASSUME NEW q \in LegacyRunIds PROVE TraceTold(q)' /\ PlanTold(q)' /\ AlertTold(q)'
  <2>1. TraceTold(q) /\ PlanTold(q) /\ AlertTold(q)
    BY DEF LegacyInv, ToldAsDecided
  <2>2. IF q = r THEN legacyRuns'[q] = n /\ traceRows'[q] = row
        ELSE legacyRuns'[q] = legacyRuns[q] /\ traceRows'[q] = traceRows[q]
    BY <1>4, <1>10 DEF LegacyInv, RunsSound, ToldAsDecided
  <2>3. planRows' = planRows /\ alerts' = alerts
    BY DEF FinishTrace
  <2>4. DOMAIN row = {"status", "planId"} /\ row.status = status
    BY <1>9
  <2>5. run.allowed \in BOOLEAN /\ (run.allowed <=> status = "allowed")
    BY <1>1, <1>8 DEF RunSound
  <2>6. TraceTold(q)'
    BY <1>5, <2>1, <2>2, <2>4, <2>5 DEF TraceTold
  <2>7. PlanTold(q)'
    BY <1>5, <2>1, <2>2, <2>3 DEF PlanTold
  <2>8. AlertTold(q)'
    BY <1>5, <2>1, <2>2, <2>3, <2>4, <2>5 DEF AlertTold
  <2> QED
    BY <2>6, <2>7, <2>8
<1>12. DOMAIN traceRows' = LegacyRunIds
  BY <1>10 DEF LegacyInv, ToldAsDecided
<1> QED
  BY <1>7, <1>11, <1>12 DEF LegacyInv, ToldAsDecided

LEMMA SendPushInv ==
    ASSUME LegacyInv, NEW r \in LegacyRunIds, SendPush(r) PROVE LegacyInv'
<1> DEFINE run == legacyRuns[r]
<1>1. run.stage = "push" /\ RunSound(run)
  BY DEF SendPush, At, LegacyInv, RunsSound
<1>2. PICK stage \in {"push", "done"} :
        legacyRuns' = [legacyRuns EXCEPT ![r].attempts = @ + 1, ![r].stage = stage]
  BY DEF SendPush
<1>3. PICK attempts : attempts = run.attempts + 1
  OBVIOUS
<1>4. PICK n : n = [run EXCEPT !.attempts = attempts, !.stage = stage]
  OBVIOUS
<1>5. legacyRuns' = [legacyRuns EXCEPT ![r] = n]
  BY <1>1, <1>2, <1>3, <1>4 DEF LegacyInv, RunsSound, RunSound, RunFields
<1>6. /\ n.stage = stage /\ n.allowed = run.allowed /\ n.elapsed = run.elapsed
      /\ n.plan = run.plan /\ n.snapshot = run.snapshot /\ n.swarm = run.swarm
      /\ DOMAIN n = RunFields
  BY <1>1, <1>4 DEF RunSound, RunFields
<1>7. RunSound(n)
  <2>1. Grounded(run) => Grounded(n)
    BY <1>6 DEF Grounded
  <2> QED
    BY <1>1, <1>6, <2>1 DEF RunSound, AfterAllowed
<1>8. RunsSound'
  BY <1>5, <1>7, RunMoves
<1>9. ASSUME NEW row \in alerts' PROVE row \in alerts \/ row = [trace |-> r, allowed |-> run.allowed]
  BY <1>9 DEF SendPush
<1>10. ASSUME NEW q \in LegacyRunIds PROVE TraceTold(q)' /\ PlanTold(q)' /\ AlertTold(q)'
  <2>1. TraceTold(q) /\ PlanTold(q) /\ AlertTold(q)
    BY DEF LegacyInv, ToldAsDecided
  <2>2. IF q = r THEN legacyRuns'[q] = n ELSE legacyRuns'[q] = legacyRuns[q]
    BY <1>5 DEF LegacyInv, RunsSound
  <2>3. planRows' = planRows /\ traceRows' = traceRows
    BY DEF SendPush
  <2>4. TraceTold(q)'
    BY <1>1, <1>6, <2>1, <2>2, <2>3 DEF TraceTold
  <2>5. PlanTold(q)'
    BY <1>6, <2>1, <2>2, <2>3 DEF PlanTold
  <2>6. AlertTold(q)'
    <3> SUFFICES ASSUME NEW row \in alerts', row.trace = q, row.allowed
                 PROVE  legacyRuns'[q].allowed /\ traceRows'[q].status = "allowed"
      BY DEF AlertTold
    <3>1. CASE row \in alerts
      BY <1>6, <2>1, <2>2, <2>3, <3>1 DEF AlertTold
    <3>2. CASE row = [trace |-> r, allowed |-> run.allowed]
      BY <1>1, <1>6, <2>1, <2>2, <2>3, <3>2 DEF TraceTold
    <3> QED
      BY <1>9, <3>1, <3>2
  <2> QED
    BY <2>4, <2>5, <2>6
<1>11. DOMAIN traceRows' = LegacyRunIds
  BY DEF SendPush, LegacyInv, ToldAsDecided
<1> QED
  BY <1>8, <1>10, <1>11 DEF LegacyInv, ToldAsDecided

-----------------------------------------------------------------------------
LEMMA LegacyUnmoved ==
    LegacyInv /\ UNCHANGED <<legacyRuns, planRows, traceRows, alerts>> => LegacyInv'
<1> SUFFICES ASSUME LegacyInv, UNCHANGED <<legacyRuns, planRows, traceRows, alerts>>
             PROVE  LegacyInv'
  OBVIOUS
<1>1. RunsSound'
  BY DEF LegacyInv, RunsSound
<1>2. ToldAsDecided'
  BY DEF LegacyInv, ToldAsDecided, TraceTold, PlanTold, AlertTold
<1> QED
  BY <1>1, <1>2 DEF LegacyInv

LEMMA LegacyNextInv == LegacyInv /\ [LegacyNext]_legacyVars => LegacyInv'
<1> SUFFICES ASSUME LegacyInv, [LegacyNext]_legacyVars PROVE LegacyInv'
  OBVIOUS
<1>1. ASSUME NEW r \in LegacyRunIds, LegacyStep(r) PROVE LegacyInv'
  <2>1. CASE ManualRun(r)
    BY <2>1, StartTraceInv DEF ManualRun
  <2>2. CASE FetchMarket(r)
    BY <2>2, FetchMarketInv
  <2>3. CASE Research(r)
    BY <2>3, ResearchInv
  <2>4. CASE RunShadowSwarm(r)
    BY <2>4, RunShadowSwarmInv
  <2>5. CASE DecideFinal(r)
    BY <2>5, DecideFinalInv
  <2>6. CASE ControlDecision(r)
    BY <2>6, ControlDecisionInv
  <2>7. CASE BlockedFailurePlan(r)
    BY <2>7, BlockedFailurePlanInv
  <2>8. CASE AuditOnlyRun(r)
    BY <2>8, AuditOnlyRunInv
  <2>9. CASE AppendPlanRun(r)
    BY <2>9, AppendPlanRunInv
  <2>10. CASE FinishTrace(r)
    BY <2>10, FinishTraceInv
  <2>11. CASE SendPush(r)
    BY <2>11, SendPushInv
  <2>12. CASE JournalRaises(r)
    BY <2>12, JournalRaisesInv
  <2> QED
    BY <1>1, <2>1, <2>2, <2>3, <2>4, <2>5, <2>6, <2>7, <2>8, <2>9, <2>10, <2>11, <2>12
    DEF LegacyStep
<1>2. ASSUME NEW s \in LegacySchedulers, TakeJobLock(s) PROVE LegacyInv'
  BY <1>2, StartTraceInv DEF TakeJobLock
<1>3. ASSUME NEW s \in LegacySchedulers, ReadJobLock(s) \/ ReleaseJobLock(s) PROVE LegacyInv'
  BY <1>3, LegacyUnmoved DEF ReadJobLock, ReleaseJobLock
<1>4. CASE JobLockExpires
  BY <1>4, LegacyUnmoved DEF JobLockExpires
<1>5. CASE UNCHANGED legacyVars
  BY <1>5, LegacyUnmoved DEF legacyVars
<1> QED
  BY <1>1, <1>2, <1>3, <1>4, <1>5 DEF LegacyNext

(* Whatever the journal or the phone calls allowed and tells the operator  *)
(* to open rests on full grounds, and the phone never says "allowed" of a  *)
(* run whose trace does not (the gates of the legacy workflow and          *)
(* persist_run_result), for all runs, schedulers and data.                 *)
THEOREM AllowedOpeningGroundedHolds == LegacySpec => []AllowedOpeningGrounded
<1>1. LegacyInv => AllowedOpeningGrounded
  <2> SUFFICES ASSUME LegacyInv, NEW r \in LegacyRunIds
               PROVE  /\ /\ legacyRuns[r].plan.main_action \in LEGACY_OPENING_ACTIONS
                         /\ \/ traceRows[r].status = "allowed"
                            \/ \E row \in {planRows[id] : id \in DOMAIN planRows} \cup alerts :
                                   row.trace = r /\ row.allowed
                         => Grounded(legacyRuns[r])
                      /\ [trace |-> r, allowed |-> TRUE] \in alerts =>
                             traceRows[r].status = "allowed"
    BY DEF AllowedOpeningGrounded
  <2>1. TraceTold(r) /\ PlanTold(r) /\ AlertTold(r) /\ RunSound(legacyRuns[r])
    BY DEF LegacyInv, ToldAsDecided, RunsSound
  <2>2. ASSUME traceRows[r].status = "allowed" PROVE legacyRuns[r].allowed
    BY <2>1, <2>2 DEF TraceTold
  <2>3. ASSUME NEW row \in {planRows[id] : id \in DOMAIN planRows} \cup alerts,
               row.trace = r, row.allowed
        PROVE  legacyRuns[r].allowed
    BY <2>1, <2>3 DEF PlanTold, AlertTold
  <2>4. legacyRuns[r].allowed /\ legacyRuns[r].plan.main_action \in LEGACY_OPENING_ACTIONS
            => Grounded(legacyRuns[r])
    BY <2>1 DEF RunSound
  <2>5. ASSUME [trace |-> r, allowed |-> TRUE] \in alerts PROVE traceRows[r].status = "allowed"
    BY <2>1, <2>5 DEF AlertTold
  <2> QED
    BY <2>2, <2>3, <2>4, <2>5
<1> QED
  BY <1>1, LegacyInitInv, LegacyNextInv, PTL DEF LegacySpec

-----------------------------------------------------------------------------
(***************************************************************************)
(* What the analysis Graph commits was cleared, and its progress events    *)
(* never fall back, for all requests, market data, model answers and any   *)
(* number of reviews.                                                      *)
(*                                                                         *)
(* The state of a thread is a record that grows.  FieldsKnown says which   *)
(* fields a node finds, DataAgree how the verdict, the risk and the        *)
(* artifact depend on the data they were computed from, and SequenceBelow  *)
(* how far the progress events have come before each node.                 *)
(***************************************************************************)
BeforeStart == {"idle", "validate_request", "monitor_ingress"}
CollectNodes == {"collect_market_snapshot", "research_events", "analyze_market"}
PolicyNodes == {"validate_evidence", "apply_risk_policy", "build_artifact"}
ReviewNodes == {"review_policy", "interrupt_review", "apply_edits"}
CommitNodes == {"commit_artifact", "complete"}
Nodes == BeforeStart \cup CollectNodes \cup PolicyNodes \cup ReviewNodes \cup CommitNodes
         \cup {"run_deep_research", "complete_blocked", "complete_failed", "end", "error"}

Opened == {"terminal", "iteration", "review", "evidence", "artifact"} \subseteq DOMAIN graph
IsReport == graph.task = "deep_research"

FieldsKnown ==
    /\ graph.node \in Nodes /\ "node" \in DOMAIN graph
    /\ graph.node # "idle" => {"task", "policy"} \subseteq DOMAIN graph
    /\ graph.node \in BeforeStart => "artifact" \notin DOMAIN graph
    /\ "artifact" \in DOMAIN graph => Opened /\ graph.iteration \in Nat
    /\ graph.node \notin BeforeStart \cup {"end", "error"} => Opened /\ graph.iteration \in Nat

DataKnown ==
    /\ graph.node \in CollectNodes \cup PolicyNodes => ~IsReport
    /\ graph.node = "run_deep_research" => IsReport
    /\ graph.node \in {"research_events", "analyze_market"} => "market" \in DOMAIN graph
    /\ graph.node = "analyze_market" => "bundle" \in DOMAIN graph
    /\ graph.node \in PolicyNodes => {"market", "bundle", "analysis"} \subseteq DOMAIN graph
    /\ graph.node \in {"apply_risk_policy", "build_artifact"} => "verdict" \in DOMAIN graph
    /\ graph.node = "build_artifact" => "risk" \in DOMAIN graph
    /\ graph.node \in ReviewNodes \cup CommitNodes /\ ~IsReport =>
            {"market", "bundle", "analysis"} \subseteq DOMAIN graph

CheckedRisk(market, bundle, analysis) ==
    ApplyRiskPolicy(analysis, CheckEvidenceSufficiency(market, bundle, analysis.action))

TerminalOf(risk) == IF risk.allowed THEN "running" ELSE "blocked"

ReportSound(c) ==
    "report" \in DOMAIN c /\ c.report.cites # {} /\ CoherentCatalog(c.report, c.sources)

DataAgree ==
    /\ graph.node \in {"apply_risk_policy", "build_artifact"} =>
        graph.verdict = CheckEvidenceSufficiency(graph.market, graph.bundle, graph.analysis.action)
    /\ graph.node = "build_artifact" =>
        graph.risk = ApplyRiskPolicy(graph.analysis, graph.verdict)
            /\ graph.terminal = TerminalOf(graph.risk)
    /\ graph.node \in ReviewNodes \cup CommitNodes =>
        LET c == graph.artifact.content
        IN  IF IsReport THEN ReportSound(c)
            ELSE c.risk = CheckedRisk(graph.market, graph.bundle, c.analysis)
    /\ graph.node \in ReviewNodes /\ ~IsReport =>
        graph.terminal = TerminalOf(graph.artifact.content.risk)
    /\ graph.node \in CommitNodes =>
        /\ ~IsReport => graph.artifact.content.risk.allowed
        /\ graph.policy = "required" => approved = graph.artifact.content

(* An artifact is committed by the node commit_artifact only. *)
CommittedLate ==
    /\ graph.node \in CommitNodes \cup ReviewNodes \cup {"complete_blocked"} =>
            DOMAIN graph.artifact = {"status", "content"}
    /\ "artifact" \in DOMAIN graph /\ graph.artifact.status = "committed" =>
            graph.node \in {"complete", "end"}

GraphInv == FieldsKnown /\ DataKnown /\ DataAgree /\ CommittedLate /\ CommittedIsCleared

-----------------------------------------------------------------------------
(* A node writes its fields and leaves the others. *)
LEMMA GotoFields ==
    ASSUME NEW node, NEW fields, "node" \in DOMAIN graph, "node" \notin DOMAIN fields,
           Goto(node, fields)
    PROVE  /\ graph'.node = node
           /\ DOMAIN graph' = DOMAIN fields \cup DOMAIN graph
           /\ \A x \in DOMAIN fields : graph'[x] = fields[x]
           /\ \A x \in DOMAIN graph \ (DOMAIN fields \cup {"node"}) : graph'[x] = graph[x]
  BY DEF Goto

(* Only the next node changes. *)
LEMMA MoveFields ==
    ASSUME NEW node, "node" \in DOMAIN graph, graph' = [graph EXCEPT !.node = node]
    PROVE  /\ graph'.node = node /\ DOMAIN graph' = DOMAIN graph
           /\ \A x \in DOMAIN graph \ {"node"} : graph'[x] = graph[x]
  OBVIOUS

(* What a risk that is allowed says of the analysis and its data. *)
LEMMA AllowedMeans ==
    ASSUME NEW market, NEW bundle, NEW analysis, NEW risk,
           risk = CheckedRisk(market, bundle, analysis), risk.allowed
    PROVE  /\ analysis.manual
           /\ analysis.action \in OPENING_ACTIONS =>
                ~IsWebSearch(market) /\ analysis.levels /\ REQUIRED_MACRO_FIELDS \subseteq bundle
<1> DEFINE v == CheckEvidenceSufficiency(market, bundle, analysis.action)
<1>1. BlockedReasons(analysis, v) = {}
  BY DEF CheckedRisk, ApplyRiskPolicy
<1>2. v.sufficient <=> MissingRequired(market, bundle, analysis.action) = {}
  BY DEF CheckEvidenceSufficiency
<1> HIDE DEF v
<1>3. v.sufficient /\ analysis.manual
  BY <1>1 DEF BlockedReasons
<1>4. analysis.action \in OPENING_ACTIONS => analysis.levels
  BY <1>1 DEF BlockedReasons
<1>5. MissingRequired(market, bundle, analysis.action) = {}
  BY <1>2, <1>3
<1>6. ASSUME analysis.action \in OPENING_ACTIONS
      PROVE  ~IsWebSearch(market) /\ REQUIRED_MACRO_FIELDS \subseteq bundle
  <2>1. analysis.action # "no_trade"
    BY <1>6 DEF OPENING_ACTIONS
  <2> QED
    BY <1>5, <1>6, <2>1 DEF MissingRequired
<1> QED
  BY <1>3, <1>4, <1>6

LEMMA GraphInitInv == GraphInit => GraphInv
<1> SUFFICES ASSUME GraphInit PROVE GraphInv
  OBVIOUS
<1>1. graph = [node |-> "idle"]
  BY DEF GraphInit
<1>2. graph.node = "idle" /\ DOMAIN graph = {"node"}
  BY <1>1
<1>3. FieldsKnown
  BY <1>2 DEF FieldsKnown, Nodes, BeforeStart
<1>4. DataKnown /\ DataAgree
  BY <1>2 DEF DataKnown, DataAgree, CollectNodes, PolicyNodes, ReviewNodes, CommitNodes
<1>5. CommittedLate /\ CommittedIsCleared
  BY <1>2 DEF CommittedLate, CommittedIsCleared, CommitNodes, ReviewNodes
<1> QED
  BY <1>3, <1>4, <1>5 DEF GraphInv

-----------------------------------------------------------------------------
(* The nodes, one after the other. *)

LEMMA NotCommittedYet ==
    ASSUME CommittedLate', graph'.node \notin {"complete", "end"}
    PROVE  CommittedIsCleared'
  BY DEF CommittedLate, CommittedIsCleared

LEMMA RaiseInv ==
    ASSUME GraphInv, graph' = [graph EXCEPT !.node = "error"], UNCHANGED approved,
           graph.node \in Nodes \ {"idle", "complete", "end"}
    PROVE  GraphInv'
<1>1. "node" \in DOMAIN graph /\ {"task", "policy"} \subseteq DOMAIN graph
  BY DEF GraphInv, FieldsKnown
<1>2. /\ graph'.node = "error" /\ DOMAIN graph' = DOMAIN graph
      /\ \A x \in DOMAIN graph \ {"node"} : graph'[x] = graph[x]
  BY <1>1, MoveFields
<1>3. FieldsKnown'
  BY <1>1, <1>2 DEF GraphInv, FieldsKnown, Opened, Nodes, BeforeStart
<1>4. DataKnown'
  BY <1>2 DEF DataKnown, CollectNodes, PolicyNodes, ReviewNodes, CommitNodes
<1>5. DataAgree'
  BY <1>2 DEF DataAgree, ReviewNodes, CommitNodes
<1>6. CommittedLate'
  BY <1>2 DEF GraphInv, CommittedLate, ReviewNodes, CommitNodes
<1> QED
  BY <1>2, <1>3, <1>4, <1>5, <1>6, NotCommittedYet DEF GraphInv

LEMMA FailInv ==
    ASSUME GraphInv, NEW seqs, Fail(seqs), graph.node \in CollectNodes \cup {"run_deep_research"}
    PROVE  GraphInv'
<1>1. "node" \in DOMAIN graph /\ {"task", "policy"} \subseteq DOMAIN graph
      /\ Opened /\ graph.iteration \in Nat
  BY DEF GraphInv, FieldsKnown, BeforeStart, CollectNodes
<1>2. PICK f : f = [terminal |-> "failed"]
  OBVIOUS
<1>3. Goto("complete_failed", f)
  BY <1>2 DEF Fail
<1>4. DOMAIN f = {"terminal"}
  BY <1>2
<1>5. /\ graph'.node = "complete_failed" /\ DOMAIN graph' = DOMAIN f \cup DOMAIN graph
      /\ \A x \in DOMAIN graph \ (DOMAIN f \cup {"node"}) : graph'[x] = graph[x]
  BY <1>1, <1>3, <1>4, GotoFields
<1>6. FieldsKnown'
  BY <1>1, <1>4, <1>5 DEF FieldsKnown, Opened, Nodes, BeforeStart
<1>7. DataKnown'
  BY <1>5 DEF DataKnown, CollectNodes, PolicyNodes, ReviewNodes, CommitNodes
<1>8. DataAgree'
  BY <1>5 DEF DataAgree, ReviewNodes, CommitNodes
<1>9. CommittedLate'
  BY <1>1, <1>4, <1>5 DEF GraphInv, CommittedLate, ReviewNodes, CommitNodes, CollectNodes, Opened
<1> QED
  BY <1>5, <1>6, <1>7, <1>8, <1>9, NotCommittedYet DEF GraphInv

LEMMA AdmitInv ==
    ASSUME GraphInv, NEW r, NEW policy, AdmitDecision(r, policy) \/ AdmitCron
    PROVE  GraphInv'
<1>1. PICK task, p : graph' = [node |-> "validate_request", task |-> task, policy |-> p]
  BY DEF AdmitDecision, AdmitCron
<1>2. graph'.node = "validate_request" /\ DOMAIN graph' = {"node", "task", "policy"}
  BY <1>1
<1>3. FieldsKnown'
  BY <1>2 DEF FieldsKnown, Nodes, BeforeStart
<1>4. DataKnown'
  BY <1>2 DEF DataKnown, CollectNodes, PolicyNodes, ReviewNodes, CommitNodes
<1>5. DataAgree'
  BY <1>2 DEF DataAgree, ReviewNodes, CommitNodes
<1>6. CommittedLate'
  BY <1>2 DEF CommittedLate, ReviewNodes, CommitNodes
<1> QED
  BY <1>2, <1>3, <1>4, <1>5, <1>6, NotCommittedYet DEF GraphInv

LEMMA ValidateRequestInv == ASSUME GraphInv, ValidateRequest PROVE GraphInv'
<1>1. /\ graph.node = "validate_request" /\ "node" \in DOMAIN graph
      /\ {"task", "policy"} \subseteq DOMAIN graph /\ "artifact" \notin DOMAIN graph
  BY DEF ValidateRequest, GraphInv, FieldsKnown, BeforeStart
<1>2. CASE graph.task = "monitor_ingress"
  <2>1. PICK f : f = [terminal |-> "running"]
    OBVIOUS
  <2>2. Goto("monitor_ingress", f)
    BY <1>2, <2>1 DEF ValidateRequest
  <2>3. DOMAIN f = {"terminal"}
    BY <2>1
  <2>4. /\ graph'.node = "monitor_ingress" /\ DOMAIN graph' = DOMAIN f \cup DOMAIN graph
        /\ \A x \in DOMAIN graph \ (DOMAIN f \cup {"node"}) : graph'[x] = graph[x]
    BY <1>1, <2>2, <2>3, GotoFields
  <2>5. FieldsKnown'
    BY <1>1, <2>3, <2>4 DEF FieldsKnown, Nodes, BeforeStart
  <2>6. DataKnown'
    BY <2>4 DEF DataKnown, CollectNodes, PolicyNodes, ReviewNodes, CommitNodes
  <2>7. DataAgree'
    BY <2>4 DEF DataAgree, ReviewNodes, CommitNodes
  <2>8. CommittedLate'
    BY <1>1, <2>3, <2>4 DEF CommittedLate, ReviewNodes, CommitNodes
  <2> QED
    BY <2>4, <2>5, <2>6, <2>7, <2>8, NotCommittedYet DEF GraphInv
<1>3. CASE graph.task # "monitor_ingress"
  <2>1. PICK f : f = [terminal |-> "running", iteration |-> 0, review |-> NoReview,
                      evidence |-> {}, artifact |-> NoArtifact]
    OBVIOUS
  <2>2. PICK node \in {"run_deep_research", "collect_market_snapshot"} :
           /\ node = AfterRequestValidation(graph.task)
           /\ node = "run_deep_research" <=> graph.task = "deep_research"
    BY <1>3 DEF AfterRequestValidation
  <2>3. Goto(node, f)
    BY <1>3, <2>1, <2>2 DEF ValidateRequest
  <2>4. /\ DOMAIN f = {"terminal", "iteration", "review", "evidence", "artifact"}
        /\ f.iteration = 0 /\ f.artifact.status = "none"
    BY <2>1 DEF NoArtifact
  <2>5. /\ graph'.node = node /\ DOMAIN graph' = DOMAIN f \cup DOMAIN graph
        /\ graph'.iteration = 0 /\ graph'.artifact.status = "none"
        /\ graph'.task = graph.task
    <3>1. "node" \in DOMAIN graph /\ "node" \notin DOMAIN f
      BY <1>1, <2>4
    <3>2. /\ graph'.node = node /\ DOMAIN graph' = DOMAIN f \cup DOMAIN graph
          /\ \A x \in DOMAIN f : graph'[x] = f[x]
          /\ \A x \in DOMAIN graph \ (DOMAIN f \cup {"node"}) : graph'[x] = graph[x]
      BY <2>3, <3>1, GotoFields
    <3>3. "task" \in DOMAIN graph \ (DOMAIN f \cup {"node"})
      BY <1>1, <2>4
    <3> QED
      BY <2>4, <3>2, <3>3
  <2>6. FieldsKnown'
    BY <1>1, <2>4, <2>5 DEF FieldsKnown, Nodes, CollectNodes, BeforeStart, Opened
  <2>7. DataKnown'
    BY <2>2, <2>5 DEF DataKnown, CollectNodes, PolicyNodes, ReviewNodes, CommitNodes, IsReport
  <2>8. DataAgree'
    BY <2>5 DEF DataAgree, ReviewNodes, CommitNodes
  <2>9. CommittedLate'
    BY <2>5 DEF CommittedLate, ReviewNodes, CommitNodes
  <2> QED
    BY <2>5, <2>6, <2>7, <2>8, <2>9, NotCommittedYet DEF GraphInv
<1> QED
  BY <1>2, <1>3

LEMMA MonitorIngressInv == ASSUME GraphInv, MonitorIngress PROVE GraphInv'
<1>1. /\ graph.node = "monitor_ingress" /\ "node" \in DOMAIN graph
      /\ {"task", "policy"} \subseteq DOMAIN graph /\ "artifact" \notin DOMAIN graph
  BY DEF MonitorIngress, GraphInv, FieldsKnown, BeforeStart
<1>2. CASE Goto("end", [terminal |-> "succeeded"])
  <2>1. PICK f : f = [terminal |-> "succeeded"]
    OBVIOUS
  <2>2. Goto("end", f) /\ DOMAIN f = {"terminal"}
    BY <1>2, <2>1
  <2>3. /\ graph'.node = "end" /\ DOMAIN graph' = DOMAIN f \cup DOMAIN graph
    BY <1>1, <2>2, GotoFields
  <2>4. FieldsKnown'
    BY <1>1, <2>2, <2>3 DEF FieldsKnown, Nodes, BeforeStart
  <2>5. DataKnown'
    BY <2>3 DEF DataKnown, CollectNodes, PolicyNodes, ReviewNodes, CommitNodes
  <2>6. DataAgree'
    BY <2>3 DEF DataAgree, ReviewNodes, CommitNodes
  <2>7. CommittedLate' /\ CommittedIsCleared'
    BY <1>1, <2>2, <2>3 DEF CommittedLate, CommittedIsCleared, ReviewNodes, CommitNodes
  <2> QED
    BY <2>4, <2>5, <2>6, <2>7 DEF GraphInv
<1>3. CASE Raise
  BY <1>1, <1>3, RaiseInv DEF Raise, Nodes, BeforeStart
<1> QED
  BY <1>2, <1>3 DEF MonitorIngress

LEMMA CollectMarketSnapshotInv == ASSUME GraphInv, CollectMarketSnapshot PROVE GraphInv'
<1>1. /\ graph.node = "collect_market_snapshot" /\ "node" \in DOMAIN graph
      /\ {"task", "policy"} \subseteq DOMAIN graph /\ Opened /\ graph.iteration \in Nat
      /\ ~IsReport /\ graph.artifact.status # "committed"
  BY DEF CollectMarketSnapshot, GraphInv, FieldsKnown, DataKnown, CommittedLate, BeforeStart,
         CollectNodes, Opened
<1>2. CASE Fail(<<20>>)
  BY <1>1, <1>2, FailInv DEF CollectNodes
<1>3. ASSUME NEW s \in Snapshots, NEW evidence,
             Goto("research_events", [market |-> s, evidence |-> evidence])
      PROVE  GraphInv'
  <2>1. PICK f : f = [market |-> s, evidence |-> evidence]
    OBVIOUS
  <2>2. Goto("research_events", f) /\ DOMAIN f = {"market", "evidence"}
    BY <1>3, <2>1
  <2>3. /\ graph'.node = "research_events" /\ DOMAIN graph' = DOMAIN f \cup DOMAIN graph
        /\ \A x \in DOMAIN graph \ (DOMAIN f \cup {"node"}) : graph'[x] = graph[x]
    BY <1>1, <2>2, GotoFields
  <2>4. FieldsKnown'
    BY <1>1, <2>2, <2>3 DEF FieldsKnown, Nodes, CollectNodes, BeforeStart, Opened
  <2>5. DataKnown'
    BY <1>1, <2>2, <2>3 DEF DataKnown, CollectNodes, PolicyNodes, ReviewNodes, CommitNodes, IsReport
  <2>6. DataAgree'
    BY <2>3 DEF DataAgree, ReviewNodes, CommitNodes
  <2>7. CommittedLate'
    BY <1>1, <2>2, <2>3 DEF CommittedLate, ReviewNodes, CommitNodes, Opened
  <2> QED
    BY <2>3, <2>4, <2>5, <2>6, <2>7, NotCommittedYet DEF GraphInv
<1>4. CASE Raise
  BY <1>1, <1>4, RaiseInv DEF Raise, Nodes, CollectNodes
<1> QED
  BY <1>2, <1>3, <1>4 DEF CollectMarketSnapshot

LEMMA ResearchEventsInv == ASSUME GraphInv, ResearchEvents PROVE GraphInv'
<1>1. /\ graph.node = "research_events" /\ "node" \in DOMAIN graph
      /\ {"task", "policy"} \subseteq DOMAIN graph /\ Opened /\ graph.iteration \in Nat
      /\ ~IsReport /\ graph.artifact.status # "committed" /\ "market" \in DOMAIN graph
  BY DEF ResearchEvents, GraphInv, FieldsKnown, DataKnown, CommittedLate, BeforeStart,
         CollectNodes, Opened
<1>2. CASE Fail(<<30>>)
  BY <1>1, <1>2, FailInv DEF CollectNodes
<1>3. ASSUME NEW b \in Bundles, NEW evidence,
             Goto("analyze_market", [bundle |-> b, evidence |-> evidence])
      PROVE  GraphInv'
  <2>1. PICK f : f = [bundle |-> b, evidence |-> evidence]
    OBVIOUS
  <2>2. Goto("analyze_market", f) /\ DOMAIN f = {"bundle", "evidence"}
    BY <1>3, <2>1
  <2>3. /\ graph'.node = "analyze_market" /\ DOMAIN graph' = DOMAIN f \cup DOMAIN graph
        /\ \A x \in DOMAIN graph \ (DOMAIN f \cup {"node"}) : graph'[x] = graph[x]
    BY <1>1, <2>2, GotoFields
  <2>4. FieldsKnown'
    BY <1>1, <2>2, <2>3 DEF FieldsKnown, Nodes, CollectNodes, BeforeStart, Opened
  <2>5. DataKnown'
    BY <1>1, <2>2, <2>3 DEF DataKnown, CollectNodes, PolicyNodes, ReviewNodes, CommitNodes, IsReport
  <2>6. DataAgree'
    BY <2>3 DEF DataAgree, ReviewNodes, CommitNodes
  <2>7. CommittedLate'
    BY <1>1, <2>2, <2>3 DEF CommittedLate, ReviewNodes, CommitNodes, Opened
  <2> QED
    BY <2>3, <2>4, <2>5, <2>6, <2>7, NotCommittedYet DEF GraphInv
<1> QED
  BY <1>2, <1>3 DEF ResearchEvents

LEMMA AnalyzeMarketInv == ASSUME GraphInv, AnalyzeMarket PROVE GraphInv'
<1>1. /\ graph.node = "analyze_market" /\ "node" \in DOMAIN graph
      /\ {"task", "policy"} \subseteq DOMAIN graph /\ Opened /\ graph.iteration \in Nat
      /\ ~IsReport /\ graph.artifact.status # "committed"
      /\ {"market", "bundle"} \subseteq DOMAIN graph
  BY DEF AnalyzeMarket, GraphInv, FieldsKnown, DataKnown, CommittedLate, BeforeStart,
         CollectNodes, Opened
<1>2. CASE Fail(<<40>>)
  BY <1>1, <1>2, FailInv DEF CollectNodes
<1>3. ASSUME NEW a \in ModelAnalyses, NEW unavailable,
             Goto("validate_evidence", [analysis |-> a, unavailable |-> unavailable])
      PROVE  GraphInv'
  <2>1. PICK f : f = [analysis |-> a, unavailable |-> unavailable]
    OBVIOUS
  <2>2. Goto("validate_evidence", f) /\ DOMAIN f = {"analysis", "unavailable"}
    BY <1>3, <2>1
  <2>3. /\ graph'.node = "validate_evidence" /\ DOMAIN graph' = DOMAIN f \cup DOMAIN graph
        /\ \A x \in DOMAIN graph \ (DOMAIN f \cup {"node"}) : graph'[x] = graph[x]
    BY <1>1, <2>2, GotoFields
  <2>4. FieldsKnown'
    BY <1>1, <2>2, <2>3 DEF FieldsKnown, Nodes, PolicyNodes, BeforeStart, Opened
  <2>5. DataKnown'
    BY <1>1, <2>2, <2>3 DEF DataKnown, CollectNodes, PolicyNodes, ReviewNodes, CommitNodes, IsReport
  <2>6. DataAgree'
    BY <2>3 DEF DataAgree, ReviewNodes, CommitNodes
  <2>7. CommittedLate'
    BY <1>1, <2>2, <2>3 DEF CommittedLate, ReviewNodes, CommitNodes, Opened
  <2> QED
    BY <2>3, <2>4, <2>5, <2>6, <2>7, NotCommittedYet DEF GraphInv
<1> QED
  BY <1>2, <1>3 DEF AnalyzeMarket

LEMMA ValidateEvidenceInv == ASSUME GraphInv, ValidateEvidence PROVE GraphInv'
<1>1. /\ graph.node = "validate_evidence" /\ "node" \in DOMAIN graph
      /\ {"task", "policy"} \subseteq DOMAIN graph /\ Opened /\ graph.iteration \in Nat
      /\ ~IsReport /\ graph.artifact.status # "committed"
      /\ {"market", "bundle", "analysis"} \subseteq DOMAIN graph
  BY DEF ValidateEvidence, GraphInv, FieldsKnown, DataKnown, CommittedLate, BeforeStart,
         PolicyNodes, Opened
<1>2. PICK verdict :
        verdict = CheckEvidenceSufficiency(graph.market, graph.bundle, graph.analysis.action)
  OBVIOUS
<1>3. PICK f : f = [verdict |-> verdict]
  OBVIOUS
<1>4. Goto("apply_risk_policy", f) /\ DOMAIN f = {"verdict"}
  BY <1>2, <1>3 DEF ValidateEvidence
<1>5. /\ graph'.node = "apply_risk_policy" /\ DOMAIN graph' = DOMAIN f \cup DOMAIN graph
      /\ graph'.verdict = f.verdict
      /\ \A x \in DOMAIN graph \ (DOMAIN f \cup {"node"}) : graph'[x] = graph[x]
  BY <1>1, <1>4, GotoFields
<1>6. FieldsKnown'
  BY <1>1, <1>4, <1>5 DEF FieldsKnown, Nodes, PolicyNodes, BeforeStart, Opened
<1>7. DataKnown'
  BY <1>1, <1>4, <1>5 DEF DataKnown, CollectNodes, PolicyNodes, ReviewNodes, CommitNodes, IsReport
<1>8. graph'.market = graph.market /\ graph'.bundle = graph.bundle
      /\ graph'.analysis = graph.analysis /\ graph'.verdict = verdict
  BY <1>1, <1>3, <1>4, <1>5
<1>9. DataAgree'
  BY <1>2, <1>5, <1>8 DEF DataAgree, ReviewNodes, CommitNodes
<1>10. CommittedLate'
  BY <1>1, <1>4, <1>5 DEF CommittedLate, ReviewNodes, CommitNodes, Opened
<1> QED
  BY <1>5, <1>6, <1>7, <1>9, <1>10, NotCommittedYet DEF GraphInv

LEMMA ApplyRiskInv == ASSUME GraphInv, ApplyRisk PROVE GraphInv'
<1>1. /\ graph.node = "apply_risk_policy" /\ "node" \in DOMAIN graph
      /\ {"task", "policy"} \subseteq DOMAIN graph /\ Opened /\ graph.iteration \in Nat
      /\ ~IsReport /\ graph.artifact.status # "committed"
      /\ {"market", "bundle", "analysis", "verdict"} \subseteq DOMAIN graph
  BY DEF ApplyRisk, GraphInv, FieldsKnown, DataKnown, CommittedLate, BeforeStart,
         PolicyNodes, Opened
<1>2. PICK risk : risk = ApplyRiskPolicy(graph.analysis, graph.verdict)
  OBVIOUS
<1>3. PICK terminal : terminal = IF risk.allowed THEN "running" ELSE "blocked"
  OBVIOUS
<1>4. PICK f : f = [risk |-> risk, terminal |-> terminal]
  OBVIOUS
<1>5. Goto("build_artifact", f) /\ DOMAIN f = {"risk", "terminal"}
  BY <1>2, <1>3, <1>4 DEF ApplyRisk
<1>6. /\ graph'.node = "build_artifact" /\ DOMAIN graph' = DOMAIN f \cup DOMAIN graph
      /\ graph'.risk = risk /\ graph'.terminal = terminal
      /\ \A x \in DOMAIN graph \ (DOMAIN f \cup {"node"}) : graph'[x] = graph[x]
  <2>1. "node" \in DOMAIN graph /\ "node" \notin DOMAIN f
    BY <1>1, <1>5
  <2>2. /\ graph'.node = "build_artifact" /\ DOMAIN graph' = DOMAIN f \cup DOMAIN graph
        /\ \A x \in DOMAIN f : graph'[x] = f[x]
        /\ \A x \in DOMAIN graph \ (DOMAIN f \cup {"node"}) : graph'[x] = graph[x]
    BY <1>5, <2>1, GotoFields
  <2>3. f["risk"] = risk /\ f["terminal"] = terminal
    BY <1>4
  <2> QED
    BY <1>5, <2>2, <2>3
<1>7. FieldsKnown'
  BY <1>1, <1>5, <1>6 DEF FieldsKnown, Nodes, PolicyNodes, BeforeStart, Opened
<1>8. DataKnown'
  BY <1>1, <1>5, <1>6 DEF DataKnown, CollectNodes, PolicyNodes, ReviewNodes, CommitNodes, IsReport
<1>9. /\ graph'.market = graph.market /\ graph'.bundle = graph.bundle
      /\ graph'.analysis = graph.analysis /\ graph'.verdict = graph.verdict
  BY <1>1, <1>5, <1>6
<1>10. DataAgree'
  <2>1. graph.verdict = CheckEvidenceSufficiency(graph.market, graph.bundle, graph.analysis.action)
    BY <1>1 DEF GraphInv, DataAgree
  <2> QED
    BY <1>2, <1>3, <1>6, <1>9, <2>1 DEF DataAgree, ReviewNodes, CommitNodes, TerminalOf
<1>11. CommittedLate'
  BY <1>1, <1>5, <1>6 DEF CommittedLate, ReviewNodes, CommitNodes, Opened
<1> QED
  BY <1>6, <1>7, <1>8, <1>10, <1>11, NotCommittedYet DEF GraphInv

LEMMA BuildArtifactInv == ASSUME GraphInv, BuildArtifact PROVE GraphInv'
<1>1. /\ graph.node = "build_artifact" /\ "node" \in DOMAIN graph
      /\ {"task", "policy"} \subseteq DOMAIN graph /\ Opened /\ graph.iteration \in Nat
      /\ ~IsReport
      /\ {"market", "bundle", "analysis", "verdict", "risk"} \subseteq DOMAIN graph
  BY DEF BuildArtifact, GraphInv, FieldsKnown, DataKnown, BeforeStart, PolicyNodes
<1>2. PICK sources : sources = {e.url : e \in EffectiveEvidence(graph.evidence)}
  OBVIOUS
<1>3. PICK c : c = [analysis |-> graph.analysis, verdict |-> graph.verdict,
                    risk |-> graph.risk, sources |-> sources]
  OBVIOUS
<1>4. PICK artifact : artifact = [status |-> "draft", content |-> c]
  OBVIOUS
<1>5. PICK f : f = [artifact |-> artifact]
  OBVIOUS
<1>6. Goto("review_policy", f) /\ DOMAIN f = {"artifact"}
  BY <1>2, <1>3, <1>4, <1>5 DEF BuildArtifact
<1>7. /\ graph'.node = "review_policy" /\ DOMAIN graph' = DOMAIN f \cup DOMAIN graph
      /\ graph'.artifact = artifact
      /\ \A x \in DOMAIN graph \ (DOMAIN f \cup {"node"}) : graph'[x] = graph[x]
  BY <1>1, <1>5, <1>6, GotoFields
<1>8. FieldsKnown'
  BY <1>1, <1>6, <1>7 DEF FieldsKnown, Nodes, ReviewNodes, BeforeStart, Opened
<1>9. DataKnown'
  BY <1>1, <1>6, <1>7 DEF DataKnown, CollectNodes, PolicyNodes, ReviewNodes, CommitNodes, IsReport
<1>10. /\ graph'.market = graph.market /\ graph'.bundle = graph.bundle
       /\ graph'.terminal = graph.terminal /\ graph'.task = graph.task
  BY <1>1, <1>6, <1>7 DEF Opened
<1>11. c.risk = CheckedRisk(graph.market, graph.bundle, c.analysis)
       /\ graph.terminal = TerminalOf(c.risk)
  <2>1. /\ graph.verdict =
               CheckEvidenceSufficiency(graph.market, graph.bundle, graph.analysis.action)
        /\ graph.risk = ApplyRiskPolicy(graph.analysis, graph.verdict)
        /\ graph.terminal = TerminalOf(graph.risk)
    BY <1>1 DEF GraphInv, DataAgree
  <2>2. c.risk = graph.risk /\ c.analysis = graph.analysis
    BY <1>3
  <2> QED
    BY <2>1, <2>2 DEF CheckedRisk
<1>12. graph'.artifact.content = c /\ DOMAIN graph'.artifact = {"status", "content"}
       /\ graph'.artifact.status = "draft"
  BY <1>4, <1>7
<1>13. DataAgree'
  BY <1>1, <1>7, <1>10, <1>11, <1>12
  DEF DataAgree, ReviewNodes, CommitNodes, IsReport
<1>14. CommittedLate'
  BY <1>7, <1>12 DEF CommittedLate
<1> QED
  BY <1>7, <1>8, <1>9, <1>13, <1>14, NotCommittedYet DEF GraphInv

LEMMA RunDeepResearchInv == ASSUME GraphInv, RunDeepResearch PROVE GraphInv'
<1>1. /\ graph.node = "run_deep_research" /\ "node" \in DOMAIN graph
      /\ {"task", "policy"} \subseteq DOMAIN graph /\ Opened /\ graph.iteration \in Nat
      /\ IsReport
  BY DEF RunDeepResearch, GraphInv, FieldsKnown, DataKnown, BeforeStart
<1>2. CASE Fail(<<20, 20>>)
  BY <1>1, <1>2, FailInv
<1>3. CASE graph' = [graph EXCEPT !.node = "error"] /\ UNCHANGED approved
  BY <1>1, <1>3, RaiseInv DEF Nodes
<1>4. ASSUME NEW report \in Reports, NEW sources, CoherentCatalog(report, sources),
             Goto("review_policy",
                  [artifact |-> [status |-> "draft",
                                 content |-> [report |-> report, sources |-> sources]]])
      PROVE  GraphInv'
  <2>1. PICK c : c = [report |-> report, sources |-> sources]
    OBVIOUS
  <2>2. PICK artifact : artifact = [status |-> "draft", content |-> c]
    OBVIOUS
  <2>3. PICK f : f = [artifact |-> artifact]
    OBVIOUS
  <2>4. Goto("review_policy", f) /\ DOMAIN f = {"artifact"}
    BY <1>4, <2>1, <2>2, <2>3
  <2>5. /\ graph'.node = "review_policy" /\ DOMAIN graph' = DOMAIN f \cup DOMAIN graph
        /\ graph'.artifact = artifact
        /\ \A x \in DOMAIN graph \ (DOMAIN f \cup {"node"}) : graph'[x] = graph[x]
    BY <1>1, <2>3, <2>4, GotoFields
  <2>6. FieldsKnown'
    BY <1>1, <2>4, <2>5 DEF FieldsKnown, Nodes, ReviewNodes, BeforeStart, Opened
  <2>7. graph'.task = graph.task
    BY <1>1, <2>4, <2>5
  <2>8. DataKnown'
    BY <1>1, <2>5, <2>7 DEF DataKnown, CollectNodes, PolicyNodes, ReviewNodes, CommitNodes, IsReport
  <2>9. report.cites # {}
    BY DEF Reports
  <2>10. ReportSound(c)
    BY <1>4, <2>1, <2>9 DEF ReportSound
  <2>11. graph'.artifact.content = c /\ DOMAIN graph'.artifact = {"status", "content"}
         /\ graph'.artifact.status = "draft"
    BY <2>2, <2>5
  <2>12. DataAgree'
    BY <1>1, <2>5, <2>7, <2>10, <2>11 DEF DataAgree, ReviewNodes, CommitNodes, IsReport
  <2>13. CommittedLate'
    BY <2>5, <2>11 DEF CommittedLate
  <2> QED
    BY <2>5, <2>6, <2>8, <2>12, <2>13, NotCommittedYet DEF GraphInv
<1> QED
  <2>1. ASSUME NEW s1 \in SearchResults, NEW s2 \in SearchResults, NEW report \in Reports,
               LET sources == LedgerSources(IF s2 = <<>> THEN <<s1>> ELSE <<s1, s2>>)
               IN  /\ s1 # <<>> /\ CoherentCatalog(report, sources)
                   /\ Goto("review_policy",
                           [artifact |-> [status |-> "draft",
                                          content |-> [report |-> report, sources |-> sources]]])
        PROVE  GraphInv'
    <3>1. PICK sources : sources = LedgerSources(IF s2 = <<>> THEN <<s1>> ELSE <<s1, s2>>)
      OBVIOUS
    <3> QED
      BY <1>4, <2>1, <3>1
  <2> QED
    BY <1>2, <1>3, <2>1 DEF RunDeepResearch

LEMMA CommitNodesCleared ==
    ASSUME DataAgree', graph'.node \in CommitNodes PROVE CommittedIsCleared'
<1>1. PICK c : c = graph'.artifact.content
  OBVIOUS
<1>2. graph'.policy = "required" => approved' = c
  BY <1>1 DEF DataAgree
<1>3. graph'.task = "deep_research" => c.report.cites # {} /\ CoherentCatalog(c.report, c.sources)
  BY <1>1 DEF DataAgree, ReportSound, IsReport
<1>4. ASSUME graph'.task # "deep_research"
      PROVE  /\ c.risk = CheckedRisk(graph'.market, graph'.bundle, c.analysis)
             /\ c.risk.allowed /\ c.analysis.manual
             /\ c.analysis.action \in OPENING_ACTIONS =>
                   /\ ~IsWebSearch(graph'.market) /\ c.analysis.levels
                   /\ REQUIRED_MACRO_FIELDS \subseteq graph'.bundle
  <2>1. PICK market, bundle, analysis, risk :
          /\ market = graph'.market /\ bundle = graph'.bundle
          /\ analysis = c.analysis /\ risk = c.risk
    OBVIOUS
  <2>2. risk = CheckedRisk(market, bundle, analysis) /\ risk.allowed
    BY <1>1, <1>4, <2>1 DEF DataAgree, IsReport
  <2>3. /\ analysis.manual
        /\ analysis.action \in OPENING_ACTIONS =>
              ~IsWebSearch(market) /\ analysis.levels /\ REQUIRED_MACRO_FIELDS \subseteq bundle
    BY <2>2, AllowedMeans
  <2> QED
    BY <2>1, <2>2, <2>3
<1> QED
  BY <1>1, <1>2, <1>3, <1>4 DEF CommittedIsCleared, CheckedRisk

(* Fields and data that a node of the review finds, and that the nodes after it keep. *)
LEMMA AtReview ==
    ASSUME GraphInv, graph.node \in ReviewNodes \cup CommitNodes
    PROVE  /\ "node" \in DOMAIN graph /\ {"task", "policy"} \subseteq DOMAIN graph
           /\ Opened /\ graph.iteration \in Nat
           /\ ~IsReport => {"market", "bundle", "analysis"} \subseteq DOMAIN graph
           /\ IsReport => ReportSound(graph.artifact.content)
           /\ ~IsReport => graph.artifact.content.risk =
                    CheckedRisk(graph.market, graph.bundle, graph.artifact.content.analysis)
           /\ DOMAIN graph.artifact = {"status", "content"}
<1>1. "node" \in DOMAIN graph /\ {"task", "policy"} \subseteq DOMAIN graph
      /\ Opened /\ graph.iteration \in Nat
  BY DEF GraphInv, FieldsKnown, ReviewNodes, CommitNodes, BeforeStart
<1>2. ~IsReport => {"market", "bundle", "analysis"} \subseteq DOMAIN graph
  BY DEF GraphInv, DataKnown
<1>3. /\ IsReport => ReportSound(graph.artifact.content)
      /\ ~IsReport => graph.artifact.content.risk =
                    CheckedRisk(graph.market, graph.bundle, graph.artifact.content.analysis)
  BY DEF GraphInv, DataAgree
<1>4. DOMAIN graph.artifact = {"status", "content"}
  BY DEF GraphInv, CommittedLate
<1> QED
  BY <1>1, <1>2, <1>3, <1>4

LEMMA ReviewPolicyInv == ASSUME GraphInv, ReviewPolicy PROVE GraphInv'
<1>1. graph.node = "review_policy" /\ graph.artifact.status # "committed"
  <2>1. graph.node = "review_policy"
    BY DEF ReviewPolicy
  <2> QED
    BY <2>1, AtReview DEF GraphInv, CommittedLate, ReviewNodes, Opened
<1>2. /\ "node" \in DOMAIN graph /\ {"task", "policy"} \subseteq DOMAIN graph
      /\ Opened /\ graph.iteration \in Nat
      /\ ~IsReport => {"market", "bundle", "analysis"} \subseteq DOMAIN graph
      /\ IsReport => ReportSound(graph.artifact.content)
      /\ ~IsReport => graph.artifact.content.risk =
               CheckedRisk(graph.market, graph.bundle, graph.artifact.content.analysis)
      /\ DOMAIN graph.artifact = {"status", "content"}
  BY <1>1, AtReview DEF ReviewNodes
<1>3. ~IsReport => graph.terminal = TerminalOf(graph.artifact.content.risk)
  BY <1>1 DEF GraphInv, DataAgree, ReviewNodes
<1>4. PICK node : node = AfterReviewPolicy
  OBVIOUS
<1>5. /\ graph'.node = node /\ DOMAIN graph' = DOMAIN graph
      /\ \A x \in DOMAIN graph \ {"node"} : graph'[x] = graph[x]
      /\ approved' = approved
  BY <1>2, <1>4, MoveFields DEF ReviewPolicy
<1>6. /\ node \in {"interrupt_review", "complete_blocked", "commit_artifact"}
      /\ node = "commit_artifact" => graph.policy # "required" /\ graph.terminal # "blocked"
  BY <1>4 DEF AfterReviewPolicy
<1>7. /\ graph'.artifact = graph.artifact /\ graph'.iteration = graph.iteration
      /\ graph'.task = graph.task /\ graph'.policy = graph.policy
      /\ graph'.terminal = graph.terminal
      /\ ~IsReport => graph'.market = graph.market /\ graph'.bundle = graph.bundle
  BY <1>2, <1>5 DEF Opened
<1>8. FieldsKnown'
  BY <1>2, <1>5, <1>6, <1>7 DEF FieldsKnown, Nodes, ReviewNodes, CommitNodes, BeforeStart, Opened
<1>9. DataKnown'
  BY <1>2, <1>5, <1>6, <1>7
  DEF DataKnown, CollectNodes, PolicyNodes, ReviewNodes, CommitNodes, IsReport
<1>10. node = "commit_artifact" /\ ~IsReport => graph.artifact.content.risk.allowed
  BY <1>3, <1>6 DEF TerminalOf
<1>11. DataAgree'
  BY <1>2, <1>3, <1>5, <1>6, <1>7, <1>10 DEF DataAgree, ReviewNodes, CommitNodes, IsReport
<1>12. CommittedLate'
  BY <1>1, <1>2, <1>7 DEF CommittedLate
<1> QED
  BY <1>5, <1>6, <1>8, <1>9, <1>11, <1>12, NotCommittedYet DEF GraphInv

LEMMA InterruptReviewInv ==
    ASSUME GraphInv, NEW action, InterruptReview(action) PROVE GraphInv'
<1>1. graph.node = "interrupt_review" /\ graph.artifact.status = "draft"
  BY DEF InterruptReview
<1>2. /\ "node" \in DOMAIN graph /\ {"task", "policy"} \subseteq DOMAIN graph
      /\ Opened /\ graph.iteration \in Nat
      /\ ~IsReport => {"market", "bundle", "analysis"} \subseteq DOMAIN graph
      /\ IsReport => ReportSound(graph.artifact.content)
      /\ ~IsReport => graph.artifact.content.risk =
               CheckedRisk(graph.market, graph.bundle, graph.artifact.content.analysis)
      /\ DOMAIN graph.artifact = {"status", "content"}
  BY <1>1, AtReview DEF ReviewNodes
<1>3. ~IsReport => graph.terminal = TerminalOf(graph.artifact.content.risk)
  BY <1>1 DEF GraphInv, DataAgree, ReviewNodes
<1>4. PICK node : node = AfterReview(action)
  OBVIOUS
<1>5. PICK iteration \in Nat : iteration = graph.iteration + 1
  BY <1>2
<1>6. PICK f : f = [review |-> action, iteration |-> iteration]
  OBVIOUS
<1>7. Goto(node, f) /\ DOMAIN f = {"review", "iteration"}
  BY <1>4, <1>5, <1>6 DEF InterruptReview
<1>8. /\ graph'.node = node /\ DOMAIN graph' = DOMAIN f \cup DOMAIN graph
      /\ graph'.iteration = iteration
      /\ \A x \in DOMAIN graph \ (DOMAIN f \cup {"node"}) : graph'[x] = graph[x]
  <2>1. "node" \in DOMAIN graph
    BY <1>2
  <2>2. f.iteration = iteration
    BY <1>6
  <2> QED
    BY <1>7, <2>1, <2>2, GotoFields
<1>9. /\ node \in {"apply_edits", "complete_blocked", "commit_artifact"}
      /\ node = "commit_artifact" => action = "approve" /\ graph.terminal # "blocked"
  BY <1>4 DEF AfterReview
<1>10. /\ graph'.artifact = graph.artifact
       /\ graph'.task = graph.task /\ graph'.policy = graph.policy
       /\ graph'.terminal = graph.terminal
       /\ ~IsReport => graph'.market = graph.market /\ graph'.bundle = graph.bundle
  BY <1>2, <1>7, <1>8 DEF Opened
<1>11. FieldsKnown'
  BY <1>2, <1>7, <1>8, <1>9, <1>10
  DEF FieldsKnown, Nodes, ReviewNodes, CommitNodes, BeforeStart, Opened
<1>12. DataKnown'
  BY <1>2, <1>7, <1>8, <1>9, <1>10
  DEF DataKnown, CollectNodes, PolicyNodes, ReviewNodes, CommitNodes, IsReport
<1>13. node = "commit_artifact" =>
          /\ ~IsReport => graph.artifact.content.risk.allowed
          /\ approved' = graph.artifact.content
  BY <1>3, <1>9 DEF TerminalOf, InterruptReview
<1>14. DataAgree'
  BY <1>2, <1>3, <1>8, <1>9, <1>10, <1>13 DEF DataAgree, ReviewNodes, CommitNodes, IsReport
<1>15. CommittedLate'
  BY <1>1, <1>2, <1>10 DEF CommittedLate
<1> QED
  BY <1>8, <1>9, <1>11, <1>12, <1>14, <1>15, NotCommittedYet DEF GraphInv

LEMMA ApplyEditsInv == ASSUME GraphInv, ApplyEdits PROVE GraphInv'
<1>1. graph.node = "apply_edits"
  BY DEF ApplyEdits
<1>2. /\ "node" \in DOMAIN graph /\ {"task", "policy"} \subseteq DOMAIN graph
      /\ Opened /\ graph.iteration \in Nat
      /\ ~IsReport => {"market", "bundle", "analysis"} \subseteq DOMAIN graph
      /\ IsReport => ReportSound(graph.artifact.content)
      /\ graph.artifact.status # "committed"
  BY <1>1, AtReview DEF ReviewNodes, GraphInv, CommittedLate, Opened
<1>3. CASE Raise
  BY <1>1, <1>3, RaiseInv DEF Raise, Nodes, ReviewNodes
<1>4. ASSUME IsReport, NEW report \in Reports,
             CoherentCatalog(report, graph.artifact.content.sources),
             Goto(AfterEdits(graph.task),
                  [artifact |-> [status |-> "draft",
                                 content |-> [graph.artifact.content EXCEPT !.report = report]]])
      PROVE  GraphInv'
  <2>1. PICK c : c = [graph.artifact.content EXCEPT !.report = report]
    OBVIOUS
  <2>2. PICK artifact : artifact = [status |-> "draft", content |-> c]
    OBVIOUS
  <2>3. PICK f : f = [artifact |-> artifact]
    OBVIOUS
  <2>4. AfterEdits(graph.task) = "review_policy"
    BY <1>4 DEF AfterEdits, IsReport
  <2>5. Goto("review_policy", f) /\ DOMAIN f = {"artifact"}
    BY <1>4, <2>1, <2>2, <2>3, <2>4
  <2>6. /\ graph'.node = "review_policy" /\ DOMAIN graph' = DOMAIN f \cup DOMAIN graph
        /\ graph'.artifact = artifact
        /\ \A x \in DOMAIN graph \ (DOMAIN f \cup {"node"}) : graph'[x] = graph[x]
    <3>1. "node" \in DOMAIN graph
      BY <1>2
    <3>2. f.artifact = artifact
      BY <2>3
    <3> QED
      BY <2>5, <3>1, <3>2, GotoFields
  <2>7. FieldsKnown'
    BY <1>2, <2>5, <2>6 DEF FieldsKnown, Nodes, ReviewNodes, BeforeStart, Opened
  <2>8. graph'.task = graph.task
    BY <1>2, <2>5, <2>6
  <2>9. DataKnown'
    BY <1>4, <2>6, <2>8 DEF DataKnown, CollectNodes, PolicyNodes, ReviewNodes, CommitNodes, IsReport
  <2>10. c.report = report /\ c.sources = graph.artifact.content.sources /\ "report" \in DOMAIN c
    BY <1>2, <1>4, <2>1 DEF ReportSound
  <2>11. ReportSound(c)
    BY <1>4, <2>10 DEF ReportSound, Reports
  <2>12. graph'.artifact.content = c /\ DOMAIN graph'.artifact = {"status", "content"}
         /\ graph'.artifact.status = "draft"
    BY <2>2, <2>6
  <2>13. DataAgree'
    BY <1>4, <2>6, <2>8, <2>11, <2>12 DEF DataAgree, ReviewNodes, CommitNodes, IsReport
  <2>14. CommittedLate'
    BY <2>6, <2>12 DEF CommittedLate
  <2> QED
    BY <2>6, <2>7, <2>9, <2>13, <2>14, NotCommittedYet DEF GraphInv
<1>5. ASSUME ~IsReport, NEW a \in ModelAnalyses, Goto(AfterEdits(graph.task), [analysis |-> a])
      PROVE  GraphInv'
  <2>1. PICK f : f = [analysis |-> a]
    OBVIOUS
  <2>2. AfterEdits(graph.task) = "validate_evidence"
    BY <1>5 DEF AfterEdits, IsReport
  <2>3. Goto("validate_evidence", f) /\ DOMAIN f = {"analysis"}
    BY <1>5, <2>1, <2>2
  <2>4. /\ graph'.node = "validate_evidence" /\ DOMAIN graph' = DOMAIN f \cup DOMAIN graph
        /\ \A x \in DOMAIN graph \ (DOMAIN f \cup {"node"}) : graph'[x] = graph[x]
    BY <1>2, <2>3, GotoFields
  <2>5. FieldsKnown'
    BY <1>2, <2>3, <2>4 DEF FieldsKnown, Nodes, PolicyNodes, BeforeStart, Opened
  <2>6. DataKnown'
    BY <1>2, <1>5, <2>3, <2>4
    DEF DataKnown, CollectNodes, PolicyNodes, ReviewNodes, CommitNodes, IsReport
  <2>7. DataAgree'
    BY <2>4 DEF DataAgree, ReviewNodes, CommitNodes
  <2>8. CommittedLate'
    BY <1>2, <2>3, <2>4 DEF CommittedLate, ReviewNodes, CommitNodes, Opened
  <2> QED
    BY <2>4, <2>5, <2>6, <2>7, <2>8, NotCommittedYet DEF GraphInv
<1> QED
  BY <1>3, <1>4, <1>5 DEF ApplyEdits, IsReport

LEMMA CommitArtifactInv == ASSUME GraphInv, CommitArtifact PROVE GraphInv'
<1>1. graph.node = "commit_artifact"
  BY DEF CommitArtifact
<1>2. /\ "node" \in DOMAIN graph /\ {"task", "policy"} \subseteq DOMAIN graph
      /\ Opened /\ graph.iteration \in Nat
      /\ ~IsReport => {"market", "bundle", "analysis"} \subseteq DOMAIN graph
      /\ IsReport => ReportSound(graph.artifact.content)
      /\ ~IsReport => graph.artifact.content.risk =
               CheckedRisk(graph.market, graph.bundle, graph.artifact.content.analysis)
      /\ DOMAIN graph.artifact = {"status", "content"}
  BY <1>1, AtReview DEF CommitNodes
<1>3. /\ ~IsReport => graph.artifact.content.risk.allowed
      /\ graph.policy = "required" => approved = graph.artifact.content
  BY <1>1 DEF GraphInv, DataAgree, CommitNodes
<1>4. PICK artifact : artifact = [graph.artifact EXCEPT !.status = "committed"]
  OBVIOUS
<1>5. PICK f : f = [artifact |-> artifact]
  OBVIOUS
<1>6. Goto("complete", f) /\ DOMAIN f = {"artifact"} /\ f.artifact = artifact
  BY <1>4, <1>5 DEF CommitArtifact
<1>7. /\ graph'.node = "complete" /\ DOMAIN graph' = DOMAIN f \cup DOMAIN graph
      /\ graph'.artifact = artifact
      /\ \A x \in DOMAIN graph \ (DOMAIN f \cup {"node"}) : graph'[x] = graph[x]
  <2>1. "node" \in DOMAIN graph
    BY <1>2
  <2> QED
    BY <1>6, <2>1, GotoFields
<1>8. artifact.content = graph.artifact.content /\ DOMAIN artifact = {"status", "content"}
  BY <1>2, <1>4
<1>9. /\ graph'.task = graph.task /\ graph'.policy = graph.policy
      /\ ~IsReport => graph'.market = graph.market /\ graph'.bundle = graph.bundle
      /\ approved' = approved
  BY <1>2, <1>6, <1>7 DEF CommitArtifact
<1>10. FieldsKnown'
  BY <1>2, <1>6, <1>7 DEF FieldsKnown, Nodes, CommitNodes, BeforeStart, Opened
<1>11. DataKnown'
  BY <1>2, <1>6, <1>7, <1>9
  DEF DataKnown, CollectNodes, PolicyNodes, ReviewNodes, CommitNodes, IsReport
<1>12. DataAgree'
  BY <1>2, <1>3, <1>7, <1>8, <1>9 DEF DataAgree, ReviewNodes, CommitNodes, IsReport
<1>13. CommittedLate'
  BY <1>7, <1>8 DEF CommittedLate
<1>14. CommittedIsCleared'
  BY <1>7, <1>12, CommitNodesCleared DEF CommitNodes
<1> QED
  BY <1>10, <1>11, <1>12, <1>13, <1>14 DEF GraphInv

LEMMA CompleteInv == ASSUME GraphInv, Complete PROVE GraphInv'
<1>1. graph.node = "complete"
  BY DEF Complete
<1>2. /\ "node" \in DOMAIN graph /\ {"task", "policy"} \subseteq DOMAIN graph
      /\ Opened /\ graph.iteration \in Nat
      /\ ~IsReport => {"market", "bundle", "analysis"} \subseteq DOMAIN graph
  BY <1>1, AtReview DEF CommitNodes
<1>3. PICK f : f = [terminal |-> "succeeded"]
  OBVIOUS
<1>4. Goto("end", f) /\ DOMAIN f = {"terminal"}
  BY <1>3 DEF Complete
<1>5. /\ graph'.node = "end" /\ DOMAIN graph' = DOMAIN f \cup DOMAIN graph
      /\ \A x \in DOMAIN graph \ (DOMAIN f \cup {"node"}) : graph'[x] = graph[x]
  <2>1. "node" \in DOMAIN graph
    BY <1>2
  <2> QED
    BY <1>4, <2>1, GotoFields
<1>6. /\ graph'.task = graph.task /\ graph'.policy = graph.policy
      /\ graph'.artifact = graph.artifact
      /\ ~IsReport => graph'.market = graph.market /\ graph'.bundle = graph.bundle
      /\ approved' = approved
  BY <1>2, <1>4, <1>5 DEF Complete, Opened
<1>7. FieldsKnown'
  BY <1>2, <1>4, <1>5 DEF FieldsKnown, Nodes, BeforeStart, Opened
<1>8. DataKnown'
  BY <1>5 DEF DataKnown, CollectNodes, PolicyNodes, ReviewNodes, CommitNodes
<1>9. DataAgree'
  BY <1>5 DEF DataAgree, ReviewNodes, CommitNodes
<1>10. CommittedLate'
  BY <1>5 DEF CommittedLate, ReviewNodes, CommitNodes
<1>11. CommittedIsCleared'
  <2>1. CommittedIsCleared /\ "artifact" \in DOMAIN graph /\ graph.node # "idle"
    BY <1>1, <1>2 DEF GraphInv, Opened
  <2> QED
    BY <1>6, <2>1 DEF CommittedIsCleared, IsReport
<1> QED
  BY <1>7, <1>8, <1>9, <1>10, <1>11 DEF GraphInv

(* Both keep the artifact from being the committed one. *)
LEMMA EndUncommitted ==
    ASSUME GraphInv, graph.node \in Nodes \ BeforeStart, Opened, graph.iteration \in Nat,
           NEW f, Goto("end", f), "terminal" \in DOMAIN f,
           DOMAIN f \subseteq {"terminal", "artifact"},
           IF "artifact" \in DOMAIN f THEN f.artifact.status = "draft"
           ELSE graph.artifact.status # "committed"
    PROVE  GraphInv'
<1>1. "node" \in DOMAIN graph /\ {"task", "policy"} \subseteq DOMAIN graph
  BY DEF GraphInv, FieldsKnown, BeforeStart
<1>2. /\ graph'.node = "end" /\ DOMAIN graph' = DOMAIN f \cup DOMAIN graph
      /\ \A x \in DOMAIN f : graph'[x] = f[x]
      /\ \A x \in DOMAIN graph \ (DOMAIN f \cup {"node"}) : graph'[x] = graph[x]
  BY <1>1, GotoFields
<1>3. graph'.iteration = graph.iteration
  BY <1>2 DEF Opened
<1>4. graph'.artifact.status # "committed"
  BY <1>2 DEF Opened
<1>5. FieldsKnown'
  BY <1>1, <1>2, <1>3 DEF FieldsKnown, Nodes, BeforeStart, Opened
<1>6. DataKnown'
  BY <1>2 DEF DataKnown, CollectNodes, PolicyNodes, ReviewNodes, CommitNodes
<1>7. DataAgree'
  BY <1>2 DEF DataAgree, ReviewNodes, CommitNodes
<1>8. CommittedLate' /\ CommittedIsCleared'
  BY <1>2, <1>4 DEF CommittedLate, CommittedIsCleared, ReviewNodes, CommitNodes
<1> QED
  BY <1>5, <1>6, <1>7, <1>8 DEF GraphInv

LEMMA CompleteBlockedInv == ASSUME GraphInv, CompleteBlocked PROVE GraphInv'
<1>1. graph.node = "complete_blocked" /\ graph.node \in Nodes \ BeforeStart
  BY DEF CompleteBlocked, Nodes, BeforeStart
<1>2. Opened /\ graph.iteration \in Nat
  BY <1>1 DEF GraphInv, FieldsKnown, BeforeStart
<1>3. PICK artifact :
        artifact = IF graph.task # "deep_research" /\ graph.review = "reject"
                   THEN [status |-> "draft",
                         content |-> [graph.artifact.content EXCEPT
                                         !.risk = [allowed |-> FALSE, cap |-> 0]]]
                   ELSE [graph.artifact EXCEPT !.status = "draft"]
  OBVIOUS
<1>4. PICK f : f = [terminal |-> "blocked", artifact |-> artifact]
  OBVIOUS
<1>5. Goto("end", f)
  BY <1>3, <1>4, Zenon DEF CompleteBlocked
<1>6. f.artifact.status = "draft"
  <2>1. DOMAIN graph.artifact = {"status", "content"}
    BY <1>1 DEF GraphInv, CommittedLate
  <2> QED
    BY <1>3, <1>4, <2>1
<1>7. DOMAIN f = {"terminal", "artifact"}
  BY <1>4
<1> QED
  BY <1>1, <1>2, <1>5, <1>6, <1>7, EndUncommitted

LEMMA CompleteFailedInv == ASSUME GraphInv, CompleteFailed PROVE GraphInv'
<1>1. graph.node = "complete_failed" /\ graph.node \in Nodes \ BeforeStart
  BY DEF CompleteFailed, Nodes, BeforeStart
<1>2. Opened /\ graph.iteration \in Nat /\ graph.artifact.status # "committed"
  BY <1>1 DEF GraphInv, FieldsKnown, BeforeStart, CommittedLate, Opened
<1>3. PICK f : f = [terminal |-> "failed"]
  OBVIOUS
<1>4. Goto("end", f) /\ DOMAIN f = {"terminal"}
  BY <1>3 DEF CompleteFailed
<1> QED
  BY <1>1, <1>2, <1>4, EndUncommitted

-----------------------------------------------------------------------------
LEMMA GraphUnmoved == GraphInv /\ UNCHANGED graphVars => GraphInv'
<1> SUFFICES ASSUME GraphInv, UNCHANGED graphVars PROVE GraphInv'
  OBVIOUS
<1>1. graph' = graph /\ approved' = approved
  BY DEF graphVars
<1>2. FieldsKnown' /\ DataKnown'
  BY <1>1 DEF GraphInv, FieldsKnown, DataKnown, Opened, IsReport
<1>3. DataAgree'
  BY <1>1 DEF GraphInv, DataAgree, IsReport
<1>4. CommittedLate' /\ CommittedIsCleared'
  BY <1>1 DEF GraphInv, CommittedLate, CommittedIsCleared
<1> QED
  BY <1>2, <1>3, <1>4 DEF GraphInv

LEMMA GraphNextInv == GraphInv /\ [GraphNext]_graphVars => GraphInv'
<1> SUFFICES ASSUME GraphInv, [GraphNext]_graphVars PROVE GraphInv'
  OBVIOUS
<1>1. ASSUME NEW r \in DecisionRequests, NEW p \in {"bypass", "required"}, AdmitDecision(r, p)
      PROVE  GraphInv'
  BY <1>1, AdmitInv
<1>2. CASE AdmitCron
  BY <1>2, AdmitInv
<1>3. CASE ValidateRequest \/ MonitorIngress
  BY <1>3, ValidateRequestInv, MonitorIngressInv
<1>4. CASE CollectMarketSnapshot \/ ResearchEvents \/ AnalyzeMarket
  BY <1>4, CollectMarketSnapshotInv, ResearchEventsInv, AnalyzeMarketInv
<1>5. CASE ValidateEvidence \/ ApplyRisk \/ BuildArtifact
  BY <1>5, ValidateEvidenceInv, ApplyRiskInv, BuildArtifactInv
<1>6. CASE RunDeepResearch \/ ReviewPolicy
  BY <1>6, RunDeepResearchInv, ReviewPolicyInv
<1>7. ASSUME NEW a \in {"approve", "reject", "edit"}, InterruptReview(a) PROVE GraphInv'
  BY <1>7, InterruptReviewInv
<1>8. CASE RefuseResponse
  BY <1>8, RaiseInv DEF RefuseResponse, Raise, Nodes, ReviewNodes
<1>9. CASE ApplyEdits \/ CommitArtifact
  BY <1>9, ApplyEditsInv, CommitArtifactInv
<1>10. CASE Complete \/ CompleteBlocked \/ CompleteFailed
  BY <1>10, CompleteInv, CompleteBlockedInv, CompleteFailedInv
<1>11. CASE UNCHANGED graphVars
  BY <1>11, GraphUnmoved
<1> QED
  BY <1>1, <1>2, <1>3, <1>4, <1>5, <1>6, <1>7, <1>8, <1>9, <1>10, <1>11 DEF GraphNext

(* What is committed was cleared by the policies for exactly the analysis  *)
(* it contains and the data it was made from, and by a reviewer who saw    *)
(* this content where a review was required (the nodes apply_risk_policy   *)
(* to commit_artifact), for all requests, data, answers and reviews.       *)
THEOREM CommittedIsClearedHolds == GraphSpec => []CommittedIsCleared
<1>1. GraphInv => CommittedIsCleared
  BY DEF GraphInv
<1> QED
  BY <1>1, GraphInitInv, GraphNextInv, PTL DEF GraphSpec

-----------------------------------------------------------------------------
(* Progress events.  A node finds none above its own level. *)

Base == [collect_market_snapshot |-> 11, run_deep_research |-> 11, research_events |-> 20,
         analyze_market |-> 31, validate_evidence |-> 41, apply_risk_policy |-> 51,
         build_artifact |-> 61, review_policy |-> 71, interrupt_review |-> 80,
         apply_edits |-> -19, commit_artifact |-> 80, complete |-> 91,
         complete_blocked |-> 80, complete_failed |-> 40]

Rising(s) == \A i, j \in DOMAIN s : i < j => s[i] <= s[j]
Below(s, n) == \A i \in DOMAIN s : s[i] <= n
Between(s, low, high) == \A i \in DOMAIN s : low <= s[i] /\ s[i] <= high

SequenceBelow ==
    /\ emitted \in Seq(Int)
    /\ Rising(emitted)
    /\ graph.node \in BeforeStart => emitted = <<>>
    /\ graph.node \in CollectNodes \cup {"run_deep_research"} => graph.iteration = 0
    /\ graph.node \in DOMAIN Base => Below(emitted, Base[graph.node] + Offset(graph.iteration))

ProgressInv == GraphInv /\ SequenceBelow

LEMMA BaseNodes ==
    /\ DOMAIN Base = Nodes \ (BeforeStart \cup {"end", "error"})
    /\ \A node \in DOMAIN Base : Base[node] \in Int
  BY DEF Base, Nodes, BeforeStart, CollectNodes, PolicyNodes, ReviewNodes, CommitNodes

LEMMA BaseIs ==
    /\ Base["collect_market_snapshot"] = 11 /\ Base["run_deep_research"] = 11
    /\ Base["research_events"] = 20 /\ Base["analyze_market"] = 31
    /\ Base["validate_evidence"] = 41 /\ Base["apply_risk_policy"] = 51
    /\ Base["build_artifact"] = 61 /\ Base["review_policy"] = 71
    /\ Base["interrupt_review"] = 80 /\ Base["apply_edits"] = -19
    /\ Base["commit_artifact"] = 80 /\ Base["complete"] = 91
    /\ Base["complete_blocked"] = 80 /\ Base["complete_failed"] = 40
    /\ {"collect_market_snapshot", "run_deep_research", "research_events", "analyze_market",
        "validate_evidence", "apply_risk_policy", "build_artifact", "review_policy",
        "interrupt_review", "apply_edits", "commit_artifact", "complete",
        "complete_blocked", "complete_failed"} = DOMAIN Base
  BY DEF Base

LEMMA OneRises ==
    ASSUME NEW x \in Int, NEW t, t = <<x>>
    PROVE  t \in Seq(Int) /\ Rising(t) /\ Between(t, x, x)
  BY DEF Rising, Between

LEMMA TwoRise ==
    ASSUME NEW x \in Int, NEW y \in Int, x <= y, NEW t, t = <<x, y>>
    PROVE  t \in Seq(Int) /\ Rising(t) /\ Between(t, x, y)
<1>1. t \in Seq(Int) /\ DOMAIN t = {1, 2} /\ t[1] = x /\ t[2] = y
  OBVIOUS
<1> QED
  BY <1>1 DEF Rising, Between

(* New events from low to high, after events up to low. *)
LEMMA Continues ==
    ASSUME NEW s \in Seq(Int), Rising(s), NEW t \in Seq(Int), Rising(t),
           NEW low \in Int, NEW high \in Int, low <= high, Below(s, low),
           Between(t, low, high)
    PROVE  s \o t \in Seq(Int) /\ Rising(s \o t) /\ Below(s \o t, high)
<1>1. PICK u : u = s \o t
  OBVIOUS
<1>2. PICK m \in Nat, n \in Nat : m = Len(s) /\ n = Len(t)
  OBVIOUS
<1>3. /\ u \in Seq(Int) /\ Len(u) = m + n
      /\ \A i \in 1..m : u[i] = s[i]
      /\ \A i \in 1..n : u[m + i] = t[i]
  BY <1>1, <1>2, ConcatProperties
<1>4. /\ DOMAIN u = 1..(m + n) /\ DOMAIN s = 1..m /\ DOMAIN t = 1..n
      /\ \A i \in DOMAIN s : s[i] \in Int
      /\ \A i \in DOMAIN t : t[i] \in Int /\ low <= t[i] /\ t[i] <= high
  BY <1>2, <1>3 DEF Between
<1>5. ASSUME NEW i \in 1..(m + n)
      PROVE  \/ i \in 1..m /\ u[i] = s[i]
             \/ i - m \in 1..n /\ u[i] = t[i - m] /\ i > m
  <2>1. CASE i <= m
    BY <1>3, <2>1
  <2>2. CASE i > m
    <3>1. PICK k \in 1..n : k = i - m /\ i = m + k
      BY <2>2
    <3> QED
      BY <1>3, <2>2, <3>1
  <2> QED
    BY <2>1, <2>2
<1>6. ASSUME NEW i \in 1..(m + n), NEW j \in 1..(m + n), i < j PROVE u[i] <= u[j]
  <2>1. CASE i \in 1..m /\ u[i] = s[i] /\ j \in 1..m /\ u[j] = s[j]
    BY <1>4, <1>6, <2>1 DEF Rising
  <2>2. CASE i \in 1..m /\ u[i] = s[i] /\ j - m \in 1..n /\ u[j] = t[j - m]
    <3>1. PICK k \in 1..n : k = j - m
      BY <2>2
    <3>2. s[i] <= low /\ low <= t[k] /\ s[i] \in Int /\ t[k] \in Int
      BY <1>4, <2>2 DEF Below
    <3> QED
      BY <2>2, <3>1, <3>2
  <2>3. CASE i - m \in 1..n /\ u[i] = t[i - m] /\ j - m \in 1..n /\ u[j] = t[j - m]
    <3>1. PICK k \in 1..n, l \in 1..n : k = i - m /\ l = j - m /\ k < l
      BY <1>6, <2>3
    <3>2. t[k] <= t[l]
      BY <1>4, <3>1 DEF Rising
    <3> QED
      BY <2>3, <3>1, <3>2
  <2> QED
    BY <1>5, <1>6, <2>1, <2>2, <2>3
<1>7. ASSUME NEW i \in 1..(m + n) PROVE u[i] <= high
  <2>1. CASE i \in 1..m /\ u[i] = s[i]
    <3>1. s[i] \in Int /\ s[i] <= low
      BY <1>4, <2>1 DEF Below
    <3> QED
      BY <2>1, <3>1
  <2>2. CASE i - m \in 1..n /\ u[i] = t[i - m]
    <3>1. PICK k \in 1..n : k = i - m
      BY <2>2
    <3> QED
      BY <1>4, <2>2, <3>1
  <2> QED
    BY <1>5, <2>1, <2>2
<1> QED
  BY <1>1, <1>3, <1>4, <1>6, <1>7 DEF Rising, Below

(* A step that emits, and where the Graph is after it. *)
LEMMA EmitStep ==
    ASSUME SequenceBelow, NEW t \in Seq(Int), Rising(t), Emit(t),
           NEW low \in Int, NEW high \in Int, low <= high, Below(emitted, low),
           Between(t, low, high),
           graph'.node \notin BeforeStart,
           graph'.node \in CollectNodes \cup {"run_deep_research"} => graph'.iteration = 0,
           graph'.node \in DOMAIN Base => high = Base[graph'.node] + Offset(graph'.iteration)
    PROVE  SequenceBelow'
<1>1. PICK s \in Seq(Int) : s = emitted /\ Rising(s)
  BY DEF SequenceBelow
<1>2. PICK u : u = s \o t
  OBVIOUS
<1>3. u \in Seq(Int) /\ Rising(u) /\ Below(u, high)
  BY <1>1, <1>2, Continues
<1>4. emitted' = u
  BY <1>1, <1>2 DEF Emit
<1> QED
  BY <1>3, <1>4 DEF SequenceBelow

(* A step that does not, to a node without a level. *)
LEMMA SilentStep ==
    ASSUME SequenceBelow, UNCHANGED emitted,
           \/ graph'.node \in {"end", "error"}
           \/ graph'.node \in BeforeStart /\ graph.node \in BeforeStart
    PROVE  SequenceBelow'
  BY BaseNodes DEF SequenceBelow, BeforeStart, CollectNodes

(* A node that keeps the iteration. *)
LEMMA GotoIteration ==
    ASSUME "node" \in DOMAIN graph, "iteration" \in DOMAIN graph, NEW node, NEW fields,
           {"node", "iteration"} \cap DOMAIN fields = {}, Goto(node, fields)
    PROVE  graph'.node = node /\ graph'.iteration = graph.iteration
<1>1. "node" \notin DOMAIN fields /\ "iteration" \notin DOMAIN fields
  OBVIOUS
<1> QED
  BY <1>1, GotoFields

(* The level of the node that runs now, and how an offset is moved. *)
LEMMA AtLevel ==
    ASSUME ProgressInv, graph.node \in DOMAIN Base
    PROVE  /\ "node" \in DOMAIN graph /\ "iteration" \in DOMAIN graph /\ graph.iteration \in Nat
           /\ Offset(graph.iteration) \in Nat
           /\ Below(emitted, Base[graph.node] + Offset(graph.iteration))
           /\ Base[graph.node] + Offset(graph.iteration) \in Int
<1>1. graph.node \notin BeforeStart \cup {"end", "error"}
  BY BaseNodes
<1>2. "node" \in DOMAIN graph /\ "iteration" \in DOMAIN graph /\ graph.iteration \in Nat
  BY <1>1 DEF ProgressInv, GraphInv, FieldsKnown, Opened
<1>3. Offset(graph.iteration) \in Nat
  BY <1>2 DEF Offset
<1>4. Base[graph.node] \in Int
  BY BaseNodes
<1> QED
  BY <1>2, <1>3, <1>4 DEF ProgressInv, SequenceBelow

(* One event, or two, of the iteration that the node belongs to. *)
LEMMA LevelStep ==
    ASSUME ProgressInv, graph.node \in DOMAIN Base, NEW first \in Int, NEW last \in Int,
           Base[graph.node] <= first, first <= last,
           NEW t, Emit(t), graph'.iteration = graph.iteration,
           \/ t = <<first + Offset(graph.iteration), last + Offset(graph.iteration)>>
           \/ t = <<first + Offset(graph.iteration)>> /\ first = last,
           graph'.node \notin BeforeStart,
           graph'.node \in CollectNodes \cup {"run_deep_research"} => graph.iteration = 0,
           graph'.node \in DOMAIN Base => last <= Base[graph'.node]
    PROVE  SequenceBelow'
<1>1. PICK offset \in Nat, base \in Int :
        /\ offset = Offset(graph.iteration) /\ base = Base[graph.node]
        /\ Below(emitted, base + offset)
  BY AtLevel, BaseNodes
<1>2. PICK x \in Int, y \in Int : x = first + offset /\ y = last + offset /\ x <= y
  OBVIOUS
<1>3. t \in Seq(Int) /\ Rising(t) /\ Between(t, x, y)
  <2>1. CASE t = <<x, y>>
    BY <1>2, <2>1, TwoRise
  <2>2. CASE t = <<x>> /\ x = y
    BY <1>2, <2>2, OneRises
  <2> QED
    BY <1>1, <1>2, <2>1, <2>2
<1>4. PICK high \in Int :
        /\ y <= high
        /\ graph'.node \in DOMAIN Base => high = Base[graph'.node] + offset
  <2>1. CASE graph'.node \in DOMAIN Base
    <3>1. PICK b \in Int : b = Base[graph'.node]
      BY <2>1, BaseNodes
    <3> QED
      BY <1>1, <1>2, <2>1, <3>1
  <2>2. CASE graph'.node \notin DOMAIN Base
    BY <1>2, <2>2
  <2> QED
    BY <2>1, <2>2
<1>5. PICK low \in Int : low = base + offset /\ low <= x
  BY <1>1, <1>2
<1>6. Between(t, low, high)
  <2> SUFFICES ASSUME NEW i \in DOMAIN t PROVE low <= t[i] /\ t[i] <= high
    BY DEF Between
  <2>1. PICK v \in Int : v = t[i]
    BY <1>3
  <2> QED
    BY <1>2, <1>3, <1>4, <1>5, <2>1 DEF Between
<1>7. low <= high
  BY <1>2, <1>4, <1>5
<1>8. graph'.node \in CollectNodes \cup {"run_deep_research"} => graph'.iteration = 0
  OBVIOUS
<1>9. graph'.node \in DOMAIN Base => high = Base[graph'.node] + Offset(graph'.iteration)
  BY <1>1, <1>4
<1>10. Below(emitted, low)
  BY <1>1, <1>5
<1>11. SequenceBelow
  BY DEF ProgressInv
<1> QED
  BY <1>3, <1>6, <1>7, <1>8, <1>9, <1>10, <1>11, EmitStep

LEMMA FailProgress ==
    ASSUME ProgressInv, graph.node \in DOMAIN Base,
           graph.node \in CollectNodes \cup {"run_deep_research"},
           NEW n \in Int, Base[graph.node] <= n, n <= 40,
           Fail(<<n>>) \/ Fail(<<n, n>>)
    PROVE  SequenceBelow'
<1>1. PICK t : t \in {<<n>>, <<n, n>>} /\ Emit(t) /\ Goto("complete_failed", [terminal |-> "failed"])
  BY DEF Fail
<1>2. PICK f : f = [terminal |-> "failed"]
  OBVIOUS
<1>3. Goto("complete_failed", f) /\ DOMAIN f = {"terminal"}
  BY <1>1, <1>2
<1>4. graph'.node = "complete_failed" /\ graph'.iteration = graph.iteration
  BY <1>3, AtLevel, GotoIteration
<1>5. graph.iteration = 0 /\ Offset(graph.iteration) = 0
  BY DEF ProgressInv, SequenceBelow, Offset
<1>6. "complete_failed" \in DOMAIN Base /\ Base["complete_failed"] = 40
  BY DEF Base
<1>7. "complete_failed" \notin BeforeStart \cup CollectNodes \cup {"run_deep_research"}
  BY DEF BeforeStart, CollectNodes
<1>8. t = <<n + Offset(graph.iteration), n + Offset(graph.iteration)>>
      \/ t = <<n + Offset(graph.iteration)>>
  BY <1>1, <1>5
<1> QED
  BY <1>1, <1>4, <1>6, <1>7, <1>8, LevelStep

(* The nodes that run once, before the first review. *)
LEMMA EarlyProgress ==
    ASSUME ProgressInv, graph.node \in CollectNodes, NEW fields, NEW node,
           Goto(node, fields), {"node", "iteration"} \cap DOMAIN fields = {},
           NEW first \in Int, NEW last \in Int, NEW t, Emit(t),
           t = <<first, last>> \/ (t = <<first>> /\ first = last),
           Base[graph.node] <= first, first <= last,
           node \in DOMAIN Base /\ last <= Base[node]
    PROVE  SequenceBelow'
<1>1. graph.node \in DOMAIN Base /\ node \notin BeforeStart
  BY BaseNodes DEF Nodes, CollectNodes, BeforeStart
<1>2. graph'.node = node /\ graph'.iteration = graph.iteration
  BY <1>1, AtLevel, GotoIteration
<1>3. graph.iteration = 0 /\ Offset(graph.iteration) = 0
  BY DEF ProgressInv, SequenceBelow, Offset
<1>4. \/ t = <<first + Offset(graph.iteration), last + Offset(graph.iteration)>>
      \/ t = <<first + Offset(graph.iteration)>> /\ first = last
  BY <1>3
<1> QED
  BY <1>1, <1>2, <1>3, <1>4, LevelStep

LEMMA CollectProgress ==
    ASSUME ProgressInv, CollectMarketSnapshot \/ ResearchEvents \/ AnalyzeMarket
    PROVE  SequenceBelow'
<1>1. CASE CollectMarketSnapshot
  <2>1. graph.node = "collect_market_snapshot"
    BY <1>1 DEF CollectMarketSnapshot
  <2>2. CASE Fail(<<20>>)
    <3>1. PICK n \in Int : n = 20 /\ Fail(<<n>>)
      BY <2>2
    <3>2. Base[graph.node] <= n /\ n <= 40 /\ graph.node \in CollectNodes \cap DOMAIN Base
      BY <2>1, <3>1, BaseIs DEF CollectNodes
    <3> QED
      BY <3>1, <3>2, FailProgress
  <2>3. ASSUME NEW market, NEW evidence, Emit(<< 20 >>),
               Goto("research_events", [market |-> market, evidence |-> evidence])
        PROVE  SequenceBelow'
    <3>1. PICK f, t : f = [market |-> market, evidence |-> evidence] /\ t = <<20>>
      OBVIOUS
    <3>2. Goto("research_events", f) /\ Emit(t) /\ {"node", "iteration"} \cap DOMAIN f = {}
      BY <2>3, <3>1
    <3> QED
      BY <2>1, <3>1, <3>2, EarlyProgress, BaseIs DEF CollectNodes
  <2>4. CASE Raise
    <3>1. "node" \in DOMAIN graph
      BY DEF ProgressInv, GraphInv, FieldsKnown
    <3>2. graph'.node = "error" /\ UNCHANGED emitted
      BY <2>4, <3>1, MoveFields DEF Raise
    <3> QED
      BY <3>2, SilentStep DEF ProgressInv
  <2> QED
    BY <1>1, <2>2, <2>3, <2>4 DEF CollectMarketSnapshot
<1>2. CASE ResearchEvents
  <2>1. graph.node = "research_events"
    BY <1>2 DEF ResearchEvents
  <2>2. CASE Fail(<<30>>)
    <3>1. PICK n \in Int : n = 30 /\ Fail(<<n>>)
      BY <2>2
    <3>2. Base[graph.node] <= n /\ n <= 40 /\ graph.node \in CollectNodes \cap DOMAIN Base
      BY <2>1, <3>1, BaseIs DEF CollectNodes
    <3> QED
      BY <3>1, <3>2, FailProgress
  <2>3. ASSUME NEW bundle, NEW evidence, Emit(<<30, 31>>),
               Goto("analyze_market", [bundle |-> bundle, evidence |-> evidence])
        PROVE  SequenceBelow'
    <3>1. PICK f, t : f = [bundle |-> bundle, evidence |-> evidence] /\ t = <<30, 31>>
      OBVIOUS
    <3>2. Goto("analyze_market", f) /\ Emit(t) /\ {"node", "iteration"} \cap DOMAIN f = {}
      BY <2>3, <3>1
    <3> QED
      BY <2>1, <3>1, <3>2, EarlyProgress, BaseIs DEF CollectNodes
  <2> QED
    BY <1>2, <2>2, <2>3 DEF ResearchEvents
<1>3. CASE AnalyzeMarket
  <2>1. graph.node = "analyze_market"
    BY <1>3 DEF AnalyzeMarket
  <2>2. CASE Fail(<<40>>)
    <3>1. PICK n \in Int : n = 40 /\ Fail(<<n>>)
      BY <2>2
    <3>2. Base[graph.node] <= n /\ n <= 40 /\ graph.node \in CollectNodes \cap DOMAIN Base
      BY <2>1, <3>1, BaseIs DEF CollectNodes
    <3> QED
      BY <3>1, <3>2, FailProgress
  <2>3. ASSUME NEW analysis, NEW unavailable, Emit(<<40, 41>>),
               Goto("validate_evidence", [analysis |-> analysis, unavailable |-> unavailable])
        PROVE  SequenceBelow'
    <3>1. PICK f, t : f = [analysis |-> analysis, unavailable |-> unavailable] /\ t = <<40, 41>>
      OBVIOUS
    <3>2. Goto("validate_evidence", f) /\ Emit(t) /\ {"node", "iteration"} \cap DOMAIN f = {}
      BY <2>3, <3>1
    <3> QED
      BY <2>1, <3>1, <3>2, EarlyProgress, BaseIs DEF CollectNodes
  <2> QED
    BY <1>3, <2>2, <2>3 DEF AnalyzeMarket
<1> QED
  BY <1>1, <1>2, <1>3

LEMMA StartProgress ==
    ASSUME ProgressInv,
           \/ \E r \in DecisionRequests, p \in {"bypass", "required"} : AdmitDecision(r, p)
           \/ AdmitCron \/ ValidateRequest \/ MonitorIngress
    PROVE  SequenceBelow'
<1>1. SequenceBelow /\ FieldsKnown
  BY DEF ProgressInv, GraphInv
<1>2. CASE (\E r \in DecisionRequests, p \in {"bypass", "required"} : AdmitDecision(r, p)) \/ AdmitCron
  <2>1. /\ graph.node = "idle" /\ UNCHANGED emitted
        /\ \E task, p : graph' = [node |-> "validate_request", task |-> task, policy |-> p]
    BY <1>2 DEF AdmitDecision, AdmitCron
  <2> QED
    BY <1>1, <2>1, SilentStep DEF BeforeStart
<1>3. CASE ValidateRequest
  <2>1. graph.node = "validate_request" /\ "node" \in DOMAIN graph /\ emitted = <<>>
    BY <1>1, <1>3 DEF ValidateRequest, FieldsKnown, SequenceBelow, BeforeStart
  <2>2. CASE graph.task = "monitor_ingress"
    <3>1. PICK f : f = [terminal |-> "running"]
      OBVIOUS
    <3>2. Goto("monitor_ingress", f) /\ DOMAIN f = {"terminal"} /\ UNCHANGED emitted
      BY <1>3, <2>2, <3>1 DEF ValidateRequest
    <3>3. graph'.node = "monitor_ingress"
      BY <2>1, <3>2, GotoFields
    <3> QED
      BY <1>1, <2>1, <3>2, <3>3, SilentStep DEF BeforeStart
  <2>3. CASE graph.task # "monitor_ingress"
    <3>1. PICK f : f = [terminal |-> "running", iteration |-> 0, review |-> NoReview,
                        evidence |-> {}, artifact |-> NoArtifact]
      OBVIOUS
    <3>2. PICK node \in {"run_deep_research", "collect_market_snapshot"} :
             node = AfterRequestValidation(graph.task)
      BY <2>3 DEF AfterRequestValidation
    <3>3. PICK t : t = <<10, 11>> /\ Emit(t) /\ Goto(node, f)
      BY <1>3, <2>3, <3>1, <3>2 DEF ValidateRequest
    <3>4. DOMAIN f = {"terminal", "iteration", "review", "evidence", "artifact"}
          /\ f.iteration = 0
      BY <3>1
    <3>5. graph'.node = node /\ graph'.iteration = 0
      BY <2>1, <3>3, <3>4, GotoFields
    <3>6. PICK low \in Int, high \in Int : low = 10 /\ high = 11
      OBVIOUS
    <3>7. t \in Seq(Int) /\ Rising(t) /\ Between(t, low, high)
      BY <3>3, <3>6, TwoRise
    <3>8. Below(emitted, low)
      BY <2>1 DEF Below
    <3>9. Base[node] + Offset(0) = high
      BY <3>6, BaseIs DEF Offset
    <3>10. node \notin BeforeStart /\ low <= high
      BY <3>6 DEF BeforeStart
    <3> QED
      BY <1>1, <3>3, <3>5, <3>6, <3>7, <3>8, <3>9, <3>10, EmitStep
  <2> QED
    BY <2>2, <2>3
<1>4. CASE MonitorIngress
  <2>1. "node" \in DOMAIN graph /\ UNCHANGED emitted
    BY <1>1, <1>4 DEF FieldsKnown, MonitorIngress, Raise
  <2>2. CASE Goto("end", [terminal |-> "succeeded"])
    <3>1. PICK f : f = [terminal |-> "succeeded"]
      OBVIOUS
    <3>2. Goto("end", f) /\ DOMAIN f = {"terminal"}
      BY <2>2, <3>1
    <3>3. graph'.node = "end"
      BY <2>1, <3>2, GotoFields
    <3> QED
      BY <1>1, <2>1, <3>3, SilentStep
  <2>3. CASE Raise
    <3>1. graph'.node = "error"
      BY <2>1, <2>3, MoveFields DEF Raise
    <3> QED
      BY <1>1, <2>1, <3>1, SilentStep
  <2> QED
    BY <1>4, <2>2, <2>3 DEF MonitorIngress
<1> QED
  BY <1>2, <1>3, <1>4

(* Two events of the iteration, and on to the next node. *)
LEMMA PolicyStep ==
    ASSUME ProgressInv, graph.node \in DOMAIN Base, NEW fields, NEW node,
           Goto(node, fields), {"node", "iteration"} \cap DOMAIN fields = {},
           NEW first \in Int, NEW last \in Int, NEW t, Emit(t),
           \/ t = <<first + Offset(graph.iteration), last + Offset(graph.iteration)>>
           \/ t = <<first + Offset(graph.iteration)>> /\ first = last,
           Base[graph.node] <= first, first <= last,
           node \notin BeforeStart \cup CollectNodes \cup {"run_deep_research"},
           node \in DOMAIN Base => last <= Base[node]
    PROVE  SequenceBelow'
<1>1. graph'.node = node /\ graph'.iteration = graph.iteration
  BY AtLevel, GotoIteration
<1> QED
  BY <1>1, LevelStep

LEMMA PolicyProgress ==
    ASSUME ProgressInv, ValidateEvidence \/ ApplyRisk \/ BuildArtifact
    PROVE  SequenceBelow'
<1>1. CASE ValidateEvidence
  <2>1. PICK f, t :
          /\ graph.node = "validate_evidence"
          /\ Goto("apply_risk_policy", f) /\ DOMAIN f = {"verdict"} /\ Emit(t)
          /\ t = <<50 + Offset(graph.iteration), 51 + Offset(graph.iteration)>>
    <3>1. PICK verdict :
            verdict = CheckEvidenceSufficiency(graph.market, graph.bundle, graph.analysis.action)
      OBVIOUS
    <3>2. PICK f : f = [verdict |-> verdict]
      OBVIOUS
    <3> QED
      BY <1>1, <3>1, <3>2 DEF ValidateEvidence
  <2> QED
    BY <2>1, PolicyStep, BaseIs DEF BeforeStart, CollectNodes
<1>2. CASE ApplyRisk
  <2>1. PICK f, t :
          /\ graph.node = "apply_risk_policy"
          /\ Goto("build_artifact", f) /\ DOMAIN f = {"risk", "terminal"} /\ Emit(t)
          /\ t = <<60 + Offset(graph.iteration), 61 + Offset(graph.iteration)>>
    <3>1. PICK risk : risk = ApplyRiskPolicy(graph.analysis, graph.verdict)
      OBVIOUS
    <3>2. PICK f : f = [risk |-> risk, terminal |-> IF risk.allowed THEN "running" ELSE "blocked"]
      OBVIOUS
    <3> QED
      BY <1>2, <3>1, <3>2 DEF ApplyRisk
  <2> QED
    BY <2>1, PolicyStep, BaseIs DEF BeforeStart, CollectNodes
<1>3. CASE BuildArtifact
  <2>1. PICK f, t :
          /\ graph.node = "build_artifact"
          /\ Goto("review_policy", f) /\ DOMAIN f = {"artifact"} /\ Emit(t)
          /\ t = <<70 + Offset(graph.iteration), 71 + Offset(graph.iteration)>>
    <3>1. PICK artifact :
            artifact = [status |-> "draft",
                        content |-> [analysis |-> graph.analysis, verdict |-> graph.verdict,
                                     risk |-> graph.risk,
                                     sources |-> {e.url : e \in EffectiveEvidence(graph.evidence)}]]
      OBVIOUS
    <3>2. PICK f : f = [artifact |-> artifact]
      OBVIOUS
    <3> QED
      BY <1>3, <3>1, <3>2 DEF BuildArtifact
  <2> QED
    BY <2>1, PolicyStep, BaseIs DEF BeforeStart, CollectNodes
<1> QED
  BY <1>1, <1>2, <1>3

LEMMA DeepResearchProgress ==
    ASSUME ProgressInv, RunDeepResearch PROVE SequenceBelow'
<1>1. /\ graph.node = "run_deep_research" /\ graph.node \in DOMAIN Base
      /\ Base[graph.node] = 11 /\ graph.iteration = 0 /\ Offset(graph.iteration) = 0
      /\ "node" \in DOMAIN graph /\ "iteration" \in DOMAIN graph /\ SequenceBelow
      /\ Below(emitted, 11)
  <2>1. graph.node = "run_deep_research" /\ graph.node \in DOMAIN Base /\ Base[graph.node] = 11
    BY BaseIs DEF RunDeepResearch
  <2>2. SequenceBelow /\ graph.iteration = 0 /\ Offset(graph.iteration) = 0
    BY <2>1 DEF ProgressInv, SequenceBelow, Offset
  <2>3. PICK n \in Int : n = Base[graph.node] + Offset(graph.iteration) /\ Below(emitted, n)
    BY <2>1, AtLevel
  <2>4. n = 11
    BY <2>1, <2>2, <2>3
  <2> QED
    BY <2>1, <2>2, <2>3, <2>4, AtLevel
<1>2. CASE Fail(<<20, 20>>)
  <2>1. PICK n \in Int : n = 20 /\ Fail(<<n, n>>)
    BY <1>2
  <2>2. Base[graph.node] <= n /\ n <= 40
    BY <1>1, <2>1
  <2> QED
    BY <1>1, <2>1, <2>2, FailProgress
<1>3. CASE graph' = [graph EXCEPT !.node = "error"] /\ Emit(<<20>>)
  <2>0. PICK n \in Int : n = 20
    OBVIOUS
  <2>1. PICK t : t = <<n>> /\ Emit(t)
    BY <1>3, <2>0
  <2>2. t = <<n + Offset(graph.iteration)>>
    BY <1>1, <2>1
  <2>3. graph'.node = "error" /\ graph'.iteration = graph.iteration
    BY <1>1, <1>3, MoveFields
  <2>4. "error" \notin BeforeStart \cup CollectNodes \cup {"run_deep_research"} \cup DOMAIN Base
    BY BaseNodes DEF BeforeStart, CollectNodes
  <2>5. Base[graph.node] <= n
    BY <1>1, <2>0
  <2> QED
    BY <1>1, <2>1, <2>2, <2>3, <2>4, <2>5, LevelStep
<1>4. ASSUME NEW artifact, Goto("review_policy", [artifact |-> artifact]),
             Emit(<<20, 30, 31, 32, 33>>)
      PROVE  SequenceBelow'
  <2>1. PICK f, t : f = [artifact |-> artifact] /\ t = <<20, 30, 31, 32, 33>>
    OBVIOUS
  <2>2. Goto("review_policy", f) /\ DOMAIN f = {"artifact"} /\ Emit(t)
    BY <1>4, <2>1
  <2>3. graph'.node = "review_policy" /\ graph'.iteration = 0
    BY <1>1, <2>2, GotoIteration
  <2>4. PICK low \in Int, high \in Int : low = 11 /\ high = 71
    OBVIOUS
  <2>5. t \in Seq(Int) /\ Rising(t) /\ Between(t, low, high)
    <3>1. /\ t \in Seq(Int) /\ DOMAIN t = {1, 2, 3, 4, 5}
          /\ t[1] = 20 /\ t[2] = 30 /\ t[3] = 31 /\ t[4] = 32 /\ t[5] = 33
      BY <2>1
    <3> QED
      BY <2>4, <3>1 DEF Rising, Between
  <2>6. Base["review_policy"] + Offset(0) = high /\ low <= high /\ Below(emitted, low)
    BY <1>1, <2>4, BaseIs DEF Offset
  <2>7. "review_policy" \notin BeforeStart
    BY DEF BeforeStart
  <2> QED
    BY <1>1, <2>2, <2>3, <2>5, <2>6, <2>7, EmitStep
<1>5. ASSUME NEW s1 \in SearchResults, NEW s2 \in SearchResults, NEW report \in Reports,
             LET sources == LedgerSources(IF s2 = <<>> THEN <<s1>> ELSE <<s1, s2>>)
             IN  /\ s1 # <<>> /\ CoherentCatalog(report, sources)
                 /\ Goto("review_policy",
                         [artifact |-> [status |-> "draft",
                                        content |-> [report |-> report, sources |-> sources]]]),
             Emit(<<20, 30, 31, 32, 33>>)
      PROVE  SequenceBelow'
  <2>1. PICK sources : sources = LedgerSources(IF s2 = <<>> THEN <<s1>> ELSE <<s1, s2>>)
    OBVIOUS
  <2>2. PICK artifact : artifact = [status |-> "draft",
                                    content |-> [report |-> report, sources |-> sources]]
    OBVIOUS
  <2> QED
    BY <1>4, <1>5, <2>1, <2>2
<1> QED
  BY <1>2, <1>3, <1>5 DEF RunDeepResearch

LEMMA ReviewPolicyProgress == ASSUME ProgressInv, ReviewPolicy PROVE SequenceBelow'
<1>1. /\ graph.node = "review_policy" /\ graph.node \in DOMAIN Base /\ Base[graph.node] = 71
      /\ "node" \in DOMAIN graph /\ "iteration" \in DOMAIN graph
  <2>1. graph.node = "review_policy" /\ graph.node \in DOMAIN Base /\ Base[graph.node] = 71
    BY BaseIs DEF ReviewPolicy
  <2> QED
    BY <2>1, AtLevel
<1>2. PICK node : node = AfterReviewPolicy
  OBVIOUS
<1>3. graph'.node = node /\ graph'.iteration = graph.iteration
  BY <1>1, <1>2, MoveFields DEF ReviewPolicy
<1>4. node \in {"interrupt_review", "complete_blocked", "commit_artifact"}
  BY <1>2 DEF AfterReviewPolicy
<1>5. node \notin BeforeStart \cup CollectNodes \cup {"run_deep_research"}
  BY <1>4 DEF BeforeStart, CollectNodes
<1>6. PICK n \in Int : n = 80
  OBVIOUS
<1>7. PICK t : t = <<n + Offset(graph.iteration)>> /\ Emit(t)
  BY <1>6 DEF ReviewPolicy
<1>8. Base[graph.node] <= n /\ n <= Base[node]
  BY <1>1, <1>4, <1>6, BaseIs
<1> QED
  BY <1>1, <1>3, <1>5, <1>7, <1>8, LevelStep

LEMMA InterruptReviewProgress ==
    ASSUME ProgressInv, NEW action, InterruptReview(action) PROVE SequenceBelow'
<1>1. /\ graph.node = "interrupt_review" /\ graph.node \in DOMAIN Base /\ Base[graph.node] = 80
      /\ "node" \in DOMAIN graph /\ "iteration" \in DOMAIN graph /\ SequenceBelow
  <2>1. graph.node = "interrupt_review" /\ graph.node \in DOMAIN Base /\ Base[graph.node] = 80
    BY BaseIs DEF InterruptReview
  <2> QED
    BY <2>1, AtLevel DEF ProgressInv
<1>2. PICK n \in Nat, low \in Int :
        n = graph.iteration /\ low = 80 + Offset(n) /\ Below(emitted, low)
  BY <1>1, AtLevel
<1>3. PICK m \in Nat : m = n + 1
  OBVIOUS
<1>4. PICK node : node = AfterReview(action)
  OBVIOUS
<1>5. PICK f : f = [review |-> action, iteration |-> m]
  OBVIOUS
<1>6. Goto(node, f) /\ DOMAIN f = {"review", "iteration"} /\ f.iteration = m
  BY <1>2, <1>3, <1>4, <1>5 DEF InterruptReview
<1>7. graph'.node = node /\ graph'.iteration = m
  <2>1. "node" \in DOMAIN graph /\ "node" \notin DOMAIN f /\ "iteration" \in DOMAIN f
    BY <1>1, <1>6
  <2> QED
    BY <1>6, <2>1, GotoFields
<1>8. node \in {"apply_edits", "complete_blocked", "commit_artifact"}
  BY <1>4 DEF AfterReview
<1>0. PICK x \in Int : x = ReviewSequence(n) /\ x = 81 + Offset(n)
  BY DEF ReviewSequence, Offset
<1>9. PICK t : t = <<x>> /\ Emit(t)
  BY <1>0, <1>2 DEF InterruptReview
<1>10. PICK high \in Int : high = Base[node] + Offset(m)
  BY <1>8, BaseIs DEF Offset
<1>11. low <= x /\ x <= high
  BY <1>0, <1>2, <1>3, <1>8, <1>10, BaseIs DEF Offset
<1>12. t \in Seq(Int) /\ Rising(t) /\ Between(t, low, high)
  <2>1. t \in Seq(Int) /\ Rising(t)
    BY <1>9, OneRises
  <2>2. DOMAIN t = {1} /\ t[1] = x
    BY <1>9
  <2> QED
    BY <1>11, <2>1, <2>2 DEF Between
<1>13. node \notin BeforeStart \cup CollectNodes \cup {"run_deep_research"}
  BY <1>8 DEF BeforeStart, CollectNodes
<1>14. low <= high
  BY <1>11
<1> QED
  BY <1>1, <1>2, <1>7, <1>9, <1>10, <1>12, <1>13, <1>14, EmitStep

LEMMA ApplyEditsProgress == ASSUME ProgressInv, ApplyEdits PROVE SequenceBelow'
<1>1. /\ graph.node = "apply_edits" /\ graph.node \in DOMAIN Base /\ Base[graph.node] = -19
      /\ "node" \in DOMAIN graph /\ "iteration" \in DOMAIN graph /\ graph.iteration \in Nat
  <2>1. graph.node = "apply_edits" /\ graph.node \in DOMAIN Base /\ Base[graph.node] = -19
    BY BaseIs DEF ApplyEdits
  <2> QED
    BY <2>1, AtLevel
<1>2. CASE Raise
  <2>1. graph'.node = "error" /\ UNCHANGED emitted
    BY <1>1, <1>2, MoveFields DEF Raise
  <2> QED
    BY <2>1, SilentStep DEF ProgressInv
<1>3. ASSUME NEW f, DOMAIN f \in {{"artifact"}, {"analysis"}}, Goto(AfterEdits(graph.task), f),
             Emit(<<82 + Offset(graph.iteration - 1)>>)
      PROVE  SequenceBelow'
  <2>1. PICK node : node = AfterEdits(graph.task)
    OBVIOUS
  <2>2. Goto(node, f) /\ node \in {"review_policy", "validate_evidence"}
    BY <1>3, <2>1 DEF AfterEdits
  <2>3. PICK k \in Nat : k = graph.iteration
    BY <1>1
  <2>4. PICK n \in Int : n = -18
    OBVIOUS
  <2>5. 82 + Offset(k - 1) = n + Offset(k)
    BY <2>4 DEF Offset
  <2>6. PICK t : t = <<n + Offset(k)>> /\ Emit(t)
    BY <1>3, <2>3, <2>5
  <2>7. Base[graph.node] <= n /\ n <= Base[node]
    BY <1>1, <2>2, <2>4, BaseIs
  <2>8. node \notin BeforeStart \cup CollectNodes \cup {"run_deep_research"}
    BY <2>2 DEF BeforeStart, CollectNodes
  <2>9. {"node", "iteration"} \cap DOMAIN f = {}
    BY <1>3
  <2> QED
    BY <1>1, <2>2, <2>3, <2>6, <2>7, <2>8, <2>9, PolicyStep
<1>4. ASSUME NEW artifact, Goto(AfterEdits(graph.task), [artifact |-> artifact]),
             Emit(<<82 + Offset(graph.iteration - 1)>>)
      PROVE  SequenceBelow'
  <2>1. PICK f : f = [artifact |-> artifact]
    OBVIOUS
  <2> QED
    BY <1>3, <1>4, <2>1
<1>5. ASSUME NEW a, Goto(AfterEdits(graph.task), [analysis |-> a]),
             Emit(<<82 + Offset(graph.iteration - 1)>>)
      PROVE  SequenceBelow'
  <2>1. PICK f : f = [analysis |-> a]
    OBVIOUS
  <2> QED
    BY <1>3, <1>5, <2>1
<1>6. ASSUME NEW report,
             Goto(AfterEdits(graph.task),
                  [artifact |-> [status |-> "draft",
                                 content |-> [graph.artifact.content EXCEPT !.report = report]]]),
             Emit(<<82 + Offset(graph.iteration - 1)>>)
      PROVE  SequenceBelow'
  <2>1. PICK artifact :
          artifact = [status |-> "draft",
                      content |-> [graph.artifact.content EXCEPT !.report = report]]
    OBVIOUS
  <2> QED
    BY <1>4, <1>6, <2>1
<1> QED
  BY <1>2, <1>5, <1>6 DEF ApplyEdits

LEMMA EndProgress ==
    ASSUME ProgressInv, CommitArtifact \/ Complete \/ CompleteBlocked \/ CompleteFailed
    PROVE  SequenceBelow'
<1>1. "end" \notin BeforeStart \cup CollectNodes \cup {"run_deep_research"} \cup DOMAIN Base
      /\ "complete" \notin BeforeStart \cup CollectNodes \cup {"run_deep_research"}
  BY BaseNodes DEF BeforeStart, CollectNodes
<1>2. CASE CommitArtifact
  <2>1. PICK artifact : artifact = [graph.artifact EXCEPT !.status = "committed"]
    OBVIOUS
  <2>2. PICK f, t :
          /\ graph.node = "commit_artifact"
          /\ Goto("complete", f) /\ DOMAIN f = {"artifact"} /\ Emit(t)
          /\ t = <<90 + Offset(graph.iteration), 91 + Offset(graph.iteration)>>
    <3>1. PICK f : f = [artifact |-> artifact]
      OBVIOUS
    <3> QED
      BY <1>2, <2>1, <3>1 DEF CommitArtifact
  <2> QED
    BY <1>1, <2>2, PolicyStep, BaseIs
<1>3. ASSUME graph.node \in {"complete", "complete_blocked", "complete_failed"},
             NEW f, DOMAIN f \subseteq {"terminal", "artifact"}, Goto("end", f),
             Emit(<<100 + Offset(graph.iteration)>>)
      PROVE  SequenceBelow'
  <2>0. PICK n \in Int : n = 100
    OBVIOUS
  <2>1. PICK t : t = <<n + Offset(graph.iteration)>> /\ Emit(t)
    BY <1>3, <2>0
  <2>2. graph.node \in DOMAIN Base /\ Base[graph.node] <= n
    BY <1>3, <2>0, BaseIs
  <2>3. {"node", "iteration"} \cap DOMAIN f = {}
    BY <1>3
  <2> QED
    BY <1>1, <1>3, <2>0, <2>1, <2>2, <2>3, PolicyStep
<1>4. CASE Complete
  <2>1. PICK f : f = [terminal |-> "succeeded"]
    OBVIOUS
  <2> QED
    BY <1>3, <1>4, <2>1 DEF Complete
<1>5. CASE CompleteBlocked
  <2>1. PICK artifact :
          artifact = IF graph.task # "deep_research" /\ graph.review = "reject"
                     THEN [status |-> "draft",
                           content |-> [graph.artifact.content EXCEPT
                                           !.risk = [allowed |-> FALSE, cap |-> 0]]]
                     ELSE [graph.artifact EXCEPT !.status = "draft"]
    OBVIOUS
  <2>2. PICK f : f = [terminal |-> "blocked", artifact |-> artifact]
    OBVIOUS
  <2>3. Goto("end", f)
    BY <1>5, <2>1, <2>2, Zenon DEF CompleteBlocked
  <2>4. DOMAIN f = {"terminal", "artifact"}
    BY <2>2
  <2>5. graph.node = "complete_blocked" /\ Emit(<<100 + Offset(graph.iteration)>>)
    BY <1>5 DEF CompleteBlocked
  <2> QED
    BY <1>3, <2>3, <2>4, <2>5
<1>6. CASE CompleteFailed
  <2>1. PICK f : f = [terminal |-> "failed"]
    OBVIOUS
  <2> QED
    BY <1>3, <1>6, <2>1 DEF CompleteFailed
<1> QED
  BY <1>2, <1>4, <1>5, <1>6

LEMMA ProgressInitInv == GraphInit => ProgressInv
<1> SUFFICES ASSUME GraphInit PROVE ProgressInv
  OBVIOUS
<1>1. graph.node = "idle" /\ emitted = <<>>
  BY DEF GraphInit
<1>2. "idle" \notin DOMAIN Base
  BY BaseNodes DEF BeforeStart
<1>3. SequenceBelow
  BY <1>1, <1>2 DEF SequenceBelow, Rising, BeforeStart, CollectNodes
<1> QED
  BY <1>3, GraphInitInv DEF ProgressInv

LEMMA ProgressNextInv == ProgressInv /\ [GraphNext]_graphVars => ProgressInv'
<1> SUFFICES ASSUME ProgressInv, [GraphNext]_graphVars PROVE ProgressInv'
  OBVIOUS
<1>1. GraphInv'
  BY GraphNextInv DEF ProgressInv
<1>2. CASE \/ \E r \in DecisionRequests, p \in {"bypass", "required"} : AdmitDecision(r, p)
           \/ AdmitCron \/ ValidateRequest \/ MonitorIngress
  BY <1>1, <1>2, StartProgress DEF ProgressInv
<1>3. CASE CollectMarketSnapshot \/ ResearchEvents \/ AnalyzeMarket
  BY <1>1, <1>3, CollectProgress DEF ProgressInv
<1>4. CASE ValidateEvidence \/ ApplyRisk \/ BuildArtifact
  BY <1>1, <1>4, PolicyProgress DEF ProgressInv
<1>5. CASE RunDeepResearch \/ ReviewPolicy
  BY <1>1, <1>5, DeepResearchProgress, ReviewPolicyProgress DEF ProgressInv
<1>6. ASSUME NEW a \in {"approve", "reject", "edit"}, InterruptReview(a) PROVE ProgressInv'
  BY <1>1, <1>6, InterruptReviewProgress DEF ProgressInv
<1>7. CASE RefuseResponse
  <2>1. graph.node = "interrupt_review" /\ "node" \in DOMAIN graph
    BY <1>7, AtReview DEF RefuseResponse, ProgressInv, ReviewNodes
  <2>2. graph'.node = "error" /\ UNCHANGED emitted
    BY <1>7, <2>1, MoveFields DEF RefuseResponse, Raise
  <2> QED
    BY <1>1, <2>2, SilentStep DEF ProgressInv
<1>8. CASE ApplyEdits
  BY <1>1, <1>8, ApplyEditsProgress DEF ProgressInv
<1>9. CASE CommitArtifact \/ Complete \/ CompleteBlocked \/ CompleteFailed
  BY <1>1, <1>9, EndProgress DEF ProgressInv
<1>10. CASE UNCHANGED graphVars
  <2>1. SequenceBelow'
    BY <1>10 DEF ProgressInv, SequenceBelow, graphVars
  <2> QED
    BY <1>1, <2>1 DEF ProgressInv
<1> QED
  BY <1>2, <1>3, <1>4, <1>5, <1>6, <1>7, <1>8, <1>9, <1>10 DEF GraphNext

(* Progress events of a thread never fall back in sequence (ReviewSequence *)
(* and the offsets of the other nodes), through any number of reviews and  *)
(* edits.                                                                  *)
THEOREM ProgressRisesHolds == GraphSpec => []ProgressRises
<1>1. ProgressInv => ProgressRises
  BY DEF ProgressInv, SequenceBelow, Rising, ProgressRises
<1> QED
  BY <1>1, ProgressInitInv, ProgressNextInv, PTL DEF GraphSpec

-----------------------------------------------------------------------------
(***************************************************************************)
(* The ledger tells the output: whatever the stream showed before and      *)
(* however often a source is written again, the newest event of each type  *)
(* that an output has is the output's.                                     *)
(***************************************************************************)
AllOutputs == Outputs \cup {ConflictOutput}
LedgerStatuses == {"absent", "running", "succeeded", "blocked", "failed", "cancelled"}
LedgerRow == [status: LedgerStatuses, output: AllOutputs \cup {NoOutput}, last: Nat]
EventSources == {TerminalSource(out) : out \in AllOutputs} \cup {StreamSource(n) : n \in Nat}
LedgerPayloads ==
    {"market", "conflict", "empty", None} \cup EvidenceLists \cup AnalysisContents \cup AllOutputs
LedgerEvent == [source: EventSources, payload: LedgerPayloads]

LedgerTypeOK ==
    /\ runRow \in [LedgerRuns -> LedgerRow]
    /\ stream \in [LedgerRuns -> Seq(Updates)]
    /\ events \in [LedgerRuns -> [EventTypes -> Seq(LedgerEvent)]]

\* An ended Run has its output.
OutputsStored ==
    \A r \in LedgerRuns : RunEnded(r) =>
        runRow[r].output \in AllOutputs /\ runRow[r].output.status = runRow[r].status

\* Events of an output come when the Run has ended, and of the conflict when it
\* replaced the output.
SourcesStored ==
    \A r \in LedgerRuns, type \in EventTypes, out \in AllOutputs :
        WroteBefore(r, TerminalSource(out), type) =>
            RunEnded(r) /\ runRow[r].output \in {out, ConflictOutput}

\* What the output's source wrote is still the newest of its type.
SourceTells ==
    \A r \in LedgerRuns : RunEnded(r) =>
        \A type \in OutputTypes(runRow[r].output, FALSE) :
            WroteBefore(r, TerminalSource(runRow[r].output), type) =>
                NewestEvent(r, type).payload = PayloadOf(runRow[r].output, type)

LedgerBooksInv ==
    LedgerTypeOK /\ OutputsStored /\ SourcesStored /\ SourceTells /\ LedgerTellsOutput

LEMMA OutputTypesOK ==
    ASSUME NEW out, NEW notified \in BOOLEAN
    PROVE  /\ OutputTypes(out, notified) \subseteq EventTypes
           /\ "terminal" \in OutputTypes(out, notified)
           /\ OutputTypes(out, FALSE) \subseteq OutputTypes(out, notified)
BY DEF OutputTypes, EventTypes

LEMMA ConflictSpecs ==
    OutputTypes(ConflictOutput, FALSE) = {"terminal"} /\ ConflictOutput.status = "failed"
BY DEF OutputTypes, ConflictOutput, None

LEMMA OutputPayloads ==
    ASSUME NEW out \in AllOutputs, NEW type
    PROVE  PayloadOf(out, type) \in LedgerPayloads
<1>1. /\ out.market \in {"market", None} /\ out.evidence \in EvidenceLists \cup {"empty"}
      /\ out.content \in AnalysisContents \cup {None, "conflict"}
  BY DEF AllOutputs, Outputs, ConflictOutput
<1> QED
  BY <1>1 DEF PayloadOf, LedgerPayloads

LEMMA UpdatePayloads ==
    ASSUME NEW u \in Updates
    PROVE  /\ DOMAIN UpdateSpecs(u) \subseteq EventTypes
           /\ \A type \in DOMAIN UpdateSpecs(u) : UpdateSpecs(u)[type] \in LedgerPayloads
<1>1. CASE u.node = "research_events"
  <2>1. u.evidence \in EvidenceLists /\ UpdateSpecs(u) = [evidence |-> u.evidence]
    BY <1>1 DEF Updates, UpdateSpecs
  <2> QED
    BY <2>1 DEF EventTypes, LedgerPayloads
<1>2. CASE u.node = "analyze_market"
  <2>1. u.content \in AnalysisContents /\ UpdateSpecs(u) = [agent |-> u.content]
    BY <1>2 DEF Updates, UpdateSpecs
  <2> QED
    BY <2>1 DEF EventTypes, LedgerPayloads
<1>3. CASE u.node = "apply_risk_policy"
  <2>1. u.content \in AnalysisContents /\ UpdateSpecs(u) = [risk_verdict |-> u.content]
    BY <1>3 DEF Updates, UpdateSpecs
  <2> QED
    BY <2>1 DEF EventTypes, LedgerPayloads
<1>4. CASE u.node = "collect_market_snapshot"
  <2>1. /\ u.evidence \in EvidenceLists \cup {None}
        /\ UpdateSpecs(u) = IF u.evidence = None THEN [market |-> "market"]
                            ELSE [market |-> "market", evidence |-> u.evidence]
    BY <1>4 DEF Updates, UpdateSpecs
  <2> QED
    BY <2>1 DEF EventTypes, LedgerPayloads
<1> QED
  BY <1>1, <1>2, <1>3, <1>4 DEF Updates

\* What append_event_specs does to the events of one Run and type.
LEMMA AppendFacts ==
    ASSUME LedgerTypeOK, NEW r \in LedgerRuns, NEW source \in EventSources, NEW specs,
           DOMAIN specs \subseteq EventTypes,
           \A type \in DOMAIN specs : specs[type] \in LedgerPayloads,
           events' = EventsAppended(r, source, specs)
    PROVE  /\ events' \in [LedgerRuns -> [EventTypes -> Seq(LedgerEvent)]]
           /\ \A q \in LedgerRuns, type \in EventTypes :
                 \/ events'[q][type] = events[q][type]
                 \/ /\ q = r /\ type \in DOMAIN specs /\ IsNewSpec(r, source, type, specs[type])
                    /\ events'[q][type] =
                          Append(events[q][type], [source |-> source, payload |-> specs[type]])
           /\ \A type \in DOMAIN specs : IsNewSpec(r, source, type, specs[type]) =>
                 events'[r][type] =
                    Append(events[r][type], [source |-> source, payload |-> specs[type]])
           /\ \A q \in LedgerRuns : q # r => events'[q] = events[q]
<1>1. PICK row : row = [type \in EventTypes |->
        IF type \in DOMAIN specs /\ IsNewSpec(r, source, type, specs[type])
        THEN Append(events[r][type], [source |-> source, payload |-> specs[type]])
        ELSE events[r][type]]
  OBVIOUS
<1>2. events' = [events EXCEPT ![r] = row]
  BY <1>1 DEF EventsAppended
<1>3. events \in [LedgerRuns -> [EventTypes -> Seq(LedgerEvent)]]
  BY DEF LedgerTypeOK
<1>4. \A type \in DOMAIN specs : [source |-> source, payload |-> specs[type]] \in LedgerEvent
  BY DEF LedgerEvent
<1>5. row \in [EventTypes -> Seq(LedgerEvent)]
  <2>1. \A type \in EventTypes : events[r][type] \in Seq(LedgerEvent)
    BY <1>3
  <2>2. \A type \in EventTypes : type \in DOMAIN specs =>
           Append(events[r][type], [source |-> source, payload |-> specs[type]]) \in Seq(LedgerEvent)
    BY <1>4, <2>1
  <2> QED
    BY <1>1, <2>1, <2>2
<1>6. events' \in [LedgerRuns -> [EventTypes -> Seq(LedgerEvent)]]
  BY <1>2, <1>3, <1>5
<1>7. events'[r] = row /\ \A q \in LedgerRuns : q # r => events'[q] = events[q]
  BY <1>2, <1>3
<1>8. \A type \in EventTypes :
         IF type \in DOMAIN specs /\ IsNewSpec(r, source, type, specs[type])
         THEN events'[r][type] =
                 Append(events[r][type], [source |-> source, payload |-> specs[type]])
         ELSE events'[r][type] = events[r][type]
  BY <1>1, <1>7
<1>9. ASSUME NEW q \in LedgerRuns, NEW type \in EventTypes
      PROVE  \/ events'[q][type] = events[q][type]
             \/ /\ q = r /\ type \in DOMAIN specs /\ IsNewSpec(r, source, type, specs[type])
                /\ events'[q][type] =
                      Append(events[q][type], [source |-> source, payload |-> specs[type]])
  BY <1>7, <1>8
<1>10. ASSUME NEW type \in DOMAIN specs, IsNewSpec(r, source, type, specs[type])
       PROVE  events'[r][type] =
                 Append(events[r][type], [source |-> source, payload |-> specs[type]])
  BY <1>8, <1>10
<1> QED
  BY <1>6, <1>7, <1>9, <1>10

\* A spec that was written before, or not, is told afterwards.
LEMMA AppendTells ==
    ASSUME LedgerTypeOK, NEW r \in LedgerRuns, NEW source \in EventSources, NEW specs,
           DOMAIN specs \subseteq EventTypes,
           \A type \in DOMAIN specs : specs[type] \in LedgerPayloads,
           events' = EventsAppended(r, source, specs), NEW type \in DOMAIN specs,
           WroteBefore(r, source, type) => NewestEvent(r, type).payload = specs[type]
    PROVE  (type \in TypesOf(r))' /\ (NewestEvent(r, type).payload)' = specs[type]
<1>1. events[r][type] \in Seq(LedgerEvent) /\ type \in EventTypes
  BY DEF LedgerTypeOK
<1> DEFINE event == [source |-> source, payload |-> specs[type]]
<1>2. CASE IsNewSpec(r, source, type, specs[type])
  <2>1. events'[r][type] = Append(events[r][type], event)
    BY <1>2, AppendFacts
  <2>2. /\ Len(events'[r][type]) = Len(events[r][type]) + 1 /\ Len(events[r][type]) \in Nat
        /\ events'[r][type][Len(events[r][type]) + 1] = event
    <3> HIDE DEF event
    <3> QED
      BY <1>1, <2>1
  <2>3. event.payload = specs[type]
    OBVIOUS
  <2>4. events'[r][type] # <<>>
    BY <2>2
  <2> QED
    BY <1>1, <2>2, <2>3, <2>4 DEF TypesOf, NewestEvent
<1>3. CASE ~IsNewSpec(r, source, type, specs[type])
  <2>1. events'[r][type] = events[r][type]
    BY <1>1, <1>3, AppendFacts
  <2>2. type \in TypesOf(r) /\ NewestEvent(r, type).payload = specs[type]
    <3>1. CASE WroteBefore(r, source, type)
      <4>1. events[r][type] # <<>>
        BY <1>1, <3>1 DEF WroteBefore
      <4> QED
        BY <1>1, <3>1, <4>1 DEF TypesOf
    <3>2. CASE ~WroteBefore(r, source, type)
      BY <1>3, <3>2 DEF IsNewSpec
    <3> QED
      BY <3>1, <3>2
  <2> QED
    BY <2>1, <2>2 DEF TypesOf, NewestEvent
<1> QED
  BY <1>2, <1>3

LEMMA AppendSources ==
    ASSUME LedgerTypeOK, NEW r \in LedgerRuns, NEW source \in EventSources, NEW specs,
           DOMAIN specs \subseteq EventTypes,
           \A type \in DOMAIN specs : specs[type] \in LedgerPayloads,
           events' = EventsAppended(r, source, specs),
           NEW q \in LedgerRuns, NEW type \in EventTypes, NEW other, WroteBefore(q, other, type)'
    PROVE  WroteBefore(q, other, type) \/ (q = r /\ other = source)
<1>1. events[q][type] \in Seq(LedgerEvent)
  BY DEF LedgerTypeOK
<1>2. CASE events'[q][type] = events[q][type]
  BY <1>2 DEF WroteBefore
<1>3. CASE q = r /\ events'[q][type] =
                       Append(events[q][type], [source |-> source, payload |-> specs[type]])
  <2>1. PICK event : event = [source |-> source, payload |-> specs[type]]
    OBVIOUS
  <2>2. events'[q][type] = Append(events[q][type], event) /\ event.source = source
    BY <1>3, <2>1
  <2>3. PICK i \in DOMAIN events'[q][type] : events'[q][type][i].source = other
    BY DEF WroteBefore
  <2>4. \/ i \in DOMAIN events[q][type] /\ events'[q][type][i] = events[q][type][i]
        \/ events'[q][type][i] = event
    BY <1>1, <2>2, <2>3
  <2> QED
    BY <1>3, <2>2, <2>3, <2>4 DEF WroteBefore
<1> QED
  BY <1>2, <1>3, AppendFacts

LEMMA TerminalSourceIs ==
    ASSUME NEW out \in AllOutputs, NEW other \in AllOutputs
    PROVE  /\ TerminalSource(out) \in EventSources
           /\ TerminalSource(out) = TerminalSource(other) => out = other
           /\ \A n \in Nat : StreamSource(n) \in EventSources /\ StreamSource(n) # TerminalSource(out)
BY DEF EventSources, TerminalSource, StreamSource

-----------------------------------------------------------------------------
LEMMA LedgerInitInv == LedgerInit => LedgerBooksInv
<1> SUFFICES ASSUME LedgerInit PROVE LedgerBooksInv
  OBVIOUS
<1>1. PICK out \in Outputs :
         runRow = [r \in LedgerRuns |->
             IF r <= OldRuns THEN [status |-> out.status, output |-> out, last |-> 0]
             ELSE NewRun("absent")]
  BY DEF LedgerInit
<1>2. out.status \in LedgerStatuses \ {"absent", "running"}
  BY DEF Outputs, LedgerStatuses
<1>3. \A r \in LedgerRuns :
         \/ runRow[r] = [status |-> out.status, output |-> out, last |-> 0]
         \/ runRow[r] = [status |-> "absent", output |-> NoOutput, last |-> 0]
  BY <1>1 DEF NewRun
<1>4. runRow \in [LedgerRuns -> LedgerRow]
  BY <1>1, <1>2 DEF LedgerRow, LedgerStatuses, AllOutputs, NewRun
<1>5. \A r \in LedgerRuns, type \in EventTypes : events[r][type] = <<>>
  BY DEF LedgerInit
<1>6. LedgerTypeOK
  BY <1>4, EmptySeq DEF LedgerInit, LedgerTypeOK
<1>7. OutputsStored
  BY <1>3 DEF OutputsStored, RunEnded, AllOutputs
<1>8. \A r \in LedgerRuns, type \in EventTypes : \A source : ~WroteBefore(r, source, type)
  BY <1>5, EmptySeq DEF WroteBefore
<1>9. SourcesStored
  BY <1>8 DEF SourcesStored
<1>10. SourceTells
  <2>1. \A r \in LedgerRuns : OutputTypes(runRow[r].output, FALSE) \subseteq EventTypes
    BY OutputTypesOK
  <2> QED
    BY <1>8, <2>1 DEF SourceTells
<1>11. LedgerTellsOutput
  BY <1>5 DEF LedgerTellsOutput, TypesOf
<1> QED
  BY <1>6, <1>7, <1>9, <1>10, <1>11 DEF LedgerBooksInv

\* A Run whose row and events stay is told as before.
LEMMA ToldAsBefore ==
    ASSUME LedgerBooksInv, NEW q \in LedgerRuns, RunEnded(q),
           runRow'[q] = runRow[q], events'[q] = events[q]
    PROVE  (\A type \in OutputTypes(runRow[q].output, FALSE) :
               /\ WroteBefore(q, TerminalSource(runRow[q].output), type) =>
                     NewestEvent(q, type).payload = PayloadOf(runRow[q].output, type)
               /\ "terminal" \in TypesOf(q) =>
                     /\ type \in TypesOf(q)
                     /\ NewestEvent(q, type).payload = PayloadOf(runRow[q].output, type))'
<1>1. PICK out, rows : out = runRow[q].output /\ rows = events[q]
  OBVIOUS
<1>2. \A type \in OutputTypes(out, FALSE) :
         (\E i \in DOMAIN rows[type] : rows[type][i].source = TerminalSource(out)) =>
            rows[type][Len(rows[type])].payload = PayloadOf(out, type)
  BY <1>1 DEF LedgerBooksInv, SourceTells, WroteBefore, NewestEvent
<1>3. rows["terminal"] # <<>> => \A type \in OutputTypes(out, FALSE) :
         /\ type \in EventTypes /\ rows[type] # <<>>
         /\ rows[type][Len(rows[type])].payload = PayloadOf(out, type)
  BY <1>1 DEF LedgerBooksInv, LedgerTellsOutput, TypesOf, NewestEvent, EventTypes
<1>4. out = runRow'[q].output /\ rows = events'[q]
  BY <1>1
<1> QED
  BY <1>2, <1>3, <1>4 DEF WroteBefore, NewestEvent, TypesOf

\* A Run that is still running may be started or shown more of; what is ended keeps
\* its row and its events.
LEMMA RunningKeeps ==
    ASSUME LedgerBooksInv, LedgerTypeOK', NEW r \in LedgerRuns, ~RunEnded(r), ~RunEnded(r)',
           \A q \in LedgerRuns : q # r => runRow'[q] = runRow[q] /\ events'[q] = events[q],
           \A type \in EventTypes, out \in AllOutputs :
              WroteBefore(r, TerminalSource(out), type)' => WroteBefore(r, TerminalSource(out), type)
    PROVE  LedgerBooksInv'
<1>1. \A q \in LedgerRuns : RunEnded(q)' => q # r /\ RunEnded(q)
  BY DEF RunEnded
<1>2. OutputsStored'
  BY <1>1 DEF LedgerBooksInv, OutputsStored
<1>3. \A q \in LedgerRuns, type \in EventTypes, out \in AllOutputs :
         WroteBefore(q, TerminalSource(out), type)' =>
            /\ q # r /\ WroteBefore(q, TerminalSource(out), type)
            /\ RunEnded(q) /\ runRow[q].output \in {out, ConflictOutput}
  BY DEF LedgerBooksInv, SourcesStored, WroteBefore
<1>4. SourcesStored'
  BY <1>3 DEF SourcesStored, RunEnded
<1>5. SourceTells'
  BY <1>1, ToldAsBefore DEF SourceTells
<1>6. LedgerTellsOutput'
  BY <1>1, ToldAsBefore DEF LedgerTellsOutput
<1> QED
  BY <1>2, <1>4, <1>5, <1>6 DEF LedgerBooksInv

\* An output that is written, for the first time or again, is told.
LEMMA OutputWritten ==
    ASSUME LedgerBooksInv, NEW r \in LedgerRuns, NEW out \in AllOutputs, NEW notified \in BOOLEAN,
           runRow' \in [LedgerRuns -> LedgerRow], UNCHANGED stream,
           events' = EventsAppended(r, TerminalSource(out), OutputSpecs(out, notified)),
           \A q \in LedgerRuns : q # r => runRow'[q] = runRow[q],
           RunEnded(r)', runRow'[r].output = out, runRow'[r].status = out.status,
           out # ConflictOutput =>
              \A type \in EventTypes, other \in AllOutputs :
                 WroteBefore(r, TerminalSource(other), type) => other = out,
           \A type \in OutputTypes(out, FALSE) :
              WroteBefore(r, TerminalSource(out), type) =>
                 NewestEvent(r, type).payload = PayloadOf(out, type)
    PROVE  LedgerBooksInv'
<1> DEFINE source == TerminalSource(out)
           specs == OutputSpecs(out, notified)
<1>1. /\ source \in EventSources /\ DOMAIN specs = OutputTypes(out, notified)
      /\ DOMAIN specs \subseteq EventTypes
      /\ \A type \in DOMAIN specs : specs[type] = PayloadOf(out, type)
      /\ \A type \in DOMAIN specs : specs[type] \in LedgerPayloads
  BY OutputTypesOK, OutputPayloads, TerminalSourceIs DEF OutputSpecs
<1>2. LedgerTypeOK /\ events' = EventsAppended(r, source, specs)
  BY DEF LedgerBooksInv
<1> HIDE DEF source, specs
<1>3. events' \in [LedgerRuns -> [EventTypes -> Seq(LedgerEvent)]]
  BY <1>1, <1>2, AppendFacts
<1>4. \A q \in LedgerRuns : q # r => events'[q] = events[q]
  BY <1>1, <1>2, AppendFacts
<1>5. LedgerTypeOK'
  BY <1>2, <1>3 DEF LedgerTypeOK
<1>6. \A q \in LedgerRuns : q # r => (RunEnded(q)' <=> RunEnded(q))
  BY DEF RunEnded
<1>7. OutputsStored'
  BY <1>6 DEF LedgerBooksInv, OutputsStored
<1>8. \A type \in OutputTypes(out, FALSE) :
         (type \in TypesOf(r))' /\ (NewestEvent(r, type).payload)' = PayloadOf(out, type)
  <2> TAKE type \in OutputTypes(out, FALSE)
  <2>1. type \in DOMAIN specs
    BY <1>1, OutputTypesOK
  <2>2. WroteBefore(r, source, type) => NewestEvent(r, type).payload = specs[type]
    BY <1>1, <2>1 DEF source
  <2> QED
    BY <1>1, <1>2, <2>1, <2>2, AppendTells
<1>9. \A q \in LedgerRuns, type \in EventTypes, other \in AllOutputs :
         WroteBefore(q, TerminalSource(other), type)' =>
            WroteBefore(q, TerminalSource(other), type) \/ (q = r /\ other = out)
  <2> SUFFICES ASSUME NEW q \in LedgerRuns, NEW type \in EventTypes, NEW other \in AllOutputs,
                      WroteBefore(q, TerminalSource(other), type)'
               PROVE  WroteBefore(q, TerminalSource(other), type) \/ (q = r /\ other = out)
    OBVIOUS
  <2>1. WroteBefore(q, TerminalSource(other), type) \/ (q = r /\ TerminalSource(other) = source)
    BY <1>1, <1>2, AppendSources
  <2> QED
    BY <2>1, TerminalSourceIs DEF source
<1>10. SourcesStored'
  BY <1>6, <1>9 DEF LedgerBooksInv, SourcesStored
<1>11. SourceTells'
  <2> SUFFICES ASSUME NEW q \in LedgerRuns, RunEnded(q)'
               PROVE  (\A type \in OutputTypes(runRow[q].output, FALSE) :
                         WroteBefore(q, TerminalSource(runRow[q].output), type) =>
                            NewestEvent(q, type).payload = PayloadOf(runRow[q].output, type))'
    BY DEF SourceTells
  <2>1. CASE q = r
    BY <1>8, <2>1
  <2>2. CASE q # r
    BY <1>4, <1>6, <2>2, ToldAsBefore
  <2> QED
    BY <2>1, <2>2
<1>12. LedgerTellsOutput'
  <2> SUFFICES ASSUME NEW q \in LedgerRuns, RunEnded(q)', ("terminal" \in TypesOf(q))',
                      NEW type \in OutputTypes(runRow'[q].output, FALSE)
               PROVE  /\ (type \in TypesOf(q))'
                      /\ (NewestEvent(q, type).payload)' = PayloadOf(runRow'[q].output, type)
    BY DEF LedgerTellsOutput
  <2>1. CASE q = r
    BY <1>8, <2>1
  <2>2. CASE q # r
    BY <1>4, <1>6, <2>2, ToldAsBefore
  <2> QED
    BY <2>1, <2>2
<1> QED
  BY <1>5, <1>7, <1>10, <1>11, <1>12 DEF LedgerBooksInv

LEMMA StartRunStep ==
    ASSUME LedgerBooksInv, NEW r \in LedgerRuns, StartRun(r) PROVE LedgerBooksInv'
<1>1. /\ runRow \in [LedgerRuns -> LedgerRow]
      /\ runRow' = [runRow EXCEPT ![r] = [status |-> "running", output |-> NoOutput, last |-> 0]]
  BY DEF StartRun, NewRun, LedgerBooksInv, LedgerTypeOK
<1>2. [status |-> "running", output |-> NoOutput, last |-> 0] \in LedgerRow
  BY DEF LedgerRow, LedgerStatuses
<1>3. UNCHANGED <<stream, events>> /\ ~RunEnded(r)
  BY DEF StartRun, RunEnded
<1>4. /\ runRow' \in [LedgerRuns -> LedgerRow] /\ ~RunEnded(r)'
      /\ \A q \in LedgerRuns : q # r => runRow'[q] = runRow[q]
  BY <1>1, <1>2 DEF RunEnded
<1>5. LedgerTypeOK'
  BY <1>3, <1>4 DEF LedgerBooksInv, LedgerTypeOK
<1>6. \A type, source : WroteBefore(r, source, type)' => WroteBefore(r, source, type)
  BY <1>3 DEF WroteBefore
<1> QED
  BY <1>3, <1>4, <1>5, <1>6, RunningKeeps

LEMMA StreamGrowsStep ==
    ASSUME LedgerBooksInv, NEW r \in LedgerRuns, StreamGrows(r) PROVE LedgerBooksInv'
<1>1. PICK u \in Updates : stream' = [stream EXCEPT ![r] = Append(@, u)]
  BY DEF StreamGrows
<1>2. stream \in [LedgerRuns -> Seq(Updates)]
  BY DEF LedgerBooksInv, LedgerTypeOK
<1>3. stream' \in [LedgerRuns -> Seq(Updates)]
  BY <1>1, <1>2
<1>4. UNCHANGED <<runRow, events>> /\ ~RunEnded(r) /\ ~RunEnded(r)'
  BY DEF StreamGrows, RunEnded
<1>5. LedgerTypeOK'
  BY <1>3, <1>4 DEF LedgerBooksInv, LedgerTypeOK
<1>6. \A type, source : WroteBefore(r, source, type)' => WroteBefore(r, source, type)
  BY <1>4 DEF WroteBefore
<1> QED
  BY <1>4, <1>5, <1>6, RunningKeeps

LEMMA PersistProgressiveUpdateStep ==
    ASSUME LedgerBooksInv, NEW r \in LedgerRuns, PersistProgressiveUpdate(r) PROVE LedgerBooksInv'
<1>1. LedgerTypeOK /\ UNCHANGED stream /\ runRow[r].status = "running"
  BY DEF LedgerBooksInv, PersistProgressiveUpdate
<1>2. PICK n \in 1..Len(stream[r]) :
         /\ events' = EventsAppended(r, StreamSource(n), UpdateSpecs(stream[r][n]))
         /\ runRow' = [runRow EXCEPT ![r].last = n]
  BY DEF PersistProgressiveUpdate
<1>3. n \in Nat /\ stream[r][n] \in Updates
  BY <1>1 DEF LedgerTypeOK
<1>4. PICK specs : specs = UpdateSpecs(stream[r][n])
  OBVIOUS
<1>5. /\ DOMAIN specs \subseteq EventTypes
      /\ \A type \in DOMAIN specs : specs[type] \in LedgerPayloads
      /\ events' = EventsAppended(r, StreamSource(n), specs)
  BY <1>2, <1>3, <1>4, UpdatePayloads
<1>6. StreamSource(n) \in EventSources
  BY <1>3 DEF EventSources
<1>7. /\ events' \in [LedgerRuns -> [EventTypes -> Seq(LedgerEvent)]]
      /\ \A q \in LedgerRuns : q # r => events'[q] = events[q]
  BY <1>1, <1>5, <1>6, AppendFacts
<1>8. /\ runRow' \in [LedgerRuns -> LedgerRow] /\ runRow'[r].status = "running"
      /\ \A q \in LedgerRuns : q # r => runRow'[q] = runRow[q]
  <2>1. PICK row : row = [runRow[r] EXCEPT !.last = n]
    OBVIOUS
  <2>2. runRow[r] \in LedgerRow
    BY <1>1 DEF LedgerTypeOK
  <2>3. row \in LedgerRow /\ row.status = "running"
    BY <1>1, <1>3, <2>1, <2>2 DEF LedgerRow
  <2>4. runRow' = [runRow EXCEPT ![r] = row]
    BY <1>2, <2>1
  <2> QED
    BY <1>1, <2>3, <2>4 DEF LedgerTypeOK
<1>9. LedgerTypeOK' /\ ~RunEnded(r) /\ ~RunEnded(r)'
  BY <1>1, <1>7, <1>8 DEF LedgerTypeOK, RunEnded
<1>10. ASSUME NEW type \in EventTypes, NEW out \in AllOutputs,
              WroteBefore(r, TerminalSource(out), type)'
       PROVE  WroteBefore(r, TerminalSource(out), type)
  <2>1. TerminalSource(out) # StreamSource(n)
    BY <1>3, TerminalSourceIs
  <2> QED
    BY <1>1, <1>5, <1>6, <1>10, <2>1, AppendSources
<1> QED
  BY <1>7, <1>8, <1>9, <1>10, RunningKeeps

\* The row of a Run that ends, or whose output the conflict replaces.
LEMMA RowEnded ==
    ASSUME LedgerTypeOK, NEW r \in LedgerRuns, NEW out \in AllOutputs,
           runRow' = [runRow EXCEPT ![r].status = out.status, ![r].output = out]
    PROVE  /\ runRow' \in [LedgerRuns -> LedgerRow] /\ RunEnded(r)'
           /\ runRow'[r].output = out /\ runRow'[r].status = out.status
           /\ \A q \in LedgerRuns : q # r => runRow'[q] = runRow[q]
<1>1. PICK row : row = [runRow[r] EXCEPT !.status = out.status, !.output = out]
  OBVIOUS
<1>2. runRow[r] \in LedgerRow /\ runRow \in [LedgerRuns -> LedgerRow]
  BY DEF LedgerTypeOK
<1>3. out.status \in LedgerStatuses \ {"absent", "running"}
  BY DEF AllOutputs, Outputs, ConflictOutput, LedgerStatuses
<1>4. row \in LedgerRow /\ row.output = out /\ row.status = out.status
  BY <1>1, <1>2, <1>3 DEF LedgerRow
<1>5. runRow' = [runRow EXCEPT ![r] = row]
  BY <1>1, <1>2 DEF LedgerRow
<1>6. runRow' \in [LedgerRuns -> LedgerRow] /\ runRow'[r] = row
  BY <1>2, <1>4, <1>5
<1> QED
  BY <1>2, <1>3, <1>4, <1>5, <1>6 DEF RunEnded

LEMMA PersistTerminalOutputStep ==
    ASSUME LedgerBooksInv, NEW r \in LedgerRuns, PersistTerminalOutput(r) PROVE LedgerBooksInv'
<1>1. PICK out \in Outputs, notify \in BOOLEAN :
         /\ runRow' = [runRow EXCEPT ![r].status = out.status, ![r].output = out]
         /\ events' = EventsAppended(r, TerminalSource(out),
               OutputSpecs(out, notify /\ out.status = "succeeded" /\ out.kind = "analysis"))
  BY DEF PersistTerminalOutput
<1>2. PICK notified \in BOOLEAN :
         events' = EventsAppended(r, TerminalSource(out), OutputSpecs(out, notified))
  BY <1>1
<1>3. LedgerTypeOK /\ UNCHANGED stream /\ ~RunEnded(r) /\ out \in AllOutputs
  BY DEF LedgerBooksInv, PersistTerminalOutput, RunEnded, AllOutputs
<1>4. /\ runRow' \in [LedgerRuns -> LedgerRow] /\ RunEnded(r)'
      /\ runRow'[r].output = out /\ runRow'[r].status = out.status
      /\ \A q \in LedgerRuns : q # r => runRow'[q] = runRow[q]
  BY <1>1, <1>3, RowEnded
<1>5. \A type \in EventTypes, other \in AllOutputs : ~WroteBefore(r, TerminalSource(other), type)
  BY <1>3 DEF LedgerBooksInv, SourcesStored
<1>6. \A type \in OutputTypes(out, FALSE) : ~WroteBefore(r, TerminalSource(out), type)
  BY <1>3, <1>5, OutputTypesOK
<1> QED
  BY <1>2, <1>3, <1>4, <1>5, <1>6, OutputWritten

LEMMA PersistConflictStep ==
    ASSUME LedgerBooksInv, NEW r \in LedgerRuns, PersistConflict(r) PROVE LedgerBooksInv'
<1>1. /\ runRow' = [runRow EXCEPT ![r].status = ConflictOutput.status,
                                  ![r].output = ConflictOutput]
      /\ events' = EventsAppended(r, TerminalSource(ConflictOutput),
                                  OutputSpecs(ConflictOutput, FALSE))
  BY ConflictSpecs DEF PersistConflict
<1>2. LedgerTypeOK /\ UNCHANGED stream /\ ConflictOutput \in AllOutputs /\ FALSE \in BOOLEAN
  BY DEF LedgerBooksInv, PersistConflict, AllOutputs
<1>3. /\ runRow' \in [LedgerRuns -> LedgerRow] /\ RunEnded(r)'
      /\ runRow'[r].output = ConflictOutput /\ runRow'[r].status = ConflictOutput.status
      /\ \A q \in LedgerRuns : q # r => runRow'[q] = runRow[q]
  BY <1>1, <1>2, RowEnded
<1>4. runRow[r].output # ConflictOutput
  <2>1. RunEnded(r) /\ runRow[r].status # "failed"
    BY DEF PersistConflict, RunEnded
  <2> QED
    BY <2>1, ConflictSpecs DEF LedgerBooksInv, OutputsStored
<1>5. \A type \in EventTypes : ~WroteBefore(r, TerminalSource(ConflictOutput), type)
  BY <1>2, <1>4 DEF LedgerBooksInv, SourcesStored
<1>6. \A type \in OutputTypes(ConflictOutput, FALSE) :
         ~WroteBefore(r, TerminalSource(ConflictOutput), type)
  BY <1>2, <1>5, OutputTypesOK
<1> QED
  BY <1>1, <1>2, <1>3, <1>6, OutputWritten

LEMMA RepairEventsStep == ASSUME LedgerBooksInv, RepairEvents PROVE LedgerBooksInv'
<1>1. PICK r \in LedgerRuns :
         /\ RunEnded(r)
         /\ events' = EventsAppended(r, TerminalSource(runRow[r].output),
                                     OutputSpecs(runRow[r].output, FALSE))
  BY DEF RepairEvents, IsOldestGap, HasEventGap
<1>2. PICK out : out = runRow[r].output
  OBVIOUS
<1>3. out \in AllOutputs /\ out.status = runRow[r].status
  BY <1>1, <1>2 DEF LedgerBooksInv, OutputsStored
<1>4. UNCHANGED <<runRow, stream>> /\ LedgerTypeOK /\ FALSE \in BOOLEAN
  BY DEF RepairEvents, LedgerBooksInv
<1>5. /\ runRow' \in [LedgerRuns -> LedgerRow] /\ RunEnded(r)'
      /\ runRow'[r].output = out /\ runRow'[r].status = out.status
      /\ \A q \in LedgerRuns : q # r => runRow'[q] = runRow[q]
  BY <1>1, <1>2, <1>3, <1>4 DEF LedgerTypeOK, RunEnded
<1>6. out # ConflictOutput => \A type \in EventTypes, other \in AllOutputs :
         WroteBefore(r, TerminalSource(other), type) => other = out
  BY <1>2 DEF LedgerBooksInv, SourcesStored
<1>7. \A type \in OutputTypes(out, FALSE) :
         WroteBefore(r, TerminalSource(out), type) =>
            NewestEvent(r, type).payload = PayloadOf(out, type)
  BY <1>1, <1>2 DEF LedgerBooksInv, SourceTells
<1>8. events' = EventsAppended(r, TerminalSource(out), OutputSpecs(out, FALSE))
  BY <1>1, <1>2
<1> QED
  BY <1>3, <1>4, <1>5, <1>6, <1>7, <1>8, OutputWritten

LEMMA LedgerNextStep == ASSUME LedgerBooksInv, [LedgerNext]_ledgerVars PROVE LedgerBooksInv'
<1>1. CASE LedgerNext
  BY <1>1, StartRunStep, StreamGrowsStep, PersistProgressiveUpdateStep,
     PersistTerminalOutputStep, PersistConflictStep, RepairEventsStep DEF LedgerNext
<1>2. CASE UNCHANGED ledgerVars
  <2>1. UNCHANGED <<runRow, stream, events>>
    BY <1>2 DEF ledgerVars
  <2> QED
    BY <2>1 DEF LedgerBooksInv, LedgerTypeOK, OutputsStored, SourcesStored, SourceTells,
                LedgerTellsOutput, RunEnded, WroteBefore, NewestEvent, TypesOf
<1> QED
  BY <1>1, <1>2

\* For every number of Runs and updates and all the payloads, the newest event of
\* every part of an ended Run's output holds that part (projections/domain_events.py
\* append_event_specs, with the stream's updates, replays, the conflict and the repair).
THEOREM LedgerTellsOutputHolds == LedgerSpec => []LedgerTellsOutput
<1>1. LedgerBooksInv => LedgerTellsOutput
  BY DEF LedgerBooksInv
<1> QED
  BY LedgerInitInv, LedgerNextStep, <1>1, PTL DEF LedgerSpec
=============================================================================
