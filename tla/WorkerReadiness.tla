----------------------------- MODULE WorkerReadiness -----------------------------
(***************************************************************************)
(* Whether the Product says that it is ready: the loops of the worker      *)
(* process and the monitor beside them (workers/runtime.py,                *)
(* workers/__main__.py), the monitor of the Agent Server                   *)
(* (auth/agent_healthcheck.py) and the endpoint that asks both and the     *)
(* database (readiness in api/app.py).  Time passes in ticks; ages count   *)
(* ticks and stop at their bounds.                                         *)
(***************************************************************************)
EXTENDS Integers, FiniteSets

CONSTANTS
    Loops,              \* the durable workers of the process
    LoopStaleAfter,     \* readiness_stale_after_seconds
    FailureThreshold,   \* readiness_failure_threshold, of loops and of probes
    AgentStaleAfter,    \* agent_readiness_stale_after_seconds
    ProbeTimeout,       \* agent_readiness_probe_timeout_seconds
    ShutdownBudget      \* shutdown_budget_seconds

ASSUME ReadinessAssumption ==
    {LoopStaleAfter, FailureThreshold, AgentStaleAfter, ProbeTimeout, ShutdownBudget} \subseteq Nat \ {0}

VARIABLES
    process,    \* "down", "running", "stopping"; ticks since the stop, and whether the
                \* monitor of the loops has run in this tick
    loops,      \* what the runtime keeps about each worker
    loopsReady, \* WorkerRuntime._readiness
    probe,      \* what the Agent Server's monitor keeps
    world       \* whether the Agent Server answers; ticks since it stopped

readinessVars == <<process, loops, loopsReady, probe, world>>

NewLoop == [phase |-> "between", age |-> 0, failures |-> 0, succeeded |-> FALSE]
NewProbe == [live |-> FALSE, busy |-> FALSE, took |-> 0, saw |-> FALSE,
             once |-> FALSE, failures |-> 0, age |-> 0]

ReadinessInit ==
    /\ process = [state |-> "down", since |-> 0, checked |-> FALSE]
    /\ loops = [w \in Loops |-> NewLoop]
    /\ loopsReady = FALSE
    /\ probe = NewProbe
    /\ world = [agent |-> TRUE, silent |-> 0]

Capped(n, bound) == IF n < bound THEN n ELSE bound

-----------------------------------------------------------------------------
(* The worker process *)

StaleLoops(ls) == {w \in Loops : ls[w].phase = "running" /\ ls[w].age >= LoopStaleAfter}

\* Mutant: only finished iterations count, a worker that hangs is not seen.
ReadyByResults(ls, state) ==
    /\ state = "running"
    /\ \A w \in Loops : ls[w].succeeded /\ ls[w].failures < FailureThreshold

\* _refresh_readiness
RefreshedReadiness(ls, state) ==
    /\ state = "running" /\ StaleLoops(ls) = {}
    /\ \A w \in Loops : ls[w].succeeded /\ ls[w].failures < FailureThreshold

\* WorkerRuntime.run up to its wait
StartRuntime ==
    /\ process.state = "down"
    /\ process' = [state |-> "running", since |-> 0, checked |-> TRUE]
    /\ loops' = [w \in Loops |-> NewLoop]
    /\ loopsReady' = FALSE
    /\ UNCHANGED <<probe, world>>

\* _run_loop: one iteration begins
BeginIteration(w) ==
    /\ process.state = "running" /\ loops[w].phase = "between"
    /\ loops' = [loops EXCEPT ![w].phase = "running", ![w].age = 0]
    /\ UNCHANGED <<process, loopsReady, probe, world>>

\* ... and ends, well or with an exception, and the readiness is computed anew
EndIteration(w, ok) ==
    /\ loops[w].phase = "running" /\ process.state \in {"running", "stopping"}
    /\ loops' = [loops EXCEPT ![w] =
          [phase     |-> IF process.state = "running" THEN "between" ELSE "ended",
           age       |-> 0,
           failures  |-> IF ok THEN 0 ELSE Capped(@.failures + 1, FailureThreshold),
           succeeded |-> @.succeeded \/ ok]]
    /\ loopsReady' = RefreshedReadiness(loops', process.state)
    /\ UNCHANGED <<process, probe, world>>

\* _monitor_readiness, which wakes more often than loops grow stale
MonitorLoops ==
    /\ process.state = "running" /\ ~process.checked
    /\ process' = [process EXCEPT !.checked = TRUE]
    /\ loopsReady' = RefreshedReadiness(loops, process.state)
    /\ UNCHANGED <<loops, probe, world>>

\* a signal: no longer ready, every task cancelled, leases released meanwhile
StopRuntime ==
    /\ process.state = "running"
    /\ process' = [state |-> "stopping", since |-> 0, checked |-> TRUE]
    /\ loopsReady' = FALSE
    /\ loops' = [w \in Loops |-> [loops[w] EXCEPT !.phase = IF @ = "between" THEN "ended" ELSE @]]
    /\ UNCHANGED <<probe, world>>

\* a cancelled iteration gives up at its next await
CancelIteration(w) ==
    /\ process.state = "stopping" /\ loops[w].phase = "running"
    /\ loops' = [loops EXCEPT ![w].phase = "ended"]
    /\ UNCHANGED <<process, loopsReady, probe, world>>

\* everything ended, or the budget is used up
EndRuntime ==
    /\ process.state = "stopping"
    /\ (\A w \in Loops : loops[w].phase = "ended") \/ process.since >= ShutdownBudget
    /\ process' = [state |-> "down", since |-> 0, checked |-> FALSE]
    /\ loops' = [w \in Loops |-> NewLoop]
    /\ UNCHANGED <<loopsReady, probe, world>>

-----------------------------------------------------------------------------
(* The monitor of the Agent Server *)

StartMonitor ==
    /\ ~probe.live
    /\ probe' = [NewProbe EXCEPT !.live = TRUE]
    /\ UNCHANGED <<process, loops, loopsReady, world>>

StopMonitor ==
    /\ probe.live
    /\ probe' = NewProbe
    /\ UNCHANGED <<process, loops, loopsReady, world>>

\* probe_once begins check_agent_server
BeginProbe ==
    /\ probe.live /\ ~probe.busy
    /\ probe' = [probe EXCEPT !.busy = TRUE, !.took = 0, !.saw = FALSE]
    /\ UNCHANGED <<process, loops, loopsReady, world>>

\* the assistant, the search readiness and the health that it asks for
AgentAnswersProbe ==
    /\ probe.busy /\ ~probe.saw /\ world.agent
    /\ probe' = [probe EXCEPT !.saw = TRUE]
    /\ UNCHANGED <<process, loops, loopsReady, world>>

\* probe_once ends: an error, a time-out, or every answer valid
EndProbe(ok) ==
    /\ probe.busy /\ (ok => probe.saw)
    /\ probe' = [probe EXCEPT !.busy = FALSE, !.took = 0, !.saw = FALSE,
                              !.once = @ \/ ok,
                              !.failures = IF ok THEN 0 ELSE Capped(@ + 1, FailureThreshold),
                              !.age = IF ok THEN 0 ELSE @]
    /\ UNCHANGED <<process, loops, loopsReady, world>>

\* AgentReadinessMonitor.readiness
AgentReady ==
    /\ probe.live /\ probe.once /\ probe.failures < FailureThreshold
    /\ probe.age <= AgentStaleAfter

-----------------------------------------------------------------------------
(* The world, and the endpoint *)

AgentChanges ==
    /\ world' = [world EXCEPT !.agent = ~@, !.silent = 0]
    /\ UNCHANGED <<process, loops, loopsReady, probe>>

\* A tick.  The monitor of the loops runs in every tick, a probe is cut off at
\* its time-out; how long an iteration takes is up to the worker.
Tick ==
    /\ process.state = "running" => process.checked
    /\ probe.busy => probe.took < ProbeTimeout
    /\ process' = [process EXCEPT !.checked = FALSE, !.since = Capped(@ + 1, ShutdownBudget)]
    /\ loops' = [w \in Loops |->
          [loops[w] EXCEPT !.age = IF loops[w].phase = "running"
                                   THEN Capped(@ + 1, LoopStaleAfter + 1) ELSE 0]]
    /\ probe' = [probe EXCEPT !.took = IF probe.busy THEN @ + 1 ELSE 0,
                              !.age = Capped(@ + 1, AgentStaleAfter + 1)]
    /\ world' = [world EXCEPT !.silent = IF world.agent THEN 0
                                         ELSE Capped(@ + 1, AgentStaleAfter + ProbeTimeout + 1)]
    /\ UNCHANGED loopsReady

\* readiness of api/app.py, which also asks the database
ProductReady == AgentReady /\ loopsReady

ReadinessNext ==
    \/ StartRuntime \/ MonitorLoops \/ StopRuntime \/ EndRuntime
    \/ \E w \in Loops : \/ BeginIteration(w) \/ CancelIteration(w)
                        \/ \E ok \in BOOLEAN : EndIteration(w, ok)
    \/ StartMonitor \/ StopMonitor \/ BeginProbe \/ AgentAnswersProbe
    \/ (\E ok \in BOOLEAN : EndProbe(ok))
    \/ AgentChanges \/ Tick

ReadinessSpec == ReadinessInit /\ [][ReadinessNext]_readinessVars

-----------------------------------------------------------------------------
(* Properties. *)

\* The Product is never called ready on old news: not while it shuts down, not
\* before every worker has finished a round since the start, not once a worker
\* has hung for longer than its limit and one round of the monitor, and not once
\* the Agent Server has been silent for longer than its limit and one probe.
ReadyIsHonest ==
    ProductReady =>
        /\ process.state = "running"
        /\ \A w \in Loops : /\ loops[w].succeeded /\ loops[w].failures < FailureThreshold
                            /\ loops[w].age < LoopStaleAfter + 1
        /\ world.silent <= AgentStaleAfter + ProbeTimeout
=============================================================================
