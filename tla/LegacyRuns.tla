------------------------------ MODULE LegacyRuns ------------------------------
(***************************************************************************)
(* The runs of the legacy alert application.  A run is started by hand or  *)
(* by the scheduler, which takes the "plan-run" job lock first.  The       *)
(* legacy workflow fetches a market snapshot, searches when the snapshot   *)
(* has gaps, lets the shadow swarm audit the evidence, asks the decision   *)
(* engine for a plan and puts the plan through the gates of LegacyGates;   *)
(* an exception on the way becomes a blocked "no trade" plan.  The result  *)
(* is then persisted: plan row, trace, push, notification row.  In the     *)
(* controlled modes only the swarm runs and the plan is always blocked.    *)
(*                                                                         *)
(* Abstractions.  The data of a run are chosen from the constants below.   *)
(* Slow steps take any time up to MaxDelay (units of 30 s).  Spans, LLM    *)
(* audit rows and the candidate audit, which change no verdict, are left   *)
(* out.  The lock's 30 minutes pass as one step (JobLockExpires): nothing  *)
(* in the code bounds a job, job_timeout_seconds is not read.              *)
(***************************************************************************)
EXTENDS LegacyGates

CONSTANTS LegacyRunIds,      \* how many runs a behaviour has, and their trace ids
          LegacySchedulers,  \* scheduler processes
          ExecutionModes,    \* workflow.execution_mode of the processes
          MarketSnapshots,   \* what the market provider may return
          EventPoints,       \* event status points; NoEvent when disabled
          SwarmReports,      \* outcomes of the shadow swarm
          DecisionPayloads,  \* the plans the engine may print
          SuppliedPlanIds,   \* plan_id values an engine may put in its payload
          RequestSymbol, MaxDelay, SendFailureAlerts,
          MaxPushAttempts    \* retry_count + 1

(* What the providers, the swarm's orchestrator and the plan parser hand   *)
(* over.  No provider knows liquidations: both say so in "unavailable".    *)
SwarmOutcomes == {"ok", "raised", "timeout", "rejected", "mismatch", "unconfigured",
                  "partial", "hard_block", "tool_hard_block"}

ProvidedSnapshot(snapshot) ==
    /\ DOMAIN snapshot = {"symbol", "event", "added", "unavailable", "points"}
    /\ snapshot.added = {}
    /\ "liquidation" \notin DOMAIN snapshot.points
    /\ \A name \in DOMAIN snapshot.points : snapshot.points[name].age \in Int

ParsedPlan(plan) ==
    {plan.probability, plan.entry_trigger, plan.stop_price, plan.target_1, plan.target_2}
        \subseteq Int

ASSUME LegacyAssumption ==
    /\ \A snapshot \in MarketSnapshots : ProvidedSnapshot(snapshot)
    /\ \A swarm \in SwarmReports : \A agent \in DOMAIN swarm : swarm[agent] \in SwarmOutcomes
    /\ \A plan \in DecisionPayloads : ParsedPlan(plan)

VARIABLES legacyRuns,        \* run -> its progress and the data it has gathered
          planRows,          \* the plan_runs table, by plan_id
          traceRows,         \* the traces table
          alerts,            \* what arrived on the phone
          jobLock,           \* the row of job_locks: "none", "live" or "expired"
          schedulers         \* a scheduler is "idle", has "seen" the lock free, or "works"

legacyVars == <<legacyRuns, planRows, traceRows, alerts, jobLock, schedulers>>

NoEvent == [source |-> "none"]
NoSnapshot == [symbol |-> "none"]
NoPlan == [main_action |-> "no trade", id |-> "built"]
NoRow == [trace |-> "none", allowed |-> FALSE]
JustNow == [sinceFetch |-> 0, sinceSearch |-> 0, sincePlan |-> 0]

FreshRun == [stage |-> "unused", owner |-> "none", snapshot |-> NoSnapshot,
             swarm |-> AuditFailed, plan |-> NoPlan, elapsed |-> JustNow,
             allowed |-> FALSE, error |-> FALSE, attempts |-> 0]

Later(elapsed, d) == [field \in DOMAIN elapsed |-> elapsed[field] + d]

(* DecisionPlan.from_payload: a plan_id in the payload wins over the hash. *)
(* The hash covers the time of the run, so it stands for the run itself.   *)
PlanId(r) == IF legacyRuns[r].plan.id = "built" THEN r ELSE legacyRuns[r].plan.id

LegacyInit ==
    /\ legacyRuns = [r \in LegacyRunIds |-> FreshRun]
    /\ planRows = [id \in SuppliedPlanIds \cup LegacyRunIds |-> NoRow]
    /\ traceRows = [r \in LegacyRunIds |-> [status |-> "none", planId |-> "none"]]
    /\ alerts = {}
    /\ jobLock = "none"
    /\ schedulers = [s \in LegacySchedulers |-> "idle"]

At(r, stage) == legacyRuns[r].stage = stage

-----------------------------------------------------------------------------
(* RunExecutor.submit *)

StartTrace(r, owner, mode) ==
    /\ At(r, "unused")
    /\ legacyRuns' = [legacyRuns EXCEPT ![r].owner = owner,
           ![r].stage = IF mode = "legacy" THEN "fetch" ELSE "audit"]
    /\ traceRows' = [traceRows EXCEPT ![r].status = "running"]

ManualRun(r) ==
    /\ \E mode \in ExecutionModes : StartTrace(r, "api", mode)
    /\ UNCHANGED <<planRows, alerts, jobLock, schedulers>>

(* JobLock.acquire: the SELECT opens no transaction ... *)
ReadJobLock(s) ==
    /\ schedulers[s] = "idle"
    /\ jobLock # "live"
    /\ schedulers' = [schedulers EXCEPT ![s] = "seen"]
    /\ UNCHANGED <<legacyRuns, planRows, traceRows, alerts, jobLock>>

(* ... and the INSERT OR REPLACE does not look again. *)
TakeJobLock(s) ==
    /\ schedulers[s] = "seen"
    /\ jobLock' = "live"
    /\ schedulers' = [schedulers EXCEPT ![s] = "works"]
    /\ \E r \in LegacyRunIds, mode \in ExecutionModes : StartTrace(r, s, mode)
    /\ UNCHANGED <<planRows, alerts>>

JobLockExpires ==
    /\ jobLock = "live"
    /\ jobLock' = "expired"
    /\ UNCHANGED <<legacyRuns, planRows, traceRows, alerts, schedulers>>

(* The job has returned or raised; the row is deleted whoever wrote it.    *)
ReleaseJobLock(s) ==
    /\ schedulers[s] = "works"
    /\ \A r \in LegacyRunIds : legacyRuns[r].owner = s =>
            legacyRuns[r].stage \in {"done", "raised"}
    /\ schedulers' = [schedulers EXCEPT ![s] = "idle"]
    /\ jobLock' = "none"
    /\ UNCHANGED <<legacyRuns, planRows, traceRows, alerts>>

-----------------------------------------------------------------------------
(* LegacyDecisionWorkflow.run *)

EnrichWithEventStatus(snapshot, event) ==
    IF event = NoEvent \/ EVENT_FACT \in DOMAIN snapshot.points THEN snapshot
    ELSE [snapshot EXCEPT
            !.points = [name \in DOMAIN @ \cup {EVENT_FACT} |->
                           IF name = EVENT_FACT THEN [source |-> event.source, age |-> 0]
                           ELSE @[name]],
            !.event = event]

FetchMarket(r) ==
    /\ At(r, "fetch")
    /\ \E snapshot \in MarketSnapshots, event \in EventPoints :
        legacyRuns' = [legacyRuns EXCEPT ![r].stage = "research",
            ![r].snapshot = EnrichWithEventStatus(snapshot, event)]
    /\ UNCHANGED <<planRows, traceRows, alerts, jobLock, schedulers>>

CORE_MARKET_POINTS == EXECUTION_FACT_TYPES \cup {"funding_rate", "open_interest"}

NeedsResearchFallback(snapshot) ==
    \/ ~(CORE_MARKET_POINTS \subseteq DOMAIN snapshot.points)
    \/ StalePoints(snapshot, JustNow) \cap CORE_MARKET_POINTS # {}
    \/ "timeout" \in snapshot.unavailable

(* Search results become web_* points; they never replace a market point.  *)
SynthesizeSearchEvidence(snapshot, found) ==
    [snapshot EXCEPT
        !.points = [name \in DOMAIN @ \cup found |->
                       IF name \in found THEN [source |-> "search_derived", age |-> 0]
                       ELSE @[name]],
        !.added = found,
        !.unavailable = @ \cup (IF EXECUTION_FACT_TYPES \subseteq DOMAIN snapshot.points
                                THEN {} ELSE {"confidence_cap"})]

Research(r) ==
    /\ At(r, "research")
    /\ LET run == legacyRuns[r] IN
        \/ /\ ~NeedsResearchFallback(run.snapshot)
           /\ legacyRuns' = [legacyRuns EXCEPT ![r].stage = "swarm"]
        \/ /\ NeedsResearchFallback(run.snapshot)
           /\ \E found \in {{}, {"web_mark"}}, d \in 0..MaxDelay :
                legacyRuns' = [legacyRuns EXCEPT ![r].stage = "swarm",
                    ![r].snapshot = SynthesizeSearchEvidence(@, found),
                    ![r].elapsed.sinceFetch = d]
    /\ UNCHANGED <<planRows, traceRows, alerts, jobLock, schedulers>>

RunShadowSwarm(r) ==
    /\ At(r, "swarm")
    /\ \E swarm \in SwarmReports :
        legacyRuns' = [legacyRuns EXCEPT ![r].stage = "decide", ![r].swarm = swarm]
    /\ UNCHANGED <<planRows, traceRows, alerts, jobLock, schedulers>>

(* The engine answers and the parser accepts: whatever final_input_mode     *)
(* says, the prompt is the legacy one, for the candidate is never ready.    *)
DecideFinal(r) ==
    /\ At(r, "decide")
    /\ \E plan \in DecisionPayloads, d \in 0..MaxDelay :
        legacyRuns' = [legacyRuns EXCEPT ![r].stage = "control", ![r].plan = plan,
            ![r].elapsed = [Later(@, d) EXCEPT !.sincePlan = 0]]
    /\ UNCHANGED <<planRows, traceRows, alerts, jobLock, schedulers>>

(* What a blocked run gathered goes into its plan row and nowhere else, so *)
(* it is forgotten here.                                                   *)
BlockedRun(run, id, error) ==
    [FreshRun EXCEPT !.stage = "journal", !.owner = run.owner,
                     !.plan.id = id, !.error = error]

(* The candidate sidecar may ask the engine once more before the checks.   *)
ControlDecision(r) ==
    /\ At(r, "control")
    /\ \E d \in 0..MaxDelay :
        LET run == legacyRuns[r]
            elapsed == Later(run.elapsed, d)
            allowed == MergeRiskVerdicts(RequestSymbol, run.plan, run.snapshot,
                                         run.swarm, elapsed)
        IN  legacyRuns' = [legacyRuns EXCEPT ![r] =
                IF allowed
                THEN [run EXCEPT !.stage = "journal", !.elapsed = elapsed, !.allowed = TRUE]
                ELSE BlockedRun(run, run.plan.id, FALSE)]
    /\ UNCHANGED <<planRows, traceRows, alerts, jobLock, schedulers>>

(* Any exception inside the workflow, an unparsable plan among them, ends  *)
(* in a blocked plan with an id of its own.                                *)
BlockedFailurePlan(r) ==
    /\ legacyRuns[r].stage \in {"fetch", "research", "decide", "control"}
    /\ legacyRuns' = [legacyRuns EXCEPT ![r] = BlockedRun(@, "built", TRUE)]
    /\ UNCHANGED <<planRows, traceRows, alerts, jobLock, schedulers>>

(* The controlled modes: no snapshot, a blocked plan, and no notification. *)
AuditOnlyRun(r) ==
    /\ At(r, "audit")
    /\ \E swarm \in SwarmReports :
        legacyRuns' = [legacyRuns EXCEPT ![r].stage = "journal", ![r].swarm = swarm,
            ![r].attempts = MaxPushAttempts]
    /\ UNCHANGED <<planRows, traceRows, alerts, jobLock, schedulers>>

-----------------------------------------------------------------------------
(* persist_run_result *)

AppendPlanRun(r) ==
    /\ At(r, "journal")
    /\ planRows' = [planRows EXCEPT ![PlanId(r)] =
                        [trace |-> r, allowed |-> legacyRuns[r].allowed]]
    /\ legacyRuns' = [legacyRuns EXCEPT ![r].stage = "finish"]
    /\ UNCHANGED <<traceRows, alerts, jobLock, schedulers>>

NotificationDue(run) ==
    run.attempts < MaxPushAttempts /\ (run.error => SendFailureAlerts)

FinishTrace(r) ==
    /\ At(r, "finish")
    /\ traceRows' = [traceRows EXCEPT ![r] =
           [status |-> IF legacyRuns[r].allowed THEN "allowed" ELSE "blocked",
            planId |-> PlanId(r)]]
    /\ legacyRuns' = [legacyRuns EXCEPT ![r].stage =
                          IF NotificationDue(legacyRuns[r]) THEN "push" ELSE "done"]
    /\ UNCHANGED <<planRows, alerts, jobLock, schedulers>>

(* BarkNotificationSink.send: an answer that is late or an error is tried  *)
(* again although the push may have arrived.                               *)
SendPush(r) ==
    /\ At(r, "push")
    /\ \E arrives, answered \in BOOLEAN :
        /\ answered => arrives
        /\ alerts' = IF arrives THEN alerts \cup {[trace |-> r, allowed |-> legacyRuns[r].allowed]}
                     ELSE alerts
        /\ legacyRuns' = [legacyRuns EXCEPT ![r].attempts = @ + 1,
               ![r].stage = IF answered \/ legacyRuns[r].attempts + 1 = MaxPushAttempts
                            THEN "done" ELSE "push"]
    /\ UNCHANGED <<planRows, traceRows, jobLock, schedulers>>

(* The journal refuses a write: outside run_once's try, so the run raises  *)
(* and its trace may stay "running".                                       *)
JournalRaises(r) ==
    /\ legacyRuns[r].stage \in {"audit", "journal", "finish", "push"}
    /\ legacyRuns' = [legacyRuns EXCEPT ![r].stage = "raised"]
    /\ UNCHANGED <<planRows, traceRows, alerts, jobLock, schedulers>>

LegacyStep(r) ==
    \/ ManualRun(r) \/ FetchMarket(r) \/ Research(r) \/ RunShadowSwarm(r)
    \/ DecideFinal(r) \/ ControlDecision(r) \/ BlockedFailurePlan(r) \/ AuditOnlyRun(r)
    \/ AppendPlanRun(r) \/ FinishTrace(r) \/ SendPush(r) \/ JournalRaises(r)

LegacyNext ==
    \/ \E r \in LegacyRunIds : LegacyStep(r)
    \/ \E s \in LegacySchedulers : ReadJobLock(s) \/ TakeJobLock(s) \/ ReleaseJobLock(s)
    \/ JobLockExpires

LegacySpec == LegacyInit /\ [][LegacyNext]_legacyVars

-----------------------------------------------------------------------------
(* Everything an opening needs, said of the data the run gathered and not  *)
(* of the gates: its three execution facts are the exchange's own and were *)
(* within their own time to live when fetched, no point of the snapshot    *)
(* has outlived two minutes since, an operator's complete and valid word   *)
(* on macro events was there, every worker of the swarm delivered and none *)
(* but the tool shadow said no, the plan is for the symbol asked for, its  *)
(* three prices are given and in order and its probability is below the    *)
(* cap that missing derivatives data impose.                               *)
Grounded(run) ==
    LET snapshot == run.snapshot
        plan == run.plan
    IN  /\ \A name \in EXECUTION_FACT_TYPES :
            /\ name \in DOMAIN snapshot.points
            /\ snapshot.points[name].source = "exchange_native"
            /\ snapshot.points[name].age # Undated
            /\ snapshot.points[name].age <= (IF name = "order_book" THEN 1 ELSE 4)
            /\ snapshot.points[name].age + run.elapsed.sinceFetch <= 4
        /\ EVENT_FACT \in DOMAIN snapshot.points
        /\ snapshot.event.complete /\ snapshot.event.validFor > 0
        /\ DOMAIN run.swarm # {}
        /\ \A agent \in DOMAIN run.swarm : run.swarm[agent] \in {"ok", "tool_hard_block"}
        /\ plan.instrument = RequestSymbol
        /\ plan.main_action \notin FLIP_ACTIONS
        /\ plan.probability <= 58
        /\ plan.expires_in > run.elapsed.sincePlan
        /\ 0 \notin {plan.stop_price, plan.entry_trigger, plan.target_1}
        /\ IF plan.main_action \in LONG_OPENING_ACTIONS
           THEN plan.stop_price < plan.entry_trigger /\ plan.entry_trigger < plan.target_1
           ELSE plan.stop_price > plan.entry_trigger /\ plan.entry_trigger > plan.target_1

(* Whatever the journal or the phone calls allowed and tells the operator  *)
(* to open rests on full grounds, and the phone never says "allowed" of a  *)
(* run whose trace does not (market fetch, search fallback, facts gate,    *)
(* shadow swarm, production control, risk check and persistence together). *)
AllowedOpeningGrounded ==
    \A r \in LegacyRunIds :
        /\ /\ legacyRuns[r].plan.main_action \in LEGACY_OPENING_ACTIONS
           /\ \/ traceRows[r].status = "allowed"
              \/ \E row \in {planRows[id] : id \in DOMAIN planRows} \cup alerts :
                     row.trace = r /\ row.allowed
           => Grounded(legacyRuns[r])
        /\ [trace |-> r, allowed |-> TRUE] \in alerts => traceRows[r].status = "allowed"

(* tests/workflow/test_scheduler.py, test_job_lock_prevents_overlap: while *)
(* one scheduler's job runs no other scheduler starts one.                 *)
JobsNeverOverlap == Cardinality({s \in LegacySchedulers : schedulers[s] = "works"}) <= 1

=============================================================================
