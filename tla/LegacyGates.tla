------------------------------ MODULE LegacyGates ------------------------------
(***************************************************************************)
(* The gates a plan of the legacy alert application passes before it is    *)
(* called allowed: the facts gate over the market evidence, the shadow     *)
(* swarm's report, the candidate and semantic gates, the production        *)
(* control gate that turns their findings into blocking rules, the symbol  *)
(* check and the risk check.  Pure definitions; LegacyRuns applies them.   *)
(*                                                                         *)
(* Data.  Time is counted in units of 30 s.  A data point is its source    *)
(* and its age when the snapshot was fetched (Undated when it carries no   *)
(* timestamp); the providers refuse an unusable price or book themselves,  *)
(* so a point in a snapshot is usable.  A price is a small number, 0 when  *)
(* the plan leaves it out; a probability is in hundredths, -1 when absent. *)
(***************************************************************************)
EXTENDS Integers, FiniteSets, FiniteSetsExt

CONSTANTS AllowedSymbols,    \* config.trading.allowed_symbols
          MaxRiskPerTradePct         \* config.trading.max_risk_per_trade_pct

Undated == -1
NoProbability == -1

EXECUTION_FACT_TYPES == {"mark", "index", "order_book"}
AUXILIARY_FACT_TYPES == {"funding_rate", "open_interest", "liquidation"}
EVENT_FACT == "active_event_status"

FLIP_ACTIONS == {"flip long to short", "flip short to long"}
LONG_OPENING_ACTIONS == {"open long", "trigger long", "flip short to long"}
SHORT_OPENING_ACTIONS == {"open short", "trigger short", "flip long to short"}
LEGACY_OPENING_ACTIONS == LONG_OPENING_ACTIONS \cup SHORT_OPENING_ACTIONS

-----------------------------------------------------------------------------
(* The facts gate. *)

FreshnessTtl(name) ==
    CASE name \in {"mark", "index"} -> 4
      [] name = "order_book"        -> 1
      [] name = "funding_rate"      -> 120
      [] name = EVENT_FACT          -> 30
      [] OTHER                      -> 10

FreshnessStatus(snapshot, name) ==
    LET age == snapshot.points[name].age
    IN  IF age = Undated THEN "unknown"
        ELSE IF age > FreshnessTtl(name) THEN "stale" ELSE "fresh"

FreshFrom(snapshot, name, sources) ==
    /\ name \in DOMAIN snapshot.points
    /\ snapshot.points[name].source \in sources
    /\ FreshnessStatus(snapshot, name) = "fresh"

(* Mutant: a fact is good when it is fresh, wherever it comes from. *)
CanSatisfyByFreshness(snapshot, name) ==
    FreshFrom(snapshot, name, {"exchange_native", "fixture", "search_derived"})

CanSatisfyExecutionFact(snapshot, name) ==
    FreshFrom(snapshot, name, {"exchange_native"})

(* An operator's "no active event" counts only with complete metadata and  *)
(* while it is still valid at the time of the fetch.                       *)
CanSatisfyEventFact(snapshot) ==
    /\ FreshFrom(snapshot, EVENT_FACT, {"event_pool", "official"})
    /\ snapshot.event.complete
    /\ snapshot.event.validFor > 0

MissingExecutionFacts(snapshot) ==
    {name \in EXECUTION_FACT_TYPES : ~CanSatisfyExecutionFact(snapshot, name)}

MissingAuxiliaryFacts(snapshot) ==
    {name \in AUXILIARY_FACT_TYPES :
        ~FreshFrom(snapshot, name, {"exchange_native", "search_derived"})}

FactsGatePassed(snapshot) ==
    MissingExecutionFacts(snapshot) = {} /\ CanSatisfyEventFact(snapshot)

FactsGateCaps(snapshot) ==
    {cap \in {58, 55} :
        \/ cap = 58 /\ (MissingAuxiliaryFacts(snapshot) # {} \/ ~FactsGatePassed(snapshot))
        \/ cap = 55 /\ ~CanSatisfyEventFact(snapshot)}

SearchEvidenceCaps(snapshot) ==
    {58 : name \in {n \in DOMAIN snapshot.points :
                        snapshot.points[n].source = "search_derived"}}

-----------------------------------------------------------------------------
(* The shadow swarm.  A report gives the outcome of every worker; it is    *)
(* empty when the orchestration itself raised.                             *)

AuditFailed == << >>

ContributionStatus(outcome) ==
    CASE outcome \in {"raised", "timeout", "rejected", "mismatch"} -> "failed"
      [] outcome = "unconfigured" -> "skipped"
      [] outcome = "partial"      -> "partial"
      [] OTHER                    -> "ok"

WorkersReport(swarm) == DOMAIN swarm # {}

HarnessPassed(swarm) ==
    /\ WorkersReport(swarm)
    /\ \A agent \in DOMAIN swarm :
        ContributionStatus(swarm[agent]) \notin {"failed", "partial"}

(* Every worker is required, so what the lead synthesis drops is missed.   *)
DroppedContributions(swarm) ==
    {agent \in DOMAIN swarm : ContributionStatus(swarm[agent]) \notin {"ok", "partial"}}

RequiredDropped(swarm) == ~WorkersReport(swarm) \/ DroppedContributions(swarm) # {}

(* A hard block reported by a worker of the llm_tool_shadow stage does not *)
(* bind production yet.                                                    *)
WorkerHardBlocks(swarm) ==
    WorkersReport(swarm) /\ \E agent \in DOMAIN swarm : swarm[agent] = "hard_block"

-----------------------------------------------------------------------------
(* The candidate gates and the production control gate. *)

BlockedActions(snapshot) ==
    FLIP_ACTIONS \cup (IF FactsGatePassed(snapshot) THEN {} ELSE LEGACY_OPENING_ACTIONS)

(* No worker of the swarm sets a cap of its own. *)
ConfidencePolicy(snapshot) == FactsGateCaps(snapshot) \cup SearchEvidenceCaps(snapshot)

GateCandidateViolations(plan, snapshot) ==
    {rule \in {"action_not_allowed", "confidence_cap_exceeded"} :
        \/ rule = "action_not_allowed" /\ plan.main_action \in BlockedActions(snapshot)
        \/ rule = "confidence_cap_exceeded"
            /\ ConfidencePolicy(snapshot) # {}
            /\ plan.probability > Min(ConfidencePolicy(snapshot))}

LongGeometryBroken(plan) ==
    \/ plan.entry_trigger # 0 /\ plan.stop_price # 0 /\ plan.stop_price >= plan.entry_trigger
    \/ plan.entry_trigger # 0 /\ plan.target_1 # 0 /\ plan.target_1 <= plan.entry_trigger
    \/ plan.target_1 # 0 /\ plan.target_2 # 0 /\ plan.target_2 < plan.target_1

ShortGeometryBroken(plan) ==
    \/ plan.entry_trigger # 0 /\ plan.stop_price # 0 /\ plan.stop_price <= plan.entry_trigger
    \/ plan.entry_trigger # 0 /\ plan.target_1 # 0 /\ plan.target_1 >= plan.entry_trigger
    \/ plan.target_1 # 0 /\ plan.target_2 # 0 /\ plan.target_2 > plan.target_1

PlanSemanticViolated(plan) ==
    \/ /\ plan.main_action \in LEGACY_OPENING_ACTIONS
       /\ 0 \in {plan.entry_trigger, plan.stop_price, plan.target_1}
    \/ plan.main_action \in LEGACY_OPENING_ACTIONS /\ ~plan.invalidation
    \/ plan.main_action \in LONG_OPENING_ACTIONS /\ LongGeometryBroken(plan)
    \/ plan.main_action \in SHORT_OPENING_ACTIONS /\ ShortGeometryBroken(plan)

WorkersReady(swarm) ==
    ~RequiredDropped(swarm) /\ ~WorkerHardBlocks(swarm) /\ HarnessPassed(swarm)

ProductionControlAllows(plan, snapshot, swarm) ==
    \/ plan.main_action \notin LEGACY_OPENING_ACTIONS
    \/ /\ GateCandidateViolations(plan, snapshot) = {}
       /\ ~PlanSemanticViolated(plan)
       /\ WorkersReady(swarm)

-----------------------------------------------------------------------------
(* The symbol check and the risk check, which reads the clock again.       *)

SymbolsConsistent(symbol, snapshot, plan) ==
    Cardinality({symbol, snapshot.symbol, plan.instrument}) = 1

StaleThreshold(name) == IF name = "candles" THEN 124 ELSE 4

StalePoints(snapshot, elapsed) ==
    {name \in DOMAIN snapshot.points :
        LET point == snapshot.points[name]
            age == IF name \in snapshot.added THEN point.age + elapsed.sinceSearch
                   ELSE point.age + elapsed.sinceFetch
        IN  point.age = Undated \/ age > StaleThreshold(name)}

(* Missing execution facts cap the confidence.                             *)
ProbabilityCapped(plan, snapshot) ==
    "confidence_cap" \in snapshot.unavailable => plan.probability <= 58

CheckPlan(plan, snapshot, elapsed) ==
    /\ plan.instrument \in AllowedSymbols
    /\ plan.expires_in > elapsed.sincePlan
    /\ plan.main_action \in LEGACY_OPENING_ACTIONS =>
        /\ 0 \notin {plan.stop_price, plan.entry_trigger}
        /\ plan.invalidation
        /\ EXECUTION_FACT_TYPES \subseteq DOMAIN snapshot.points
    /\ plan.risk_pct <= MaxRiskPerTradePct
    /\ ProbabilityCapped(plan, snapshot)
    /\ StalePoints(snapshot, elapsed) = {}

MergeRiskVerdicts(symbol, plan, snapshot, swarm, elapsed) ==
    /\ ProductionControlAllows(plan, snapshot, swarm)
    /\ SymbolsConsistent(symbol, snapshot, plan)
    /\ CheckPlan(plan, snapshot, elapsed)

=============================================================================
