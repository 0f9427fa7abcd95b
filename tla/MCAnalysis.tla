------------------------------ MODULE MCAnalysis ------------------------------
(*****************************************************************************)
(* Model checking of the parts that make and record an analysis.  They are   *)
(* checked apart: each behaviour is one of a single part, chosen at the      *)
(* start, so the state spaces add up instead of multiplying.                 *)
(*****************************************************************************)
EXTENDS AnalysisGraph, SearchProviders, WorkerReadiness, RunLedger, LegacyRuns

VARIABLE part   \* the component this behaviour is about

vars == <<part, graphVars, providerVars, readinessVars, ledgerVars, legacyVars>>

\* the output of the Runs that ended before the ledger, in the other parts
SomeOldOutput == CHOOSE out \in Outputs : out.artifact = None

Init ==
    /\ part \in {"graph", "search", "readiness", "ledger", "legacy"}
    /\ GraphInit
    /\ ProvidersInit
    /\ ReadinessInit
    /\ LedgerInit
    /\ LegacyInit
    /\ part # "search" => settings = [requested |-> "builtin", key |-> FALSE, strict |-> FALSE]
    /\ part # "ledger" => \A r \in 1..OldRuns : runRow[r].output = SomeOldOutput

\* the other parts do nothing
OthersIdle ==
    /\ UNCHANGED part
    /\ part # "graph" => UNCHANGED graphVars
    /\ part # "search" => UNCHANGED providerVars
    /\ part # "readiness" => UNCHANGED readinessVars
    /\ part # "ledger" => UNCHANGED ledgerVars
    /\ part # "legacy" => UNCHANGED legacyVars

Next ==
    /\ OthersIdle
    /\ \/ part = "graph" /\ GraphNext
       \/ part = "search" /\ ProvidersNext
       \/ part = "readiness" /\ ReadinessNext
       \/ part = "ledger" /\ LedgerNext
       \/ part = "legacy" /\ LegacyNext

-----------------------------------------------------------------------------
(* AnalysisGraph: requests, market data and answers that reach every policy *)

AllSlots == {"symbol", "horizon", "position", "entry_price", "size", "leverage",
             "max_loss_quote"}

MCDecisionRequests ==
    [intent : {"unknown", "replay", "deep_research", "market_analysis"},
     action : {"open_long", "no_trade"}, slots : {{"symbol", "horizon"}, AllSlots}]

MCSnapshots ==
    {[source |-> "exchange_native",
      has |-> REQUIRED_MARKET_FIELDS \cup OPTIONAL_MARKET_FIELDS],
     [source |-> "web_search_verified", has |-> {"ticker"}],
     [source |-> "web_search_verified",
      has |-> {"ticker", "mark_price", "index_price"} \cup OPTIONAL_MARKET_FIELDS]}

MCBundles == {REQUIRED_MACRO_FIELDS, REQUIRED_MACRO_FIELDS \ {"vix"}}

MCModelAnalyses ==
    [action : {"open_long", "no_trade"}, probability : {40, 60, 100}, levels : BOOLEAN,
     manual : BOOLEAN, leverage : {2, 3}, risk : {25}]

MCSearchResults == {<<>>, <<"u1">>, <<"u1", "u2">>, <<"u2", "u1">>}

(* SearchProviders *)

MCEndpoints == <<"ticker", "book">>

(* LegacyRuns: snapshots, events, reports and plans around each gate's limit *)

CONSTANT p1   \* a plan_id that a model supplies

AllFresh == [name \in CORE_MARKET_POINTS |-> 0]

MarketOf(source, ages) ==
    [symbol |-> "BTC", event |-> NoEvent, added |-> {},
     unavailable |-> IF source = "fixture" THEN {"confidence_cap"} ELSE {},
     points |-> [name \in DOMAIN ages |-> [source |-> source, age |-> ages[name]]]]

MCMarketSnapshots ==
    {MarketOf("exchange_native", AllFresh), MarketOf("fixture", AllFresh),
     MarketOf("exchange_native", [AllFresh EXCEPT !["order_book"] = 2]),
     MarketOf("exchange_native", [AllFresh EXCEPT !["mark"] = 3]),
     MarketOf("exchange_native", [name \in CORE_MARKET_POINTS \ {"index"} |-> 0])}

MCEventPoints ==
    {NoEvent} \cup [source : {"event_pool"}, complete : BOOLEAN, validFor : {0, 9}]

MCSwarmReports ==
    {AuditFailed} \cup
    {[a \in {"LiveFactAgent", "DataQualityAgent"} |-> IF a = "LiveFactAgent" THEN o ELSE "ok"] :
        o \in {"ok", "timeout", "unconfigured", "partial", "hard_block", "tool_hard_block"}}

LongPlan ==
    [main_action |-> "trigger long", id |-> "built", instrument |-> "BTC",
     entry_trigger |-> 5, stop_price |-> 4, target_1 |-> 6, target_2 |-> 7,
     invalidation |-> TRUE, probability |-> 58, risk_pct |-> 1, expires_in |-> 3]

MCDecisionPayloads ==
    {LongPlan, [LongPlan EXCEPT !.id = p1],
     [LongPlan EXCEPT !.main_action = "flip short to long"],
     [LongPlan EXCEPT !.main_action = "open short", !.id = p1],
     [LongPlan EXCEPT !.main_action = "open short", !.stop_price = 6, !.target_1 = 4,
                      !.target_2 = 0],
     [LongPlan EXCEPT !.main_action = "hold long", !.stop_price = 0],
     [LongPlan EXCEPT !.probability = 60], [LongPlan EXCEPT !.instrument = "ETH"],
     [LongPlan EXCEPT !.target_1 = 0], [LongPlan EXCEPT !.risk_pct = 9]}
=============================================================================
