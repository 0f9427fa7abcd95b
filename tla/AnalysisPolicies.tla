---------------------------- MODULE AnalysisPolicies ----------------------------
(***************************************************************************)
(* The deterministic policies around a model's answer: which requests may  *)
(* start a Graph (domain/decision_request.py), what evidence an action     *)
(* needs (domain/evidence_policy.py) and what risk is allowed              *)
(* (domain/risk_policy.py).  Probabilities and caps are percentages.       *)
(***************************************************************************)
EXTENDS Integers, FiniteSets

OPENING_ACTIONS == {"open_long", "open_short", "trigger_long", "trigger_short",
                    "flip_long_to_short", "flip_short_to_long"}
OTHER_ACTIONS == {"hold_long", "hold_short", "close_long", "close_short", "no_trade"}

REQUIRED_MARKET_FIELDS == {"ticker", "mark_price", "index_price", "order_book", "candles"}
OPTIONAL_MARKET_FIELDS == {"funding_rate", "open_interest"}
REQUIRED_MACRO_FIELDS == {"vix", "real_yield_10y", "dxy", "macro_event_scan"}

OPTIONAL_EVIDENCE_CAP == 70
WEB_SEARCH_CONTEXT_CAP == 50

\* the default RiskBudget
MaxLeverage == 2
MaxRiskPct == 25

-----------------------------------------------------------------------------
(* Routing.  A request names its intent, the slots it fills and an action.  *)

NonLiveIntents == {"postmortem", "evaluation", "replay", "system_query"}

MissingExecutionSlots(r) ==
    ({"symbol", "horizon"} \cup
        IF r.action \in OPENING_ACTIONS
        THEN {"position", "entry_price", "size", "leverage", "max_loss_quote"} ELSE {})
    \ r.slots

RouteDecisionRequest(r) ==
    IF r.intent = "unknown" THEN "blocked_clarify"
    ELSE IF r.intent \in NonLiveIntents THEN "unsupported_mode"
    ELSE IF MissingExecutionSlots(r) # {} THEN "blocked_clarify"
    ELSE IF r.intent = "deep_research" THEN "deep_research"
    ELSE "market_analysis"

-----------------------------------------------------------------------------
(* Evidence.  A snapshot has a source level and the fields it holds; a      *)
(* research bundle is the set of macro fields it establishes.               *)

IsWebSearch(snapshot) == snapshot.source = "web_search_verified"

MissingOptional(snapshot) == OPTIONAL_MARKET_FIELDS \ snapshot.has

MissingRequired(snapshot, bundle, action) ==
    (IF IsWebSearch(snapshot) /\ action # "no_trade"
     THEN {"exchange_native_market_data"} ELSE {})
    \cup (IF action \in OPENING_ACTIONS
          THEN (REQUIRED_MARKET_FIELDS \ snapshot.has) \cup (REQUIRED_MACRO_FIELDS \ bundle)
          ELSE {})

EvidenceCap(snapshot) ==
    IF IsWebSearch(snapshot) THEN WEB_SEARCH_CONTEXT_CAP
    ELSE IF MissingOptional(snapshot) # {} THEN OPTIONAL_EVIDENCE_CAP ELSE 100

CheckEvidenceSufficiency(snapshot, bundle, action) ==
    LET missing == MissingRequired(snapshot, bundle, action)
    IN  [sufficient |-> missing = {},
         cap |-> IF missing = {} THEN EvidenceCap(snapshot) ELSE 0]

DeriveUnavailableData(snapshot, bundle, sources) ==
    (REQUIRED_MARKET_FIELDS \ snapshot.has) \cup (REQUIRED_MACRO_FIELDS \ bundle)
    \cup MissingOptional(snapshot)
    \cup (IF IsWebSearch(snapshot) THEN {"exchange_native_market_data"} ELSE {})
    \cup (IF sources = 0 THEN {"verified_web_evidence"} ELSE {})

-----------------------------------------------------------------------------
(* Risk *)

BlockedReasons(a, v) ==
    (IF v.sufficient THEN {} ELSE {"evidence.insufficient"})
    \cup (IF a.manual THEN {} ELSE {"execution.manual_required"})
    \cup (IF a.action \in OPENING_ACTIONS /\ ~a.levels
          THEN {"analysis.levels.required"} ELSE {})   \* entry, stop, invalidation
    \cup (IF a.leverage > MaxLeverage THEN {"budget.max_leverage_exceeded"} ELSE {})
    \cup (IF a.risk > MaxRiskPct THEN {"budget.max_risk_pct_exceeded"} ELSE {})
    \cup (IF v.sufficient /\ a.probability > v.cap
          THEN {"analysis.confidence_cap_exceeded"} ELSE {})

ApplyRiskPolicy(a, v) == [allowed |-> BlockedReasons(a, v) = {}, cap |-> v.cap]
=============================================================================
