----------------------------- MODULE ReleaseGate ------------------------------
(***************************************************************************)
(* What the evaluation sidecar of the legacy application computes: the     *)
(* scores of a case, the replay of its candidate decision, and the release *)
(* gate that decides from both whether a candidate may be promoted.        *)
(*                                                                         *)
(* A case is made of the trace of the run that a badcase is about: what    *)
(* the plan row of that run says (its audit) and what the row of the trace *)
(* says.  A hash or a reference is a value that is equal exactly when the  *)
(* hashed content is; a list of violations is reduced to whether it is     *)
(* empty, for the gate only asks that.  The summary of a case drops the    *)
(* "required" flags of the worker manifest and the lead synthesis itself,  *)
(* so of the manifest's consistency only the counts and the hashes are     *)
(* left, and every check of dropped workers passes.                        *)
(***************************************************************************)
EXTENDS Integers, FiniteSets

CONSTANTS EvalCases,           \* the badcases a run may select, one case each
          BadcaseSeverity,     \* the severity of each of them
          ExpectsNoTrade,      \* those whose expected behaviour forbids a trade
          MinimumCaseCount, SchemaThreshold,   \* eval.release_gate, in percent
          RequiredSeverities

ASSUME ReleaseGateAssumption ==
    /\ MinimumCaseCount \in Nat
    /\ SchemaThreshold \in Int

NoCandidate == "no candidate"
NoCount == -1          \* worker_artifact_count is null
NoAction == ""

REQUIRED_WORKER_ARTIFACT_COUNT == 7

EVAL_OPENING_ACTIONS ==
    {"open long", "open short", "trigger long", "trigger short", "flip long to short",
     "flip short to long"}
EVAL_ALLOWED_ACTIONS ==
    EVAL_OPENING_ACTIONS \cup {"hold long", "hold short", "close long", "close short", "no trade"}
\* Actions outside the enum that hold one of OPENING_ACTION_HINTS.
HintedActions == {"market buy"}

COMPLETE_REPLAY_REFS ==
    {"lead_synthesis_artifact", "final_decision_output", "final_input_selection", "parsed_plan",
     "production_control_gate", "risk_gate_result", "side_effect_policy",
     "context_artifact_summary", "version_lock", "telemetry_refs", "evidence_snapshot_refs",
     "memory_snapshot_refs", "span_tree_refs"}

CANDIDATE_ARTIFACT_TYPES ==
    {"decision_input_candidate", "replayable_input_candidate", "lead_synthesis",
     "worker_result_manifest", "gate_candidate", "plan_semantic_candidate",
     "final_decision_switch_readiness"}

SIDECAR_TYPES ==
    {"lead_synthesis", "gate_candidate", "plan_semantic_candidate",
     "final_decision_switch_readiness"}

(* The audit of a trace that has no plan row. *)
NoAudit ==
    [action |-> NoAction, manual |-> TRUE, levels |-> FALSE, allowed |-> "unknown",
     gaps |-> FALSE, spans |-> {}, gate |-> FALSE, semantic |-> FALSE,
     ready |-> FALSE, reasons |-> {},
     input |-> NoCandidate, workers |-> NoCount, workerRefs |-> 0, manifest |-> 0,
     manifestComplete |-> FALSE, hashesAgree |-> TRUE,
     context |-> [given |-> FALSE, input |-> NoCandidate, counted |-> FALSE, refs |-> {},
                  stale |-> {}],
     snapshot |-> {},
     lead |-> [counters |-> 0, counterRefs |-> 0, strongest |-> FALSE, conflicts |-> 0,
               conflictRefs |-> 0],
     refs |-> {}, spanTree |-> FALSE, hardBlocks |-> FALSE, factViolations |-> FALSE]

-----------------------------------------------------------------------------
(***************************************************************************)
(* The scores of a case.  content is [audit, finalAction, allowed].        *)
(***************************************************************************)

ObservedAction(content) ==
    IF content.audit.action # NoAction THEN content.audit.action ELSE content.finalAction

ActionOutsideEnum(content) == ObservedAction(content) \notin EVAL_ALLOWED_ACTIONS

NoTradeMissed(case, content) ==
    /\ case \in ExpectsNoTrade
    /\ content.finalAction # "no trade"
    /\ content.allowed # "no"

OpeningIncomplete(content) ==
    /\ ObservedAction(content) \in EVAL_OPENING_ACTIONS \cup HintedActions
    /\ ~content.audit.levels

SpansMissing(content) == ~({"decision.final", "risk.check"} \subseteq content.audit.spans)

ReadinessUnsafe(content) == content.audit.ready /\ content.audit.reasons # {}

RuleFails(judge, case, content) ==
    \/ judge = "rule.action_enum" /\ ActionOutsideEnum(content)
    \/ judge = "rule.expected_no_trade" /\ NoTradeMissed(case, content)
    \/ judge = "rule.opening_requirements" /\ OpeningIncomplete(content)
    \/ judge = "rule.trace_required_spans" /\ SpansMissing(content)
    \/ judge = "rule.manual_only" /\ ~content.audit.manual
    \/ judge = "rule.candidate_gate" /\ ~content.audit.gate
    \/ judge = "rule.plan_semantic_candidate" /\ ~content.audit.semantic
    \/ judge = "rule.final_switch_readiness" /\ ReadinessUnsafe(content)

RuleJudges ==
    {"rule.action_enum", "rule.expected_no_trade", "rule.opening_requirements",
     "rule.trace_required_spans", "rule.manual_only", "rule.candidate_gate",
     "rule.plan_semantic_candidate", "rule.final_switch_readiness"}

FixtureFails(content) ==
    content.finalAction \in EVAL_OPENING_ACTIONS /\ content.audit.gaps

(* The judges that may fail a case.  A live judge may fail any of them: an *)
(* answer it cannot parse, or a call that raises, is a failed score.       *)
FailedJudges(mode, case, content) ==
    LET rules == {judge \in RuleJudges : RuleFails(judge, case, content)} IN
    CASE mode = "cheap" -> {rules}
      [] mode = "judge_only_fixture" ->
            {rules \cup (IF FixtureFails(content) THEN {"llm.fixture_grounding"} ELSE {})}
      [] mode = "judge_openai" -> {rules, rules \cup {"llm"}}

-----------------------------------------------------------------------------
(***************************************************************************)
(* The replay of a stored case.  artifacts is the audit whose snapshot the *)
(* rows of the case in eval_candidate_artifacts were made from, or NoAudit *)
(* when there are none.                                                    *)
(***************************************************************************)

WorkerManifestConsistent(audit) ==
    /\ audit.workers # NoCount => audit.manifest = audit.workers /\ audit.workerRefs = audit.workers
    /\ audit.hashesAgree

(* The lead synthesis of a built case is empty; its artifact has counts.   *)
CounterConflictCovered(artifacts) ==
    "lead_synthesis" \in artifacts.snapshot =>
        LET lead == artifacts.lead IN
        /\ lead.counters > 0 => lead.counterRefs >= lead.counters /\ lead.strongest
        /\ lead.conflictRefs >= lead.conflicts

(* A gate result that the context names must be the one in the sidecar.    *)
SidecarMatches(type, audit, artifacts) ==
    IF type \in audit.context.refs
    THEN type \in artifacts.snapshot /\ artifacts = audit /\ type \notin audit.context.stale
    ELSE type \notin artifacts.snapshot

ContextConsistent(audit, artifacts) ==
    /\ audit.context.given
    /\ audit.input # NoCandidate => audit.context.input = audit.input
    /\ audit.context.counted
    /\ \A type \in SIDECAR_TYPES : SidecarMatches(type, audit, artifacts)

ArtifactSnapshotConsistent(audit, artifacts) ==
    /\ artifacts.snapshot = CANDIDATE_ARTIFACT_TYPES
    /\ artifacts.input = audit.input

MissingReplayRefs(audit) == COMPLETE_REPLAY_REFS \ audit.refs

CandidateReplay(mode, shadow, audit, artifacts) ==
    [mode |-> mode, shadow |-> shadow, legacyAction |-> audit.action,
     input |-> audit.input, workers |-> audit.workers,
     manifestComplete |-> audit.manifestComplete,
     manifest |-> WorkerManifestConsistent(audit),
     context |-> ContextConsistent(audit, artifacts),
     snapshot |-> ArtifactSnapshotConsistent(audit, artifacts),
     counters |-> CounterConflictCovered(artifacts),
     missing |-> MissingReplayRefs(audit),
     spanTree |-> audit.spanTree,
     hardBlocks |-> audit.hardBlocks,
     factViolations |-> audit.factViolations,
     ready |-> audit.ready, reasons |-> audit.reasons]

-----------------------------------------------------------------------------
(***************************************************************************)
(* build_release_gate_summary: ready when no hard gate has a reason.       *)
(***************************************************************************)

SchemaValidRateMet(cases, failed) ==
    LET invalid == {score \in failed : score[2] = "rule.action_enum"} IN
    100 * (Cardinality(cases) - Cardinality(invalid)) >= SchemaThreshold * Cardinality(cases)

\* Mutant: only the rate of valid schemas counts
ScoresPassByRate(cases, replays, failed) ==
    /\ Cardinality(cases \cup DOMAIN replays) >= MinimumCaseCount
    /\ SchemaValidRateMet(cases, failed)
    /\ RequiredSeverities \subseteq {BadcaseSeverity[case] : case \in cases}

(* A case of the scores or of the replays counts as observed. *)
ScoresPass(cases, replays, failed) ==
    /\ Cardinality(cases \cup DOMAIN replays) >= 1
    /\ Cardinality(cases \cup DOMAIN replays) >= MinimumCaseCount
    /\ SchemaValidRateMet(cases, failed)
    /\ RequiredSeverities \subseteq {BadcaseSeverity[case] : case \in cases}
    /\ failed = {}

(* The gate asks for an empty list of missing manifest fields.  The audit   *)
(* (build_replayable_input) calls the manifest complete exactly when that   *)
(* list is empty, and the summary copies both; a replay without a summary   *)
(* has neither and is not ready either.                                     *)
ReplayPasses(replay) ==
    /\ replay.mode = "candidate_decision"
    /\ replay.manifestComplete /\ replay.manifest
    /\ replay.context /\ replay.snapshot /\ replay.counters
    /\ replay.missing = {} /\ replay.spanTree
    /\ ~replay.hardBlocks /\ ~replay.factViolations
    /\ replay.ready /\ replay.reasons = {}

WorkersCovered(replays) ==
    LET counts == {replays[case].workers : case \in DOMAIN replays} \ {NoCount} IN
    counts # {} /\ \A count \in counts : count >= REQUIRED_WORKER_ARTIFACT_COUNT

CandidatesPass(replays) ==
    /\ \A case \in DOMAIN replays : ReplayPasses(replays[case])
    /\ DOMAIN replays # {} => WorkersCovered(replays)

\* Mutant: the fingerprints are not compared
ProofPassesByCount(before, after) == before.count = after.count

(* Counts and fingerprints of the six tables before and after the run. *)
ProofPasses(before, after) ==
    before.count = after.count /\ before.fingerprint = after.fingerprint

-----------------------------------------------------------------------------
(***************************************************************************)
(* promotion_review: how far the stored artifacts of a run reach.          *)
(***************************************************************************)

(* The summary drops the reasons outside SAFE_BLOCKING_REASONS. *)
SAFE_BLOCKING_REASONS ==
    {"candidate_gate_failed", "plan_semantic_candidate_failed",
     "worker_manifest_consistency_failed", "context_artifact_consistency_failed",
     "final_switch_readiness_not_ready", "worker_artifact_coverage_incomplete",
     "worker_manifest_incomplete", "execution_fact_source_violation",
     "candidate_block_evidence_incomplete"}

ShadowCandidateComparison(replays) ==
    [case \in DOMAIN replays |->
        [input |-> replays[case].input, workers |-> replays[case].workers,
         clean |-> /\ replays[case].manifestComplete
                   /\ replays[case].manifest /\ replays[case].context
                   /\ replays[case].ready
                   /\ replays[case].reasons \cap SAFE_BLOCKING_REASONS = {}
                   /\ replays[case].shadow = "completed"
                   /\ replays[case].legacyAction # NoAction]]

CurrentCandidateInputs(replays) ==
    {replays[case].input : case \in DOMAIN replays} \ {NoCandidate}

ComparisonInputs(comparison) == {comparison[case].input : case \in DOMAIN comparison}

ComparisonValid(comparison, current) ==
    /\ DOMAIN comparison # {}
    /\ \A case \in DOMAIN comparison : comparison[case].clean
    /\ WorkersCovered(comparison)
    /\ ComparisonInputs(comparison) \subseteq current

RequiredArtifactsPresent(artifacts, current) ==
    /\ artifacts.proof
    /\ artifacts.approver # "nobody"
    /\ artifacts.rollback /\ artifacts.impact
    /\ ComparisonValid(artifacts.comparison, current)

ManualReleaseDecisionValid(artifacts, current) ==
    LET decision == artifacts.decision IN
    /\ decision.manager # "nobody"
    /\ decision.approver = artifacts.approver
    /\ decision.input \in ComparisonInputs(artifacts.comparison)
    /\ decision.input \in current

ConfigReviewRequestValid(artifacts) ==
    LET request == artifacts.request IN
    /\ request.requester # "nobody"
    /\ request.manager = artifacts.decision.manager
    /\ request.input = artifacts.decision.input

\* Mutant: the approval may be of an earlier configuration
ConfigReviewApprovalAnyConfig(artifacts) ==
    LET approval == artifacts.approval IN
    /\ approval.reviewer # "nobody"
    /\ approval.requester = artifacts.request.requester
    /\ approval.manager = artifacts.decision.manager
    /\ approval.input = artifacts.decision.input

ConfigReviewApprovalValid(artifacts) ==
    LET approval == artifacts.approval IN
    /\ approval.reviewer # "nobody"
    /\ approval.requester = artifacts.request.requester
    /\ approval.manager = artifacts.decision.manager
    /\ approval.input = artifacts.decision.input
    /\ approval.config = artifacts.decision.config

PromotionStatus(ready, artifacts, current) ==
    CASE ~ready -> "blocked"
      [] ready /\ ~RequiredArtifactsPresent(artifacts, current) -> "blocked_missing_artifacts"
      [] OTHER ->
           IF ~ManualReleaseDecisionValid(artifacts, current)
           THEN "ready_for_manual_release_decision"
           ELSE IF ~ConfigReviewRequestValid(artifacts) THEN "ready_for_config_change_review"
           ELSE IF ~ConfigReviewApprovalValid(artifacts) THEN "config_change_review_requested"
           ELSE "config_change_review_approved"
=============================================================================
