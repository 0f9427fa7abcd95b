----------------------------- MODULE MCEvaluation -----------------------------
(*****************************************************************************)
(* Model checking of the evaluation sidecar in three parts, one of which is  *)
(* chosen at the start: two calls over one badcase with one of two plans;    *)
(* one call over two badcases, the first with any plan; and the reviews of   *)
(* one run, made when production rests.                                      *)
(*****************************************************************************)
EXTENDS EvaluationRuns

CONSTANTS b1, b2, e1, u1   \* badcases, a call, a person who approves configurations

VARIABLE part   \* the bounds this behaviour is checked under

vars == <<part, evaluationVars>>

-----------------------------------------------------------------------------
(* A plan with nothing against it, and plans with one flaw each.             *)

CleanAudit ==
    [action |-> "no trade", manual |-> TRUE, levels |-> FALSE, allowed |-> "no",
     gaps |-> FALSE, spans |-> {"decision.final", "risk.check"},
     gate |-> TRUE, semantic |-> TRUE, ready |-> TRUE, reasons |-> {},
     input |-> "input 1", workers |-> 7, workerRefs |-> 7, manifest |-> 7,
     manifestComplete |-> TRUE, hashesAgree |-> TRUE,
     context |-> [given |-> TRUE, input |-> "input 1", counted |-> TRUE,
                  refs |-> SIDECAR_TYPES, stale |-> {}],
     snapshot |-> CANDIDATE_ARTIFACT_TYPES,
     lead |-> [counters |-> 1, counterRefs |-> 1, strongest |-> TRUE, conflicts |-> 1,
               conflictRefs |-> 1],
     refs |-> COMPLETE_REPLAY_REFS, spanTree |-> TRUE, hardBlocks |-> FALSE,
     factViolations |-> FALSE]

Opening == [CleanAudit EXCEPT !.action = "trigger long", !.allowed = "yes", !.levels = TRUE,
                              !.input = "input 2", !.context.input = "input 2"]

Held(audit, reason) == [audit EXCEPT !.ready = FALSE, !.reasons = {reason}]

GateFailed == Held([CleanAudit EXCEPT !.gate = FALSE, !.input = "input 3", !.context.input = "input 3"],
                   "candidate_gate_failed")
NotReady == Held([CleanAudit EXCEPT !.input = "input 4", !.context.input = "input 4"],
                 "shadow_swarm_harness_failed")
\* A plan of a run without candidate artifacts, and one whose replayable input failed.
Bare == [NoAudit EXCEPT !.action = "no trade", !.allowed = "no",
                        !.spans = CleanAudit.spans, !.context.given = TRUE, !.context.counted = TRUE]
BuildFailed == Held([CleanAudit EXCEPT !.workers = NoCount, !.workerRefs = 0, !.manifest = 0,
                                       !.manifestComplete = FALSE, !.refs = {}, !.spanTree = FALSE,
                                       !.snapshot = CANDIDATE_ARTIFACT_TYPES \ {"worker_result_manifest"}],
                    "replayable_input_candidate_invalid")

FlawedAudits ==
    {Bare, BuildFailed,
     Held([Opening EXCEPT !.levels = FALSE, !.semantic = FALSE], "plan_semantic_candidate_failed"),
     Held([CleanAudit EXCEPT !.semantic = FALSE], "plan_semantic_candidate_failed"),
     Held([CleanAudit EXCEPT !.workers = 6, !.workerRefs = 6, !.manifest = 6],
          "worker_artifact_coverage_incomplete"),
     Held([CleanAudit EXCEPT !.hardBlocks = TRUE], "worker_hard_block"),
     [Opening EXCEPT !.gaps = TRUE], [CleanAudit EXCEPT !.spans = {"risk.check"}],
     [CleanAudit EXCEPT !.manifestComplete = FALSE], [CleanAudit EXCEPT !.hashesAgree = FALSE],
     [CleanAudit EXCEPT !.context = NoAudit.context, !.context.counted = TRUE],
     [CleanAudit EXCEPT !.context.input = NoCandidate, !.context.refs = {}],
     [CleanAudit EXCEPT !.context.stale = {"gate_candidate"}],
     [CleanAudit EXCEPT !.lead.counterRefs = 0], [CleanAudit EXCEPT !.lead.strongest = FALSE],
     [CleanAudit EXCEPT !.lead.conflictRefs = 0],
     [CleanAudit EXCEPT !.refs = COMPLETE_REPLAY_REFS \ {"version_lock"}],
     [CleanAudit EXCEPT !.spanTree = FALSE], [CleanAudit EXCEPT !.factViolations = TRUE]}

MCCandidateAudits ==
    [case \in EvalCases |->
        IF case = b1 THEN {CleanAudit, Opening, GateFailed, NotReady} \cup FlawedAudits
        ELSE {CleanAudit}]

MCBadcaseSeverity == [case \in EvalCases |-> IF case = b1 THEN "high" ELSE "low"]

MCMaterialSets ==
    {{"manual_approval", "rollback_plan", "impact_scope", "shadow_candidate_comparison"},
     {"manual_approval"}}

-----------------------------------------------------------------------------
Plans(audits) == traces'[b1].audit \in {NoAudit} \cup audits
Mode(mode) == \A e \in EvalRunIds : evalCalls'[e].mode \in {"none", mode}
FirstCallFirst == evalCalls'[e1].stage = "unused" => \A e \in EvalRunIds : evalCalls'[e].stage = "unused"
OneBadcase ==
    /\ traces'[b2] = traces[b2]
    /\ \A e \in EvalRunIds : DOMAIN evalCalls'[e].built \subseteq {b1}

(* The two calls are alike: what e2 does first, e1 does first as well.        *)
CallsNext ==
    /\ ProductionNext \/ \E e \in EvalRunIds : CallNext(e)
    /\ OneBadcase /\ FirstCallFirst /\ Mode("cheap")
    /\ Plans({CleanAudit, [CleanAudit EXCEPT !.spans = {"risk.check"}]})

GateNext == (ProductionNext \/ CallNext(e1)) /\ Mode("judge_only_fixture")

(* Reviews ask for a finished trace and a call that ended well.              *)
ReviewsNext ==
    /\ \/ evalCalls[e1].stage = "unused" /\ ProductionNext /\ Plans({CleanAudit})
       \/ /\ traces[b1].stage = "finished" /\ CallNext(e1) /\ Mode("judge_openai")
          /\ evalCalls'[e1].stage \notin {"raised", "killed"}
       \/ /\ ReviewNext(e1)
          /\ DOMAIN held'[e1] \subseteq {b1}
          /\ promotion'[e1].decision.input \in {NoCandidate, CleanAudit.input, Opening.input}
          /\ promotion'[e1].approval.reviewer \in {Nobody, u1}
    /\ OneBadcase

Init == EvaluationInit /\ part \in {"calls", "gate", "reviews"}

Next ==
    /\ UNCHANGED part
    /\ \/ part = "calls" /\ CallsNext
       \/ part = "gate" /\ GateNext
       \/ part = "reviews" /\ ReviewsNext
=============================================================================
