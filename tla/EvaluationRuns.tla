---------------------------- MODULE EvaluationRuns ----------------------------
(***************************************************************************)
(* The evaluation sidecar of the legacy application at work: EvalRunner    *)
(* calls that build cases from the traces of badcases, replay and score    *)
(* them and store an eval run with its report, while production goes on    *)
(* writing its journal and other calls write the same rows of the eval     *)
(* store; and the reviewers who bring promotion artifacts to a stored run. *)
(*                                                                         *)
(* Production is the journal seen by the sidecar: the plan of the run of a *)
(* badcase is stored once, then its trace finishes; any other insert only  *)
(* moves the counts and the fingerprints of the six checked tables.        *)
(***************************************************************************)
EXTENDS ReleaseGate

CONSTANTS EvalRunIds,            \* the calls of EvalRunner.run
          CandidateAudits,       \* what the plan row of each badcase may say
          EvalModes,             \* the modes a call is made with
          ShadowOutcomes,        \* what a reviewer's shadow adapter answers
          People, ConfigHashes,  \* approvers, managers, requesters; configurations
          MaterialSets,          \* the sets of artifacts a submission may hold
          MaxProductionWrites, MaxSubmissions    \* bounds

VARIABLES traces,        \* the trace of each badcase: [stage, audit, finalAction, allowed]
          journal,       \* [rows, edits] of the six checked production tables
          evalCalls,     \* the calls in memory
          caseRows,      \* eval_cases, by badcase
          artifactRows,  \* eval_candidate_artifacts: the audit they were made from
          reports,       \* the calls whose report files exist
          evalRuns,      \* eval_runs, eval_run_cases and eval_scores
          promotion,     \* eval_promotion_artifacts
          held,          \* the replays a reviewer brings for a run
          reviews,       \* the status the last promotion review of a run returned
          submissions    \* how many submissions were made, for the bound

(* The audit that the production run stores with a plan: the readiness of  *)
(* the candidate has a reason against it whenever one of its checks fails. *)
(* A call in another mode raises.                                          *)
ASSUME EvaluationRunsAssumption ==
    /\ "none" \notin EvalCases
    /\ EvalModes \subseteq {"cheap", "judge_only_fixture", "judge_openai"}
    /\ \A case \in EvalCases : \A audit \in CandidateAudits[case] :
        /\ audit.action \in EVAL_ALLOWED_ACTIONS /\ audit.manual
        /\ audit.ready => /\ audit.reasons = {}
                          /\ audit.gate /\ audit.semantic /\ ~audit.hardBlocks
                          /\ audit.input # NoCandidate
                          /\ audit.workers >= REQUIRED_WORKER_ARTIFACT_COUNT
                          /\ audit.action \in EVAL_OPENING_ACTIONS => audit.levels

productionVars == <<traces, journal>>
sidecarVars == <<caseRows, artifactRows, reports, evalRuns>>
reviewVars == <<promotion, held, reviews, submissions>>
evaluationVars == <<productionVars, evalCalls, sidecarVars, reviewVars>>

Nobody == "nobody"
NoContent == [audit |-> NoAudit, finalAction |-> NoAction, allowed |-> "unknown"]
NoRun == [cases |-> {}]
NoArtifacts ==
    [proof |-> FALSE, comparison |-> <<>>, approver |-> Nobody,
     rollback |-> FALSE, impact |-> FALSE,
     decision |-> [manager |-> Nobody, approver |-> Nobody, input |-> NoCandidate, config |-> "none"],
     request |-> [requester |-> Nobody, manager |-> Nobody, input |-> NoCandidate],
     approval |-> [reviewer |-> Nobody, requester |-> Nobody, manager |-> Nobody,
                   input |-> NoCandidate, config |-> "none"]]
NewCall ==
    [stage |-> "unused", mode |-> "none", built |-> <<>>, count |-> 0, recount |-> 0,
     fingerprint |-> <<>>,
     todo |-> {}, reading |-> [case |-> "none", audit |-> NoAudit],
     replays |-> <<>>, failed |-> {}, proof |-> FALSE, ready |-> FALSE, touched |-> FALSE]

EvaluationInit ==
    /\ traces = [case \in EvalCases |-> [stage |-> "running", audit |-> NoAudit,
                                         finalAction |-> NoAction, allowed |-> "unknown"]]
    /\ journal = [rows |-> 0, edits |-> 0]
    /\ evalCalls = [e \in EvalRunIds |-> NewCall]
    /\ caseRows = [case \in EvalCases |-> NoContent]
    /\ artifactRows = [case \in EvalCases |-> NoAudit]
    /\ reports = {}
    /\ evalRuns = [e \in EvalRunIds |-> NoRun]
    /\ promotion = [e \in EvalRunIds |-> NoArtifacts]
    /\ held = [e \in EvalRunIds |-> <<>>]
    /\ reviews = [e \in EvalRunIds |-> "none"]
    /\ submissions = 0

-----------------------------------------------------------------------------
(* Production.  A write is noted in the calls that fingerprinted the       *)
(* tables and have not yet done so again.                                  *)

Watching(call) == call.stage \in {"fingerprinted", "judging", "recounted"}

ProductionWrites(rows, edits) ==
    /\ journal' = [rows |-> journal.rows + rows, edits |-> journal.edits + edits]
    /\ evalCalls' = [e \in EvalRunIds |->
                        IF Watching(evalCalls[e]) THEN [evalCalls[e] EXCEPT !.touched = TRUE]
                        ELSE evalCalls[e]]
    /\ UNCHANGED <<sidecarVars, reviewVars>>

PlanStored(case) ==
    /\ traces[case].stage = "running"
    /\ \E audit \in CandidateAudits[case] :
          traces' = [traces EXCEPT ![case] =
                        [stage |-> "stored", audit |-> audit, finalAction |-> NoAction,
                         allowed |-> audit.allowed]]
    /\ ProductionWrites(1, 0)

TraceFinishes(case) ==
    /\ traces[case].stage = "stored"
    /\ traces' = [traces EXCEPT ![case] =
                      [stage |-> "finished", audit |-> @.audit, finalAction |-> @.audit.action,
                       allowed |-> @.allowed]]
    /\ ProductionWrites(0, 1)

ProductionInserts ==
    /\ journal.rows < MaxProductionWrites + Cardinality(EvalCases)
    /\ UNCHANGED traces
    /\ ProductionWrites(1, 0)

-----------------------------------------------------------------------------
(* EvalRunner.run *)

Content(case) ==
    [audit |-> traces[case].audit, finalAction |-> traces[case].finalAction,
     allowed |-> traces[case].allowed]

OnlyCallChanges == UNCHANGED <<productionVars, sidecarVars, reviewVars>>

(* build_cases.  The rows of a case come from several statements, the trace  *)
(* first and its plan later; whatever production writes between them, what   *)
(* was read is what the trace held at one of the moments between, and        *)
(* production stores the plans of different badcases in any order.  The      *)
(* replay of the frozen input, which only the live judge and the counts of   *)
(* the report see, is left out.                                              *)
BuildCases(e) ==
    /\ evalCalls[e].stage = "unused"
    /\ \E cases \in (SUBSET EvalCases) \ {{}}, mode \in EvalModes :
          evalCalls' = [evalCalls EXCEPT ![e] =
              [NewCall EXCEPT !.stage = "built", !.mode = mode, !.todo = cases,
                              !.built = [case \in cases |-> Content(case)]]]
    /\ OnlyCallChanges

CountBefore(e) ==
    /\ evalCalls[e].stage = "built"
    /\ evalCalls' = [evalCalls EXCEPT ![e] = [@ EXCEPT !.stage = "counted", !.count = journal.rows]]
    /\ OnlyCallChanges

(* Six SELECTs, one for each table.  A table is compared with itself only,   *)
(* so for each table there is one moment before and one after.               *)
FingerprintBefore(e) ==
    /\ evalCalls[e].stage = "counted"
    /\ evalCalls' = [evalCalls EXCEPT ![e] =
                        [@ EXCEPT !.stage = "fingerprinted", !.fingerprint = journal]]
    /\ OnlyCallChanges

(* upsert_cases, one transaction; the artifacts of an empty snapshot replace *)
(* nothing.  Rows are replaced by type, here all at once: a plan is stored   *)
(* once, so whatever artifacts a badcase has were made from the same audit.  *)
(* upsert_frozen_inputs, a transaction of its own, writes what only the      *)
(* replay of the frozen input reads.                                         *)
UpsertCases(e) ==
    LET built == evalCalls[e].built IN
    /\ evalCalls[e].stage = "fingerprinted"
    /\ evalCalls' = [evalCalls EXCEPT ![e] = [@ EXCEPT !.stage = "judging"]]
    /\ caseRows' = [case \in EvalCases |->
                       IF case \in DOMAIN built THEN built[case] ELSE caseRows[case]]
    /\ artifactRows' = [case \in EvalCases |->
                           IF case \in DOMAIN built /\ built[case].audit.snapshot # {}
                           THEN built[case].audit ELSE artifactRows[case]]
    /\ UNCHANGED <<productionVars, reports, evalRuns, reviewVars>>

Reading(e) == evalCalls[e].reading.case # "none"

ReadStoredCase(e, case) ==
    /\ evalCalls[e].stage = "judging" /\ case \in evalCalls[e].todo /\ ~Reading(e)
    /\ evalCalls' = [evalCalls EXCEPT ![e] =
                        [@ EXCEPT !.reading = [case |-> case, audit |-> caseRows[case].audit]]]
    /\ OnlyCallChanges

(* The replay is of the stored case, the scores are of the built one. *)
JudgeCase(e, case) ==
    LET call == evalCalls[e]
        replay == CandidateReplay("candidate_decision", "none", call.reading.audit,
                                  artifactRows[case])
    IN
    /\ call.stage = "judging" /\ call.reading.case = case
    /\ \E failed \in FailedJudges(call.mode, case, call.built[case]) :
          evalCalls' = [evalCalls EXCEPT ![e] =
              [@ EXCEPT !.todo = call.todo \ {case}, !.reading = NewCall.reading,
                        !.replays = [c \in DOMAIN call.replays \cup {case} |->
                                        IF c = case THEN replay ELSE call.replays[c]],
                        !.failed = call.failed \cup {<<case, judge>> : judge \in failed}]]
    /\ OnlyCallChanges

CountAfter(e) ==
    LET call == evalCalls[e]
        guard == IF journal.rows = call.count THEN {}
                 ELSE {<<case, "eval.side_effect_guard">> : case \in DOMAIN call.built}
    IN
    /\ call.stage = "judging" /\ call.todo = {} /\ ~Reading(e)
    /\ evalCalls' = [evalCalls EXCEPT ![e] =
                        [@ EXCEPT !.stage = "recounted", !.recount = journal.rows,
                                  !.failed = call.failed \cup guard]]
    /\ OnlyCallChanges

GateReady(cases, replays, failed, proof) ==
    ScoresPass(cases, replays, failed) /\ CandidatesPass(replays) /\ proof

FingerprintAfter(e) ==
    LET call == evalCalls[e]
        proof == ProofPasses([count |-> call.count, fingerprint |-> call.fingerprint],
                             [count |-> call.recount, fingerprint |-> journal])
    IN
    /\ call.stage = "recounted"
    /\ evalCalls' = [evalCalls EXCEPT ![e] =
          [@ EXCEPT !.stage = "gated", !.proof = proof,
                    !.ready = GateReady(DOMAIN call.built, call.replays, call.failed, proof)]]
    /\ OnlyCallChanges

WriteReport(e) ==
    /\ evalCalls[e].stage = "gated"
    /\ evalCalls' = [evalCalls EXCEPT ![e] = [@ EXCEPT !.stage = "reported"]]
    /\ reports' = reports \cup {e}
    /\ UNCHANGED <<productionVars, caseRows, artifactRows, evalRuns, reviewVars>>

(* One transaction for the run, its cases, its scores and its artifacts. *)
InsertRun(e) ==
    LET call == evalCalls[e] IN
    /\ call.stage = "reported"
    /\ evalCalls' = [evalCalls EXCEPT ![e] = [NewCall EXCEPT !.stage = "returned"]]
    /\ evalRuns' = [evalRuns EXCEPT ![e] =
          [cases |-> DOMAIN call.built, scored |-> call.built, failed |-> call.failed,
           replays |-> call.replays, ready |-> call.ready, touched |-> call.touched]]
    /\ promotion' = [promotion EXCEPT ![e] =
          [NoArtifacts EXCEPT !.proof = call.proof,
                              !.comparison = ShadowCandidateComparison(call.replays)]]
    /\ UNCHANGED <<productionVars, caseRows, artifactRows, reports, held, reviews, submissions>>

InsertFails(e) ==
    /\ evalCalls[e].stage = "reported"
    /\ evalCalls' = [evalCalls EXCEPT ![e] = [NewCall EXCEPT !.stage = "raised"]]
    /\ reports' = reports \ {e}
    /\ UNCHANGED <<productionVars, caseRows, artifactRows, evalRuns, reviewVars>>

InCall(call) == call.stage \notin {"unused", "returned", "raised", "killed"}

(* An exception before the report is complete, whose files are removed.    *)
EvalRaises(e) ==
    /\ InCall(evalCalls[e]) /\ evalCalls[e].stage # "reported"
    /\ evalCalls' = [evalCalls EXCEPT ![e] = [NewCall EXCEPT !.stage = "raised"]]
    /\ OnlyCallChanges

(* The process ends: what it had committed stays. *)
EvalKilled(e) ==
    /\ InCall(evalCalls[e])
    /\ evalCalls' = [evalCalls EXCEPT ![e] = [NewCall EXCEPT !.stage = "killed"]]
    /\ OnlyCallChanges

-----------------------------------------------------------------------------
(* promotion_review: a reviewer brings replays and submits artifacts.      *)

Stored(e) == evalRuns[e].cases # {}

BringReplay(e, case) ==
    /\ Stored(e) /\ submissions < MaxSubmissions
    /\ \E mode \in {"candidate_decision", "frozen_observed"}, shadow \in ShadowOutcomes :
          LET replay == CandidateReplay(mode, IF mode = "candidate_decision" THEN shadow ELSE "none",
                                        caseRows[case].audit, artifactRows[case])
          IN held' = [held EXCEPT ![e] = [c \in DOMAIN held[e] \cup {case} |->
                                             IF c = case THEN replay ELSE held[e][c]]]
    /\ UNCHANGED <<productionVars, evalCalls, sidecarVars, promotion, reviews, submissions>>

Reviewed(e, artifacts) ==
    PromotionStatus(GateReady(evalRuns[e].cases, held[e], evalRuns[e].failed, artifacts.proof),
                    artifacts, CurrentCandidateInputs(held[e]))

(* upsert_promotion_review_artifacts: the rows of the submitted artifacts  *)
(* are replaced, then the gate is computed again from all of them.  Its    *)
(* caller supplies scores, replays and thresholds; here the scores are     *)
(* those of the run and the thresholds the configured ones, as in          *)
(* EvalRunner.run, the replays are brought, and the side-effect proof is   *)
(* not replaced.                                                           *)
Submit(e, artifacts) ==
    /\ Stored(e) /\ submissions < MaxSubmissions
    /\ promotion' = [promotion EXCEPT ![e] = artifacts]
    /\ reviews' = [reviews EXCEPT ![e] = Reviewed(e, artifacts)]
    /\ submissions' = submissions + 1
    /\ UNCHANGED <<productionVars, evalCalls, sidecarVars, held>>

SubmitMaterials(e) ==
    \E kinds \in MaterialSets, approver \in People :
        Submit(e, [promotion[e] EXCEPT
            !.approver = IF "manual_approval" \in kinds THEN approver ELSE @,
            !.rollback = @ \/ "rollback_plan" \in kinds,
            !.impact = @ \/ "impact_scope" \in kinds,
            !.comparison = IF "shadow_candidate_comparison" \in kinds
                           THEN ShadowCandidateComparison(held[e]) ELSE @])

(* The builders ask for a value of every field; the input is any the       *)
(* manager names.                                                          *)
SubmitDecision(e) ==
    \E manager \in People, config \in ConfigHashes,
       input \in {audit.input : audit \in UNION {CandidateAudits[case] : case \in EvalCases}} :
        Submit(e, [promotion[e] EXCEPT
            !.decision = [manager |-> manager, approver |-> promotion[e].approver,
                          input |-> input, config |-> config]])

SubmitConfigRequest(e) ==
    LET decision == promotion[e].decision IN
    /\ decision.manager # Nobody
    /\ \E requester \in People :
          Submit(e, [promotion[e] EXCEPT
              !.request = [requester |-> requester, manager |-> decision.manager,
                           input |-> decision.input]])

SubmitConfigApproval(e) ==
    LET decision == promotion[e].decision IN
    /\ promotion[e].request.requester # Nobody /\ promotion[e].rollback
    /\ \E reviewer \in People :
          Submit(e, [promotion[e] EXCEPT
              !.approval = [reviewer |-> reviewer, requester |-> promotion[e].request.requester,
                            manager |-> decision.manager, input |-> decision.input,
                            config |-> decision.config]])

-----------------------------------------------------------------------------
ProductionNext ==
    \/ \E case \in EvalCases : PlanStored(case) \/ TraceFinishes(case)
    \/ ProductionInserts

CallNext(e) ==
    \/ BuildCases(e) \/ CountBefore(e) \/ FingerprintBefore(e) \/ UpsertCases(e)
    \/ \E case \in EvalCases : ReadStoredCase(e, case) \/ JudgeCase(e, case)
    \/ CountAfter(e) \/ FingerprintAfter(e)
    \/ WriteReport(e) \/ InsertRun(e) \/ InsertFails(e)
    \/ EvalRaises(e) \/ EvalKilled(e)

ReviewNext(e) ==
    \/ \E case \in EvalCases : BringReplay(e, case)
    \/ SubmitMaterials(e) \/ SubmitDecision(e)
    \/ SubmitConfigRequest(e) \/ SubmitConfigApproval(e)

EvaluationNext ==
    \/ ProductionNext
    \/ \E e \in EvalRunIds : CallNext(e) \/ ReviewNext(e)

EvaluationSpec == EvaluationInit /\ [][EvaluationNext]_evaluationVars

-----------------------------------------------------------------------------
(* A plan whose production run leaves nothing to hold against it: what a   *)
(* candidate that is promoted must come from.                              *)
Flawless(audit) ==
    /\ audit.input # NoCandidate /\ audit.context.input = audit.input
    /\ audit.gate /\ audit.semantic
    /\ audit.ready /\ audit.reasons = {}
    /\ audit.action \in EVAL_OPENING_ACTIONS => audit.levels
    /\ audit.workers >= REQUIRED_WORKER_ARTIFACT_COUNT /\ audit.manifestComplete
    /\ audit.snapshot = CANDIDATE_ARTIFACT_TYPES /\ audit.context.stale \cap SIDECAR_TYPES = {}
    /\ audit.lead.conflictRefs >= audit.lead.conflicts
    /\ COMPLETE_REPLAY_REFS \subseteq audit.refs /\ audit.spanTree
    /\ ~audit.hardBlocks /\ ~audit.factViolations

(* A run whose gate is ready was scored and replayed on the same plans,    *)
(* the ones production stored, and each of them is flawless and did what   *)
(* the badcase asks for: though a case is built, stored, replayed and      *)
(* scored in separate steps, another call may replace its rows in between, *)
(* and the gate sees only summaries.                                       *)
ReadyRunGrounded ==
    \A e \in EvalRunIds : Stored(e) /\ evalRuns[e].ready =>
        \A case \in evalRuns[e].cases :
            /\ evalRuns[e].scored[case].audit = traces[case].audit
            /\ evalRuns[e].replays[case].input = traces[case].audit.input
            /\ Flawless(traces[case].audit)
            /\ {"decision.final", "risk.check"} \subseteq traces[case].audit.spans
            /\ case \in ExpectsNoTrade =>
                  traces[case].finalAction = "no trade" \/ traces[case].audit.allowed = "no"

(* A run whose gate is ready saw no production write between its two       *)
(* fingerprints of the journal, an update of a row included: the proof     *)
(* artifact says as much to the people who approve it.                     *)
ReadyRunUntouched ==
    \A e \in EvalRunIds : Stored(e) /\ evalRuns[e].ready => ~evalRuns[e].touched

(* A stored run has the report its metadata names, and a report without a  *)
(* run is that of a call which has yet to store it or was killed: a failed *)
(* insert leaves no report behind.                                         *)
ReportBacked ==
    \A e \in EvalRunIds :
        /\ Stored(e) => e \in reports
        /\ e \in reports => Stored(e) \/ evalCalls[e].stage \in {"reported", "killed"}

(* The change of the production input that a review calls approved is that *)
(* of a flawless plan production stored, over a run with no failed score   *)
(* and no production write, and every hand it passed through meant it: the *)
(* decision names the approver on file, the request and the approval name  *)
(* the decision's manager and input, the approval its configuration.       *)
PromotionGrounded ==
    \A e \in EvalRunIds : reviews[e] = "config_change_review_approved" =>
        LET artifacts == promotion[e] IN
        /\ \E case \in EvalCases : /\ traces[case].audit.input = artifacts.decision.input
                                    /\ Flawless(traces[case].audit)
        /\ evalRuns[e].failed = {} /\ ~evalRuns[e].touched
        /\ artifacts.decision.approver = artifacts.approver
        /\ artifacts.request.manager = artifacts.decision.manager
        /\ artifacts.request.input = artifacts.decision.input
        /\ artifacts.approval.requester = artifacts.request.requester
        /\ artifacts.approval.input = artifacts.decision.input
        /\ artifacts.approval.config = artifacts.decision.config
=============================================================================
