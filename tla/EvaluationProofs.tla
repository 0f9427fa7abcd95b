--------------------------- MODULE EvaluationProofs ----------------------------
(***************************************************************************)
(* What the evaluation sidecar calls ready, and what a promotion review    *)
(* calls approved, for every set of badcases, calls, plans and people.     *)
(*                                                                         *)
(* A plan is stored once, so whatever a call, a row or a replay says of a  *)
(* badcase was taken either before the plan was there or from that plan    *)
(* (Origins).  CallSound says what a call knows at each of its stages,     *)
(* RunSound what a stored run and its artifacts say, ReviewSound what the  *)
(* last review of it does.                                                 *)
(***************************************************************************)
EXTENDS EvaluationRuns, TLAPS

TraceRow(stage, audit) ==
    [stage |-> stage, audit |-> audit,
     finalAction |-> IF stage = "finished" THEN audit.action ELSE NoAction,
     allowed |-> audit.allowed]

RowSound(case, row) ==
    \/ row = TraceRow("running", NoAudit)
    \/ \E audit \in CandidateAudits[case], stage \in {"stored", "finished"} :
          row = TraceRow(stage, audit)

RowMoves(old, new) ==
    /\ old.audit = NoAudit \/ new.audit = old.audit
    /\ old.finalAction = NoAction \/ new.finalAction = old.finalAction

Origins(row) == {NoAudit, row.audit}

ContentSound(row, content) ==
    /\ content.audit \in Origins(row)
    /\ content.finalAction \in {NoAction, row.finalAction}
    /\ content.allowed = content.audit.allowed

ReplaySound(row, replay) ==
    \E mode, shadow : \E audit, artifacts \in Origins(row) :
        replay = CandidateReplay(mode, shadow, audit, artifacts)

TracesSound ==
    /\ traces = [case \in EvalCases |-> traces[case]]
    /\ \A case \in EvalCases : RowSound(case, traces[case])

RowsSound ==
    /\ journal \in [rows: Nat, edits: Nat]
    /\ \A case \in EvalCases :
          ContentSound(traces[case], caseRows[case]) /\ artifactRows[case] \in Origins(traces[case])

EvalStages ==
    {"unused", "built", "counted", "fingerprinted", "judging", "recounted", "gated", "reported",
     "returned", "raised", "killed"}

WatchSound(call, rows, edits) ==
    /\ call.stage \in {"unused", "built", "counted"} => ~call.touched
    /\ Watching(call) =>
          /\ call.fingerprint \in [rows: Nat, edits: Nat]
          /\ call.fingerprint.rows <= rows /\ call.fingerprint.edits <= edits
          /\ call.touched => call.fingerprint.rows < rows \/ call.fingerprint.edits < edits
    /\ call.stage \in {"gated", "reported"} /\ call.proof => ~call.touched

BuiltSound(call, rows) ==
    InCall(call) =>
        /\ DOMAIN call.built # {} /\ DOMAIN call.built \subseteq EvalCases
        /\ call.mode \in EvalModes
        /\ \A case \in DOMAIN call.built : ContentSound(rows[case], call.built[case])
        /\ call.stage \in {"built", "counted", "fingerprinted"} =>
              /\ call.todo = DOMAIN call.built /\ DOMAIN call.replays = {}
              /\ call.reading.case = "none"

JudgedSound(call, rows) ==
    call.stage \in {"judging", "recounted", "gated", "reported"} =>
        /\ DOMAIN call.built = call.todo \cup DOMAIN call.replays
        /\ call.stage # "judging" => call.todo = {}
        /\ call.reading.case # "none" =>
              /\ call.reading.case \in call.todo
              /\ call.reading.audit \in Origins(rows[call.reading.case])
        /\ \A case \in DOMAIN call.replays :
              /\ ReplaySound(rows[case], call.replays[case])
              /\ call.failed = {} =>
                    \A judge \in RuleJudges : ~RuleFails(judge, case, call.built[case])

GateSound(call) ==
    call.stage \in {"gated", "reported"} /\ call.ready =>
        /\ call.failed = {} /\ call.proof
        /\ \A case \in DOMAIN call.replays : ReplayPasses(call.replays[case])

CallSound(call, rows, counts) ==
    /\ DOMAIN call = DOMAIN NewCall /\ call.stage \in EvalStages
    /\ WatchSound(call, counts.rows, counts.edits)
    /\ BuiltSound(call, rows) /\ JudgedSound(call, rows) /\ GateSound(call)

CaseGrounded(case, row, content, replay) ==
    /\ content.audit = row.audit
    /\ replay.input = row.audit.input
    /\ Flawless(row.audit)
    /\ {"decision.final", "risk.check"} \subseteq row.audit.spans
    /\ case \in ExpectsNoTrade => row.finalAction = "no trade" \/ row.audit.allowed = "no"

RunReady(run, rows) ==
    run.ready =>
        /\ ~run.touched
        /\ \A case \in run.cases :
              CaseGrounded(case, rows[case], run.scored[case], run.replays[case])

RunSound(e) ==
    /\ DOMAIN promotion[e] = DOMAIN NoArtifacts
    /\ Stored(e) =>
          /\ evalCalls[e].stage = "returned" /\ e \in reports
          /\ evalRuns[e].cases \subseteq EvalCases
          /\ promotion[e].proof => ~evalRuns[e].touched
          /\ RunReady(evalRuns[e], traces)
    /\ evalCalls[e].stage = "reported" => e \in reports
    /\ e \in reports => Stored(e) \/ evalCalls[e].stage \in {"reported", "killed"}

HeldSound(replays, rows) ==
    /\ DOMAIN replays \subseteq EvalCases
    /\ \A case \in DOMAIN replays : ReplaySound(rows[case], replays[case])

HandsAgree(artifacts) ==
    /\ artifacts.decision.approver = artifacts.approver
    /\ artifacts.request.manager = artifacts.decision.manager
    /\ artifacts.request.input = artifacts.decision.input
    /\ artifacts.approval.requester = artifacts.request.requester
    /\ artifacts.approval.input = artifacts.decision.input
    /\ artifacts.approval.config = artifacts.decision.config

Approved(artifacts, run, rows) ==
    /\ \E case \in EvalCases : /\ rows[case].audit.input = artifacts.decision.input
                                /\ Flawless(rows[case].audit)
    /\ run.failed = {} /\ ~run.touched
    /\ HandsAgree(artifacts)

ReviewSound(e) ==
    /\ reviews[e] # "none" => Stored(e)
    /\ reviews[e] = "config_change_review_approved" => Approved(promotion[e], evalRuns[e], traces)

EvaluationShape ==
    /\ DOMAIN evalCalls = EvalRunIds /\ DOMAIN evalRuns = EvalRunIds
    /\ DOMAIN promotion = EvalRunIds /\ DOMAIN held = EvalRunIds /\ DOMAIN reviews = EvalRunIds

EvaluationInv ==
    /\ TracesSound /\ RowsSound /\ EvaluationShape
    /\ \A e \in EvalRunIds :
          /\ CallSound(evalCalls[e], traces, journal)
          /\ RunSound(e) /\ HeldSound(held[e], traces) /\ ReviewSound(e)

LEMMA NoAuditFields ==
    /\ NoAudit.action = NoAction /\ NoAudit.ready = FALSE /\ NoAudit.snapshot = {}
    /\ NoAudit.allowed = "unknown" /\ NoAudit.spans = {}
BY DEF NoAudit

LEMMA RowFields ==
    ASSUME NEW stage, NEW audit
    PROVE  /\ TraceRow(stage, audit).stage = stage
           /\ TraceRow(stage, audit).audit = audit
           /\ TraceRow(stage, audit).allowed = audit.allowed
           /\ TraceRow(stage, audit).finalAction =
                 IF stage = "finished" THEN audit.action ELSE NoAction
BY DEF TraceRow

(* A plan that the production run stored is never taken for none.          *)
LEMMA AuditIsPlan ==
    ASSUME NEW case \in EvalCases, NEW row, RowSound(case, row)
    PROVE  /\ row.allowed = row.audit.allowed
           /\ row.audit = NoAudit => row.stage = "running" /\ row.finalAction = NoAction
           /\ row.audit # NoAudit => row.audit \in CandidateAudits[case]
<1>1. CASE row = TraceRow("running", NoAudit)
  BY <1>1, RowFields
<1>2. ASSUME NEW audit \in CandidateAudits[case], NEW stage \in {"stored", "finished"},
             row = TraceRow(stage, audit)
      PROVE  row.audit = audit /\ row.audit # NoAudit /\ row.allowed = row.audit.allowed
  <2>1. audit.action \in EVAL_ALLOWED_ACTIONS
    BY EvaluationRunsAssumption
  <2>2. audit.action # NoAction
    BY <2>1 DEF EVAL_ALLOWED_ACTIONS, EVAL_OPENING_ACTIONS, NoAction
  <2> QED
    BY <1>2, <2>2, RowFields, NoAuditFields
<1> QED
  BY <1>1, <1>2 DEF RowSound

LEMMA OriginsMove ==
    ASSUME NEW old, NEW new, RowMoves(old, new)
    PROVE  Origins(old) \subseteq Origins(new)
BY DEF RowMoves, Origins

LEMMA ContentMoves ==
    ASSUME NEW old, NEW new, RowMoves(old, new), NEW content, ContentSound(old, content)
    PROVE  ContentSound(new, content)
BY OriginsMove DEF RowMoves, ContentSound

LEMMA ReplayMoves ==
    ASSUME NEW old, NEW new, RowMoves(old, new), NEW replay, ReplaySound(old, replay)
    PROVE  ReplaySound(new, replay)
BY OriginsMove DEF ReplaySound

LEMMA ReplayFields ==
    ASSUME NEW mode, NEW shadow, NEW audit, NEW artifacts, NEW replay,
           replay = CandidateReplay(mode, shadow, audit, artifacts)
    PROVE  /\ replay.input = audit.input /\ replay.ready = audit.ready
           /\ replay.reasons = audit.reasons
           /\ replay.manifestComplete = audit.manifestComplete
           /\ replay.context = ContextConsistent(audit, artifacts)
           /\ replay.snapshot = ArtifactSnapshotConsistent(audit, artifacts)
           /\ replay.counters = CounterConflictCovered(artifacts)
           /\ replay.missing = MissingReplayRefs(audit)
           /\ replay.spanTree = audit.spanTree
           /\ replay.hardBlocks = audit.hardBlocks
           /\ replay.factViolations = audit.factViolations
BY DEF CandidateReplay

(* What the gate lets pass was replayed from the plan that production      *)
(* stored, and the plan is flawless.                                       *)
LEMMA PassingIsFlawless ==
    ASSUME NEW case \in EvalCases, NEW row, RowSound(case, row),
           NEW replay, ReplaySound(row, replay), ReplayPasses(replay)
    PROVE  /\ row.audit # NoAudit
           /\ replay.input = row.audit.input
           /\ Flawless(row.audit)
<1>0. PICK mode, shadow :
        \E audit, artifacts \in Origins(row) :
            replay = CandidateReplay(mode, shadow, audit, artifacts)
  BY Zenon DEF ReplaySound
<1>1. PICK audit \in Origins(row), artifacts \in Origins(row) :
        replay = CandidateReplay(mode, shadow, audit, artifacts)
  BY <1>0
<1>2. /\ audit.ready /\ audit.reasons = {} /\ audit.manifestComplete /\ audit.spanTree
      /\ ~audit.hardBlocks /\ ~audit.factViolations
      /\ ContextConsistent(audit, artifacts) /\ ArtifactSnapshotConsistent(audit, artifacts)
      /\ CounterConflictCovered(artifacts) /\ MissingReplayRefs(audit) = {}
  BY <1>1, ReplayFields DEF ReplayPasses
<1>3. audit = row.audit /\ audit # NoAudit
  BY <1>2, NoAuditFields DEF Origins
<1>4. artifacts.snapshot = CANDIDATE_ARTIFACT_TYPES
  BY <1>2 DEF ArtifactSnapshotConsistent
<1>5. artifacts = row.audit
  <2>1. CANDIDATE_ARTIFACT_TYPES # {}
    BY DEF CANDIDATE_ARTIFACT_TYPES
  <2> QED
    BY <1>4, <2>1, NoAuditFields DEF Origins
<1>6. audit \in CandidateAudits[case]
  BY <1>3, AuditIsPlan
<1>7. /\ audit.gate /\ audit.semantic /\ audit.input # NoCandidate
      /\ audit.workers >= REQUIRED_WORKER_ARTIFACT_COUNT
      /\ audit.action \in EVAL_OPENING_ACTIONS => audit.levels
  BY <1>2, <1>6, EvaluationRunsAssumption
<1>8. audit.context.input = audit.input
  BY <1>2, <1>7 DEF ContextConsistent
<1>9. audit.context.stale \cap SIDECAR_TYPES = {}
  <2> SUFFICES ASSUME NEW type \in SIDECAR_TYPES, type \in audit.context.stale PROVE FALSE
    OBVIOUS
  <2>1. SidecarMatches(type, audit, artifacts)
    BY <1>2 DEF ContextConsistent
  <2>2. type \in artifacts.snapshot
    BY <1>4 DEF SIDECAR_TYPES, CANDIDATE_ARTIFACT_TYPES
  <2> QED
    BY <2>1, <2>2 DEF SidecarMatches
<1>10. audit.lead.conflictRefs >= audit.lead.conflicts
  BY <1>2, <1>3, <1>4, <1>5 DEF CounterConflictCovered, CANDIDATE_ARTIFACT_TYPES
<1>11. COMPLETE_REPLAY_REFS \subseteq audit.refs
  BY <1>2 DEF MissingReplayRefs
<1> QED
  BY <1>1, <1>2, <1>3, <1>4, <1>5, <1>7, <1>8, <1>9, <1>10, <1>11, ReplayFields DEF Flawless

LEMMA FlawlessIsPlan ==
    ASSUME NEW audit, Flawless(audit) PROVE audit # NoAudit
BY NoAuditFields DEF Flawless

LEMMA TracesStep ==
    ASSUME TracesSound, [EvaluationNext]_evaluationVars
    PROVE  /\ TracesSound'
           /\ \A case \in EvalCases : RowMoves(traces[case], traces'[case])
<1>1. ASSUME NEW case \in EvalCases, PlanStored(case)
      PROVE  /\ TracesSound'
             /\ \A c \in EvalCases : RowMoves(traces[c], traces'[c])
  <2>1. PICK audit \in CandidateAudits[case] :
          traces' = [traces EXCEPT ![case] = [stage |-> "stored", audit |-> audit,
                                              finalAction |-> NoAction, allowed |-> audit.allowed]]
    BY <1>1 DEF PlanStored
  <2>2. traces' = [traces EXCEPT ![case] = TraceRow("stored", audit)]
    BY <2>1 DEF TraceRow
  <2>3. RowSound(case, traces[case]) /\ traces[case].stage = "running"
    BY <1>1 DEF TracesSound, PlanStored
  <2>4. traces[case].audit = NoAudit /\ traces[case].finalAction = NoAction
    BY <2>3, RowFields, NoAuditFields DEF RowSound
  <2>5. \A c \in EvalCases : RowSound(c, traces'[c]) /\ RowMoves(traces[c], traces'[c])
    <3> SUFFICES ASSUME NEW c \in EvalCases
                 PROVE  RowSound(c, traces'[c]) /\ RowMoves(traces[c], traces'[c])
      OBVIOUS
    <3>1. CASE c = case
      <4>1. traces'[c] = TraceRow("stored", audit)
        BY <2>2, <3>1 DEF TracesSound
      <4> QED
        BY <2>4, <3>1, <4>1 DEF RowSound, RowMoves
    <3>2. CASE c # case
      <4>1. traces'[c] = traces[c]
        BY <2>2, <3>2 DEF TracesSound
      <4> QED
        BY <4>1 DEF TracesSound, RowMoves
    <3> QED
      BY <3>1, <3>2
  <2> QED
    BY <2>2, <2>5 DEF TracesSound
<1>2. ASSUME NEW case \in EvalCases, TraceFinishes(case)
      PROVE  /\ TracesSound'
             /\ \A c \in EvalCases : RowMoves(traces[c], traces'[c])
  <2>1. RowSound(case, traces[case]) /\ traces[case].stage = "stored"
    BY <1>2 DEF TracesSound, TraceFinishes
  <2>2. PICK audit \in CandidateAudits[case] : traces[case] = TraceRow("stored", audit)
    BY <2>1, RowFields DEF RowSound
  <2>3. [stage |-> "finished", audit |-> traces[case].audit,
         finalAction |-> traces[case].audit.action, allowed |-> traces[case].allowed]
          = TraceRow("finished", audit)
    BY <2>2 DEF TraceRow
  <2>4. traces' = [traces EXCEPT ![case] = TraceRow("finished", audit)]
    BY <1>2, <2>3 DEF TraceFinishes, TracesSound
  <2>5. \A c \in EvalCases : RowSound(c, traces'[c]) /\ RowMoves(traces[c], traces'[c])
    <3> SUFFICES ASSUME NEW c \in EvalCases
                 PROVE  RowSound(c, traces'[c]) /\ RowMoves(traces[c], traces'[c])
      OBVIOUS
    <3>1. CASE c = case
      <4>1. traces'[c] = TraceRow("finished", audit)
        BY <2>4, <3>1 DEF TracesSound
      <4> QED
        BY <2>2, <3>1, <4>1, RowFields DEF RowSound, RowMoves
    <3>2. CASE c # case
      <4>1. traces'[c] = traces[c]
        BY <2>4, <3>2 DEF TracesSound
      <4> QED
        BY <4>1 DEF TracesSound, RowMoves
    <3> QED
      BY <3>1, <3>2
  <2> QED
    BY <2>4, <2>5 DEF TracesSound
<1>3. CASE UNCHANGED traces
  BY <1>3 DEF TracesSound, RowMoves
<1>4. CASE ProductionInserts
  BY <1>3, <1>4 DEF ProductionInserts
<1>5. ASSUME NEW e \in EvalRunIds, CallNext(e) PROVE UNCHANGED traces
  BY <1>5 DEF CallNext, BuildCases, CountBefore, FingerprintBefore, UpsertCases, ReadStoredCase,
              JudgeCase, CountAfter, FingerprintAfter, WriteReport, InsertRun, InsertFails,
              EvalRaises, EvalKilled, OnlyCallChanges, productionVars
<1>6. ASSUME NEW e \in EvalRunIds, ReviewNext(e) PROVE UNCHANGED traces
  BY <1>6 DEF ReviewNext, BringReplay, SubmitMaterials, SubmitDecision, SubmitConfigRequest,
              SubmitConfigApproval, Submit, productionVars
<1>7. CASE UNCHANGED evaluationVars
  BY <1>3, <1>7 DEF evaluationVars, productionVars
<1> QED
  BY <1>1, <1>2, <1>3, <1>4, <1>5, <1>6, <1>7 DEF EvaluationNext, ProductionNext

LEMMA CallMoves ==
    ASSUME NEW old, NEW new, \A case \in EvalCases : RowMoves(old[case], new[case]),
           NEW counts, NEW call, CallSound(call, old, counts)
    PROVE  CallSound(call, new, counts)
<1>1. BuiltSound(call, new)
  <2> SUFFICES ASSUME InCall(call),
                      NEW case \in DOMAIN call.built
               PROVE  ContentSound(new[case], call.built[case])
    BY DEF CallSound, BuiltSound
  <2>1. case \in EvalCases /\ ContentSound(old[case], call.built[case])
    BY DEF CallSound, BuiltSound
  <2> QED
    BY <2>1, ContentMoves
<1>2. JudgedSound(call, new)
  <2> SUFFICES ASSUME call.stage \in {"judging", "recounted", "gated", "reported"}
               PROVE  JudgedSound(call, new)
    BY DEF JudgedSound
  <2>1. JudgedSound(call, old) /\ BuiltSound(call, old) /\ InCall(call)
    BY DEF CallSound, InCall
  <2>2. call.todo \subseteq EvalCases /\ DOMAIN call.replays \subseteq EvalCases
    BY <2>1 DEF JudgedSound, BuiltSound
  <2>3. call.reading.case # "none" =>
          call.reading.audit \in Origins(new[call.reading.case])
    BY <2>1, <2>2, OriginsMove DEF JudgedSound
  <2>4. \A case \in DOMAIN call.replays : ReplaySound(new[case], call.replays[case])
    BY <2>1, <2>2, ReplayMoves DEF JudgedSound
  <2> QED
    BY <2>1, <2>3, <2>4 DEF JudgedSound
<1> QED
  BY <1>1, <1>2 DEF CallSound

LEMMA CallWatches ==
    ASSUME NEW rows, NEW before \in [rows: Nat, edits: Nat], NEW after \in [rows: Nat, edits: Nat],
           before.rows <= after.rows, before.edits <= after.edits,
           before.rows < after.rows \/ before.edits < after.edits,
           NEW call, CallSound(call, rows, before)
    PROVE  CallSound(IF Watching(call) THEN [call EXCEPT !.touched = TRUE] ELSE call, rows, after)
<1>1. CASE ~Watching(call)
  <2>1. WatchSound(call, after.rows, after.edits)
    BY <1>1 DEF CallSound, WatchSound
  <2> QED
    BY <1>1, <2>1 DEF CallSound
<1>2. CASE Watching(call)
  <2>1. PICK new : new = [call EXCEPT !.touched = TRUE]
    OBVIOUS
  <2>2. DOMAIN call = DOMAIN NewCall
    BY DEF CallSound
  <2>3. /\ DOMAIN new = DOMAIN NewCall /\ new.touched
        /\ new.stage = call.stage /\ new.fingerprint = call.fingerprint
        /\ new.built = call.built /\ new.mode = call.mode /\ new.todo = call.todo
        /\ new.replays = call.replays /\ new.reading = call.reading /\ new.failed = call.failed
    BY <2>1, <2>2 DEF NewCall
  <2>4. /\ new.fingerprint \in [rows: Nat, edits: Nat]
        /\ new.fingerprint.rows <= before.rows /\ new.fingerprint.edits <= before.edits
    BY <1>2, <2>3 DEF CallSound, WatchSound
  <2>5. PICK r \in Nat, d \in Nat : r = new.fingerprint.rows /\ d = new.fingerprint.edits
    BY <2>4
  <2>6. PICK r1 \in Nat, d1 \in Nat : r1 = before.rows /\ d1 = before.edits
    OBVIOUS
  <2>7. PICK r2 \in Nat, d2 \in Nat : r2 = after.rows /\ d2 = after.edits
    OBVIOUS
  <2>8. r <= r1 /\ d <= d1 /\ r1 <= r2 /\ d1 <= d2 /\ (r1 < r2 \/ d1 < d2)
    BY <2>4, <2>5, <2>6, <2>7
  <2>9. r <= r2 /\ d <= d2 /\ (r < r2 \/ d < d2)
    BY <2>8
  <2>10. WatchSound(new, after.rows, after.edits)
    BY <1>2, <2>3, <2>4, <2>5, <2>7, <2>9 DEF WatchSound, Watching
  <2>11. BuiltSound(new, rows) /\ JudgedSound(new, rows) /\ GateSound(new)
    BY <1>2, <2>3 DEF CallSound, BuiltSound, JudgedSound, GateSound, Watching, InCall
  <2> QED
    BY <1>2, <2>1, <2>3, <2>10, <2>11 DEF CallSound
<1> QED
  BY <1>1, <1>2

LEMMA NewCallFields ==
    /\ NewCall.stage = "unused" /\ NewCall.touched = FALSE /\ NewCall.todo = {}
    /\ NewCall.reading.case = "none" /\ NewCall.failed = {} /\ DOMAIN NewCall.replays = {}
    /\ DOMAIN NewCall =
          {"stage", "mode", "built", "count", "recount", "fingerprint", "todo", "reading",
           "replays", "failed", "proof", "ready", "touched"}
BY DEF NewCall

LEMMA EndedCall ==
    ASSUME NEW stage \in {"returned", "raised", "killed"}, NEW rows, NEW counts
    PROVE  /\ CallSound([NewCall EXCEPT !.stage = stage], rows, counts)
           /\ [NewCall EXCEPT !.stage = stage].stage = stage
<1>1. PICK new : new = [NewCall EXCEPT !.stage = stage]
  OBVIOUS
<1>2. new.stage = stage /\ DOMAIN new = DOMAIN NewCall
  BY <1>1, NewCallFields
<1> QED
  BY <1>1, <1>2 DEF CallSound, EvalStages, WatchSound, Watching, BuiltSound, InCall, JudgedSound,
                    GateSound

(* A step of one call leaves the others as they were.                      *)
LEMMA OneCall ==
    ASSUME EvaluationInv, NEW e \in EvalRunIds, NEW new,
           evalCalls' = [evalCalls EXCEPT ![e] = new], CallSound(new, traces, journal)
    PROVE  /\ DOMAIN evalCalls' = EvalRunIds
           /\ evalCalls'[e] = new
           /\ \A d \in EvalRunIds \ {e} : evalCalls'[d] = evalCalls[d]
           /\ \A d \in EvalRunIds : CallSound(evalCalls'[d], traces, journal)
<1>1. DOMAIN evalCalls = EvalRunIds
  BY DEF EvaluationInv, EvaluationShape
<1>2. /\ DOMAIN evalCalls' = EvalRunIds /\ evalCalls'[e] = new
      /\ \A d \in EvalRunIds \ {e} : evalCalls'[d] = evalCalls[d]
  BY <1>1
<1>3. \A d \in EvalRunIds : CallSound(evalCalls[d], traces, journal)
  BY DEF EvaluationInv
<1> QED
  BY <1>2, <1>3

LEMMA QuietCall ==
    ASSUME EvaluationInv, NEW e \in EvalRunIds, NEW new,
           evalCalls' = [evalCalls EXCEPT ![e] = new], OnlyCallChanges,
           CallSound(new, traces, journal), new.stage # "reported",
           evalCalls[e].stage \notin {"returned", "killed"},
           evalCalls[e].stage = "reported" => new.stage = "killed"
    PROVE  EvaluationInv'
<1>1. UNCHANGED <<traces, journal, caseRows, artifactRows, reports, evalRuns, promotion, held,
                  reviews, submissions>>
  BY DEF OnlyCallChanges, productionVars, sidecarVars, reviewVars
<1>2. /\ DOMAIN evalCalls' = EvalRunIds /\ evalCalls'[e] = new
      /\ \A d \in EvalRunIds \ {e} : evalCalls'[d] = evalCalls[d]
      /\ \A d \in EvalRunIds : CallSound(evalCalls'[d], traces, journal)
  BY OneCall
<1>3. TracesSound' /\ RowsSound' /\ EvaluationShape'
  BY <1>1, <1>2 DEF EvaluationInv, TracesSound, RowsSound, EvaluationShape
<1>4. ASSUME NEW d \in EvalRunIds PROVE RunSound(d)'
  <2>1. RunSound(d) /\ RunSound(e) /\ Stored(d)' = Stored(d)
    BY <1>1 DEF EvaluationInv, Stored
  <2>2. CASE d = e
    <3>1. ~Stored(e)
      BY <2>1 DEF RunSound
    <3>2. e \in reports => evalCalls[e].stage = "reported"
      BY <2>1, <3>1 DEF RunSound
    <3> QED
      BY <1>1, <1>2, <2>1, <2>2, <3>1, <3>2 DEF RunSound
  <2>3. CASE d # e
    BY <1>1, <1>2, <2>1, <2>3 DEF RunSound
  <2> QED
    BY <2>2, <2>3
<1>5. ASSUME NEW d \in EvalRunIds PROVE HeldSound(held[d], traces)' /\ ReviewSound(d)'
  <2>1. HeldSound(held[d], traces) /\ ReviewSound(d) /\ Stored(d)' = Stored(d)
    BY <1>1 DEF EvaluationInv, Stored
  <2> QED
    BY <1>1, <2>1 DEF ReviewSound
<1> QED
  BY <1>1, <1>2, <1>3, <1>4, <1>5 DEF EvaluationInv

LEMMA BuildCasesSound ==
    ASSUME EvaluationInv, NEW e \in EvalRunIds, BuildCases(e) PROVE EvaluationInv'
<1>1. PICK cases \in (SUBSET EvalCases) \ {{}}, mode \in EvalModes :
        evalCalls' = [evalCalls EXCEPT ![e] =
            [NewCall EXCEPT !.stage = "built", !.mode = mode, !.todo = cases,
                            !.built = [case \in cases |-> Content(case)]]]
  BY DEF BuildCases
<1>2. PICK new :
        new = [NewCall EXCEPT !.stage = "built", !.mode = mode, !.todo = cases,
                              !.built = [case \in cases |-> Content(case)]]
  OBVIOUS
<1>3. /\ DOMAIN new = DOMAIN NewCall /\ new.stage = "built" /\ new.mode = mode /\ new.todo = cases
      /\ new.built = [case \in cases |-> Content(case)] /\ new.touched = FALSE
      /\ DOMAIN new.replays = {} /\ new.reading.case = "none"
  BY <1>2, NewCallFields
<1>4. \A case \in cases : ContentSound(traces[case], Content(case))
  <2> SUFFICES ASSUME NEW case \in cases PROVE ContentSound(traces[case], Content(case))
    OBVIOUS
  <2>1. traces[case].allowed = traces[case].audit.allowed
    BY <1>1, AuditIsPlan DEF EvaluationInv, TracesSound
  <2> QED
    BY <2>1 DEF ContentSound, Content, Origins
<1>5. CallSound(new, traces, journal)
  <2>1. /\ DOMAIN new.built = cases /\ cases # {} /\ cases \subseteq EvalCases
        /\ \A case \in cases : new.built[case] = Content(case)
    BY <1>1, <1>3
  <2>2. BuiltSound(new, traces)
    BY <1>3, <1>4, <2>1 DEF BuiltSound
  <2>3. WatchSound(new, journal.rows, journal.edits) /\ JudgedSound(new, traces) /\ GateSound(new)
    BY <1>3 DEF WatchSound, Watching, JudgedSound, GateSound
  <2> QED
    BY <1>3, <2>2, <2>3 DEF CallSound, EvalStages
<1>6. evalCalls[e].stage = "unused"
  BY DEF BuildCases
<1>7. OnlyCallChanges
  BY DEF BuildCases
<1> QED
  BY <1>1, <1>2, <1>3, <1>5, <1>6, <1>7, QuietCall

LEMMA CountBeforeSound ==
    ASSUME EvaluationInv, NEW e \in EvalRunIds, CountBefore(e) PROVE EvaluationInv'
<1>1. PICK call : call = evalCalls[e]
  OBVIOUS
<1>2. PICK new : new = [call EXCEPT !.stage = "counted", !.count = journal.rows]
  OBVIOUS
<1>3. /\ call.stage = "built" /\ OnlyCallChanges /\ CallSound(call, traces, journal)
      /\ evalCalls' = [evalCalls EXCEPT ![e] = new]
  BY <1>1, <1>2 DEF CountBefore, EvaluationInv, EvaluationShape
<1>4. /\ DOMAIN new = DOMAIN NewCall /\ new.stage = "counted" /\ new.mode = call.mode
      /\ new.todo = call.todo /\ new.built = call.built /\ new.touched = call.touched
      /\ new.replays = call.replays /\ new.reading = call.reading
  BY <1>2, <1>3, NewCallFields DEF CallSound
<1>5. CallSound(new, traces, journal)
  BY <1>3, <1>4 DEF CallSound, EvalStages, WatchSound, Watching, BuiltSound, InCall, JudgedSound,
                    GateSound
<1> QED
  BY <1>1, <1>3, <1>4, <1>5, QuietCall

LEMMA FingerprintBeforeSound ==
    ASSUME EvaluationInv, NEW e \in EvalRunIds, FingerprintBefore(e) PROVE EvaluationInv'
<1>1. PICK call : call = evalCalls[e]
  OBVIOUS
<1>2. PICK new : new = [call EXCEPT !.stage = "fingerprinted", !.fingerprint = journal]
  OBVIOUS
<1>3. /\ call.stage = "counted" /\ OnlyCallChanges /\ CallSound(call, traces, journal)
      /\ evalCalls' = [evalCalls EXCEPT ![e] = new]
  BY <1>1, <1>2 DEF FingerprintBefore, EvaluationInv, EvaluationShape
<1>4. /\ DOMAIN new = DOMAIN NewCall /\ new.stage = "fingerprinted" /\ new.mode = call.mode
      /\ new.todo = call.todo /\ new.built = call.built /\ new.touched = call.touched
      /\ new.replays = call.replays /\ new.reading = call.reading
      /\ new.fingerprint = journal
  BY <1>2, <1>3, NewCallFields DEF CallSound
<1>5. journal \in [rows: Nat, edits: Nat] /\ journal.rows <= journal.rows
      /\ journal.edits <= journal.edits
  BY DEF EvaluationInv, RowsSound
<1>6. CallSound(new, traces, journal)
  BY <1>3, <1>4, <1>5 DEF CallSound, EvalStages, WatchSound, Watching, BuiltSound, InCall,
                          JudgedSound, GateSound
<1> QED
  BY <1>1, <1>3, <1>4, <1>6, QuietCall

LEMMA ReadStoredCaseSound ==
    ASSUME EvaluationInv, NEW e \in EvalRunIds, NEW case \in EvalCases, ReadStoredCase(e, case)
    PROVE  EvaluationInv'
<1>1. PICK call : call = evalCalls[e]
  OBVIOUS
<1>2. PICK new :
        new = [call EXCEPT !.reading = [case |-> case, audit |-> caseRows[case].audit]]
  OBVIOUS
<1>3. /\ call.stage = "judging" /\ case \in call.todo /\ OnlyCallChanges
      /\ CallSound(call, traces, journal)
      /\ evalCalls' = [evalCalls EXCEPT ![e] = new]
  BY <1>1, <1>2 DEF ReadStoredCase, EvaluationInv, EvaluationShape
<1>4. /\ DOMAIN new = DOMAIN NewCall /\ new.stage = "judging" /\ new.mode = call.mode
      /\ new.todo = call.todo /\ new.built = call.built /\ new.touched = call.touched
      /\ new.replays = call.replays /\ new.failed = call.failed
      /\ new.fingerprint = call.fingerprint
      /\ new.reading.case = case /\ new.reading.audit = caseRows[case].audit
  BY <1>2, <1>3, NewCallFields DEF CallSound
<1>5. caseRows[case].audit \in Origins(traces[case])
  BY DEF EvaluationInv, RowsSound, ContentSound
<1>6. JudgedSound(new, traces)
  BY <1>3, <1>4, <1>5 DEF CallSound, JudgedSound
<1>7. CallSound(new, traces, journal)
  BY <1>3, <1>4, <1>6 DEF CallSound, EvalStages, WatchSound, Watching, BuiltSound, InCall,
                          GateSound
<1> QED
  BY <1>1, <1>3, <1>4, <1>7, QuietCall

LEMMA RulesJudged ==
    ASSUME NEW mode \in EvalModes, NEW case, NEW content,
           NEW failed \in FailedJudges(mode, case, content), NEW judge \in RuleJudges,
           RuleFails(judge, case, content)
    PROVE  judge \in failed
<1>1. PICK rules : rules = {j \in RuleJudges : RuleFails(j, case, content)}
  OBVIOUS
<1>2. mode \in {"cheap", "judge_only_fixture", "judge_openai"}
  BY EvaluationRunsAssumption
<1>3. rules \subseteq failed
  <2>1. CASE mode = "cheap"
    BY <1>1, <2>1 DEF FailedJudges
  <2>2. CASE mode = "judge_only_fixture"
    BY <1>1, <2>2 DEF FailedJudges
  <2>3. CASE mode = "judge_openai"
    BY <1>1, <2>3 DEF FailedJudges
  <2> QED
    BY <1>2, <2>1, <2>2, <2>3
<1> QED
  BY <1>1, <1>3

LEMMA JudgeCaseSound ==
    ASSUME EvaluationInv, NEW e \in EvalRunIds, NEW case \in EvalCases, JudgeCase(e, case)
    PROVE  EvaluationInv'
<1> DEFINE call == evalCalls[e]
<1> DEFINE replay == CandidateReplay("candidate_decision", "none", call.reading.audit,
                                     artifactRows[case])
<1> DEFINE replays == [c \in DOMAIN call.replays \cup {case} |->
                          IF c = case THEN replay ELSE call.replays[c]]
<1>1. PICK failed \in FailedJudges(call.mode, case, call.built[case]) :
        evalCalls' = [evalCalls EXCEPT ![e] =
            [@ EXCEPT !.todo = call.todo \ {case}, !.reading = NewCall.reading,
                      !.replays = replays,
                      !.failed = call.failed \cup {<<case, judge>> : judge \in failed}]]
  BY Zenon DEF JudgeCase
<1> DEFINE new == [call EXCEPT !.todo = call.todo \ {case}, !.reading = NewCall.reading,
                               !.replays = replays,
                               !.failed = call.failed \cup {<<case, judge>> : judge \in failed}]
<1>2. e \in DOMAIN evalCalls
  BY DEF EvaluationInv, EvaluationShape
<1>3. /\ call.stage = "judging" /\ call.reading.case = case /\ OnlyCallChanges
      /\ CallSound(call, traces, journal)
  BY DEF JudgeCase, EvaluationInv
<1>4. evalCalls' = [evalCalls EXCEPT ![e] = new]
  BY <1>1, <1>2
<1>5. /\ DOMAIN new = DOMAIN NewCall /\ new.stage = "judging" /\ new.mode = call.mode
      /\ new.built = call.built /\ new.touched = call.touched
      /\ new.fingerprint = call.fingerprint
      /\ new.todo = call.todo \ {case} /\ new.reading = NewCall.reading
      /\ DOMAIN new.replays = DOMAIN call.replays \cup {case}
      /\ \A c \in DOMAIN new.replays :
            new.replays[c] = IF c = case THEN replay ELSE call.replays[c]
      /\ new.failed = call.failed \cup {<<case, judge>> : judge \in failed}
  BY <1>3, NewCallFields DEF CallSound
<1> HIDE DEF new, replays, call
<1>6. case # "none" /\ case \in call.todo /\ case \in DOMAIN call.built
  BY <1>3, EvaluationRunsAssumption DEF CallSound, JudgedSound
<1>7. ReplaySound(traces[case], replay)
  <2>1. call.reading.audit \in Origins(traces[case])
    BY <1>3, <1>6 DEF CallSound, JudgedSound
  <2>2. artifactRows[case] \in Origins(traces[case])
    BY DEF EvaluationInv, RowsSound
  <2> QED
    BY <2>1, <2>2 DEF ReplaySound
<1> HIDE DEF replay
<1>8. new.failed = {} => call.failed = {} /\ failed = {}
  <2>1. \A judge \in failed : <<case, judge>> \in new.failed
    BY <1>5
  <2> QED
    BY <1>5, <2>1
<1>9. failed = {} => \A judge \in RuleJudges : ~RuleFails(judge, case, call.built[case])
  <2>1. call.mode \in EvalModes
    BY <1>3 DEF CallSound, BuiltSound, InCall
  <2> QED
    BY <2>1, RulesJudged
<1>10. JudgedSound(new, traces)
  <2>1. JudgedSound(call, traces)
    BY <1>3 DEF CallSound
  <2>2. DOMAIN new.built = new.todo \cup DOMAIN new.replays
    BY <1>3, <1>5, <1>6, <2>1 DEF JudgedSound
  <2>3. \A c \in DOMAIN new.replays :
          /\ ReplaySound(traces[c], new.replays[c])
          /\ new.failed = {} => \A judge \in RuleJudges : ~RuleFails(judge, c, new.built[c])
    <3> SUFFICES ASSUME NEW c \in DOMAIN new.replays
                 PROVE  /\ ReplaySound(traces[c], new.replays[c])
                        /\ new.failed = {} =>
                              \A judge \in RuleJudges : ~RuleFails(judge, c, new.built[c])
      OBVIOUS
    <3>1. CASE c = case
      <4>1. new.replays[c] = replay
        BY <1>5, <3>1
      <4> QED
        BY <1>5, <1>7, <1>8, <1>9, <3>1, <4>1
    <3>2. CASE c # case
      <4>1. c \in DOMAIN call.replays /\ new.replays[c] = call.replays[c]
        BY <1>5, <3>2
      <4> QED
        BY <1>3, <1>5, <1>8, <2>1, <4>1 DEF JudgedSound
    <3> QED
      BY <3>1, <3>2
  <2> QED
    BY <1>5, <2>2, <2>3, NewCallFields DEF JudgedSound
<1>11. CallSound(new, traces, journal)
  <2>1. WatchSound(new, journal.rows, journal.edits) /\ BuiltSound(new, traces) /\ GateSound(new)
    BY <1>3, <1>5 DEF CallSound, WatchSound, Watching, BuiltSound, InCall, GateSound
  <2> QED
    BY <1>5, <1>10, <2>1 DEF CallSound, EvalStages
<1> QED
  BY <1>3, <1>4, <1>5, <1>11, QuietCall DEF call

LEMMA CountAfterSound ==
    ASSUME EvaluationInv, NEW e \in EvalRunIds, CountAfter(e) PROVE EvaluationInv'
<1>1. PICK call : call = evalCalls[e]
  OBVIOUS
<1>2. PICK guard :
        guard = IF journal.rows = call.count THEN {}
                ELSE {<<case, "eval.side_effect_guard">> : case \in DOMAIN call.built}
  OBVIOUS
<1>3. PICK new :
        new = [call EXCEPT !.stage = "recounted", !.recount = journal.rows,
                           !.failed = call.failed \cup guard]
  OBVIOUS
<1>4. /\ call.stage = "judging" /\ call.todo = {} /\ call.reading.case = "none" /\ OnlyCallChanges
      /\ CallSound(call, traces, journal)
  BY <1>1 DEF CountAfter, Reading, EvaluationInv
<1>5. evalCalls' = [evalCalls EXCEPT ![e] = new]
  BY <1>1, <1>2, <1>3 DEF CountAfter, EvaluationInv, EvaluationShape
<1>6. /\ DOMAIN new = DOMAIN NewCall /\ new.stage = "recounted" /\ new.mode = call.mode
      /\ new.todo = call.todo /\ new.built = call.built /\ new.touched = call.touched
      /\ new.replays = call.replays /\ new.reading = call.reading
      /\ new.fingerprint = call.fingerprint /\ new.failed = call.failed \cup guard
  BY <1>3, <1>4, NewCallFields DEF CallSound
<1>7. JudgedSound(new, traces)
  BY <1>4, <1>6 DEF CallSound, JudgedSound
<1>8. CallSound(new, traces, journal)
  BY <1>4, <1>6, <1>7 DEF CallSound, EvalStages, WatchSound, Watching, BuiltSound, InCall, GateSound
<1> QED
  BY <1>1, <1>4, <1>5, <1>6, <1>8, QuietCall

LEMMA FingerprintAfterSound ==
    ASSUME EvaluationInv, NEW e \in EvalRunIds, FingerprintAfter(e) PROVE EvaluationInv'
<1>1. PICK call : call = evalCalls[e]
  OBVIOUS
<1>2. PICK proof :
        proof = ProofPasses([count |-> call.count, fingerprint |-> call.fingerprint],
                            [count |-> call.recount, fingerprint |-> journal])
  OBVIOUS
<1>3. PICK ready : ready = GateReady(DOMAIN call.built, call.replays, call.failed, proof)
  OBVIOUS
<1>4. PICK new : new = [call EXCEPT !.stage = "gated", !.proof = proof, !.ready = ready]
  OBVIOUS
<1>5. call.stage = "recounted" /\ OnlyCallChanges /\ CallSound(call, traces, journal)
  BY <1>1 DEF FingerprintAfter, EvaluationInv
<1>6. evalCalls' = [evalCalls EXCEPT ![e] = new]
  BY <1>1, <1>2, <1>3, <1>4 DEF FingerprintAfter, EvaluationInv, EvaluationShape
<1>7. /\ DOMAIN new = DOMAIN NewCall /\ new.stage = "gated" /\ new.mode = call.mode
      /\ new.todo = call.todo /\ new.built = call.built /\ new.touched = call.touched
      /\ new.replays = call.replays /\ new.reading = call.reading /\ new.failed = call.failed
      /\ new.proof = proof /\ new.ready = ready
  BY <1>4, <1>5, NewCallFields DEF CallSound
<1>8. proof => ~call.touched
  <2>1. proof => call.fingerprint = journal
    BY <1>2 DEF ProofPasses
  <2>2. journal.rows \in Nat /\ journal.edits \in Nat
    BY DEF EvaluationInv, RowsSound
  <2>3. call.touched =>
          call.fingerprint.rows < journal.rows \/ call.fingerprint.edits < journal.edits
    BY <1>5 DEF CallSound, WatchSound, Watching
  <2> QED
    BY <2>1, <2>2, <2>3
<1>9. ready => /\ call.failed = {} /\ proof
               /\ \A case \in DOMAIN call.replays : ReplayPasses(call.replays[case])
  BY <1>3 DEF GateReady, ScoresPass, CandidatesPass
<1>10. WatchSound(new, journal.rows, journal.edits) /\ GateSound(new)
  BY <1>7, <1>8, <1>9 DEF WatchSound, Watching, GateSound
<1>11. BuiltSound(new, traces) /\ JudgedSound(new, traces)
  BY <1>5, <1>7 DEF CallSound, BuiltSound, InCall, JudgedSound
<1>12. CallSound(new, traces, journal)
  BY <1>7, <1>10, <1>11 DEF CallSound, EvalStages
<1> QED
  BY <1>1, <1>5, <1>6, <1>7, <1>12, QuietCall

LEMMA CallEndsSound ==
    ASSUME EvaluationInv, NEW e \in EvalRunIds, EvalRaises(e) \/ EvalKilled(e)
    PROVE  EvaluationInv'
<1>1. PICK stage \in {"raised", "killed"} :
        /\ evalCalls' = [evalCalls EXCEPT ![e] = [NewCall EXCEPT !.stage = stage]]
        /\ evalCalls[e].stage = "reported" => stage = "killed"
  BY DEF EvalRaises, EvalKilled
<1>2. PICK new : new = [NewCall EXCEPT !.stage = stage]
  OBVIOUS
<1>3. CallSound(new, traces, journal) /\ new.stage = stage
  BY <1>2, EndedCall
<1>4. OnlyCallChanges /\ evalCalls[e].stage \notin {"returned", "killed"}
  BY DEF EvalRaises, EvalKilled, InCall
<1> QED
  BY <1>1, <1>2, <1>3, <1>4, QuietCall

LEMMA UpsertCasesSound ==
    ASSUME EvaluationInv, NEW e \in EvalRunIds, UpsertCases(e) PROVE EvaluationInv'
<1>1. PICK call : call = evalCalls[e]
  OBVIOUS
<1>2. PICK new : new = [call EXCEPT !.stage = "judging"]
  OBVIOUS
<1>3. /\ call.stage = "fingerprinted" /\ CallSound(call, traces, journal)
      /\ evalCalls' = [evalCalls EXCEPT ![e] = new]
  BY <1>1, <1>2 DEF UpsertCases, EvaluationInv, EvaluationShape
<1>4. UNCHANGED <<traces, journal, reports, evalRuns, promotion, held, reviews, submissions>>
  BY DEF UpsertCases, productionVars, reviewVars
<1>5. /\ DOMAIN new = DOMAIN NewCall /\ new.stage = "judging" /\ new.mode = call.mode
      /\ new.todo = call.todo /\ new.built = call.built /\ new.touched = call.touched
      /\ new.replays = call.replays /\ new.reading = call.reading
      /\ new.fingerprint = call.fingerprint
  BY <1>2, <1>3, NewCallFields DEF CallSound
<1>6. CallSound(new, traces, journal)
  <2>1. JudgedSound(new, traces)
    BY <1>3, <1>5 DEF CallSound, BuiltSound, InCall, JudgedSound
  <2>2. WatchSound(new, journal.rows, journal.edits) /\ BuiltSound(new, traces) /\ GateSound(new)
    BY <1>3, <1>5 DEF CallSound, WatchSound, Watching, BuiltSound, InCall, GateSound
  <2> QED
    BY <1>5, <2>1, <2>2 DEF CallSound, EvalStages
<1>7. /\ DOMAIN evalCalls' = EvalRunIds /\ evalCalls'[e] = new
      /\ \A d \in EvalRunIds \ {e} : evalCalls'[d] = evalCalls[d]
      /\ \A d \in EvalRunIds : CallSound(evalCalls'[d], traces, journal)
  BY <1>3, <1>6, OneCall
<1>8. ASSUME NEW case \in EvalCases
      PROVE  /\ ContentSound(traces[case], caseRows'[case])
             /\ artifactRows'[case] \in Origins(traces[case])
  <2>1. /\ caseRows'[case] = IF case \in DOMAIN call.built THEN call.built[case] ELSE caseRows[case]
        /\ artifactRows'[case] \in
              {artifactRows[case]} \cup
              (IF case \in DOMAIN call.built THEN {call.built[case].audit} ELSE {})
    BY <1>1 DEF UpsertCases
  <2>2. case \in DOMAIN call.built => ContentSound(traces[case], call.built[case])
    BY <1>3 DEF CallSound, BuiltSound, InCall
  <2>3. ContentSound(traces[case], caseRows[case]) /\ artifactRows[case] \in Origins(traces[case])
    BY DEF EvaluationInv, RowsSound
  <2> QED
    BY <2>1, <2>2, <2>3 DEF ContentSound
<1>9. TracesSound' /\ RowsSound' /\ EvaluationShape'
  BY <1>4, <1>7, <1>8 DEF EvaluationInv, TracesSound, RowsSound, EvaluationShape
<1>10. ASSUME NEW d \in EvalRunIds PROVE RunSound(d)'
  <2>1. RunSound(d) /\ Stored(d)' = Stored(d)
    BY <1>4 DEF EvaluationInv, Stored
  <2>2. evalCalls[d].stage = "reported" \/ evalCalls[d].stage = "killed"
           \/ evalCalls[d].stage = "returned" => evalCalls'[d] = evalCalls[d]
    BY <1>1, <1>3, <1>7
  <2>3. evalCalls'[d].stage = "reported" => evalCalls[d].stage = "reported"
    BY <1>5, <1>7
  <2> QED
    BY <1>4, <2>1, <2>2, <2>3 DEF RunSound
<1>11. ASSUME NEW d \in EvalRunIds PROVE HeldSound(held[d], traces)' /\ ReviewSound(d)'
  <2>1. HeldSound(held[d], traces) /\ ReviewSound(d) /\ Stored(d)' = Stored(d)
    BY <1>4 DEF EvaluationInv, Stored
  <2> QED
    BY <1>4, <2>1 DEF ReviewSound
<1> QED
  BY <1>4, <1>7, <1>9, <1>10, <1>11 DEF EvaluationInv

LEMMA WriteReportSound ==
    ASSUME EvaluationInv, NEW e \in EvalRunIds, WriteReport(e) PROVE EvaluationInv'
<1>1. PICK call : call = evalCalls[e]
  OBVIOUS
<1>2. PICK new : new = [call EXCEPT !.stage = "reported"]
  OBVIOUS
<1>3. /\ call.stage = "gated" /\ CallSound(call, traces, journal)
      /\ evalCalls' = [evalCalls EXCEPT ![e] = new]
      /\ reports' = reports \cup {e}
  BY <1>1, <1>2 DEF WriteReport, EvaluationInv, EvaluationShape
<1>4. UNCHANGED <<traces, journal, caseRows, artifactRows, evalRuns, promotion, held, reviews,
                  submissions>>
  BY DEF WriteReport, productionVars, reviewVars
<1>5. /\ DOMAIN new = DOMAIN NewCall /\ new.stage = "reported" /\ new.mode = call.mode
      /\ new.todo = call.todo /\ new.built = call.built /\ new.touched = call.touched
      /\ new.replays = call.replays /\ new.reading = call.reading /\ new.failed = call.failed
      /\ new.proof = call.proof /\ new.ready = call.ready
  BY <1>2, <1>3, NewCallFields DEF CallSound
<1>6. CallSound(new, traces, journal)
  <2>1. JudgedSound(new, traces) /\ BuiltSound(new, traces)
    BY <1>3, <1>5 DEF CallSound, BuiltSound, InCall, JudgedSound
  <2>2. WatchSound(new, journal.rows, journal.edits) /\ GateSound(new)
    BY <1>3, <1>5 DEF CallSound, WatchSound, Watching, GateSound
  <2> QED
    BY <1>5, <2>1, <2>2 DEF CallSound, EvalStages
<1>7. /\ DOMAIN evalCalls' = EvalRunIds /\ evalCalls'[e] = new
      /\ \A d \in EvalRunIds \ {e} : evalCalls'[d] = evalCalls[d]
      /\ \A d \in EvalRunIds : CallSound(evalCalls'[d], traces, journal)
  BY <1>3, <1>6, OneCall
<1>8. TracesSound' /\ RowsSound' /\ EvaluationShape'
  BY <1>4, <1>7 DEF EvaluationInv, TracesSound, RowsSound, EvaluationShape
<1>9. ASSUME NEW d \in EvalRunIds PROVE RunSound(d)'
  <2>1. RunSound(d) /\ Stored(d)' = Stored(d)
    BY <1>4 DEF EvaluationInv, Stored
  <2>2. CASE d = e
    <3>1. ~Stored(e)
      BY <1>1, <1>3, <2>1, <2>2 DEF RunSound
    <3> QED
      BY <1>3, <1>4, <1>5, <1>7, <2>1, <2>2, <3>1 DEF RunSound
  <2>3. CASE d # e
    BY <1>3, <1>4, <1>7, <2>1, <2>3 DEF RunSound
  <2> QED
    BY <2>2, <2>3
<1>10. ASSUME NEW d \in EvalRunIds PROVE HeldSound(held[d], traces)' /\ ReviewSound(d)'
  <2>1. HeldSound(held[d], traces) /\ ReviewSound(d) /\ Stored(d)' = Stored(d)
    BY <1>4 DEF EvaluationInv, Stored
  <2> QED
    BY <1>4, <2>1 DEF ReviewSound
<1> QED
  BY <1>4, <1>7, <1>8, <1>9, <1>10 DEF EvaluationInv

LEMMA InsertFailsSound ==
    ASSUME EvaluationInv, NEW e \in EvalRunIds, InsertFails(e) PROVE EvaluationInv'
<1>1. PICK new : new = [NewCall EXCEPT !.stage = "raised"]
  OBVIOUS
<1>2. CallSound(new, traces, journal) /\ new.stage = "raised"
  BY <1>1, EndedCall
<1>3. /\ evalCalls[e].stage = "reported" /\ evalCalls' = [evalCalls EXCEPT ![e] = new]
      /\ reports' = reports \ {e}
  BY <1>1 DEF InsertFails
<1>4. UNCHANGED <<traces, journal, caseRows, artifactRows, evalRuns, promotion, held, reviews,
                  submissions>>
  BY DEF InsertFails, productionVars, reviewVars
<1>5. /\ DOMAIN evalCalls' = EvalRunIds /\ evalCalls'[e] = new
      /\ \A d \in EvalRunIds \ {e} : evalCalls'[d] = evalCalls[d]
      /\ \A d \in EvalRunIds : CallSound(evalCalls'[d], traces, journal)
  BY <1>2, <1>3, OneCall
<1>6. TracesSound' /\ RowsSound' /\ EvaluationShape'
  BY <1>4, <1>5 DEF EvaluationInv, TracesSound, RowsSound, EvaluationShape
<1>7. ASSUME NEW d \in EvalRunIds PROVE RunSound(d)'
  <2>1. RunSound(d) /\ Stored(d)' = Stored(d)
    BY <1>4 DEF EvaluationInv, Stored
  <2>2. CASE d = e
    <3>1. ~Stored(e)
      BY <1>3, <2>1, <2>2 DEF RunSound
    <3> QED
      BY <1>2, <1>3, <1>4, <1>5, <2>1, <2>2, <3>1 DEF RunSound
  <2>3. CASE d # e
    BY <1>3, <1>4, <1>5, <2>1, <2>3 DEF RunSound
  <2> QED
    BY <2>2, <2>3
<1>8. ASSUME NEW d \in EvalRunIds PROVE HeldSound(held[d], traces)' /\ ReviewSound(d)'
  <2>1. HeldSound(held[d], traces) /\ ReviewSound(d) /\ Stored(d)' = Stored(d)
    BY <1>4 DEF EvaluationInv, Stored
  <2> QED
    BY <1>4, <2>1 DEF ReviewSound
<1> QED
  BY <1>4, <1>5, <1>6, <1>7, <1>8 DEF EvaluationInv

(* What the gate of a call lets pass, scores and replays together.         *)
LEMMA GatedCase ==
    ASSUME TracesSound, NEW counts, NEW call, CallSound(call, traces, counts),
           call.stage = "reported", call.ready, NEW case \in DOMAIN call.built
    PROVE  CaseGrounded(case, traces[case], call.built[case], call.replays[case])
<1>1. PICK row : row = traces[case]
  OBVIOUS
<1>2. PICK content : content = call.built[case]
  OBVIOUS
<1>3. case \in EvalCases /\ ContentSound(row, content) /\ RowSound(case, row)
  BY <1>1, <1>2 DEF CallSound, BuiltSound, InCall, TracesSound
<1>4. case \in DOMAIN call.replays
  BY DEF CallSound, JudgedSound
<1>5. ReplaySound(row, call.replays[case]) /\ ReplayPasses(call.replays[case])
  BY <1>1, <1>4 DEF CallSound, JudgedSound, GateSound
<1>6. /\ row.audit # NoAudit /\ Flawless(row.audit)
      /\ call.replays[case].input = row.audit.input
  BY <1>3, <1>5, PassingIsFlawless
<1>7. \A judge \in RuleJudges : ~RuleFails(judge, case, content)
  BY <1>2, <1>4 DEF CallSound, JudgedSound, GateSound
<1>8. ~SpansMissing(content) /\ ~NoTradeMissed(case, content)
  <2>1. /\ "rule.trace_required_spans" \in RuleJudges
        /\ "rule.expected_no_trade" \in RuleJudges
    BY DEF RuleJudges
  <2>2. ~RuleFails("rule.trace_required_spans", case, content)
    BY <1>7, <2>1
  <2>3. ~RuleFails("rule.expected_no_trade", case, content)
    BY <1>7, <2>1
  <2> QED
    BY <2>2, <2>3 DEF RuleFails
<1>9. {"decision.final", "risk.check"} \subseteq content.audit.spans
  BY <1>8 DEF SpansMissing
<1>10. content.audit = row.audit
  <2>1. content.audit # NoAudit
    BY <1>9, NoAuditFields
  <2> QED
    BY <1>3, <2>1 DEF ContentSound, Origins
<1>11. case \in ExpectsNoTrade => row.finalAction = "no trade" \/ row.audit.allowed = "no"
  <2>1. NoAction # "no trade"
    BY DEF NoAction
  <2> QED
    BY <1>3, <1>8, <1>10, <2>1 DEF ContentSound, NoTradeMissed
<1> QED
  BY <1>1, <1>2, <1>6, <1>9, <1>10, <1>11 DEF CaseGrounded

LEMMA InsertRunSound ==
    ASSUME EvaluationInv, NEW e \in EvalRunIds, InsertRun(e) PROVE EvaluationInv'
<1>1. PICK call : call = evalCalls[e]
  OBVIOUS
<1>2. PICK new : new = [NewCall EXCEPT !.stage = "returned"]
  OBVIOUS
<1>3. PICK run :
        run = [cases |-> DOMAIN call.built, scored |-> call.built, failed |-> call.failed,
               replays |-> call.replays, ready |-> call.ready, touched |-> call.touched]
  OBVIOUS
<1>4. PICK comparison : comparison = ShadowCandidateComparison(call.replays)
  OBVIOUS
<1>5. PICK artifacts :
        artifacts = [NoArtifacts EXCEPT !.proof = call.proof, !.comparison = comparison]
  OBVIOUS
<1>6. CallSound(new, traces, journal) /\ new.stage = "returned"
  BY <1>2, EndedCall
<1>7. /\ call.stage = "reported" /\ CallSound(call, traces, journal)
      /\ evalCalls' = [evalCalls EXCEPT ![e] = new]
      /\ evalRuns' = [evalRuns EXCEPT ![e] = run]
      /\ promotion' = [promotion EXCEPT ![e] = artifacts]
  BY <1>1, <1>2, <1>3, <1>4, <1>5 DEF InsertRun, EvaluationInv
<1>8. UNCHANGED <<traces, journal, caseRows, artifactRows, reports, held, reviews, submissions>>
  BY DEF InsertRun, productionVars
<1>9. /\ DOMAIN evalCalls' = EvalRunIds /\ evalCalls'[e] = new
      /\ \A d \in EvalRunIds \ {e} : evalCalls'[d] = evalCalls[d]
      /\ \A d \in EvalRunIds : CallSound(evalCalls'[d], traces, journal)
  BY <1>6, <1>7, OneCall
<1>10. /\ evalRuns'[e] = run /\ promotion'[e] = artifacts
       /\ \A d \in EvalRunIds \ {e} : evalRuns'[d] = evalRuns[d] /\ promotion'[d] = promotion[d]
       /\ DOMAIN evalRuns' = EvalRunIds /\ DOMAIN promotion' = EvalRunIds
  BY <1>7 DEF EvaluationInv, EvaluationShape
<1>11. TracesSound' /\ RowsSound' /\ EvaluationShape'
  BY <1>8, <1>9, <1>10 DEF EvaluationInv, TracesSound, RowsSound, EvaluationShape
<1>12. DOMAIN artifacts = DOMAIN NoArtifacts /\ artifacts.proof = call.proof
  BY <1>5 DEF NoArtifacts
<1>13. /\ run.cases = DOMAIN call.built /\ run.cases # {} /\ run.cases \subseteq EvalCases
       /\ call.proof => ~run.touched
       /\ RunReady(run, traces)
  <2>1. run.cases # {} /\ run.cases \subseteq EvalCases
    BY <1>3, <1>7 DEF CallSound, BuiltSound, InCall
  <2>2. call.proof => ~call.touched
    BY <1>7 DEF CallSound, WatchSound
  <2>3. call.ready => call.proof
    BY <1>7 DEF CallSound, GateSound
  <2>4. call.ready => \A case \in DOMAIN call.built :
                          CaseGrounded(case, traces[case], call.built[case], call.replays[case])
    BY <1>7, GatedCase DEF EvaluationInv
  <2> QED
    BY <1>3, <2>1, <2>2, <2>3, <2>4 DEF RunReady
<1>14. ASSUME NEW d \in EvalRunIds PROVE RunSound(d)'
  <2>1. RunSound(d)
    BY DEF EvaluationInv
  <2>2. CASE d = e
    <3>1. e \in reports
      BY <1>1, <1>7, <2>1, <2>2 DEF RunSound
    <3>2. Stored(e)'
      BY <1>10, <1>13 DEF Stored
    <3>3. RunReady(evalRuns[e], traces)' /\ (evalRuns'[e].cases \subseteq EvalCases)
      BY <1>8, <1>10, <1>13 DEF RunReady
    <3> QED
      BY <1>6, <1>8, <1>9, <1>10, <1>12, <1>13, <2>2, <3>1, <3>2, <3>3 DEF RunSound
  <2>3. CASE d # e
    <3>1. Stored(d)' = Stored(d)
      BY <1>10, <2>3 DEF Stored
    <3> QED
      BY <1>8, <1>9, <1>10, <2>1, <2>3, <3>1 DEF RunSound
  <2> QED
    BY <2>2, <2>3
<1>15. ASSUME NEW d \in EvalRunIds PROVE HeldSound(held[d], traces)' /\ ReviewSound(d)'
  <2>1. HeldSound(held[d], traces) /\ ReviewSound(d) /\ RunSound(d)
    BY DEF EvaluationInv
  <2>2. CASE d = e
    <3>1. ~Stored(e)
      BY <1>1, <1>7, <2>1, <2>2 DEF RunSound
    <3>2. reviews[e] = "none"
      BY <2>1, <2>2, <3>1 DEF ReviewSound
    <3> QED
      BY <1>8, <2>1, <2>2, <3>2 DEF ReviewSound
  <2>3. CASE d # e
    <3>1. Stored(d)' = Stored(d)
      BY <1>10, <2>3 DEF Stored
    <3> QED
      BY <1>8, <1>10, <2>1, <2>3, <3>1 DEF ReviewSound
  <2> QED
    BY <2>2, <2>3
<1> QED
  BY <1>8, <1>9, <1>11, <1>14, <1>15 DEF EvaluationInv

(* What is grounded in a plan stays so while production goes on.           *)
LEMMA GroundedMoves ==
    ASSUME NEW old, NEW new, RowMoves(old, new), NEW case, NEW content, NEW replay,
           CaseGrounded(case, old, content, replay)
    PROVE  CaseGrounded(case, new, content, replay)
<1>1. new.audit = old.audit
  BY FlawlessIsPlan DEF RowMoves, CaseGrounded
<1>2. old.finalAction = "no trade" => new.finalAction = "no trade"
  BY DEF RowMoves, NoAction
<1> QED
  BY <1>1, <1>2 DEF CaseGrounded

LEMMA ApprovedMoves ==
    ASSUME NEW old, NEW new, \A case \in EvalCases : RowMoves(old[case], new[case]),
           NEW artifacts, NEW run, Approved(artifacts, run, old)
    PROVE  Approved(artifacts, run, new)
<1>1. PICK case \in EvalCases :
        old[case].audit.input = artifacts.decision.input /\ Flawless(old[case].audit)
  BY DEF Approved
<1>2. new[case].audit = old[case].audit
  BY <1>1, FlawlessIsPlan DEF RowMoves
<1> QED
  BY <1>1, <1>2 DEF Approved

LEMMA ProductionSound ==
    ASSUME EvaluationInv, ProductionNext PROVE EvaluationInv'
<1>1. /\ TracesSound'
      /\ \A case \in EvalCases : RowMoves(traces[case], traces'[case])
  BY TracesStep DEF EvaluationInv, EvaluationNext
<1>2. PICK rows \in Nat, edits \in Nat :
        ProductionWrites(rows, edits) /\ (rows > 0 \/ edits > 0)
  BY DEF ProductionNext, PlanStored, TraceFinishes, ProductionInserts
<1>3. /\ journal' = [rows |-> journal.rows + rows, edits |-> journal.edits + edits]
      /\ evalCalls' = [e \in EvalRunIds |->
                          IF Watching(evalCalls[e]) THEN [evalCalls[e] EXCEPT !.touched = TRUE]
                          ELSE evalCalls[e]]
      /\ UNCHANGED <<caseRows, artifactRows, reports, evalRuns, promotion, held, reviews,
                     submissions>>
  BY <1>2 DEF ProductionWrites, sidecarVars, reviewVars
<1>4. journal \in [rows: Nat, edits: Nat]
  BY DEF EvaluationInv, RowsSound
<1>5. /\ journal' \in [rows: Nat, edits: Nat]
      /\ journal.rows <= journal'.rows /\ journal.edits <= journal'.edits
      /\ journal.rows < journal'.rows \/ journal.edits < journal'.edits
  <2>1. PICK r \in Nat, d \in Nat : r = journal.rows /\ d = journal.edits
    BY <1>4
  <2>2. journal'.rows = r + rows /\ journal'.edits = d + edits
        /\ journal' = [rows |-> r + rows, edits |-> d + edits]
    BY <1>3, <2>1
  <2> QED
    BY <1>2, <2>1, <2>2
<1>6. ASSUME NEW e \in EvalRunIds
      PROVE  /\ CallSound(evalCalls'[e], traces', journal')
             /\ evalCalls'[e].stage = evalCalls[e].stage
  <2>1. PICK call : call = evalCalls[e]
    OBVIOUS
  <2>2. CallSound(call, traces, journal)
    BY <2>1 DEF EvaluationInv
  <2>3. CallSound(call, traces', journal)
    BY <1>1, <2>2, CallMoves
  <2>4. evalCalls'[e] = IF Watching(call) THEN [call EXCEPT !.touched = TRUE] ELSE call
    BY <1>3, <2>1
  <2>5. CallSound(evalCalls'[e], traces', journal')
    BY <1>4, <1>5, <2>3, <2>4, CallWatches
  <2>6. [call EXCEPT !.touched = TRUE].stage = call.stage
    BY <2>2, NewCallFields DEF CallSound
  <2> QED
    BY <2>1, <2>4, <2>5, <2>6
<1>7. RowsSound' /\ EvaluationShape'
  <2>1. \A case \in EvalCases :
          /\ ContentSound(traces'[case], caseRows[case])
          /\ artifactRows[case] \in Origins(traces'[case])
    BY <1>1, ContentMoves, OriginsMove DEF EvaluationInv, RowsSound
  <2> QED
    BY <1>3, <1>5, <2>1 DEF EvaluationInv, RowsSound, EvaluationShape
<1>8. ASSUME NEW e \in EvalRunIds PROVE RunSound(e)'
  <2>1. RunSound(e) /\ Stored(e)' = Stored(e)
    BY <1>3 DEF EvaluationInv, Stored
  <2>2. Stored(e) => RunReady(evalRuns[e], traces')
    <3> SUFFICES ASSUME Stored(e), evalRuns[e].ready, NEW case \in evalRuns[e].cases
                 PROVE  /\ ~evalRuns[e].touched
                        /\ CaseGrounded(case, traces'[case], evalRuns[e].scored[case],
                                        evalRuns[e].replays[case])
      BY <2>1 DEF RunReady, RunSound, Stored
    <3>1. case \in EvalCases /\ ~evalRuns[e].touched
      BY <2>1 DEF RunSound, RunReady
    <3>2. CaseGrounded(case, traces[case], evalRuns[e].scored[case], evalRuns[e].replays[case])
      BY <2>1 DEF RunSound, RunReady
    <3> QED
      BY <1>1, <3>1, <3>2, GroundedMoves
  <2>3. evalCalls'[e].stage = evalCalls[e].stage
    BY <1>6
  <2>4. Stored(e)' => RunReady(evalRuns'[e], traces')
    BY <1>3, <2>1, <2>2
  <2> QED
    BY <1>3, <2>1, <2>3, <2>4 DEF RunSound
<1>9. ASSUME NEW e \in EvalRunIds PROVE HeldSound(held[e], traces)' /\ ReviewSound(e)'
  <2>1. HeldSound(held[e], traces) /\ ReviewSound(e) /\ Stored(e)' = Stored(e)
    BY <1>3 DEF EvaluationInv, Stored
  <2>2. HeldSound(held[e], traces')
    BY <1>1, <2>1, ReplayMoves DEF HeldSound
  <2>3. reviews[e] = "config_change_review_approved" =>
          Approved(promotion[e], evalRuns[e], traces')
    BY <1>1, <2>1, ApprovedMoves DEF ReviewSound
  <2> QED
    BY <1>3, <2>1, <2>2, <2>3 DEF ReviewSound
<1> QED
  BY <1>1, <1>6, <1>7, <1>8, <1>9 DEF EvaluationInv

LEMMA BringReplaySound ==
    ASSUME EvaluationInv, NEW e \in EvalRunIds, NEW case \in EvalCases, BringReplay(e, case)
    PROVE  EvaluationInv'
<1> DEFINE After(replay) == [held EXCEPT ![e] = [c \in DOMAIN held[e] \cup {case} |->
                                                     IF c = case THEN replay ELSE held[e][c]]]
<1>0. PICK mode \in {"candidate_decision", "frozen_observed"}, shadow \in ShadowOutcomes :
        held' = After(CandidateReplay(mode, IF mode = "candidate_decision" THEN shadow ELSE "none",
                                      caseRows[case].audit, artifactRows[case]))
  BY Zenon DEF BringReplay
<1> HIDE DEF After
<1>1. PICK outcome, replay :
        /\ replay = CandidateReplay(mode, outcome, caseRows[case].audit, artifactRows[case])
        /\ held' = After(replay)
  BY <1>0
<1>7. PICK replays :
        /\ replays = [c \in DOMAIN held[e] \cup {case} |-> IF c = case THEN replay ELSE held[e][c]]
        /\ held' = [held EXCEPT ![e] = replays]
  BY <1>1 DEF After
<1>2. UNCHANGED <<traces, journal, evalCalls, caseRows, artifactRows, reports, evalRuns, promotion,
                  reviews>>
  BY DEF BringReplay, productionVars, sidecarVars
<1>3. DOMAIN held' = EvalRunIds /\ held'[e] = replays
      /\ \A d \in EvalRunIds \ {e} : held'[d] = held[d]
  BY <1>7 DEF EvaluationInv, EvaluationShape
<1>4. HeldSound(replays, traces)
  <2>1. HeldSound(held[e], traces)
    BY DEF EvaluationInv
  <2>2. /\ caseRows[case].audit \in Origins(traces[case])
        /\ artifactRows[case] \in Origins(traces[case])
    BY DEF EvaluationInv, RowsSound, ContentSound
  <2>3. ReplaySound(traces[case], replay)
    BY <1>1, <2>2 DEF ReplaySound
  <2> QED
    BY <1>7, <2>1, <2>3 DEF HeldSound
<1>5. ASSUME NEW d \in EvalRunIds
      PROVE  /\ RunSound(d)' /\ HeldSound(held[d], traces)' /\ ReviewSound(d)'
             /\ CallSound(evalCalls[d], traces, journal)'
  <2>1. /\ RunSound(d) /\ HeldSound(held[d], traces) /\ ReviewSound(d)
        /\ CallSound(evalCalls[d], traces, journal)
    BY DEF EvaluationInv
  <2>2. Stored(d)' = Stored(d)
    BY <1>2 DEF Stored
  <2>3. HeldSound(held'[d], traces)
    BY <1>3, <1>4, <2>1
  <2> QED
    BY <1>2, <2>1, <2>2, <2>3 DEF RunSound, ReviewSound
<1>6. TracesSound' /\ RowsSound' /\ EvaluationShape'
  BY <1>2, <1>3 DEF EvaluationInv, TracesSound, RowsSound, EvaluationShape
<1> QED
  BY <1>5, <1>6 DEF EvaluationInv

(* The review of a run approves the input of a plan that is flawless.      *)
LEMMA ApprovalGrounded ==
    ASSUME TracesSound, NEW replays, HeldSound(replays, traces), NEW run, NEW artifacts,
           artifacts.proof => ~run.touched,
           PromotionStatus(GateReady(run.cases, replays, run.failed, artifacts.proof), artifacts,
                           CurrentCandidateInputs(replays)) = "config_change_review_approved"
    PROVE  Approved(artifacts, run, traces)
<1>1. PICK current : current = CurrentCandidateInputs(replays)
  OBVIOUS
<1>2. /\ GateReady(run.cases, replays, run.failed, artifacts.proof)
      /\ RequiredArtifactsPresent(artifacts, current)
      /\ ManualReleaseDecisionValid(artifacts, current)
      /\ ConfigReviewRequestValid(artifacts) /\ ConfigReviewApprovalValid(artifacts)
  BY <1>1 DEF PromotionStatus
<1>3. artifacts.proof /\ run.failed = {}
      /\ \A case \in DOMAIN replays : ReplayPasses(replays[case])
  BY <1>2 DEF GateReady, ScoresPass, CandidatesPass
<1>4. PICK case \in DOMAIN replays : replays[case].input = artifacts.decision.input
  BY <1>1, <1>2 DEF ManualReleaseDecisionValid, CurrentCandidateInputs
<1>5. case \in EvalCases /\ RowSound(case, traces[case]) /\ ReplaySound(traces[case], replays[case])
  BY <1>4 DEF HeldSound, TracesSound
<1>6. replays[case].input = traces[case].audit.input /\ Flawless(traces[case].audit)
  BY <1>3, <1>5, PassingIsFlawless
<1>7. HandsAgree(artifacts)
  BY <1>2 DEF ManualReleaseDecisionValid, ConfigReviewRequestValid, ConfigReviewApprovalValid,
              HandsAgree
<1> QED
  BY <1>3, <1>4, <1>5, <1>6, <1>7 DEF Approved

LEMMA SubmitSound ==
    ASSUME EvaluationInv, NEW e \in EvalRunIds, NEW artifacts, Submit(e, artifacts),
           DOMAIN artifacts = DOMAIN NoArtifacts, artifacts.proof = promotion[e].proof
    PROVE  EvaluationInv'
<1>1. PICK status : status = Reviewed(e, artifacts)
  OBVIOUS
<1>2. Stored(e) /\ promotion' = [promotion EXCEPT ![e] = artifacts]
      /\ reviews' = [reviews EXCEPT ![e] = status]
  BY <1>1 DEF Submit
<1>3. UNCHANGED <<traces, journal, evalCalls, caseRows, artifactRows, reports, evalRuns, held>>
  BY DEF Submit, productionVars, sidecarVars
<1>4. /\ DOMAIN promotion' = EvalRunIds /\ DOMAIN reviews' = EvalRunIds
      /\ promotion'[e] = artifacts /\ reviews'[e] = status
      /\ \A d \in EvalRunIds \ {e} : promotion'[d] = promotion[d] /\ reviews'[d] = reviews[d]
  BY <1>2 DEF EvaluationInv, EvaluationShape
<1>5. artifacts.proof => ~evalRuns[e].touched
  BY <1>2 DEF EvaluationInv, RunSound
<1>6. status = "config_change_review_approved" => Approved(artifacts, evalRuns[e], traces)
  BY <1>1, <1>5, ApprovalGrounded DEF EvaluationInv, Reviewed
<1>7. ASSUME NEW d \in EvalRunIds
      PROVE  /\ RunSound(d)' /\ HeldSound(held[d], traces)' /\ ReviewSound(d)'
             /\ CallSound(evalCalls[d], traces, journal)'
  <2>1. /\ RunSound(d) /\ HeldSound(held[d], traces) /\ ReviewSound(d)
        /\ CallSound(evalCalls[d], traces, journal)
    BY DEF EvaluationInv
  <2>2. Stored(d)' = Stored(d)
    BY <1>3 DEF Stored
  <2>3. HeldSound(held[d], traces)' /\ CallSound(evalCalls[d], traces, journal)'
    BY <1>3, <2>1
  <2>4. RunSound(d)'
    BY <1>3, <1>4, <1>5, <2>1, <2>2 DEF RunSound
  <2>5. ReviewSound(d)'
    <3>1. CASE d = e
      BY <1>2, <1>3, <1>4, <1>6, <2>2, <3>1 DEF ReviewSound
    <3>2. CASE d # e
      BY <1>3, <1>4, <2>1, <2>2, <3>2 DEF ReviewSound
    <3> QED
      BY <3>1, <3>2
  <2> QED
    BY <2>3, <2>4, <2>5
<1>8. TracesSound' /\ RowsSound' /\ EvaluationShape'
  BY <1>3, <1>4 DEF EvaluationInv, TracesSound, RowsSound, EvaluationShape
<1> QED
  BY <1>7, <1>8 DEF EvaluationInv

(* No submission brings another proof.                                     *)
LEMMA SubmissionsSound ==
    ASSUME EvaluationInv, NEW e \in EvalRunIds,
           \/ SubmitMaterials(e) \/ SubmitDecision(e)
           \/ SubmitConfigRequest(e) \/ SubmitConfigApproval(e)
    PROVE  EvaluationInv'
<1>1. PICK old : old = promotion[e]
  OBVIOUS
<1>2. DOMAIN old = DOMAIN NoArtifacts
  BY <1>1 DEF EvaluationInv, RunSound
<1>3. DOMAIN NoArtifacts = {"proof", "comparison", "approver", "rollback", "impact", "decision",
                            "request", "approval"}
  BY DEF NoArtifacts
<1>4. CASE SubmitMaterials(e)
  <2>1. PICK approver, rollback, impact, comparison :
          Submit(e, [old EXCEPT !.approver = approver, !.rollback = rollback, !.impact = impact,
                                !.comparison = comparison])
    BY <1>1, <1>4, Zenon DEF SubmitMaterials
  <2>2. PICK new : new = [old EXCEPT !.approver = approver, !.rollback = rollback,
                                     !.impact = impact, !.comparison = comparison]
    OBVIOUS
  <2>3. Submit(e, new)
    BY <2>1, <2>2
  <2>4. DOMAIN new = DOMAIN NoArtifacts /\ new.proof = old.proof
    BY <1>2, <1>3, <2>2
  <2> QED
    BY <1>1, <2>3, <2>4, SubmitSound
<1>5. CASE SubmitDecision(e)
  <2>1. PICK decision : Submit(e, [old EXCEPT !.decision = decision])
    BY <1>1, <1>5 DEF SubmitDecision
  <2>2. PICK new : new = [old EXCEPT !.decision = decision]
    OBVIOUS
  <2>3. Submit(e, new)
    BY <2>1, <2>2
  <2>4. DOMAIN new = DOMAIN NoArtifacts /\ new.proof = old.proof
    BY <1>2, <1>3, <2>2
  <2> QED
    BY <1>1, <2>3, <2>4, SubmitSound
<1>6. CASE SubmitConfigRequest(e)
  <2>1. PICK request : Submit(e, [old EXCEPT !.request = request])
    BY <1>1, <1>6 DEF SubmitConfigRequest
  <2>2. PICK new : new = [old EXCEPT !.request = request]
    OBVIOUS
  <2>3. Submit(e, new)
    BY <2>1, <2>2
  <2>4. DOMAIN new = DOMAIN NoArtifacts /\ new.proof = old.proof
    BY <1>2, <1>3, <2>2
  <2> QED
    BY <1>1, <2>3, <2>4, SubmitSound
<1>7. CASE SubmitConfigApproval(e)
  <2>1. PICK approval : Submit(e, [old EXCEPT !.approval = approval])
    BY <1>1, <1>7 DEF SubmitConfigApproval
  <2>2. PICK new : new = [old EXCEPT !.approval = approval]
    OBVIOUS
  <2>3. Submit(e, new)
    BY <2>1, <2>2
  <2>4. DOMAIN new = DOMAIN NoArtifacts /\ new.proof = old.proof
    BY <1>2, <1>3, <2>2
  <2> QED
    BY <1>1, <2>3, <2>4, SubmitSound
<1> QED
  BY <1>4, <1>5, <1>6, <1>7

LEMMA EvaluationInitInv == EvaluationInit => EvaluationInv
<1> SUFFICES ASSUME EvaluationInit PROVE EvaluationInv
  OBVIOUS
<1>1. TracesSound
  BY NoAuditFields DEF EvaluationInit, TracesSound, RowSound, TraceRow
<1>2. RowsSound
  BY NoAuditFields DEF EvaluationInit, RowsSound, NoContent, ContentSound, Origins
<1>3. EvaluationShape
  BY DEF EvaluationInit, EvaluationShape
<1>4. ASSUME NEW e \in EvalRunIds
      PROVE  /\ CallSound(evalCalls[e], traces, journal)
             /\ RunSound(e) /\ HeldSound(held[e], traces) /\ ReviewSound(e)
  <2>1. evalCalls[e] = NewCall /\ evalRuns[e] = NoRun /\ promotion[e] = NoArtifacts
        /\ held[e] = <<>> /\ reviews[e] = "none" /\ reports = {}
    BY DEF EvaluationInit
  <2>2. ~Stored(e)
    BY <2>1 DEF Stored, NoRun
  <2>3. CallSound(evalCalls[e], traces, journal)
    BY <2>1, NewCallFields DEF CallSound, EvalStages, WatchSound, Watching, BuiltSound, InCall,
                               JudgedSound, GateSound
  <2>4. RunSound(e)
    BY <2>1, <2>2, NewCallFields DEF RunSound
  <2> QED
    BY <2>1, <2>2, <2>3, <2>4 DEF HeldSound, ReviewSound
<1> QED
  BY <1>1, <1>2, <1>3, <1>4 DEF EvaluationInv

LEMMA EvaluationNextInv == EvaluationInv /\ [EvaluationNext]_evaluationVars => EvaluationInv'
<1> SUFFICES ASSUME EvaluationInv, [EvaluationNext]_evaluationVars PROVE EvaluationInv'
  OBVIOUS
<1>1. CASE ProductionNext
  BY <1>1, ProductionSound
<1>2. ASSUME NEW e \in EvalRunIds, CallNext(e) PROVE EvaluationInv'
  BY <1>2, BuildCasesSound, CountBeforeSound, FingerprintBeforeSound, UpsertCasesSound,
     ReadStoredCaseSound, JudgeCaseSound, CountAfterSound, FingerprintAfterSound, WriteReportSound,
     InsertRunSound, InsertFailsSound, CallEndsSound DEF CallNext
<1>3. ASSUME NEW e \in EvalRunIds, ReviewNext(e) PROVE EvaluationInv'
  BY <1>3, BringReplaySound, SubmissionsSound DEF ReviewNext
<1>4. CASE UNCHANGED evaluationVars
  <2>1. UNCHANGED <<traces, journal, evalCalls, caseRows, artifactRows, reports, evalRuns,
                    promotion, held, reviews>>
    BY <1>4 DEF evaluationVars, productionVars, sidecarVars, reviewVars
  <2> QED
    BY <2>1 DEF EvaluationInv, TracesSound, RowsSound, EvaluationShape, RunSound, ReviewSound,
                Stored
<1> QED
  BY <1>1, <1>2, <1>3, <1>4 DEF EvaluationNext

LEMMA EvaluationInvariant == EvaluationSpec => []EvaluationInv
BY EvaluationInitInv, EvaluationNextInv, PTL DEF EvaluationSpec

(* A run that EvalRunner stores as ready was scored and replayed on the    *)
(* plan production stored for each badcase, flawless and as the badcase    *)
(* asks, whatever other calls replaced between its steps.                  *)
THEOREM ReadyRunGroundedHolds == EvaluationSpec => []ReadyRunGrounded
<1>1. EvaluationInv => ReadyRunGrounded
  BY DEF EvaluationInv, RunSound, RunReady, CaseGrounded, ReadyRunGrounded
<1> QED
  BY <1>1, EvaluationInvariant, PTL

(* No production row was inserted or updated between the two fingerprints  *)
(* of a run stored as ready, so its side-effect proof is true.             *)
THEOREM ReadyRunUntouchedHolds == EvaluationSpec => []ReadyRunUntouched
<1>1. EvaluationInv => ReadyRunUntouched
  BY DEF EvaluationInv, RunSound, RunReady, ReadyRunUntouched
<1> QED
  BY <1>1, EvaluationInvariant, PTL

(* The report files and the rows of a run come and go together, but for a  *)
(* call that has yet to insert its run or was killed before it did.        *)
THEOREM ReportBackedHolds == EvaluationSpec => []ReportBacked
<1>1. EvaluationInv => ReportBacked
  BY DEF EvaluationInv, RunSound, ReportBacked
<1> QED
  BY <1>1, EvaluationInvariant, PTL

(* The input a promotion review approves is that of a flawless plan of     *)
(* production, over a run without a failed score or a production write,    *)
(* and each of its hands named what the one before it did.                 *)
THEOREM PromotionGroundedHolds == EvaluationSpec => []PromotionGrounded
<1>1. EvaluationInv => PromotionGrounded
  BY DEF EvaluationInv, ReviewSound, Approved, HandsAgree, PromotionGrounded
<1> QED
  BY <1>1, EvaluationInvariant, PTL
=============================================================================
