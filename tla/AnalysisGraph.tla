------------------------------ MODULE AnalysisGraph ------------------------------
(***************************************************************************)
(* One thread of the analysis Graph (graph/graph.py, graph/request.py,     *)
(* agents/, domain/): from an admitted request through the provider calls, *)
(* the model, the policies and the human reviews to a committed, blocked   *)
(* or failed result.  Each action is a node; after it the checkpoint is    *)
(* `graph' with the next node.  A node whose exception nobody catches      *)
(* leaves the Run in error.  `emitted' holds the sequence numbers of the   *)
(* progress events of this thread's Product run.                           *)
(***************************************************************************)
EXTENDS AnalysisPolicies, SequencesExt

CONSTANTS
    DecisionRequests,   \* records: intent, action, slots
    Snapshots,          \* what the market providers return
    Bundles,            \* what the research agent extracts
    ModelAnalyses,      \* what the analysis agent answers, and an edit makes of it
    SearchResults,      \* result lists of one verified search query: Seq of sources
    MaxReviews          \* edits that a thread goes through (bound)

MAX_RESEARCH_SOURCES == 2   \* 8 in the code

VARIABLES
    graph,      \* the state of the thread and the node that runs next
    emitted,    \* sequence numbers of the progress events, in order of emission
    approved    \* what the reviewer saw when approving (history)

graphVars == <<graph, emitted, approved>>

NoArtifact == [status |-> "none", content |-> "none"]
NoReview == "none"

GraphInit ==
    /\ graph = [node |-> "idle"]
    /\ emitted = <<>> /\ approved = NoReview

-----------------------------------------------------------------------------
(* Events *)

\* the offset of every sequence number after the n-th review
Offset(n) == 100 * n

Emit(seqs) == emitted' = emitted \o seqs

\* the node's update of the state, and the node that runs next
Goto(node, fields) ==
    graph' = [x \in DOMAIN graph \cup DOMAIN fields |->
                 IF x \in DOMAIN fields THEN fields[x]
                 ELSE IF x = "node" THEN node ELSE graph[x]]

Fail(seqs) ==
    /\ Goto("complete_failed", [terminal |-> "failed"])
    /\ Emit(seqs)
    /\ UNCHANGED approved

\* an exception outside the node's except clauses: no event, no checkpoint
Raise == graph' = [graph EXCEPT !.node = "error"] /\ UNCHANGED <<emitted, approved>>

-----------------------------------------------------------------------------
(* Requests *)

\* create_decision_request and graph_request_for_decision: only an admitted
\* request becomes a Task and a Run
AdmitDecision(r, policy) ==
    /\ graph.node = "idle"
    /\ RouteDecisionRequest(r) \in {"market_analysis", "deep_research"}
    /\ graph' = [node |-> "validate_request", task |-> RouteDecisionRequest(r),
                 policy |-> policy]
    /\ UNCHANGED <<emitted, approved>>

\* a Cron's Run carries a monitor_ingress request
AdmitCron ==
    /\ graph.node = "idle"
    /\ graph' = [node |-> "validate_request", task |-> "monitor_ingress", policy |-> "bypass"]
    /\ UNCHANGED <<emitted, approved>>

AfterRequestValidation(task) ==
    CASE task = "deep_research" -> "run_deep_research"
      [] task = "monitor_ingress" -> "monitor_ingress"
      [] OTHER -> "collect_market_snapshot"

ValidateRequest ==
    /\ graph.node = "validate_request"
    /\ IF graph.task = "monitor_ingress"
       THEN Goto("monitor_ingress", [terminal |-> "running"]) /\ UNCHANGED emitted
       ELSE /\ Goto(AfterRequestValidation(graph.task),
                    [terminal |-> "running", iteration |-> 0, review |-> NoReview,
                     evidence |-> {}, artifact |-> NoArtifact])
            /\ Emit(<<10, 11>>)
    /\ UNCHANGED approved

\* run_monitor_ingress: the admission itself is in MonitorCron
MonitorIngress ==
    /\ graph.node = "monitor_ingress"
    /\ \/ Goto("end", [terminal |-> "succeeded"]) /\ UNCHANGED <<emitted, approved>>
       \/ Raise

-----------------------------------------------------------------------------
(* Market analysis *)

\* the OKX snapshot, or the web search fallback with its evidence, or failure; what
\* is no ProviderUnavailable, as a snapshot that the domain model refuses, is raised
CollectMarketSnapshot ==
    /\ graph.node = "collect_market_snapshot"
    /\ \/ /\ \E s \in Snapshots :
                Goto("research_events",
                     [market |-> s,
                      evidence |-> IF IsWebSearch(s)
                                   THEN {[url |-> "u1", relation |-> "market_snapshot"]} ELSE {}])
          /\ Emit(<<20>>) /\ UNCHANGED approved
       \/ Fail(<<20>>)
       \/ Raise

\* _merge_web_evidence: the first entry with a url and content stays
MergeWebEvidence(existing, incoming) ==
    existing \cup {e \in incoming : \A x \in existing : x.url # e.url}

EffectiveEvidence(evidence) == {e \in evidence : e.relation # "excluded"}

\* classify_research_evidence marks what is off the query; nothing left raises
ResearchEvents ==
    /\ graph.node = "research_events"
    /\ \/ /\ \E b \in Bundles, found \in (SUBSET {"u1", "u2"}) \ {{}} :
             \E relevant \in (SUBSET found) \ {{}} :
                Goto("analyze_market",
                     [bundle |-> b,
                      evidence |-> MergeWebEvidence(graph.evidence,
                          {[url |-> u, relation |-> IF u \in relevant THEN "supports" ELSE "excluded"] :
                              u \in found})])
          /\ Emit(<<30, 31>>) /\ UNCHANGED approved
       \/ Fail(<<30>>)

\* the agent's answer, checked against the request; a failed or mismatching
\* answer fails the node
AnalyzeMarket ==
    /\ graph.node = "analyze_market"
    /\ \/ /\ \E a \in ModelAnalyses :
                Goto("validate_evidence",
                     [analysis |-> a,
                      unavailable |-> DeriveUnavailableData(graph.market, graph.bundle,
                                          Cardinality(EffectiveEvidence(graph.evidence)))])
          /\ Emit(<<40, 41>>) /\ UNCHANGED approved
       \/ Fail(<<40>>)

ValidateEvidence ==
    /\ graph.node = "validate_evidence"
    /\ Goto("apply_risk_policy",
            [verdict |-> CheckEvidenceSufficiency(graph.market, graph.bundle, graph.analysis.action)])
    /\ Emit(<<50 + Offset(graph.iteration), 51 + Offset(graph.iteration)>>) /\ UNCHANGED approved

ApplyRisk ==
    /\ graph.node = "apply_risk_policy"
    /\ LET risk == ApplyRiskPolicy(graph.analysis, graph.verdict)
       IN  Goto("build_artifact",
                [risk |-> risk, terminal |-> IF risk.allowed THEN "running" ELSE "blocked"])
    /\ Emit(<<60 + Offset(graph.iteration), 61 + Offset(graph.iteration)>>) /\ UNCHANGED approved

BuildArtifact ==
    /\ graph.node = "build_artifact"
    /\ Goto("review_policy",
            [artifact |-> [status |-> "draft",
                           content |-> [analysis |-> graph.analysis, verdict |-> graph.verdict,
                                        risk |-> graph.risk,
                                        sources |-> {e.url : e \in EffectiveEvidence(graph.evidence)}]]])
    /\ Emit(<<70 + Offset(graph.iteration), 71 + Offset(graph.iteration)>>) /\ UNCHANGED approved

-----------------------------------------------------------------------------
(* Deep research *)

\* _VerifiedSourceLedger.collect: one source of every query in turn, without
\* repeats, up to the limit
LedgerSources(resultSets) ==
    LET q == Len(resultSets)
        Take(acc, k) ==
            LET results == resultSets[(k % q) + 1]
                i == (k \div q) + 1
            IN  IF \/ i > Len(results) \/ Len(acc) >= MAX_RESEARCH_SOURCES
                   \/ \E j \in DOMAIN acc : acc[j] = results[i]
                THEN acc ELSE Append(acc, results[i])
        longest == CHOOSE n \in {Len(resultSets[j]) : j \in 1..q} :
                       \A j \in 1..q : Len(resultSets[j]) <= n
    IN  FoldLeft(Take, <<>>, [k \in 1..(longest * q) |-> k - 1])

\* require_coherent_source_catalog: contiguous indexes, distinct sources, and a
\* report that cites only them
CoherentCatalog(report, sources) == report.cites \subseteq 1..Len(sources)

Reports == [text : {"r1", "r2"}, cites : {{1}, {1, 2}}]

\* DeepResearchExecutor.execute: queries that fail are left out, at least one
\* succeeds; a harness that never searched raises RuntimeError, which the node
\* does not catch; an incoherent artifact is a ValueError, which it does
RunDeepResearch ==
    /\ graph.node = "run_deep_research"
    /\ \/ /\ \E s1, s2 \in SearchResults, report \in Reports :
                LET sources == LedgerSources(IF s2 = <<>> THEN <<s1>> ELSE <<s1, s2>>)
                IN  /\ s1 # <<>> /\ CoherentCatalog(report, sources)
                    /\ Goto("review_policy",
                            [artifact |-> [status |-> "draft",
                                           content |-> [report |-> report, sources |-> sources]]])
          /\ Emit(<<20, 30, 31, 32, 33>>) /\ UNCHANGED approved
       \/ Fail(<<20, 20>>)
       \/ graph' = [graph EXCEPT !.node = "error"] /\ Emit(<<20>>) /\ UNCHANGED approved

-----------------------------------------------------------------------------
(* Review *)

AfterReviewPolicy ==
    CASE graph.policy = "required" -> "interrupt_review"
      [] graph.policy # "required" /\ graph.terminal = "blocked" -> "complete_blocked"
      [] OTHER -> "commit_artifact"

ReviewPolicy ==
    /\ graph.node = "review_policy"
    /\ graph' = [graph EXCEPT !.node = AfterReviewPolicy]
    /\ Emit(<<80 + Offset(graph.iteration)>>) /\ UNCHANGED approved

\* Mutant: an approval commits whatever the policies said.
AfterAnyReview(action) ==
    CASE action = "edit" -> "apply_edits" [] action = "reject" -> "complete_blocked"
      [] OTHER -> "commit_artifact"

AfterReview(action) ==
    CASE action = "edit" -> "apply_edits"
      [] action = "approve" /\ graph.terminal # "blocked" -> "commit_artifact"
      [] OTHER -> "complete_blocked"

\* Mutant: the offset of the iteration that the review starts.
NextReviewSequence(iteration) == 81 + Offset(iteration + 1)

\* the sequence number of the event that interrupt_review emits: the offset of
\* the iteration that it has just reviewed
ReviewSequence(iteration) == 81 + Offset(iteration)

\* interrupt_review, resumed with a response that validates against the payload
InterruptReview(action) ==
    /\ graph.node = "interrupt_review"
    /\ graph.artifact.status = "draft"
    /\ action = "edit" => graph.iteration < MaxReviews
    /\ Goto(AfterReview(action), [review |-> action, iteration |-> graph.iteration + 1])
    /\ Emit(<<ReviewSequence(graph.iteration)>>)
    /\ approved' = IF action = "approve" THEN graph.artifact.content ELSE approved

\* a response that does not: validate_review_response_for_payload raises
RefuseResponse ==
    /\ graph.node = "interrupt_review"
    /\ Raise

AfterEdits(task) == IF task = "deep_research" THEN "review_policy" ELSE "validate_evidence"

\* the edited analysis, or a report that differs and still cites known sources;
\* edits that together are no MarketAnalysis raise
ApplyEdits ==
    /\ graph.node = "apply_edits"
    /\ \/ /\ graph.task = "deep_research"
          /\ \E report \in Reports :
                /\ report # graph.artifact.content.report
                /\ CoherentCatalog(report, graph.artifact.content.sources)
                /\ Goto(AfterEdits(graph.task),
                        [artifact |-> [status |-> "draft",
                                       content |-> [graph.artifact.content EXCEPT !.report = report]]])
          /\ Emit(<<82 + Offset(graph.iteration - 1)>>) /\ UNCHANGED approved
       \/ /\ graph.task # "deep_research"
          /\ \E a \in ModelAnalyses : Goto(AfterEdits(graph.task), [analysis |-> a])
          /\ Emit(<<82 + Offset(graph.iteration - 1)>>) /\ UNCHANGED approved
       \/ graph.task # "deep_research" /\ Raise

-----------------------------------------------------------------------------
(* Ends *)

CommitArtifact ==
    /\ graph.node = "commit_artifact"
    /\ Goto("complete", [artifact |-> [graph.artifact EXCEPT !.status = "committed"]])
    /\ Emit(<<90 + Offset(graph.iteration), 91 + Offset(graph.iteration)>>) /\ UNCHANGED approved

Complete ==
    /\ graph.node = "complete"
    /\ Goto("end", [terminal |-> "succeeded"])
    /\ Emit(<<100 + Offset(graph.iteration)>>) /\ UNCHANGED approved

\* a rejected analysis keeps its artifact as a draft with no confidence left
CompleteBlocked ==
    /\ graph.node = "complete_blocked"
    /\ Goto("end",
            [terminal |-> "blocked",
             artifact |-> IF graph.task # "deep_research" /\ graph.review = "reject"
                          THEN [status |-> "draft",
                                content |-> [graph.artifact.content EXCEPT
                                                !.risk = [allowed |-> FALSE, cap |-> 0]]]
                          ELSE [graph.artifact EXCEPT !.status = "draft"]])
    /\ Emit(<<100 + Offset(graph.iteration)>>) /\ UNCHANGED approved

CompleteFailed ==
    /\ graph.node = "complete_failed"
    /\ Goto("end", [terminal |-> "failed"])
    /\ Emit(<<100 + Offset(graph.iteration)>>) /\ UNCHANGED approved

GraphNext ==
    \/ \E r \in DecisionRequests, p \in {"bypass", "required"} : AdmitDecision(r, p)
    \/ AdmitCron \/ ValidateRequest \/ MonitorIngress
    \/ CollectMarketSnapshot \/ ResearchEvents \/ AnalyzeMarket
    \/ ValidateEvidence \/ ApplyRisk \/ BuildArtifact \/ RunDeepResearch
    \/ ReviewPolicy \/ (\E a \in {"approve", "reject", "edit"} : InterruptReview(a))
    \/ RefuseResponse \/ ApplyEdits
    \/ CommitArtifact \/ Complete \/ CompleteBlocked \/ CompleteFailed

GraphSpec == GraphInit /\ [][GraphNext]_graphVars

-----------------------------------------------------------------------------
(* Properties. *)

\* What is committed was cleared: an analysis by the policies for exactly the
\* analysis it contains and the market data it was made from, never an opening
\* action without native data, levels and every required field; a report only
\* with sources it can name; and either by a reviewer who saw exactly this
\* content, where a review was required.
CommittedIsCleared ==
    graph.node # "idle" /\ "artifact" \in DOMAIN graph /\ graph.artifact.status = "committed" =>
        LET c == graph.artifact.content
        IN  /\ graph.policy = "required" => approved = c
            /\ IF graph.task = "deep_research"
               THEN c.report.cites # {} /\ CoherentCatalog(c.report, c.sources)
               ELSE /\ c.risk = ApplyRiskPolicy(c.analysis,
                          CheckEvidenceSufficiency(graph.market, graph.bundle, c.analysis.action))
                    /\ c.risk.allowed /\ c.analysis.manual
                    /\ c.analysis.action \in OPENING_ACTIONS =>
                          /\ ~IsWebSearch(graph.market) /\ c.analysis.levels
                          /\ REQUIRED_MACRO_FIELDS \subseteq graph.bundle

\* Progress events of a thread never fall back in sequence, through any number of
\* reviews and edits: the interface, which sorts by it and keeps the latest of
\* each kind, never shows an older phase after a newer one.  Equal numbers are
\* one event, whose later form replaces the earlier.
ProgressRises ==
    \A i, j \in DOMAIN emitted : i < j => emitted[i] <= emitted[j]
=============================================================================
