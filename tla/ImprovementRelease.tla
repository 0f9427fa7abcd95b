--------------------------- MODULE ImprovementRelease ---------------------------
(***************************************************************************)
(* Controlled improvement (api/service.py, evaluation/): postmortem cases  *)
(* are frozen into replay packets, datasets of packets judge a candidate   *)
(* rule, a human decides about it at an interrupt of the candidate_review  *)
(* graph, and an approved candidate is shadowed, promoted and rolled back. *)
(* Every transaction locks the candidate; the calls to the Agent Server    *)
(* happen between two transactions.  The API is one process: the runner    *)
(* serialises resumes with an asyncio lock.                                *)
(***************************************************************************)
EXTENDS Integers, Sequences, FiniteSets

CONSTANTS
    Postmortems,        \* postmortem cases
    Packets,            \* what a replay packet scores 1 in: a set of metrics
    ThresholdChoices,   \* diff.minimum_scores of a candidate, in halves
    ReviewCallers,      \* HTTP requests about the review that may be in flight
    MaxExperiments      \* bound

METRIC_NAMES == {"structure", "evidence", "risk", "product_output"}

ASSUME ImprovementAssumption ==
    /\ IsFiniteSet(Postmortems)
    /\ Packets \subseteq SUBSET METRIC_NAMES
    /\ ThresholdChoices \subseteq [METRIC_NAMES -> 0..2]
    /\ MaxExperiments \in Nat

VARIABLES
    postmortem,   \* each case: its status and, when frozen, its packet
    datasets,     \* frozen datasets: sets of frozen cases
    candidate,    \* the ImprovementCandidate row
    experiments,  \* its experiments, in the order of created_at
    candReview,   \* the ImprovementReview row
    shadowRun,    \* the ImprovementShadowRun row
    releaseEvents,\* the actions of its ImprovementReleaseEvents
    reviewThread, \* the official thread of the review
    caller        \* the requests in flight

improvementVars == <<postmortem, datasets, candidate, experiments, candReview,
                     shadowRun, releaseEvents, reviewThread, caller>>
reviewVars == <<candReview, reviewThread, caller>>
judgedVars == <<postmortem, datasets, experiments>>
releaseVars == <<shadowRun, releaseEvents>>

NoPostmortem == [status |-> "none", packet |-> {}]
NoCandidate == [status |-> "none", thresholds |-> [m \in METRIC_NAMES |-> 2]]
CallerIdle == [pc |-> "idle", action |-> "none", interrupt |-> 0]
NoCandidateReview == [status |-> "none", key |-> "none", interrupt |-> 0]
NoShadowRun == [status |-> "none", cases |-> {}]

ImprovementInit ==
    /\ postmortem = [c \in Postmortems |-> NoPostmortem]
    /\ datasets = {}
    /\ candidate = NoCandidate
    /\ experiments = <<>>
    /\ candReview = NoCandidateReview
    /\ shadowRun = NoShadowRun
    /\ releaseEvents = {}
    /\ reviewThread = [state |-> "idle", runs |-> 0, resumed |-> FALSE, decision |-> "none"]
    /\ caller = [c \in ReviewCallers |-> CallerIdle]

CandidateMoves == {<<"draft", "evaluated">>, <<"evaluated", "pending_review">>,
    <<"pending_review", "approved">>, <<"pending_review", "rejected">>,
    <<"approved", "shadow">>, <<"shadow", "active">>, <<"active", "rolled_back">>}

\* transition_candidate: a forbidden move raises, and the transaction rolls back
TransitionCandidate(target) ==
    /\ <<candidate.status, target>> \in CandidateMoves
    /\ candidate' = [candidate EXCEPT !.status = target]

-----------------------------------------------------------------------------
(* Cases, datasets, candidates.  A repeated key returns what exists. *)

CreatePostmortem(c) ==
    /\ postmortem[c].status = "none"
    /\ postmortem' = [postmortem EXCEPT ![c].status = "open"]
    /\ UNCHANGED <<datasets, candidate, experiments, reviewVars, releaseVars>>

\* the rows of the source Run are what they are at this moment
FreezePostmortem(c) ==
    /\ postmortem[c].status = "open"
    /\ \E packet \in Packets :
          postmortem' = [postmortem EXCEPT ![c] = [status |-> "frozen", packet |-> packet]]
    /\ UNCHANGED <<datasets, candidate, experiments, reviewVars, releaseVars>>

FrozenReplays == {c \in Postmortems : postmortem[c].status = "frozen"}

\* an ImprovementDataset is the set of its members
CreateImprovementDataset ==
    /\ \E replays \in SUBSET FrozenReplays :
          replays # {} /\ datasets' = datasets \cup {replays}
    /\ UNCHANGED <<postmortem, candidate, experiments, reviewVars, releaseVars>>

CreateImprovementCandidate ==
    /\ candidate.status = "none"
    /\ \E t \in ThresholdChoices : candidate' = [status |-> "draft", thresholds |-> t]
    /\ UNCHANGED <<judgedVars, reviewVars, releaseVars>>

-----------------------------------------------------------------------------
(* Experiments *)

\* run_frozen_rule_experiment: a case below a threshold has no product output
CaseScore(c, m) ==
    LET score(k) == IF k \in postmortem[c].packet THEN 2 ELSE 0
    IN  IF m = "product_output" /\ \E k \in METRIC_NAMES : score(k) < candidate.thresholds[k]
        THEN 0 ELSE score(m)

\* evaluate_release_gate: every mean reaches its threshold
GateApproved(cases) ==
    \A m \in METRIC_NAMES :
        2 * Cardinality({c \in cases : CaseScore(c, m) = 2})
            >= candidate.thresholds[m] * Cardinality(cases)

ExperimentRow(cases) == [approved |-> GateApproved(cases), cases |-> cases]

\* created_at is the start of the transaction, which then waits for the
\* candidate's lock: an experiment may be recorded after a later one
RunImprovementExperiment ==
    /\ candidate.status \in {"draft", "evaluated"}
    /\ Len(experiments) < MaxExperiments
    /\ \E cases \in datasets, place \in {Len(experiments), Len(experiments) - 1} :
          /\ place >= 0
          /\ experiments' = SubSeq(experiments, 1, place)
                 \o <<ExperimentRow(cases)>>
                 \o SubSeq(experiments, place + 1, Len(experiments))
    /\ IF candidate.status = "draft" THEN TransitionCandidate("evaluated") ELSE UNCHANGED candidate
    /\ UNCHANGED <<postmortem, datasets, reviewVars, releaseVars>>

LatestApproved == experiments # <<>> /\ experiments[Len(experiments)].approved

-----------------------------------------------------------------------------
(* The review.  request_improvement_review: a transaction, start, another. *)

\* a request with another key conflicts; one for a review that has its
\* interrupt returns
RequestReview(c) ==
    /\ caller[c].pc = "idle"
    /\ LatestApproved
    /\ \/ /\ candReview.status = "none" /\ TransitionCandidate("pending_review")
          /\ candReview' = [status |-> "pending", key |-> "k1", interrupt |-> 0]
       \/ /\ candReview.key = "k1" /\ candReview.interrupt = 0
          /\ UNCHANGED <<candidate, candReview>>
    /\ caller' = [caller EXCEPT ![c].pc = "list"]
    /\ UNCHANGED <<judgedVars, releaseVars, reviewThread>>

\* CandidateReviewRuntime.start: runs.list, then runs.create if there was none
ListReviewRuns(c) ==
    /\ caller[c].pc = "list"
    /\ caller' = [caller EXCEPT ![c].pc = IF reviewThread.runs = 0 THEN "create" ELSE "join"]
    /\ UNCHANGED <<candidate, candReview, judgedVars, releaseVars, reviewThread>>

\* multitask_strategy "reject" refuses a Run while another one executes; a
\* Run on a thread that waits or has ended starts the graph anew
CreateReviewRun(c) ==
    /\ caller[c].pc = "create"
    /\ IF reviewThread.state = "running"
       THEN UNCHANGED reviewThread /\ caller' = [caller EXCEPT ![c] = CallerIdle]
       ELSE /\ reviewThread' = [reviewThread EXCEPT !.state = "running", !.runs = @ + 1]
            /\ caller' = [caller EXCEPT ![c].pc = "join"]
    /\ UNCHANGED <<candidate, candReview, judgedVars, releaseVars>>

\* request_candidate_review reaches its interrupt
ReviewInterrupts ==
    /\ reviewThread.state = "running"
    /\ reviewThread' = [reviewThread EXCEPT !.state = "waiting"]
    /\ UNCHANGED <<candidate, candReview, judgedVars, releaseVars, caller>>

\* join, get_interrupts: exactly one interrupt, or an error
JoinReviewRun(c) ==
    /\ caller[c].pc = "join"
    /\ reviewThread.state # "running"
    /\ caller' = [caller EXCEPT ![c] =
           IF reviewThread.state = "waiting"
           THEN [pc |-> "store", action |-> "none", interrupt |-> reviewThread.runs]
           ELSE CallerIdle]
    /\ UNCHANGED <<candidate, candReview, judgedVars, releaseVars, reviewThread>>

StoreReceipt(c) ==
    /\ caller[c].pc = "store"
    /\ candReview' = IF candReview.status = "pending"
                     THEN [candReview EXCEPT !.interrupt = caller[c].interrupt] ELSE candReview
    /\ caller' = [caller EXCEPT ![c] = CallerIdle]
    /\ UNCHANGED <<candidate, judgedVars, releaseVars, reviewThread>>

-----------------------------------------------------------------------------
(* decide_improvement_review: a read, the resume, a transaction *)

DecideReview(c, action) ==
    /\ caller[c].pc = "idle"
    /\ candReview.status = "pending" /\ candReview.interrupt > 0
    /\ caller' = [caller EXCEPT ![c] =
           [pc |-> "resume", action |-> action, interrupt |-> candReview.interrupt]]
    /\ UNCHANGED <<candidate, candReview, judgedVars, releaseVars, reviewThread>>

\* AgentServerRunner.resume and join: an earlier resume is returned, whatever it
\* answered; otherwise the interrupt must be the one that is open
ResumeReview(c) ==
    /\ caller[c].pc = "resume"
    /\ IF reviewThread.resumed
       THEN caller' = [caller EXCEPT ![c].pc = "compare"] /\ UNCHANGED reviewThread
       ELSE IF reviewThread.state = "waiting" /\ reviewThread.runs = caller[c].interrupt
       THEN /\ reviewThread' = [reviewThread EXCEPT !.state = "ended", !.resumed = TRUE,
                                                    !.decision = caller[c].action]
            /\ caller' = [caller EXCEPT ![c].pc = "compare"]
       ELSE caller' = [caller EXCEPT ![c] = CallerIdle] /\ UNCHANGED reviewThread
    /\ UNCHANGED <<candidate, candReview, judgedVars, releaseVars>>

\* Mutant: the answer of the caller is recorded, whatever the graph returned.
AnyResult(c) == TRUE

\* result.status is the status that the caller's action leads to
ConsistentResult(c) == reviewThread.decision = caller[c].action

RecordDecision(c) ==
    /\ caller[c].pc = "compare"
    /\ IF ConsistentResult(c) /\ candReview.status = "pending"
       THEN /\ TransitionCandidate(caller[c].action)
            /\ candReview' = [candReview EXCEPT !.status = caller[c].action]
       ELSE UNCHANGED <<candidate, candReview>>
    /\ caller' = [caller EXCEPT ![c] = CallerIdle]
    /\ UNCHANGED <<judgedVars, releaseVars, reviewThread>>

\* the client goes away or the process dies between two of these steps
CallerLost(c) ==
    /\ caller[c].pc # "idle"
    /\ caller' = [caller EXCEPT ![c] = CallerIdle]
    /\ UNCHANGED <<candidate, candReview, judgedVars, releaseVars, reviewThread>>

-----------------------------------------------------------------------------
(* Shadow and release *)

RunImprovementShadow(minimumRuns) ==
    /\ candReview.status = "approved" /\ LatestApproved
    /\ LET latest == experiments[Len(experiments)]
       IN  shadowRun' = [status |-> IF Cardinality(latest.cases) >= minimumRuns /\ latest.approved
                                    THEN "passed" ELSE "failed",
                         cases |-> latest.cases]
    /\ TransitionCandidate("shadow")
    /\ UNCHANGED <<judgedVars, reviewVars, releaseEvents>>

\* at most one ImprovementReleaseEvent of each action
RecordRelease(action) ==
    action \notin releaseEvents /\ releaseEvents' = releaseEvents \cup {action}

\* _record_improvement_release
Promote ==
    /\ shadowRun.status = "passed" /\ candReview.status = "approved"
    /\ TransitionCandidate("active")
    /\ RecordRelease("promoted")
    /\ UNCHANGED <<judgedVars, reviewVars, shadowRun>>

RollBack ==
    /\ "promoted" \in releaseEvents
    /\ TransitionCandidate("rolled_back")
    /\ RecordRelease("rolled_back")
    /\ UNCHANGED <<judgedVars, reviewVars, shadowRun>>

ImprovementNext ==
    \/ \E c \in Postmortems : CreatePostmortem(c) \/ FreezePostmortem(c)
    \/ CreateImprovementDataset \/ CreateImprovementCandidate \/ RunImprovementExperiment
    \/ \E c \in ReviewCallers :
          \/ RequestReview(c) \/ ListReviewRuns(c) \/ CreateReviewRun(c) \/ JoinReviewRun(c)
          \/ StoreReceipt(c) \/ ResumeReview(c) \/ RecordDecision(c) \/ CallerLost(c)
          \/ \E action \in {"approved", "rejected"} : DecideReview(c, action)
    \/ ReviewInterrupts
    \/ \E n \in 1..2 : RunImprovementShadow(n)
    \/ Promote \/ RollBack

ImprovementSpec == ImprovementInit /\ [][ImprovementNext]_improvementVars

-----------------------------------------------------------------------------
(* Properties. *)

\* What is shadowed or released was approved by a human at the graph's own
\* interrupt, whoever else was deciding, and was judged by the experiment that
\* passed the gate; with the default thresholds no case of it failed a metric.
ReleaseBacked ==
    candidate.status \in {"approved", "shadow", "active", "rolled_back"} =>
        /\ reviewThread.decision = "approved"
        /\ LatestApproved
        /\ candidate.thresholds = [m \in METRIC_NAMES |-> 2] =>
              \A c \in experiments[Len(experiments)].cases :
                  postmortem[c].packet = METRIC_NAMES
=============================================================================
