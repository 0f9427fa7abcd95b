# Signal Desk in TLA+

This directory specifies Signal Desk V2 (`src/backend/src/crypto_alert_v2` and the work
and inbox pages of `src/frontend`) and the decision path and the evaluation sidecar of
the V1 application it replaces (`src/src/crypto_manual_alert`). A user asks for a
trading analysis; the system must run it once, clear it by policy and by a human where
one is required, tell the user about it once, and be stoppable, auditable and deletable.
The modules are model-checked with TLC, and every safety property that the passing runs
check is proved with TLAPS for every value of the constants.

## The system

A user creates a **Task**. The HTTP service stores the Task and a `submit`
**command** in one transaction and returns. Worker processes poll
`CommandDispatcher.dispatch_once`: they claim the next command under a lease,
create or find an **official Run** on the Agent Server (a LangGraph server),
read its progress, and project its end onto the Product rows. A Run may pause for
a **review**; the answer, or the expiry of the review, is a new Run that resumes
the paused one. Users may also cancel a Task or a Run, retry a Task that failed,
or fork it. Every one of these is a command in the same queue.

Around the queue sit other workers with leased rows of their own (notifications,
deletions, monitors' Crons, trace verification, memory deletion, outcomes,
reconciliation), services of the Product API that meet only at rows they lock
(usage, authority, improvement, credentials, webhooks, inbox), the graph that the
official Runs execute, and the pages of the frontend.

| Component | State | Operations | Talks to | What makes it correct | Modules |
|---|---|---|---|---|---|
| Product rows of a Task | Task, Run, TaskCommand, InterruptPause | - | all | statuses agree with each other | TaskStore |
| Task requests (`api/service.py`) | - | create, cancel Task and Run, retry, fork, respond | rows | every request leaves what the dispatcher can finish | ProductService (partly) |
| Command dispatcher | leases | claim, execute, cancel, project, expire, release | rows, Agent Server | serial, at most once, always ends | CommandDispatcher |
| Agent Server client, Agent Server | official Runs (external) | start, resume, fork, find, get, join, cancel | dispatcher | an uncertain create is not repeated | AgentServer |
| Task lifecycle | what the owner is promised | - | - | abstract specification of the dispatcher | TaskLifecycle |
| Projection reconciler | reconciliation leases | claim, register, observe, release | the dispatcher's rows | never overrides the dispatcher, no lasting deadlock | ProjectionReconciler |
| Notification outbox | row, attempts, leases | plan, claim, mark, send, finish, resend, recover | Bark | no push nobody asked for | NotificationOutbox |
| Data lifecycle | hold, export and deletion jobs, receipts | request, claim, process, release | adapters | a report says what was seen | DataLifecycle |
| Monitors | definition, Cron commands, remote Crons | create, change, lease, four remote calls, finish | Agent Server | the Cron follows the monitor | MonitorCron, UsageGovernance |
| Memory and outcome workers | entry, jobs, observation | upsert, update, delete, claim, mature | market data | forgotten stays forgotten, recorded once | MemoryOutcome |
| Observability delivery | deliveries | plan, claim, verify, finish | trace providers | a verdict is right and final | TraceDelivery |
| Usage governance | entitlement, ledger | admit, trigger, charge, reconcile, repair | requests, Runs | charged once | UsageGovernance |
| Identity and authorization | memberships, tokens | authenticate, authorize, scope | every request | access is current and scoped | RequestAuthority |
| Controlled improvement | packets, candidate, receipts | freeze, experiment, review, shadow, promote, roll back | review graph | a release is backed by evidence and a human | ImprovementRelease |
| Notification credentials | ciphertexts, keyrings | save, stage, rewrap, retire | resolver | readable throughout a rollout | CredentialRotation |
| Webhook integrations | keys, nonces, audits | sign, accept | external senders | an event is accepted once | WebhookDelivery |
| Review inbox | pauses, page, cards | list, refresh, page, filter, Back, respond | service | a whole list, an honest receipt | InboxPages, InboxDecisions |
| Policies | none | route, evidence, unavailable data, risk | graph | - | AnalysisPolicies |
| Analysis graph | checkpoint | every node and router | providers, models | what is committed was cleared | AnalysisGraph |
| Agents and providers | budgets | probe, search, snapshot, fall back | search, OKX | a search ends inside its budget | SearchProviders |
| Worker runtime | health, loops | run, fail, stall, shut down, report | API | ready is honest | WorkerReadiness |
| Run ledger | events, evidence, versions | project, finalize, correct, repair | dispatcher | the ledger tells the output | RunLedger |
| Legacy application | market data, plan, journal, lock | schedule, fetch, gate, persist, push | OKX, swarm, Bark | an opening action is grounded | LegacyGates, LegacyRuns (partly) |
| Legacy evaluation | cases, calls, reports, runs, promotion artifacts | build, snapshot, store, replay, judge, gate, report, insert, review | journal, eval store, judges | ready and approved mean what production stored | ReleaseGate, EvaluationRuns (partly) |
| Frontend | page, requests away | poll, command, review, fork | service | sends what was meant, catches up | WorkSurface (partly) |
| Evaluation, HTTP interface | none | - | - | - | not modelled |

What is hard here: several workers and users act on the same rows; remote calls of
up to 20 seconds sit between two transactions; a lease may expire, or a
cancellation may withdraw the work, during such a call; a request may be accepted
although its caller saw an error; a process may die between any two steps; and
answers reach a page late, never, or in another order than they were asked for;
and an evaluation takes many steps over rows that others write meanwhile.
`PROJECT.json` lists these hazards at the lines where they bite.

## Modules

    TaskStore                  rows of one Task
      ProductService           user requests                 EXTENDS TaskStore
      AgentServer              official Runs and the client  EXTENDS TaskStore
        CommandDispatcher      workers, time, Spec           EXTENDS both
          TaskLifecycle        abstract specification        INSTANCE, refinement
          MCDispatcher         for TLC
          CommandDispatcherProofs
            TaskOutcomeProofs  EXTENDS CommandDispatcherProofs
    WorkerLeases               what leased workers share
      NotificationOutbox  TraceDelivery  DataLifecycle  MemoryOutcome
    MonitorCron
        WorkerProofs           theorems on these five
    ProjectionReconciler       dispatcher and reconciler, at row locks
                               - ProjectionReconcilerProofs
        MCWorkers              one of these six at a time
    UsageGovernance  RequestAuthority  ImprovementRelease  CredentialRotation
    WebhookDelivery  InboxPages  InboxDecisions
        ServiceProofs          theorems on all of these
        MCServices             one of these seven at a time
    AnalysisPolicies
      AnalysisGraph
    LegacyGates
      LegacyRuns
    SearchProviders  WorkerReadiness  RunLedger
        AnalysisProofs         theorems on all of these
        MCAnalysis             one of these five at a time
    WorkSurface                the work page
        WorkSurfaceProofs
    ReleaseGate                what an evaluation computes
      EvaluationRuns           calls, production, reviewers  EXTENDS ReleaseGate
        MCEvaluation           for TLC
        EvaluationProofs

`MCWorkers`, `MCServices` and `MCAnalysis` are sums, not products. The components in one
of them share no state, so a variable `part`, chosen in `Init` and never changed,
says which of them acts, and the state spaces add up. A property of a component
holds trivially in the other parts, and its fairness is guarded by its part.
Components that do share state are composed: the dispatcher with the requests and
the Agent Server, the dispatcher's transactions with the reconciler's, monitors'
triggers with usage, the graph with its policies, and a page with its service.

### The dispatcher and what it stands on

**TaskStore.** One Task is the unit: every lock is taken per Task, and the service
gives every Task a Thread of its own, so the `prior_unfinished` test, which is per
Thread, is per Task too. A Run is keyed by its `attempt`, a command by its
`sequence`, a pause by the Run it interrupts; a row that is not inserted has the
status `absent`. Of a Run the model keeps its status, its lineage, whether an
official Run is registered (`off`), whether `failure_code` says that a create may
have happened (`intent`), the remembered remote end (`obs`),
`cancel_requested_at`, fence and hash of the projection, the checkpoint and the
deadline. Payloads, outputs and members of a pause are abstracted: the members
move with their pause in every transaction. Clock values are abstracted to
`valid`/`due` and `future`/`past`.

**ProductService.** One action per request; each request is one transaction that
holds the Task row. A request the code refuses, or answers from an
Idempotency-Key, changes nothing and is no action.

**AgentServer.** What the client can observe: at most one active official Run per
thread (`multitask_strategy="reject"`), lost answers (`inflight`, accepted late or
never), an official Run that ends, fails or pauses, `find` by metadata, `get`,
which reports a paused Run as interrupted only while the thread still shows its
checkpoint, and `cancel`. The server is external; the sets of uncertain creations
that the client keeps in memory are left out, because a call abandoned by the
dispatcher's timeout never enters them and another process does not have them.

**CommandDispatcher.** A worker is a program counter and the `CommandLease` it
claimed. Each database transaction and each remote call is one step, named after
the method; between two steps anything else may happen. `Owns` and `OwnsFresh` are
`_locked_command` with and without `allow_expired`; `GiveUp` is a transaction that
finds the lease gone. `_record_remote_error` is four actions (tried again, fallen
back to the attempt limit, failed, dropped). The artifacts, evidence, outcomes,
usage receipts, notification plans and events that `_finalize` writes belong to
the same transaction and are represented by the stored output; RunLedger,
MemoryOutcome, UsageGovernance and NotificationOutbox take them up from there.
Payloads that fail their schema are not modelled: the service writes them from the
same schema. `blind` is a history variable: it records that an intent was dropped
while the outcome of a create was unknown.

**TaskLifecycle.** What the owner of a Task is promised, in four actions. The
dispatcher implements it with `status <- task` and `answers <-` the succeeded Runs.

**ProjectionReconciler.** One command with its Task and Run, dispatchers and a
reconciler. `CommandDispatcher` takes a transaction as one step; here a transaction
is split at each `SELECT ... FOR UPDATE`, and `locks` says who holds which row.
Dispatchers lock Task, Command, Run; the reconciler locks Command, Run, Task.
`claim_next` chooses its command in a snapshot before it holds the Task row. A
cycle of waiting transactions is broken by aborting one (`AbortVictim`).

### The background workers

**NotificationOutbox.** One row, its attempts, and what Bark accepted, which the
code cannot see (`accepted`). A claim first recovers an expired lease and
terminalizes a closed retry window, as `claim_next` does. `Send` chooses the
adapter's report, and whether Bark accepted a push that ended in a transport error or
a 5xx, which the adapter reports as retryable; such a push is `misreported` too.

**DataLifecycle.** One user's hold, export and deletion. Only the claim locks the job
row, and jobs have no fence: a transaction finds its job by status and owner and
writes it by key when it commits. Each transaction of an export or a deletion is
therefore a step that reads and a step that commits, and a worker that has lost its
job between the two commits all the same. A commit writes the whole
`system_status` as it was read, with one entry replaced. `overtaken` is a history
variable: it records that such a late commit fell into the last attempt. The Product
rows are one bit, each external system a bit and a receipt.

**MonitorCron.** One monitor whose user changes it up to the bound `MaxRevisions`,
its commands, the worker's four remote calls and the remote Crons.

**TraceDelivery.** The deliveries of one Run to the two providers: planned with the
claim, leased, verified against what the provider shows, settled.

**MemoryOutcome.** One memory entry with its deletion jobs, and one outcome
observation with the workers that mature it. A deletion is two transactions of the
worker, a maturation two with the market calls between them.

### The services

**UsageGovernance.** Requests and monitor triggers are admitted under the
entitlement row, Runs are charged without it, and a reconciliation compares ledger
and rows and may repair. The month changes between any two steps.

**RequestAuthority.** Identities with memberships that change at any time. A request
reads its membership once to authenticate and again where it is authorized; rows,
threads, Crons and store items have owners.

**ImprovementRelease.** Postmortems are frozen into packets, a dataset of packets
judges a candidate, a human decides at the graph's interrupt, and an approved
candidate is shadowed, promoted and rolled back. Each transaction locks the
candidate; remote calls lie between transactions.

**CredentialRotation.** Each process has a keyring; the operator moves the processes
through old, staged, overlap and retired, and runs the rewrap in between. A
ciphertext is its key version and its plaintext.

**WebhookDelivery.** Signed deliveries that the network delays, repeats and alters,
and the transaction that accepts them.

**InboxPages, InboxDecisions.** The list of reviews in keyset pages and the page that
loads, appends, refreshes and filters them; and the answer given on one card under
a key that survives as long as the decision does. The query with its order and limit is
stated by what it returns: the first rows in the order, all of them if they are not more
than the limit (`IsPage`).

### What is analysed

**AnalysisPolicies, AnalysisGraph.** The four deterministic policies as operators over
sets of fields, and one thread of the graph: one action per node. Model answers,
reviewers' decisions and edits, market snapshots and evidence bundles come from
small sets that contain each kind the policies tell apart.

**SearchProviders.** The probe that picks the provider of a process, the budgets of a
search and of an OKX snapshot in quarter seconds, what a reply counts as, and the
two fallbacks.

**WorkerReadiness.** The worker loops, their monitor, the Agent Server's monitor and
the readiness endpoint, with ages in ticks.

**RunLedger.** The domain events of a Run from its stream and from its terminal
transaction, their deduplication, evidence and versions, the conflict correction,
and the worker that repairs missing terminal events. Events are kept for each Run and
type, because every reader asks for those of one Run and one type; the Thread's common
numbering is left out.

**LegacyGates, LegacyRuns.** The gates of a V1 plan as operators, and the run around
them: fetch, search, swarm, engine, gates, persistence, push, and the scheduler's
lock.

### The evaluation sidecar

**ReleaseGate.** The rule and LLM judges, the replay of a stored candidate, the release
gate and the promotion review, as operators. A plan is what the gate can tell of it
(its *audit*): a hash or reference is a value equal exactly when the hashed content is,
a list of violations is reduced to whether it is empty. The summary of a case drops the
`required` flags of the worker manifest and the lead synthesis itself, so the checks for
dropped workers never fire in the code, and are left out.

**EvaluationRuns.** `EvalRunner.run` in the steps between which others may act: cases are
built from the journal, the six production tables are counted and then fingerprinted,
the cases are stored in one transaction, each case is read back with its artifacts and
judged, tables are counted and fingerprinted again, the gate is computed, the report
written, the run inserted. Production stores the plan of a badcase and finishes its
trace at any moment, which is why a case may be built from a running trace, and inserts
other rows. A call may raise at any step, or its process die. A reviewer brings
replays and submits promotion artifacts, each submission replacing rows and recomputing
the review.

### The work page

**WorkSurface.** One Task at the service and one page. Every await is a record in
`surfaceCalls`: sent, served, answered or lost. Raising `pollVersion` makes the
calls that compare it no longer live. A render and its effects are a step of their
own (`RunEffects`) that precedes the page's timers.

## Runs

Deadlock checking is off everywhere: a Task that has ended and gets no further
request really stops, and so do the other components.

| Run | Instance | Checks |
|---|---|---|
| `leases` | 2 workers (symmetric), 1 Run, 2 commands, both cancels, crashes, lost creates, failing finds | `SerialDispatch`, `AtMostOneOfficialRun`, `CancelledRunStopped`, `FinishedCommandsFinal` |
| `requests` | 1 worker, 2 Runs, 3 commands, cancels, retry, fork and answers, every fault | `UnattendedOnlyAfterCancel`, `TaskOutcomeFromRun`, `OpenReviewIsNewest`, `ReviewMovesForward`, `ImplementsLifecycle` |
| `settles` | fair worker, 2 Runs, 2 commands, retry and answers, every remote call but a cancel may fail, no crash | `TaskSettles`, `AcceptedResponseSettles` |
| `takeovers` | 2 workers of each kind; 3 pushes, 2 adapters, 3 versions of a monitor, 2 deletion requests; 2 dispatchers and a reconciler | `NoUnaskedPush`, `DeletionHonest`, `CronFollowsMonitor`, `VerdictsStand`, `ForgottenStaysForgotten`, `OutcomeRecordedOnce`, `FinishedStaysFinished` |
| `workers` | the same with 1 fair worker of each kind | `BackgroundWorkEnds`, `LifecycleEnds`, `EveryCronCommandEnds`, `DispatchedCommandFinishes` |
| `services` | 2 requesters and 2 triggers over 2 months; 1 request of each identity; 2 cases, 2 reviewers, 2 experiments; 2 API processes and 1 worker with 2 destinations; 2 events under 1 key; 3 reviews in pages of 1; 3 attempts to answer | `ChargedOnce`, `AccessIsCurrent`, `ReleaseBacked`, `CredentialsReadable`, `EventAcceptedOnce`, `InboxWhole`, `AnswerTold` |
| `analysis` | every kind of request, snapshot, bundle and model answer, 2 reviews; 2 worker loops; 2 Runs of a ledger; every V1 market and plan | `CommittedIsCleared`, `ProgressRises`, `SearchWithinBudget`, `ReadyIsHonest`, `LedgerTellsOutput`, `AllowedOpeningGrounded` |
| `evaluation` | 2 calls over 1 badcase and 2 plans; 1 call over 2 badcases, one with any of 23 plans, and the fixture judge; 1 run of a flawless plan under live judges, with 2 people, 2 configurations and 5 submissions | `ReadyRunUntouched`, `ReadyRunGrounded`, `PromotionGrounded` |
| `surface` | 3 Runs, 3 clicks, 2 requests away, 1 lost answer, a review of 2 members | `ReviewsMeant`, `PageCatchesUp` |

What they show, in words:

- commands of a Task run strictly in sequence and a finished one is never touched
  again, even by a worker that comes back with a lost lease;
- a second official Run for one Product Run appears only if an intent was dropped
  while the outcome of an earlier create was unknown (`second_create` shows that
  this happens);
- when a Task is cancelled the official Run of its newest Run is stopped, even if
  its create request was still on its way, except for a resume;
- apart from cancellation no error path leaves an active Task without a command;
  the status of an ended Task is that of one of its Runs, and only a retry or a
  fork reopens it (the latter is proved, and only that);
- a review moves forward only and an open one belongs to the newest Run;
- as long as no worker crashes and no cancel fails, a Task ends or reaches a review and
  every accepted answer is settled, whatever other call fails; with failing cancels a
  Task may stay running (`RunningEnds`, below);
- nobody is pushed twice unasked, but for a push that the adapter itself reported as
  retryable; a deletion calls nothing deleted that no scan found empty; the newest
  version of a monitor is what its Cron runs, a forgotten memory stays forgotten,
  verdicts and outcomes are recorded once, and the reconciler never touches what is
  finished - whoever takes a lease over and whenever;
- with fair workers all of that work ends, although processes die, calls fail and the
  database breaks deadlocks;
- nothing is charged twice, access is judged by what the membership is now, a release
  was approved by a human on the evidence of its experiment, credentials stay
  readable while their key is replaced, an event is accepted once, an inbox that is
  read to its end misses no review, and a card tells the receipt of its own answer;
- what an analysis commits was cleared by policy and by the reviewer who saw it,
  searches keep their budgets, ready is never old news, the ledger tells what the
  Run stored, and the V1 application allows an opening action only on grounded data;
- a V1 evaluation is called ready only if scores and replays are of the plans that
  production stored, each flawless, and production wrote nothing between the two
  fingerprints; and an approved promotion is of such a plan, its decision, request and
  approval agreeing;
- a page sends decisions only to the review they were made on, and catches up with a
  Task that ended.

### Bounds

Dispatcher: `MaxRuns` and `MaxCommands` bound the rows: two Runs are needed for a
retry, a resume or a fork away from an open review, three commands for work,
cancellation and a further request. A third Run, for a fork from an old Run beside a
newer paused one, is left to the theorems, which hold for every `MaxRuns`. `MaxFence` bounds the
attempt counter, which saturates; the limits `MaxAttempts` (3 in the code) and
`MaxCancelAttempts` (30 in the code) are at most that. A cancel limit of 2 reaches
both the retry and the give-up path; the properties do not depend on the number.
Two workers are needed only where leases are contested; one worker that crashes and
claims again exercises the recovery paths of the other runs.

Workers: two of each kind are the contest; a third adds no new relation between a
holder and its successor. Losses (`MaxLostSends`, `MaxClaims`, `MaxVerifierLosses`,
`MaxMemoryFaults`, `MaxCronCrashes`, `MaxStalls`) are bounded, since a loss in every
round is no behaviour worth a liveness property, and large enough that a row changes
hands twice. Three pushes are one automatic, one retried and one asked for. One Cron
worker is run: with two, `CronFollowsMonitor` is violated, see below.

Services: two concurrent requests, triggers, reviewers or deliveries are what the
row locks order; two months are one boundary. Three reviews in pages of one give a
first, a middle and a last page, with a late-committing review between them.

Analysis: percentages, prices and times are small numbers on both sides of each
threshold the policies compare with. `MaxReviews = 2` allows an edit followed by
another decision.

Evaluation: the run has three parts. In `calls`, two calls over one badcase replace each
other's rows in every order; storing the plan moves the counts, the end of the trace only
the fingerprints. The calls are alike, so the first to begin is the first by name. In
`gate`, the plans have one flaw at a time because the gate is a conjunction: a check that
is missing lets exactly its flaw through; a second badcase, sound, brings the rates of the
gate between none and all. In `reviews`, production rests and the run is one that reviews
are about, which a flawless plan under a ready gate leaves; five submissions are the four
that lead to an approval (materials, decision, request, approval) and one that replaces
any of them.

Surface: a command, a navigation and a further command, with one answer late beside
another under way.

### Fairness

Dispatcher (`LiveSpec`). A live worker keeps polling and stepping (`_run_loop`
catches every exception and polls again); leases and deadlines run out; and a
lease is not lost *each time* before the worker's next lease-checked step, because
`lease_seconds` (30) exceeds the heartbeat interval (10) and the timeout of a
remote operation (20): strong fairness on `Execute`, the create and find calls,
`Register` and `Drain` while the lease is fresh. Nothing is assumed of the Agent
Server: the graph may never end. Crashes and failing cancel calls are excluded
from `settles`, since a crash in every iteration trivially prevents progress; the
safety runs include them.

Workers (`MCWorkers.Spec`). Weak fairness of each worker's step, of leases and retries
becoming due, of the retry window and of an outcome's maturation; crashes and losses
stay in, within their bounds. No user is obliged to do anything. In the reconciler's
part the abortion of a reconciler and the dispatcher's claim and lock steps are
strongly fair: PostgreSQL serves lock waiters in order and does not choose the same
side of a deadlock for ever.

Work page (`SurfaceFairness`). React renders, timers fire, and a request that is away
is served or fails. The user need not click.

### Where documents and code disagree

Each of these runs checks what a document, or a message in the code, says, and
TLC finds a behaviour of the code that contradicts it. `PROJECT.json` quotes the
lines.

| Run | Statement | Behaviour |
|---|---|---|
| `second_create` | reconcile before any second create | a plain error of the reconciling find overwrites the intent, the next attempt creates again |
| `events_repair` | the worker repairs Runs without `run.terminal` | an ended Run without evidence stays selected by the repair query, so the worker spins on it and never reaches later Runs |
| `fork_not_followed` | "Switched to the new run" | the fork's answer is offered like any other projection; an ended Run on the page refuses it, and the page shows the old Run under the notice |

The specifications state further disagreements as definitions that no run checks; each is violated in the instance given.

| Definition | Instance | Behaviour |
|---|---|---|
| `RetryOfCancelledRunStarts` | `leases` with one worker, requests `cancel_run` and `retry`, 2 Runs, 3 commands, no fault | Cancel Run offers Retry, the service admits it, the claim accepts only `failed` or `blocked` sources and fails Task and Run |
| `RunningEnds` | `settles` with 1 Run, faults `stream` and `cancel` | an unconfirmed orphan cancel sets `cancel_requested_at`; a stream error in the next iteration cancels the command and leaves the Task running |
| `NoRunSurvivesCancel` | `requests` with `cancel_task` and `respond` | the cancel of a Task with an unregistered resume addresses the paused parent; the resume runs on |
| `CancelledTaskHasNoCommand` | the same | an answer is accepted while the cancel is pending and stays pending on the cancelled Task |
| `ExhaustedResponseMarked` | `settles` with `respond` and the fault `db` | database errors at the attempt limit fail Task and Run and leave the pause `responding` |
| `ShownOnce` | `takeovers` | a transport error other than a timeout, or a 5xx, is retried although the push may have been accepted: two automatic pushes, both shown |
| `DeletionReportCurrent` | `takeovers` | an owner that stalled inside a transaction until another worker had claimed the job writes the status it had read over the other's: the job ends as `pending_external` or `succeeded` although a system failed in the last attempt |
| `BundleScrubbed` | `DataLifecycle` | an export may store its bundle after a deletion scrubbed the bundles |
| `SuppressedNotCharged` | `UsageGovernance` | a repair charges triggers that were suppressed |
| `JobsNeverOverlap` | `LegacyRuns` | the job lock has a TTL and no owner; a release deletes whoever's row is there |

## Proofs

Each theorem holds for every value of the constants that satisfies the named
assumptions of its module.

| Theorem | States |
|---|---|
| `CommandDispatcherProofs!TypeCorrect` | `Spec => []TypeOK` |
| `CommandDispatcherProofs!SerialDispatchHolds` | `Spec => []SerialDispatch` |
| `CommandDispatcherProofs!TerminalTaskIdleHolds` | `Spec => []TerminalTaskIdle` |
| `CommandDispatcherProofs!FinishedCommandsFinalHolds` | `Spec => FinishedCommandsFinal` |
| `CommandDispatcherProofs!TerminalTaskReopensHolds` | `Spec => TerminalTaskReopens` |
| `WorkerProofs!NoUnaskedPushHolds` | `OutboxSafety => []NoUnaskedPush` |
| `WorkerProofs!LedgerMatchesRowHolds` | `OutboxSafety => []LedgerMatchesRow` |
| `WorkerProofs!OutboxTypeCorrect` | `OutboxSafety => []OutboxTypeOK` |
| `ProjectionReconcilerProofs!FinishedStaysFinishedHolds` | `ReconcilerSpec => FinishedStaysFinished` |
| `TaskOutcomeProofs!AtMostOneOfficialRunHolds` | `Spec => []AtMostOneOfficialRun` |
| `TaskOutcomeProofs!CancelledRunStoppedHolds` | `Spec => []CancelledRunStopped` |
| `TaskOutcomeProofs!UnattendedOnlyAfterCancelHolds` | `Spec => []UnattendedOnlyAfterCancel` |
| `TaskOutcomeProofs!TaskOutcomeFromRunHolds` | `Spec => []TaskOutcomeFromRun` |
| `TaskOutcomeProofs!OpenReviewIsNewestHolds` | `Spec => []OpenReviewIsNewest` |
| `TaskOutcomeProofs!ReviewMovesForwardHolds` | `Spec => ReviewMovesForward` |
| `TaskOutcomeProofs!ImplementsLifecycleHolds` | `Spec => ImplementsLifecycle` |
| `WorkerProofs!ForgottenStaysForgottenHolds` | `MemoryOutcomeSpec => []ForgottenStaysForgotten` |
| `WorkerProofs!OutcomeRecordedOnceHolds` | `MemoryOutcomeSpec => OutcomeRecordedOnce` |
| `WorkerProofs!VerdictsStandHolds` | `TraceSpec => VerdictsStand` |
| `WorkerProofs!DeletionHonestHolds` | `LifecycleSafety => []DeletionHonest` |
| `WorkerProofs!CronFollowsMonitorHolds` | one cron worker implies `MonitorSafety => []CronFollowsMonitor` |
| `ServiceProofs!EventAcceptedOnceHolds` | `HookSpec => []EventAcceptedOnce` |
| `ServiceProofs!CredentialsReadableHolds` | `CredentialSpec => []CredentialsReadable` |
| `ServiceProofs!ChargedOnceHolds` | `UsageSpec => []ChargedOnce` |
| `ServiceProofs!ReleaseBackedHolds` | `ImprovementSpec => []ReleaseBacked` |
| `ServiceProofs!AccessIsCurrentHolds` | `AuthoritySpec => AccessIsCurrent` |
| `ServiceProofs!AnswerToldHolds` | `InboxDecisionSpec => []AnswerTold` |
| `ServiceProofs!InboxWholeHolds` | `InboxSpec => []InboxWhole` |
| `AnalysisProofs!LedgerTellsOutputHolds` | `LedgerSpec => []LedgerTellsOutput` |
| `AnalysisProofs!ReadyIsHonestHolds` | `ReadinessSpec => []ReadyIsHonest` |
| `AnalysisProofs!SearchWithinBudgetHolds` | `ProvidersSpec => []SearchWithinBudget` |
| `AnalysisProofs!CommittedIsClearedHolds` | `GraphSpec => []CommittedIsCleared` |
| `AnalysisProofs!ProgressRisesHolds` | `GraphSpec => []ProgressRises` |
| `AnalysisProofs!AllowedOpeningGroundedHolds` | `LegacySpec => []AllowedOpeningGrounded` |
| `WorkSurfaceProofs!ReviewsMeantHolds` | `SurfaceSpec => []ReviewsMeant` |
| `EvaluationProofs!ReadyRunGroundedHolds` | `EvaluationSpec => []ReadyRunGrounded` |
| `EvaluationProofs!ReadyRunUntouchedHolds` | `EvaluationSpec => []ReadyRunUntouched` |
| `EvaluationProofs!ReportBackedHolds` | `EvaluationSpec => []ReportBacked` |
| `EvaluationProofs!PromotionGroundedHolds` | `EvaluationSpec => []PromotionGrounded` |

Every invariant and action property of the runs, and the refinement, is among them.
`TypeOK`, `TerminalTaskIdle`, `TerminalTaskReopens`, `LedgerMatchesRow`, `OutboxTypeOK` and
`ReportBacked` are proved and not part of a run.

**Dispatcher** (assumptions `StoreAssumption`, `RequestsAssumption`,
`DispatcherAssumption`: positive bounds, limits within the counter, known requests
and faults). None of the five is inductive alone. The inductive invariant `IInv`
joins the types of all rows with three further facts:

- `WorkerInv`: a worker that is not idle carries a command, and what it carries to
  a later step is what that step can handle (an output that is terminal, a remote
  status that is an end). Without it the projection could write a value that is no
  status.
- `QueueInv`: the queue has no gaps, a row not inserted was never claimed, a
  dispatching command was claimed, and a finished one has no lease.
- `SerialDispatch` and `TerminalTaskIdle` themselves, which support each other:
  the write of an owned command may end the Task because, by `SerialDispatch`, no
  other command can be dispatching.

The steps are then few: a write by the owner of a dispatching command
(`OwnedWrite`), a claim (`ClaimWrite`), an appended command with withdrawals
(`AppendWrite`) and a change of lease (`LeaseWrite`) preserve the queue facts, and
one lemma per action (`FinalizeGood`, `ClaimGood`, ...) shows which of these it
is. `NextGood` combines them; the temporal step is propositional. The same lemmas
carry the two step facts `Kept` and `Reopened` from which the action properties
follow.

**Outcome of a Task** (the same assumptions). `TInv` adds to `IInv` what the five
invariants need and do not say:

- `RowsInv`, between rows: at most one command that does work is open, it drives the
  newest Run, which has no pause and, before the first claim, no create intent
  (`WorkInv`); a review that can be answered has no such command beside it; a cancel
  command leaves `cancel_requested_at` on a Run if there is one; a fence is the sequence
  of a finished command.
- `CarriesInv`, between a worker and the rows, lease or no lease: the Run and the handle
  it holds belong to its command, and what it says of the official Run is so.
- `HeldInv`, while the lease is its own: the Task still runs, and a create intent or an
  official Run stands behind the command.
- `AgentInv`, to the Agent Server: unless an intent was dropped blindly, a Run has one
  source of an official Run at a time, which is the worker about to create, the request
  on its way, or the official Run (`OneSource`).

`AtMostOneOfficialRun` is not inductive because it looks at the second official Run
only when it exists; `OneSource` looks at what could still become one.
`CancelledRunStopped` needs `CarriesInv`: the worker that writes `cancelled` saw the stop
in an earlier step, and may have lost its lease since. Each action is shown to be a
`FineStep`, which keeps `TInv` and is, for the abstract Task, a step of `TaskLifecycle`
or a stutter; that gives the refinement and `ReviewMovesForward` as well.

**Notification outbox** (`WorkerAssumption`, `OutboxAssumption`). `NoUnaskedPush`
speaks of attempts only; that a next automatic attempt is harmless is a fact about
the row. `OnlyPlainBehind` is the strengthening: a row that waits for an automatic
push, or is making one, has only attempts behind it that failed and were not
accepted, or were accepted and misreported. The lemmas are about the set of accepted
pushes that nobody misreported (`Unexcused`): whatever Bark did with a push that ends
in a retryable report, that set does not grow. It needs `ManualOpen` (a resend is asked for while there is no manual
attempt), `RowShape` (attempts numbered without gaps, the newest sending exactly
while the row is, under the row's owner and fence) and, for each sender, that its
push either is the one the row waits for or has been recorded as unknown
(`SenderOK`). Since a claim recovers and terminalizes the row before taking it, the
facts are stated over values and proved of the rows in between (`LeaseEnds`,
`UnheldEndsOK`, `ClaimedOK`); there is one lemma per action.

**Memory and outcomes** (`WorkerAssumption`, `MemoryAssumption`). The two halves share
no state. `MemoryInv` is the types with the property itself; the deletion job that
succeeds writes both at once, and no later step writes a deleted entry. `OutcomeInv`
adds that only a pending observation has an owner, so that a store by the owner
finds it pending and any other store changes nothing.

**Trace delivery** (no assumption). `TraceInv` adds to the types that a lease which
can expire belongs to a delivery under way, and that "verified", on a row or in the
hands of a worker, is said only of a provider that shows the trace; traces never
disappear. Every step is a `GoodStep`: the fence writes rows under way only.

**Data lifecycle** (`WorkerAssumption`, `LifecycleAssumption`). A deletion is long: what its
report says was seen many steps before, and any worker that ever read the job may still
write it. So the invariant speaks of what workers hold as well as of the row. `Carried`
says of every worker, owner or not, that each system its copy of the status calls
deleted has a kept receipt of a scan that found it empty, and that what it is about
to record it has scanned; receipts are never removed, so a late commit writes a report
that is old and still backed. That is the first part of `DeletionHonest`.
For the second part `Attempts` and `Fresh` say whose attempt is the last, and
`Progressing` says of its worker that the systems it has passed are reported under this
attempt; both hold while no late commit fell into it (`overtaken`).

**Monitors** (one cron worker). Every compose file of the repository deploys one
`command-worker`, whose process has one `MonitorCronWorker`; with two the property is
false (see the limits), so the theorem names the hypothesis. `Loaded` and `CallsOK`
say what the worker knows at each remote call, `OneCron` that there is one remote Cron
at most, which a create without a search would break, and `Followed` that, once the
newest command was applied, what is left to do repeats it.

**Reconciler** (`ReconcilerAssumption`). The lock of the Task row is what protects a
completed command from a claim that chose it from an old snapshot: a claim holds the
row from the moment it found the Task active (`TaskHeld`), and the commit that
completes the command ends the Task under the same lock (`DoneTogether`). All other
writers read their condition again in the transaction that writes, so neither the
locks of the other rows nor their order matter, and the victim of a deadlock may be
anyone. `EndSeen` carries what a worker remembers of the official Run's end.

**Webhooks** (`WebhookAssumption`). The invariant is the property with the types: the
event is looked up among the audits in the transaction that appends one.

**Credentials** (`CredentialAssumption`: finitely many rows). `RolloutOrder` says how far
the three parties are: a process that writes under the new key, or a row under it,
means that no process has only the old key; a rewrap that runs or has passed means
that all processes write under the new key; a count of zero means that no row is
left, and none can appear since nobody writes under the old key; a process without
the old key means that the rewrap passed.

**Usage** (`UsageAssumption`: the key of a request is not the id of a trigger). A
key identifies the fact it charges, except that a trigger has two keys. The
invariant says that every entry stands for a row (`Entry`), that keys are unique, that
no trigger has both keys, and that what an audit read is still so (`Sourced`). The
entry on admission carries the month in which the trigger was received, so a repair
that does not find it in its month may add one.

**Improvement** (`ImprovementAssumption`). `Judged`: experiments are about frozen replays, and
one that passed the strict gate is flawless, because frozen cases do not change and
`FrozenReplays` only grows. `Decided`: from the request for a review on, the last
experiment is one that passed, and an answer is compared with what the graph decided.
`StrictGate` is the arithmetic of the gate: a full share of a finite set is the set.

**Authority** (no assumption). The action property follows from what each handler reads again
in its own step; the invariant `Named` says only that tokens, requests and rows name
identities and spaces that exist.

**Inbox decisions** (`InboxDecisionAssumption`: no decision is called "none"). An attempt is
named by its key. `OneAnswer` (equal keys carry equal answers), `Recorded` (the row holds
the key of an attempt) and `Told` (what a call brought is so of the row) are facts of the
service; `CardKeeps` and `Promised` tie the card that is mounted to the one call whose
answer it will believe, so an answer to an earlier card or attempt changes nothing.

**Inbox pages** (`InboxAssumption`: reviews are numbered, creation times are numbers, and a
page holds at least one review and at most the service's limit). `InboxWhole` says nothing of
the order of the list nor of answers on their way. `Whole` does: a list is in the order of
the query, ends where its cursor says, and misses only reviews beyond its end. It holds of
what is shown (`ShownWhole`) and, from its cursor on, of what each call has read
(`CallSound`). Two such stretches join when the second was asked for at the end of the
first; that is `CallsInTurn`: an awaited further page is the only awaited call, and its
cursor is still the one shown. A filter change and a reload stop awaiting whatever they
overtake, asking for more abandons the refreshes, and no refresh is sent until it is
answered. Back does not set `loading`, so a further page may be asked for beside the
first one; that is why the property excludes it.
The order is strict because equal creation times are decided by the id; with the creation
time alone two pages would not join.

**Ledger** (no assumption; the repair's fairness is not used). An event that is not written
again may be old: that it is still the newest of its type is `SourceTells`. It holds because
nothing writes for a Run that has ended except its own output, the conflict that replaces it
and the repair, and each of these writes under the source of the output that is then stored
(`SourcesStored`, with `OutputsStored`). A replay finds its source and changes nothing; a
first write of a source appends, or finds the newest event to hold the same payload. So one
lemma, `OutputWritten`, serves the terminal transaction, the conflict and the repair, and
`RunningKeeps` what happens to a Run before. Deduplicating against any older event would
break `AppendTells`, as the mutant of the run shows.

**Readiness** (`ReadinessAssumption`: positive limits). `ReadyIsHonest` is about the time that
passed in the world, the program knows only its own ages. `ProbeHonest` bounds one by the
other: an answer seen at the start of a probe is as old as the probe, so silence is at
most the age of the last success and one probe. `LoopsHonest` carries what the last
round of the monitor found until the next.

**Searches** (`ProvidersAssumption`: a wait that a provider asks for is not negative). While a call
goes on it is inside its budget; one that only met silence has waited exactly
`SlowElapsed` of its attempt, so it cannot end early.

**Graph** (no assumption). The node says what has been established: which fields exist
(`FieldsKnown`), of which shape (`DataKnown`), and how they agree (`DataAgree`). From
`build_artifact` on, the risk result in the artifact is the one `CheckedRisk` computes
of the analysis in the artifact; an edit changes that analysis and goes back to the
policies; only the approval of the artifact as it stands leads to the commit. For
`ProgressRises` every node has a level, raised by an offset with every review, and what
was emitted before a node is at or below its level (`SequenceBelow`). `apply_edits` lowers
its level by what the next offset adds.

**Legacy application** (`LegacyAssumption`: what the exchange, the swarm and the parser can
deliver). `GatesGround` says that a run that passes the three gates is `Grounded`: each
gate contributes a part, and ages only grow between them. `RunSound` carries what a gate
established to the step that decides. `ToldAsDecided`: rows, trace and phone say allowed
only of a run that is, and the trace before the phone.

**Work page** (no assumption). The property is about what was sent; the invariant
`BatchMeant` is about the batch: its drafts were taken on the pause it is for. Rendering,
deciding and submitting all reconcile the batch with the Task shown first; without that
in any of them, drafts of one pause would be filed under the next.

**Evaluation** (`ReleaseGateAssumption`: the minimum is a number of cases, the threshold
an integer; `EvaluationRunsAssumption`: the modes are the supported ones, and a plan
that production calls ready has no reason against it, passed both candidate gates, has
an input, at least seven workers, no hard block, and for an opening its price levels, as
`evaluate_final_decision_switch_readiness` and the semantic gate compute it; its action
is one of the enum, as the parser enforces). `ReadyRunGrounded` looks at stored runs
only; what makes it true happened many steps before, in a call. A plan is stored once,
so all that a call, a row or a replay says of a badcase was taken before the plan was
there or from that plan: this is `Origins`, and it survives every write of another call.
`CallSound` adds what is known at each stage: the replays cover what is no longer to do,
no judge failed unless `failed` says so, the gate was computed of exactly these. A
replay that passes cannot be of a missing plan (`ReplayPasses` asks for readiness), so
it is of the stored one, and then the score is of it too, since a built case without a
plan fails a rule. For `ReadyRunUntouched` rows and edits only grow, so a write between
the fingerprints makes them differ (`WatchSound`). `RunSound` and `HeldSound` carry this
to stored runs and to the replays a reviewer holds; `ReviewSound` says what an approval
found, and holds because every submission recomputes the review from all artifacts on
file.

Only model-checked is liveness (`TaskSettles`, `AcceptedResponseSettles`, `PageCatchesUp` and
the four of `workers`): fairness and `ENABLED` are outside the prover.

A theorem speaks of the model, with what the model leaves out: the prices of a legacy
plan are numbers, so NaN and infinities are in neither its run nor its theorem. The
violations need no proof.

## Limits of the model

General. Transactions are atomic, except in `ProjectionReconciler`, where they are
split at row locks, in `DataLifecycle`, where they read and commit in two steps, and
where a service reads in several statements and the module says so. Idempotency keys appear where an answer depends on them (usage, inbox,
work page). A pause has one status; that its members agree with it is taken from the
code, which writes them together. The Agent Server is modelled from its client; its
restarts and the loss of an accepted Run are not.

What the single components leave out or assume, with what modelling showed:

- **Monitors.** Two Cron workers may apply two versions out of order, each reading the
  monitor before the other's remote call; `CronFollowsMonitor` then fails. Commands of
  one monitor are not ordered once one was retried; with one worker this is harmless.
- **Notifications.** A push that Bark accepted and the adapter calls retryable is sent
  again; `NoUnaskedPush` names this exception. Payload and lineage checks of
  `plan_notification` refuse and change nothing.
- **Data lifecycle.** After a late commit the report may be of an earlier attempt, and
  hide a failure of the last; what it calls deleted was still found empty once.
  Logs and backups always answer `pending_expiry`, so a deletion that reads its own
  status to the end never reports `succeeded`. A job blocked after a partial attempt is reported blocked
  for all systems. The hold is not looked at again between two adapters.
- **Memory and outcomes.** An entry may be enabled or rewritten between the request to
  delete it and the scrub. The unique constraint also counts deleted rows, and not
  rows without a session. `create_memory` does not use its idempotency key. Any failed
  measurement is final. Metrics are not computed here.
- **Reconciler.** `claim_next` may reopen a command that `cancel_task` has just
  withdrawn, from its older snapshot; a completed one is safe, because PostgreSQL
  evaluates the condition on the Task row again after the wait. One stall of a process
  inside a transaction is allowed.
- **Usage.** The monthly trigger limit is compared with the sum of all units. Monitor
  Tasks are charged an admission only by a repair. A retry reactivates a Task without
  the test of concurrency. Quantities are one per entry.
- **Authority.** Workers act for owners whose membership was revoked. A Cron keeps the
  permissions of the trusted service that created it. The store asks for no permission.
  Tokens of any remaining age are one case (`MaxTokenAge = 0`). Lifecycle requests use
  permissions of their own and are left out.
- **Improvement.** Two concurrent starts of a review may create two official Runs, and
  the stale receipt strands the review; a failed shadow strands the candidate.
  Thresholds below one approve a candidate with a failed case. Resumes are serialised
  within one API process only, which is what is modelled.
- **Credentials.** The operator follows the documented order. Authentic encryption.
- **Webhooks.** No caller in `src` outside its tests; nonces are never removed.
- **Inbox.** After Back while "load more" is away, `loadingMore` stays set and the page
  is not extended; `InboxWhole` is claimed without that. The service reads pauses and
  members in two statements; a change between them makes the answer an error, and a
  failed first load stops the refresh. A refresh shows at most 100 reviews and may
  be overtaken by an older one. A remounted card has forgotten its key.
- **Graph.** A node that raises ends the official Run in error without a checkpoint. A
  harness that never searches raises where nobody catches it. Deep research
  emits two forms of an event under one sequence number. An edit that is no valid
  analysis ends the Run in error.
- **Search.** Clients honour the timeout they are given; httpx applies it per phase.
  The readiness branch of DDGS is unreachable in strict environments.
- **Readiness.** Ages are ticks; HTTP framing of the health ports is left out.
- **Ledger.** A conflict correction leaves the artifact version and the planned
  notification of a Run that is now failed.
- **Legacy.** The order book's age is judged when it is fetched, the risk check allows
  older prices; an event's validity is not looked at after the fetch. A plan id from
  the model lets a second run replace the first one's row. A failed journal write
  leaves the trace `running`. The run checks one run at a time; its API, badcase store
  and command line are not modelled.
- **Legacy evaluation.** The plan row is found before the trace is finished, so a case may
  be built from a running trace, without its final action; `ReadyRunGrounded` is therefore
  about plans, not about all of a trace. The gate does not ask that the replays are of all
  the cases of a run, which is its caller's contract; with a reviewer's replays
  `PromotionGrounded` speaks of the plan whose input is promoted, and not of its spans.
  `upsert_promotion_review_artifacts` has no caller in `src` outside its tests, and the
  model lets a reviewer bring the replay of any stored case. Its caller also supplies
  scores, thresholds and the minimum count, and may replace the side-effect proof; in the
  model these are the run's own and the configured ones. A snapshot is two steps, counts
  and fingerprints, of six statements each; a table is only compared with itself. The
  frozen inputs of a case and their replay, which the gate does not take, are left out. The order of cases is left open. Which badcases a run may select, prediction
  outcomes, the financial quality summary (no gate reads it), the experiments and the
  read endpoints are not modelled. No fairness is assumed: a call need not end.
- **Work page.** One Task and one tab. A lost answer to a retry leaves the page on
  `failed` until it is loaded again. `blocked` is treated as `failed`. The official
  stream's live panel and the other pages are not modelled.

## Not modelled

- **Evaluation** of V2 (`evaluation/` beyond controlled improvement): offline experiments,
  graders and release decisions over fixed data, pure and sequential.
- **HTTP interface** (`api/app.py`, `api/schemas.py`): parsing, response schemas and
  error mapping without state. Authorization and readiness are modelled on their own.
- **Read views** of the Product service other than the Task view and the inbox.
- **Prompts, agents' texts, callbacks, SDKs, deployment and tools** (`tools/`,
  `tests/`, configuration): no protocol of their own.

## What could come next

1. Abstract specifications of the notification outbox and of the deletion job, with
   proofs that the detailed ones implement them.
2. Two tabs on one Task, and the dispatcher with two Threads.
