---------------------------- MODULE WorkSurface ----------------------------
(***************************************************************************)
(* The work page of the frontend (features/work/work-surface.tsx and       *)
(* task-fork-panel.tsx): a page that shows one Task of the product         *)
(* service, reads it again and again, and sends the user's commands.       *)
(*                                                                         *)
(* Every await of the page is a record in surfaceCalls: the request is     *)
(* sent, the service serves it at some later time, and its answer is       *)
(* applied later still, or lost.  The page's pollVersion counter is the    *)
(* flag `live' of a call: raising the version makes every version-checked  *)
(* call that is under way no longer live.  For a terminal revalidation     *)
(* `live' is the flag `active' of the effect that started it.              *)
(***************************************************************************)
EXTENDS Naturals, FiniteSets, Sequences

CONSTANTS
    ReviewMembers,   \* the interrupts of one pause
    MaxRuns,         \* runs of the Task
    MaxClicks,       \* commands and navigations of the user
    MaxCallsAway,    \* requests under way at once
    MaxLostCalls,    \* requests or answers the network loses
    Revalidations    \* terminalTaskRevalidationDelaysMs.length

VARIABLES
    service,       \* the Task as the product service stores it
    page,          \* the page's refs and React state
    surfaceCalls   \* the page's sleeping poll loops and requests under way

surfaceVars == <<service, page, surfaceCalls>>

TerminalStatuses == {"succeeded", "failed", "failed_by_conflict", "cancelled"}

NoView == [run |-> 0, status |-> "none", cancel |-> FALSE,
           pause |-> 0, responding |-> FALSE, selected |-> 0]

EmptyReviewBatch(fingerprint) ==
    [authority |-> fingerprint, drafts |-> {}, phase |-> "idle", key |-> 0]

SurfaceInit ==
    /\ service = [run |-> 0, status |-> <<>>, cancel |-> FALSE,
                  pause |-> 0, responding |-> FALSE, key |-> 0]
    /\ page = [shown |-> NoView, rendered |-> NoView, selected |-> 0,
               locks |-> {}, batch |-> EmptyReviewBatch(0), error |-> FALSE,
               recoverable |-> FALSE, notice |-> 0, revalidating |-> FALSE,
               attempts |-> 0, effectSelected |-> 0,
               creating |-> FALSE, forkRefused |-> FALSE,
               keys |-> 0, clicks |-> 0, lost |-> 0]
    /\ surfaceCalls = {}

Ended(v) == v.status \in TerminalStatuses
(***************************************************************************)
(* The service.                                                            *)
(***************************************************************************)

\* _task_view: the selected run, or the latest one; an active pause of it
\* makes the Task wait for its user.  A pause is named by the run it stopped;
\* the run that resumes it is the next one.
TaskView(s, selected) ==
    LET r == IF selected = 0 THEN s.run ELSE selected
        paused == /\ s.pause # 0
                  /\ \/ r = s.pause
                     \/ s.responding /\ r = s.pause + 1
    IN  [run |-> r,
         status |-> IF paused THEN "waiting_human" ELSE s.status[r],
         cancel |-> s.cancel,
         pause |-> IF paused THEN s.pause ELSE 0,
         responding |-> paused /\ s.responding,
         selected |-> selected]

LatestStatus == service.status[service.run]

WithNewRun(s) == [s EXCEPT !.run = @ + 1, !.status = Append(@, "queued")]

SetLatest(s, status) == [s EXCEPT !.status[s.run] = status]

\* What the dispatcher and the reconciler do to the Task meanwhile.
ServiceProgress ==
    /\ service.run > 0
    /\ \/ /\ LatestStatus = "queued" /\ ~service.cancel
          /\ service' = [SetLatest(service, "running")
                            EXCEPT !.pause = 0, !.responding = FALSE]
       \/ /\ LatestStatus = "running" /\ ~service.cancel
          /\ \/ service' = SetLatest(service, "succeeded")
             \/ service' = SetLatest(service, "failed")
             \/ service' = [SetLatest(service, "waiting_human")
                               EXCEPT !.pause = service.run]
       \/ /\ service.cancel
          /\ service' = [SetLatest(service, "cancelled")
                  EXCEPT !.cancel = FALSE, !.pause = 0, !.responding = FALSE]
       \/ /\ LatestStatus = "succeeded"
          /\ service' = SetLatest(service, "failed_by_conflict")
    /\ UNCHANGED <<page, surfaceCalls>>

\* The effect of a served write and whether the service accepts it.
Accepts(c) ==
    CASE c.kind = "create"  -> TRUE
      [] c.kind = "cancel"  -> LatestStatus \notin TerminalStatuses \ {"cancelled"}
      [] c.kind = "retry"   -> LatestStatus \in {"failed", "failed_by_conflict"}
                               /\ service.run < MaxRuns
      [] c.kind = "fork"    -> LatestStatus \notin {"cancelled", "queued", "running"}
                               /\ ~service.responding /\ ~service.cancel
                               /\ service.run < MaxRuns
      [] c.kind = "respond" -> \/ service.key = c.key
                               \/ /\ service.pause = c.pause
                                  /\ ~service.responding /\ ~service.cancel
                                  /\ service.run < MaxRuns
      [] OTHER              -> TRUE

Served(c) ==
    CASE c.kind = "create"  -> IF service.run = 0 THEN WithNewRun(service)
                               ELSE service
      [] c.kind = "cancel"  -> [service EXCEPT !.cancel = LatestStatus # "cancelled"]
      [] c.kind = "retry"   -> WithNewRun(service)
      [] c.kind = "fork"    ->
            IF service.pause # 0
            THEN [WithNewRun(SetLatest(service, "cancelled"))
                     EXCEPT !.pause = 0]
            ELSE WithNewRun(service)
      [] c.kind = "respond" -> IF service.key = c.key THEN service
                               ELSE [WithNewRun(service)
                                        EXCEPT !.responding = TRUE, !.key = c.key]
      [] OTHER              -> service

\* The service serves a request: a read answers with the view the page asked
\* for, a retry or a fork with the view of the run it made.
Serve(c) ==
    /\ c.reply = "sent"
    /\ IF Accepts(c)
       THEN LET s == Served(c)
                scope == IF c.kind \in {"retry", "fork"} THEN s.run ELSE c.selected
            IN  /\ service' = s
                /\ surfaceCalls' = (surfaceCalls \ {c}) \cup
                      {[c EXCEPT !.reply = "view", !.view = TaskView(s, scope)]}
       ELSE /\ surfaceCalls' = (surfaceCalls \ {c}) \cup {[c EXCEPT !.reply = "refused"]}
            /\ UNCHANGED service
    /\ UNCHANGED page

\* The request or its answer is lost or answered 408, 429 or 5xx (unsure), or
\* the request is rejected before it has an effect (denied: 401, 403).
LoseCall(c) ==
    /\ page.lost < MaxLostCalls
    /\ c.reply \in {"sent", "view", "refused"}
    /\ \E r \in {"unsure"} \cup (IF c.reply = "sent" THEN {"denied"} ELSE {}) :
          surfaceCalls' = (surfaceCalls \ {c}) \cup
                             {[c EXCEPT !.reply = r, !.view = NoView]}
    /\ page' = [page EXCEPT !.lost = @ + 1]
    /\ UNCHANGED service
(***************************************************************************)
(* What the page's handlers are made of.                                   *)
(***************************************************************************)

\* `failed' with the error terminal_projection_conflict is a status `failed'.
StatusShown(v) == IF v.status = "failed_by_conflict" THEN "failed" ELSE v.status

ShouldApplyProjection(current, incoming) ==
    \/ current.run = 0
    \/ ~Ended(current)
    \/ /\ Ended(incoming)
       /\ \/ StatusShown(current) = StatusShown(incoming)
          \/ incoming.status = "failed_by_conflict"

\* applyTaskProjection.
Applied(p, v) ==
    IF ShouldApplyProjection(p.shown, v) THEN [p EXCEPT !.shown = v] ELSE p

ShouldPoll(v) ==
    /\ ~Ended(v)
    /\ ~(v.status = "waiting_human" /\ v.pause = 0 /\ v.selected # 0)

SurfaceCall(kind, selected, reply) ==
    [kind |-> kind, live |-> TRUE, selected |-> selected, pause |-> 0,
     drafts |-> {}, key |-> 0, reply |-> reply, view |-> NoView]

\* pollVersion.current += 1, as the requests that compare it see it.
VersionRaised(calls) ==
    {IF c.kind \in {"revalidate", "respond", "fork"} THEN c
     ELSE [c EXCEPT !.live = FALSE] : c \in calls}

\* The fork panel is keyed by its context: leaving it abandons its request.
PanelLeft(calls) ==
    {IF c.kind = "fork" THEN [c EXCEPT !.live = FALSE] ELSE c : c \in calls}

Released(p, names) == [p EXCEPT !.locks = @ \ names]
Quiet(p) == [p EXCEPT !.error = FALSE, !.recoverable = FALSE]
Failed(p, recoverable) == [p EXCEPT !.error = TRUE, !.recoverable = recoverable]

\* startPolling, called with a version that is still the current one.
Polling(p, v) ==
    IF ShouldPoll(v) THEN [p EXCEPT !.locks = @ \cup {"polling"}] ELSE p
PollLoop(v, selected) ==
    IF ShouldPoll(v) THEN {SurfaceCall("poll", selected, "asleep")} ELSE {}

\* recoverTask up to its await.
Recovering(p, selected) ==
    [Quiet(p) EXCEPT !.locks = @ \cup {"polling"}, !.selected = selected]
RecoverCalls(calls, selected) ==
    VersionRaised(calls) \cup {SurfaceCall("recover", selected, "sent")}

\* The projection that counts after an answer was offered to the page.
Authoritative(p, v) == Applied(p, v).shown

ReconcileByStatus(batch, v) ==
    IF v.pause = 0
    THEN IF batch.authority = 0 THEN batch ELSE EmptyReviewBatch(0)
    ELSE IF v.responding THEN EmptyReviewBatch(v.pause)
    ELSE [batch EXCEPT !.authority = v.pause]

ReconcileReviewBatch(batch, v) ==
    IF v.pause = 0
    THEN IF batch.authority = 0 THEN batch ELSE EmptyReviewBatch(0)
    ELSE IF batch.authority # v.pause THEN EmptyReviewBatch(v.pause)
    ELSE IF v.responding THEN EmptyReviewBatch(v.pause)
    ELSE batch

\* A render is due.  React performs it long before a timer of the page fires.
RenderDue == page.rendered # page.shown \/ page.selected # page.effectSelected

UserActs ==
    /\ page.clicks < MaxClicks
    /\ Cardinality(surfaceCalls) < MaxCallsAway

Clicked(p) == [p EXCEPT !.clicks = @ + 1]

-----------------------------------------------------------------------------
(***************************************************************************)
(* Reading the Task.                                                       *)
(***************************************************************************)

PollWakes(c) ==
    /\ c.kind = "poll" /\ c.reply = "asleep"
    /\ ~RenderDue
    /\ surfaceCalls' = (surfaceCalls \ {c}) \cup
          (IF c.live THEN {[c EXCEPT !.reply = "sent"]} ELSE {})
    /\ UNCHANGED <<service, page>>

PollAnswered(c) ==
    LET again == {SurfaceCall("poll", c.selected, "asleep")}
        rest == surfaceCalls \ {c}
    IN
    /\ c.kind = "poll"
    /\ \/ /\ ~c.live
          /\ surfaceCalls' = rest
          /\ UNCHANGED page
       \/ /\ c.live /\ c.reply = "view"
          /\ LET p == IF ShouldApplyProjection(page.shown, c.view)
                      THEN Quiet(Applied(page, c.view)) ELSE page
             IN  IF ShouldPoll(p.shown)
                 THEN page' = p /\ surfaceCalls' = rest \cup again
                 ELSE page' = Released(p, {"polling"}) /\ surfaceCalls' = rest
       \/ /\ c.live /\ c.reply = "unsure"
          /\ page' = Failed(page, FALSE)
          /\ surfaceCalls' = rest \cup again
       \/ /\ c.live /\ c.reply = "denied"
          /\ page' = Failed(Released(page, {"polling"}), FALSE)
          /\ surfaceCalls' = rest

RecoverAnswered(c) ==
    LET rest == surfaceCalls \ {c}
        idle == Released(page, {"polling"})
        a    == Authoritative(page, c.view)
    IN
    /\ c.kind = "recover"
    /\ \/ ~c.live /\ surfaceCalls' = rest /\ UNCHANGED page
       \/ /\ c.live /\ c.reply = "view"
          /\ page' = Polling(Applied(idle, c.view), a)
          /\ surfaceCalls' = rest \cup PollLoop(a, c.selected)
       \/ /\ c.live /\ c.reply # "view"
          /\ page' = Failed(idle, c.reply = "unsure")
          /\ surfaceCalls' = rest

\* refreshProductTask: the notification panel saw a delivery change.
RefreshProductTask ==
    /\ UserActs
    /\ page.shown.run # 0 /\ page.selected = 0
    /\ \A c \in surfaceCalls : c.kind # "refresh"
    /\ page' = Clicked(page)
    /\ surfaceCalls' = surfaceCalls \cup {SurfaceCall("refresh", page.selected, "sent")}
    /\ UNCHANGED service

RefreshAnswered(c) ==
    LET rest == surfaceCalls \ {c}
        a    == Authoritative(page, c.view)
        p    == Quiet(Applied(page, c.view))
        used == c.live /\ page.shown.run # 0
    IN
    /\ c.kind = "refresh"
    /\ \/ ~used /\ surfaceCalls' = rest /\ UNCHANGED page
       \/ /\ used /\ c.reply = "view"
          /\ IF ~ShouldPoll(a)
             THEN /\ page' = Released(p, {"polling"})
                  /\ surfaceCalls' = VersionRaised(rest)
             ELSE IF /\ ShouldApplyProjection(page.shown, c.view)
                     /\ "polling" \notin page.locks
             THEN /\ page' = Polling(p, a)
                  /\ surfaceCalls' = rest \cup PollLoop(a, page.selected)
             ELSE page' = p /\ surfaceCalls' = rest
       \/ /\ used /\ c.reply # "view"
          /\ page' = Failed(page, c.reply = "unsure")
          /\ surfaceCalls' = rest

\* A Task is revalidated a few times after the page saw it end.
Revalidates(v) == Ended(v) /\ v.status # "failed_by_conflict"

RevalidateTask ==
    /\ page.revalidating /\ ~RenderDue
    /\ Cardinality(surfaceCalls) < MaxCallsAway
    /\ \A c \in surfaceCalls : c.kind = "revalidate" => ~c.live
    /\ IF /\ page.attempts < Revalidations
          /\ Revalidates(page.shown) /\ page.selected = page.effectSelected
       THEN /\ page' = [page EXCEPT !.attempts = @ + 1]
            /\ surfaceCalls' = surfaceCalls \cup
                  {SurfaceCall("revalidate", page.selected, "sent")}
       ELSE /\ page' = [page EXCEPT !.revalidating = FALSE]
            /\ UNCHANGED surfaceCalls
    /\ UNCHANGED service

RevalidationAnswered(c) ==
    LET used == c.live /\ page.shown.run # 0 /\ page.selected = c.selected
        applied == ShouldApplyProjection(page.shown, c.view)
        p == IF applied THEN Quiet(Applied(page, c.view)) ELSE page
    IN
    /\ c.kind = "revalidate"
    /\ surfaceCalls' = surfaceCalls \ {c}
    /\ page' = IF ~c.live THEN page
               ELSE IF ~used THEN [page EXCEPT !.revalidating = FALSE]
               ELSE IF c.reply # "view" THEN page
               ELSE [p EXCEPT !.revalidating = Revalidates(p.shown)]

\* React commits the page's state and runs the effects that depend on it.
RunEffects ==
    LET changed == \/ Revalidates(page.rendered) # Revalidates(page.shown)
                   \/ page.selected # page.effectSelected
        locks == IF page.shown.run = 0 \/ Ended(page.shown)
                 THEN page.locks \ {"cancel"} ELSE page.locks
        p == [page EXCEPT !.rendered = page.shown, !.locks = locks,
                 !.batch = ReconcileReviewBatch(@, page.shown),
                 !.effectSelected = page.selected]
    IN
    /\ RenderDue
    /\ IF changed
       THEN /\ page' = [p EXCEPT !.revalidating = Revalidates(page.shown),
                                 !.attempts = 0]
            /\ surfaceCalls' = {IF c.kind = "revalidate"
                                THEN [c EXCEPT !.live = FALSE] ELSE c
                                : c \in surfaceCalls}
       ELSE page' = p /\ UNCHANGED surfaceCalls
    /\ UNCHANGED service

-----------------------------------------------------------------------------
(***************************************************************************)
(* The user's commands.                                                    *)
(***************************************************************************)

Active == page.locks \cap {"submit", "polling", "cancel"} # {}

\* createProductTask.  One Task is modelled: the form is sent again only
\* while the page keeps the identity of a submission it saw no answer to.
CreateProductTask ==
    /\ UserActs /\ ~Active
    /\ service.run = 0 \/ page.creating
    /\ page' = [Quiet(Released(Clicked(page), {"cancel", "review"}))
                   EXCEPT !.locks = @ \cup {"submit"}, !.shown = NoView,
                          !.selected = 0, !.notice = 0, !.creating = TRUE,
                          !.batch = EmptyReviewBatch(0)]
    /\ surfaceCalls' = PanelLeft(VersionRaised(surfaceCalls))
                          \cup {SurfaceCall("create", 0, "sent")}
    /\ UNCHANGED service

CreateAnswered(c) ==
    LET rest == surfaceCalls \ {c}
        p == Released(page, {"submit"})
    IN
    /\ c.kind = "create"
    /\ \/ ~c.live /\ page' = p /\ surfaceCalls' = rest
       \/ /\ c.live /\ c.reply = "view"
          /\ page' = Polling([Applied(p, c.view) EXCEPT !.creating = FALSE], c.view)
          /\ surfaceCalls' = rest \cup PollLoop(c.view, 0)
       \/ /\ c.live /\ c.reply # "view"
          /\ page' = [p EXCEPT !.creating = @ /\ c.reply = "unsure", !.error = TRUE]
          /\ surfaceCalls' = rest

RetryCurrentTask ==
    /\ UserActs /\ ~Active
    /\ page.selected = 0 /\ StatusShown(page.shown) = "failed"
    /\ page' = [Quiet(Clicked(page)) EXCEPT !.locks = @ \cup {"submit"}]
    /\ surfaceCalls' = VersionRaised(surfaceCalls)
                          \cup {SurfaceCall("retry", 0, "sent")}
    /\ UNCHANGED service

RetryAnswered(c) ==
    LET rest == surfaceCalls \ {c}
        p == Released(page, {"submit"})
    IN
    /\ c.kind = "retry"
    /\ \/ ~c.live /\ page' = p /\ surfaceCalls' = rest
       \/ /\ c.live /\ c.reply = "view"
          /\ page' = Polling([p EXCEPT !.shown = c.view], c.view)
          /\ surfaceCalls' = rest \cup PollLoop(c.view, 0)
       \/ /\ c.live /\ c.reply # "view"
          /\ page' = [p EXCEPT !.error = TRUE]
          /\ surfaceCalls' = rest

CancelCurrentTask ==
    /\ UserActs
    /\ page.shown.run # 0 /\ page.selected = 0
    /\ ~Ended(page.shown) /\ ~page.shown.cancel
    /\ page.locks \cap {"cancel", "review"} = {}
    /\ page' = [Quiet(Released(Clicked(page), {"polling"}))
                   EXCEPT !.locks = @ \cup {"cancel"}]
    /\ surfaceCalls' = VersionRaised(surfaceCalls)
                          \cup {SurfaceCall("cancel", 0, "sent")}
    /\ UNCHANGED service

CancelAnsweredQuietly(c) ==
    LET rest == surfaceCalls \ {c}
        p == Released(page, {"cancel"})
    IN
    /\ c.kind = "cancel"
    /\ IF c.live /\ c.reply # "view"
       THEN /\ page' = Polling([p EXCEPT !.error = TRUE], page.shown)
            /\ surfaceCalls' = rest \cup PollLoop(page.shown, 0)
       ELSE /\ page' = IF c.live THEN Applied(p, c.view) ELSE p
            /\ surfaceCalls' = rest

CancelAnswered(c) ==
    LET rest == surfaceCalls \ {c}
        p == Released(page, {"cancel"})
        a == IF c.reply = "view" THEN Authoritative(page, c.view) ELSE page.shown
    IN
    /\ c.kind = "cancel"
    /\ \/ ~c.live /\ page' = p /\ surfaceCalls' = rest
       \/ /\ c.live
          /\ page' = Polling(IF c.reply = "view" THEN Applied(p, c.view)
                             ELSE [p EXCEPT !.error = TRUE], a)
          /\ surfaceCalls' = rest \cup PollLoop(a, 0)

\* submitReviewBatch, with the coordinator's state in p.batch.
SubmitReviewBatch(p) ==
    LET batch == ReconcileReviewBatch(p.batch, p.shown)
        key == IF batch.key # 0 THEN batch.key ELSE p.keys + 1
    IN
    /\ "review" \notin p.locks /\ "cancel" \notin p.locks
    /\ p.shown.pause # 0 /\ ~p.shown.responding /\ ~p.shown.cancel
    /\ p.selected = 0
    /\ {d.member : d \in batch.drafts} = ReviewMembers
    /\ page' = [p EXCEPT !.locks = @ \cup {"review"},
                   !.keys = IF key > @ THEN key ELSE @,
                   !.batch = IF @.authority = p.shown.pause
                             THEN [@ EXCEPT !.phase = "submitting", !.key = key]
                             ELSE @]
    /\ surfaceCalls' = surfaceCalls \cup
          {[SurfaceCall("respond", 0, "sent") EXCEPT !.pause = p.shown.pause,
                                      !.drafts = batch.drafts, !.key = key]}
    /\ UNCHANGED service

SubmitReview ==
    /\ UserActs
    /\ page.batch.phase \in {"idle", "network_error"}
    /\ SubmitReviewBatch(Clicked(page))

\* The panels of a rendered pause take decisions.
ReviewPanelOpen ==
    /\ page.rendered.pause # 0 /\ ~page.rendered.responding
    /\ ~page.rendered.cancel /\ "cancel" \notin page.locks
    /\ page.batch.phase \in {"idle", "network_error"}

\* handleReviewDecision, for the pause the user sees rendered.  A decision
\* that replaces a drafted one changes the submission's fingerprint.
DecideReview(m) ==
    LET v == page.shown
        batch == ReconcileReviewBatch(page.batch, v)
        old == {d \in batch.drafts : d.member = m}
        p == [page EXCEPT !.batch =
                [batch EXCEPT
                    !.drafts = (@ \ old) \cup {[member |-> m, pause |-> page.rendered.pause]},
                    !.key = IF old = {} THEN @ ELSE 0,
                    !.phase = IF @ = "network_error" THEN "idle" ELSE @]]
    IN
    /\ ReviewPanelOpen
    /\ v.pause = page.rendered.pause /\ ~v.responding
    /\ page.selected = 0
    /\ IF Cardinality(ReviewMembers) = 1
       THEN UserActs /\ SubmitReviewBatch(Clicked(p))
       ELSE page' = p /\ UNCHANGED <<service, surfaceCalls>>

\* A served decision counts only while its pause is still the one shown.
StillAsked(c) == page.shown.run # 0 /\ page.shown.pause = c.pause

BatchAfter(batch, c, phase, key) ==
    IF batch.authority = c.pause
    THEN [batch EXCEPT !.phase = phase, !.key = key] ELSE batch

RespondAnswered(c) ==
    LET rest == surfaceCalls \ {c}
        p == Released(page, {"review"})
        a == Authoritative(page, c.view)
    IN
    /\ c.kind = "respond"
    /\ \/ ~StillAsked(c) /\ page' = p /\ surfaceCalls' = rest
       \/ /\ StillAsked(c) /\ c.reply = "view"
          /\ page' = Polling(
                [Quiet(Released(Applied(p, c.view), {"polling"}))
                    EXCEPT !.batch = BatchAfter(@, c, "accepted", 0)], a)
          /\ surfaceCalls' = VersionRaised(rest) \cup PollLoop(a, 0)
       \/ /\ StillAsked(c) /\ c.reply = "unsure"
          /\ page' = [p EXCEPT !.batch = BatchAfter(@, c, "network_error", c.key)]
          /\ surfaceCalls' = rest
       \/ /\ StillAsked(c) /\ c.reply = "denied"
          /\ page' = [p EXCEPT !.batch = BatchAfter(@, c, "auth_error", 0)]
          /\ surfaceCalls' = rest
       \/ /\ StillAsked(c) /\ c.reply = "refused"
          /\ page' = Recovering([p EXCEPT !.batch =
                                    BatchAfter(@, c, "conflict", 0)], 0)
          /\ surfaceCalls' = RecoverCalls(rest, 0)

\* The fork panel, offered while a run is selected.
SubmitFork ==
    /\ UserActs
    /\ page.selected # 0 /\ page.shown.run # 0
    /\ "cancel" \notin page.locks /\ ~page.shown.cancel
    /\ page.batch.phase # "submitting"
    /\ \A c \in surfaceCalls : c.kind = "fork" => ~c.live
    /\ page' = [Clicked(page) EXCEPT !.forkRefused = FALSE]
    /\ surfaceCalls' = surfaceCalls \cup {SurfaceCall("fork", page.selected, "sent")}
    /\ UNCHANGED service

\* handleForkAccepted: the fork's projection is offered like any other.
ForkAccepted(p, v) ==
    [Quiet(Released(Applied(p, v), {"polling", "review", "cancel"}))
        EXCEPT !.batch = EmptyReviewBatch(0), !.selected = 0, !.notice = v.run]

ForkAnswered(c) ==
    LET rest == surfaceCalls \ {c}
        used == c.live /\ page.shown.run # 0 /\ page.selected = c.selected
    IN
    /\ c.kind = "fork"
    /\ \/ ~used /\ surfaceCalls' = rest /\ UNCHANGED page
       \/ /\ used /\ c.reply = "view"
          /\ page' = Polling(ForkAccepted(page, c.view), c.view)
          /\ surfaceCalls' = PanelLeft(VersionRaised(rest)) \cup PollLoop(c.view, 0)
       \/ /\ used /\ c.reply # "view"
          /\ page' = [page EXCEPT !.forkRefused = (c.reply = "refused")]
          /\ surfaceCalls' = rest

\* Offered once after a refused fork, so it needs no click of the bound.
RefreshForkContext ==
    /\ Cardinality(surfaceCalls) < MaxCallsAway
    /\ page.forkRefused /\ page.selected # 0 /\ page.shown.run # 0
    /\ page' = Recovering([page EXCEPT !.forkRefused = FALSE], page.selected)
    /\ surfaceCalls' = RecoverCalls(surfaceCalls, page.selected)
    /\ UNCHANGED service

ResumePolling ==
    /\ UserActs
    /\ page.recoverable /\ "polling" \notin page.locks
    /\ page' = Recovering(Clicked(page), page.selected)
    /\ surfaceCalls' = RecoverCalls(surfaceCalls, page.selected)
    /\ UNCHANGED service

\* loadTaskSelectionFromLocation: the page is opened or the user navigates.
LoadTaskSelection(run) ==
    /\ UserActs
    /\ service.run > 0
    /\ page' = Recovering(
          [Released(Clicked(page), {"submit", "review", "cancel"})
              EXCEPT !.shown = NoView, !.batch = EmptyReviewBatch(0),
                     !.notice = 0, !.creating = FALSE, !.forkRefused = FALSE], run)
    /\ surfaceCalls' = RecoverCalls(PanelLeft(surfaceCalls), run)
    /\ UNCHANGED service

-----------------------------------------------------------------------------
CallAnswered(c) ==
    /\ c.reply \in {"view", "refused", "unsure", "denied"}
    /\ \/ PollAnswered(c) \/ RecoverAnswered(c) \/ RefreshAnswered(c)
       \/ RevalidationAnswered(c) \/ CreateAnswered(c) \/ RetryAnswered(c)
       \/ CancelAnswered(c) \/ RespondAnswered(c) \/ ForkAnswered(c)
    /\ UNCHANGED service

CallStep(c) == PollWakes(c) \/ Serve(c) \/ CallAnswered(c)

UserStep ==
    \/ CreateProductTask \/ RetryCurrentTask \/ CancelCurrentTask
    \/ SubmitReview \/ SubmitFork \/ RefreshForkContext \/ ResumePolling
    \/ \E m \in ReviewMembers : DecideReview(m)
    \/ \E run \in 0..service.run : LoadTaskSelection(run)

SurfaceNext ==
    \/ ServiceProgress
    \/ UserStep
    \/ RefreshProductTask \/ RevalidateTask \/ RunEffects
    \/ \E c \in surfaceCalls : CallStep(c) \/ LoseCall(c)

\* React renders, a timer fires, a request is served or fails, and its answer is handled.
SurfaceFairness ==
    /\ WF_surfaceVars(RunEffects)
    /\ WF_surfaceVars(\E c \in surfaceCalls : PollWakes(c))
    /\ WF_surfaceVars(\E c \in surfaceCalls : Serve(c))
    /\ WF_surfaceVars(\E c \in surfaceCalls : CallAnswered(c))

SurfaceSpec == SurfaceInit /\ [][SurfaceNext]_surfaceVars /\ SurfaceFairness

-----------------------------------------------------------------------------
\* A review that the page sends holds only decisions the user made on the
\* very pause it answers: a decision drafted on one pause is never sent as
\* the answer to a later one, whatever reads arrived in between
\* (reconcileReviewBatchState, submitReviewBatch).
ReviewsMeant ==
    \A c \in surfaceCalls : c.kind = "respond" =>
        \A d \in c.drafts : d.pause = c.pause

\* A page that shows the latest run of a Task as unfinished, when the Task has
\* ended, comes to show that it ended, unless it tells the user that reading
\* stopped or the Task is taken up again: no answer, failure or superseded
\* read leaves the page waiting with no poll under way.
Outdated ==
    /\ service.run # 0 /\ LatestStatus \in TerminalStatuses
    /\ page.shown.run # 0 /\ page.selected = 0 /\ ~Ended(page.shown)
PageCatchesUp ==
    Outdated ~> (~Outdated \/ (page.error /\ "polling" \notin page.locks))

\* "Switched to the new run, the Product status will keep updating"
\* (work-surface.tsx:1323): while the page shows this notice it shows the run
\* the fork created, or a later one.
ForkNoticeTrue ==
    page.notice # 0 /\ page.shown.run # 0 => page.shown.run >= page.notice
=============================================================================
