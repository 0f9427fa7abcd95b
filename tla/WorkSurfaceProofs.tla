-------------------------- MODULE WorkSurfaceProofs --------------------------
(***************************************************************************)
(* The work page of WorkSurface, for any number of runs, clicks, requests  *)
(* under way and lost answers, and for any pause: a review that the page   *)
(* sends holds only decisions taken on the pause it answers.               *)
(*                                                                         *)
(* The invariant is about the coordinator's batch, not about what is sent: *)
(* whatever the page does, the drafts of page.batch were taken on the      *)
(* pause the batch is for.  It holds through a render, a decision and a    *)
(* submission only because each of them reconciles the batch with the      *)
(* Task that is shown before it adds to it or sends it.                    *)
(***************************************************************************)
EXTENDS WorkSurface, TLAPS

PageFields ==
    {"shown", "rendered", "selected", "locks", "batch", "error", "recoverable",
     "notice", "revalidating", "attempts", "effectSelected", "creating",
     "forkRefused", "keys", "clicks", "lost"}
BatchFields == {"authority", "drafts", "phase", "key"}
CallFields == {"kind", "live", "selected", "pause", "drafts", "key", "reply", "view"}

\* The drafts of a batch were taken on the pause the batch is for.
BatchMeant(b) ==
    /\ DOMAIN b = BatchFields
    /\ \A d \in b.drafts : d.pause = b.authority

PageMeant(p) == DOMAIN p = PageFields /\ BatchMeant(p.batch)

CallMeant(c) ==
    /\ DOMAIN c = CallFields
    /\ c.kind = "respond" => \A d \in c.drafts : d.pause = c.pause

CallsMeant(calls) == \A c \in calls : CallMeant(c)

SurfaceInv == PageMeant(page) /\ CallsMeant(surfaceCalls)

-----------------------------------------------------------------------------
(***************************************************************************)
(* What the handlers are made of keeps a page and its calls as they should *)
(* be.                                                                     *)
(***************************************************************************)

LEMMA EmptyMeant == ASSUME NEW pause PROVE BatchMeant(EmptyReviewBatch(pause))
  BY DEF BatchMeant, BatchFields, EmptyReviewBatch

\* Reconciling a batch with a Task whose pause is open leaves it for that pause.
LEMMA ReconcileMeant ==
  ASSUME NEW b, NEW v, BatchMeant(b)
  PROVE  /\ BatchMeant(ReconcileReviewBatch(b, v))
         /\ v.pause # 0 => ReconcileReviewBatch(b, v).authority = v.pause
<1>1. \A pause : /\ BatchMeant(EmptyReviewBatch(pause))
                 /\ EmptyReviewBatch(pause).authority = pause
  BY EmptyMeant DEF EmptyReviewBatch
<1> QED
  BY <1>1 DEF ReconcileReviewBatch

\* A step of the page that leaves its batch alone.
LEMMA SameBatch ==
  ASSUME NEW p, NEW q, PageMeant(p), DOMAIN q = DOMAIN p, q.batch = p.batch
  PROVE  PageMeant(q)
  BY DEF PageMeant

LEMMA HandlersMeant ==
  ASSUME NEW p, PageMeant(p)
  PROVE  /\ PageMeant(Quiet(p))
         /\ PageMeant(Clicked(p))
         /\ \A names : PageMeant(Released(p, names))
         /\ \A v : PageMeant(Applied(p, v)) /\ PageMeant(Polling(p, v))
         /\ \A selected : PageMeant(Recovering(p, selected))
<1>1. PageMeant(Quiet(p))
  BY DEF Quiet, PageMeant, PageFields
<1>2. PageMeant(Clicked(p))
  BY DEF Clicked, PageMeant, PageFields
<1>3. ASSUME NEW names PROVE PageMeant(Released(p, names))
  BY DEF Released, PageMeant, PageFields
<1>4. ASSUME NEW v PROVE PageMeant(Applied(p, v)) /\ PageMeant(Polling(p, v))
  BY DEF Applied, Polling, PageMeant, PageFields
<1>5. ASSUME NEW selected PROVE PageMeant(Recovering(p, selected))
  BY DEF Recovering, Quiet, PageMeant, PageFields
<1> QED
  BY <1>1, <1>2, <1>3, <1>4, <1>5

LEMMA FailedMeant ==
  ASSUME NEW p, PageMeant(p)
  PROVE  PageMeant(Failed(p, FALSE)) /\ PageMeant([p EXCEPT !.error = TRUE])
  BY DEF Failed, PageMeant, PageFields

LEMMA SurfaceCallMeant ==
  ASSUME NEW kind, NEW selected, NEW reply
  PROVE  CallMeant(SurfaceCall(kind, selected, reply))
  BY DEF SurfaceCall, CallMeant, CallFields

LEMMA RaisedMeant ==
  ASSUME NEW calls, CallsMeant(calls)
  PROVE  CallsMeant(VersionRaised(calls)) /\ CallsMeant(PanelLeft(calls))
<1>1. \A c \in calls : CallMeant([c EXCEPT !.live = FALSE])
  BY DEF CallsMeant, CallMeant, CallFields
<1> QED
  BY <1>1 DEF VersionRaised, PanelLeft, CallsMeant

LEMMA CallSetsMeant ==
  ASSUME NEW calls, CallsMeant(calls)
  PROVE  /\ \A more : CallsMeant(more) => CallsMeant(calls \cup more)
         /\ \A c : CallsMeant(calls \ {c})
         /\ \A c : CallMeant(c) => CallsMeant(calls \cup {c})
         /\ \A v, selected : CallsMeant(calls \cup PollLoop(v, selected))
         /\ \A selected : CallsMeant(RecoverCalls(calls, selected))
<1>1. \A v, selected : CallsMeant(PollLoop(v, selected))
  BY SurfaceCallMeant DEF PollLoop, CallsMeant
<1>2. CallsMeant(VersionRaised(calls))
  BY RaisedMeant
<1>3. \A selected : CallsMeant(RecoverCalls(calls, selected))
  BY <1>2, SurfaceCallMeant DEF RecoverCalls, CallsMeant
<1> QED
  BY <1>1, <1>3 DEF CallsMeant

-----------------------------------------------------------------------------
(***************************************************************************)
(* One lemma per action, or per group of actions that touch the same part. *)
(***************************************************************************)

LEMMA ServeMeant ==
  ASSUME SurfaceInv, NEW c \in surfaceCalls, Serve(c) \/ LoseCall(c)
  PROVE  PageMeant(page') /\ CallsMeant(surfaceCalls')
<1>1. CallMeant(c) /\ CallsMeant(surfaceCalls \ {c}) /\ PageMeant(page)
  BY CallSetsMeant DEF SurfaceInv, CallsMeant
<1>2. \A x : CallMeant(x) => CallsMeant((surfaceCalls \ {c}) \cup {x})
  BY <1>1, CallSetsMeant
<1>3. CASE Serve(c)
  <2>1. PICK r, v, x : /\ \/ x = [c EXCEPT !.reply = r, !.view = v]
                          \/ x = [c EXCEPT !.reply = r]
                       /\ surfaceCalls' = (surfaceCalls \ {c}) \cup {x}
    BY <1>3 DEF Serve
  <2>2. CallMeant(x)
    BY <1>1, <2>1 DEF CallMeant, CallFields
  <2> QED
    BY <1>1, <1>2, <1>3, <2>1, <2>2 DEF Serve
<1>4. CASE LoseCall(c)
  <2>1. PICK r, x : /\ x = [c EXCEPT !.reply = r, !.view = NoView]
                    /\ surfaceCalls' = (surfaceCalls \ {c}) \cup {x}
    BY <1>4 DEF LoseCall
  <2>2. CallMeant(x)
    BY <1>1, <2>1 DEF CallMeant, CallFields
  <2>3. PageMeant(page')
    BY <1>1, <1>4 DEF LoseCall, PageMeant, PageFields
  <2> QED
    BY <1>2, <2>1, <2>2, <2>3
<1> QED
  BY <1>3, <1>4

LEMMA PollWakesMeant ==
  ASSUME SurfaceInv, NEW c \in surfaceCalls, PollWakes(c)
  PROVE  PageMeant(page') /\ CallsMeant(surfaceCalls')
<1>1. CallMeant(c) /\ CallsMeant(surfaceCalls \ {c}) /\ PageMeant(page)
  BY CallSetsMeant DEF SurfaceInv, CallsMeant
<1>2. CallMeant([c EXCEPT !.reply = "sent"])
  BY <1>1 DEF CallMeant, CallFields
<1>3. CallsMeant((surfaceCalls \ {c}) \cup {[c EXCEPT !.reply = "sent"]})
  BY <1>1, <1>2, CallSetsMeant
<1>4. (surfaceCalls \ {c}) \cup {} = surfaceCalls \ {c}
  OBVIOUS
<1> QED
  BY <1>1, <1>3, <1>4 DEF PollWakes

\* The answers to reads.
LEMMA PollAnsweredMeant ==
  ASSUME SurfaceInv, NEW c \in surfaceCalls, PollAnswered(c)
  PROVE  PageMeant(page') /\ CallsMeant(surfaceCalls')
<1> DEFINE rest == surfaceCalls \ {c}
           again == {SurfaceCall("poll", c.selected, "asleep")}
<1>1. PageMeant(page) /\ CallsMeant(rest)
  BY CallSetsMeant DEF SurfaceInv
<1>2. CallsMeant(rest \cup again)
  BY <1>1, SurfaceCallMeant, CallSetsMeant
<1>3. PageMeant(IF ShouldApplyProjection(page.shown, c.view)
                THEN Quiet(Applied(page, c.view)) ELSE page)
  BY <1>1, HandlersMeant
<1>4. PICK p : p = IF ShouldApplyProjection(page.shown, c.view)
                   THEN Quiet(Applied(page, c.view)) ELSE page
  OBVIOUS
<1>5. PageMeant(Released(p, {"polling"})) /\ PageMeant(p)
  BY <1>3, <1>4, HandlersMeant
<1>6. /\ PageMeant(Released(page, {"polling"}))
      /\ PageMeant(Failed(page, FALSE))
      /\ PageMeant(Failed(Released(page, {"polling"}), FALSE))
  BY <1>1, HandlersMeant, FailedMeant
<1> QED
  BY <1>1, <1>2, <1>4, <1>5, <1>6 DEF PollAnswered

LEMMA RecoverAnsweredMeant ==
  ASSUME SurfaceInv, NEW c \in surfaceCalls, RecoverAnswered(c)
  PROVE  PageMeant(page') /\ CallsMeant(surfaceCalls')
<1> DEFINE rest == surfaceCalls \ {c}
           idle == Released(page, {"polling"})
           a    == Authoritative(page, c.view)
<1>1. PageMeant(page) /\ CallsMeant(rest) /\ PageMeant(idle)
  BY CallSetsMeant, HandlersMeant DEF SurfaceInv
<1>2. CallsMeant(rest \cup PollLoop(a, c.selected))
  BY <1>1, CallSetsMeant
<1>3. PageMeant(Polling(Applied(idle, c.view), a))
  BY <1>1, HandlersMeant
<1>5. PageMeant(Failed(idle, c.reply = "unsure"))
  BY <1>1 DEF Failed, PageMeant, PageFields
<1> QED
  BY <1>1, <1>2, <1>3, <1>5 DEF RecoverAnswered

LEMMA RefreshMeant ==
  ASSUME SurfaceInv, RefreshProductTask
  PROVE  PageMeant(page') /\ CallsMeant(surfaceCalls')
  BY HandlersMeant, CallSetsMeant, SurfaceCallMeant DEF SurfaceInv, RefreshProductTask

LEMMA RefreshAnsweredMeant ==
  ASSUME SurfaceInv, NEW c \in surfaceCalls, RefreshAnswered(c)
  PROVE  PageMeant(page') /\ CallsMeant(surfaceCalls')
<1> DEFINE rest == surfaceCalls \ {c}
           a    == Authoritative(page, c.view)
           p    == Quiet(Applied(page, c.view))
<1>1. PageMeant(page) /\ CallsMeant(rest) /\ PageMeant(p)
  BY CallSetsMeant, HandlersMeant DEF SurfaceInv
<1>2. /\ CallsMeant(rest \cup PollLoop(a, page.selected))
      /\ CallsMeant(VersionRaised(rest))
  BY <1>1, CallSetsMeant, RaisedMeant
<1>3. PageMeant(Released(p, {"polling"})) /\ PageMeant(Polling(p, a))
  BY <1>1, HandlersMeant
<1>4. PageMeant(Failed(page, c.reply = "unsure"))
  BY <1>1 DEF Failed, PageMeant, PageFields
<1> QED
  BY <1>1, <1>2, <1>3, <1>4 DEF RefreshAnswered

LEMMA RevalidateTaskMeant ==
  ASSUME SurfaceInv, RevalidateTask
  PROVE  PageMeant(page') /\ CallsMeant(surfaceCalls')
<1>1. CallsMeant(surfaceCalls \cup {SurfaceCall("revalidate", page.selected, "sent")})
  BY CallSetsMeant, SurfaceCallMeant DEF SurfaceInv
<1>2. /\ PageMeant([page EXCEPT !.attempts = @ + 1])
      /\ PageMeant([page EXCEPT !.revalidating = FALSE])
  BY DEF SurfaceInv, PageMeant, PageFields
<1> QED
  BY <1>1, <1>2 DEF RevalidateTask, SurfaceInv

LEMMA RevalidationAnsweredMeant ==
  ASSUME SurfaceInv, NEW c \in surfaceCalls, RevalidationAnswered(c)
  PROVE  PageMeant(page') /\ CallsMeant(surfaceCalls')
<1> DEFINE applied == ShouldApplyProjection(page.shown, c.view)
<1>1. PageMeant(page) /\ CallsMeant(surfaceCalls \ {c})
  BY CallSetsMeant DEF SurfaceInv
<1>2. PICK p : p = IF applied THEN Quiet(Applied(page, c.view)) ELSE page
  OBVIOUS
<1>3. PageMeant(p)
  BY <1>1, <1>2, HandlersMeant
<1>4. /\ PageMeant([page EXCEPT !.revalidating = FALSE])
      /\ PageMeant([p EXCEPT !.revalidating = Revalidates(p.shown)])
  BY <1>1, <1>3 DEF PageMeant, PageFields
<1> QED
  BY <1>1, <1>2, <1>4 DEF RevalidationAnswered

LEMMA RunEffectsMeant ==
  ASSUME SurfaceInv, RunEffects
  PROVE  PageMeant(page') /\ CallsMeant(surfaceCalls')
<1>1. PageMeant(page) /\ CallsMeant(surfaceCalls)
  BY DEF SurfaceInv
<1>2. \A c \in surfaceCalls : CallMeant(c) /\ CallMeant([c EXCEPT !.live = FALSE])
  BY <1>1 DEF CallsMeant, CallMeant, CallFields
<1>3. CallsMeant({IF c.kind = "revalidate" THEN [c EXCEPT !.live = FALSE] ELSE c
                     : c \in surfaceCalls})
  BY <1>2 DEF CallsMeant
<1>4. PICK locks : locks = IF page.shown.run = 0 \/ Ended(page.shown)
                           THEN page.locks \ {"cancel"} ELSE page.locks
  OBVIOUS
<1>5. PICK b : b = ReconcileReviewBatch(page.batch, page.shown)
  OBVIOUS
<1>6. BatchMeant(b)
  BY <1>1, <1>5, ReconcileMeant DEF PageMeant
<1>7. PICK p : p = [page EXCEPT !.rendered = page.shown, !.locks = locks,
                        !.batch = b, !.effectSelected = page.selected]
  OBVIOUS
<1>8. PageMeant(p)
  BY <1>1, <1>6, <1>7 DEF PageMeant, PageFields
<1>9. PageMeant([p EXCEPT !.revalidating = Revalidates(page.shown), !.attempts = 0])
  BY <1>8 DEF PageMeant, PageFields
<1> QED
  BY <1>1, <1>3, <1>4, <1>5, <1>7, <1>8, <1>9 DEF RunEffects

-----------------------------------------------------------------------------
(***************************************************************************)
(* The user's commands and their answers.                                  *)
(***************************************************************************)

LEMMA CreateMeant ==
  ASSUME SurfaceInv, CreateProductTask
  PROVE  PageMeant(page') /\ CallsMeant(surfaceCalls')
<1>1. PageMeant(page) /\ CallsMeant(surfaceCalls)
  BY DEF SurfaceInv
<1>2. PICK p : p = Quiet(Released(Clicked(page), {"cancel", "review"}))
  OBVIOUS
<1>3. PageMeant(p)
  BY <1>1, <1>2, HandlersMeant
<1>4. PICK b : b = EmptyReviewBatch(0)
  OBVIOUS
<1>5. BatchMeant(b)
  BY <1>4, EmptyMeant
<1>6. page' = [p EXCEPT !.locks = @ \cup {"submit"}, !.shown = NoView,
                 !.selected = 0, !.notice = 0, !.creating = TRUE, !.batch = b]
  BY <1>2, <1>4 DEF CreateProductTask
<1>7. PageMeant(page')
  BY <1>3, <1>5, <1>6 DEF PageMeant, PageFields
<1>8. CallsMeant(PanelLeft(VersionRaised(surfaceCalls)))
  BY <1>1, RaisedMeant
<1>9. CallsMeant(surfaceCalls')
  BY <1>8, CallSetsMeant, SurfaceCallMeant DEF CreateProductTask
<1> QED
  BY <1>7, <1>9

LEMMA CreateAnsweredMeant ==
  ASSUME SurfaceInv, NEW c \in surfaceCalls, CreateAnswered(c)
  PROVE  PageMeant(page') /\ CallsMeant(surfaceCalls')
<1> DEFINE rest == surfaceCalls \ {c}
<1>1. PICK p : p = Released(page, {"submit"})
  OBVIOUS
<1>2. PICK q : q = Applied(p, c.view)
  OBVIOUS
<1>3. PageMeant(p) /\ CallsMeant(rest) /\ PageMeant(q)
  BY <1>1, <1>2, CallSetsMeant, HandlersMeant DEF SurfaceInv
<1>4. /\ PageMeant([q EXCEPT !.creating = FALSE])
      /\ PageMeant([p EXCEPT !.creating = @ /\ c.reply = "unsure", !.error = TRUE])
  BY <1>3 DEF PageMeant, PageFields
<1>5. PageMeant(Polling([q EXCEPT !.creating = FALSE], c.view))
  BY <1>4, HandlersMeant
<1>6. CallsMeant(rest \cup PollLoop(c.view, 0))
  BY <1>3, CallSetsMeant
<1> QED
  BY <1>1, <1>2, <1>3, <1>4, <1>5, <1>6 DEF CreateAnswered

\* The two commands on the Task that is shown.
LEMMA CommandsMeant ==
  ASSUME SurfaceInv, RetryCurrentTask \/ CancelCurrentTask
  PROVE  PageMeant(page') /\ CallsMeant(surfaceCalls')
<1>1. PageMeant(page) /\ CallsMeant(surfaceCalls)
  BY DEF SurfaceInv
<1>2. PageMeant(Quiet(Clicked(page)))
      /\ PageMeant(Quiet(Released(Clicked(page), {"polling"})))
  BY <1>1, HandlersMeant
<1>3. PICK q, lock : /\ PageMeant(q)
                     /\ page' = [q EXCEPT !.locks = @ \cup {lock}]
  BY <1>2 DEF RetryCurrentTask, CancelCurrentTask
<1>4. PageMeant(page')
  BY <1>3 DEF PageMeant, PageFields
<1>5. CallsMeant(VersionRaised(surfaceCalls))
  BY <1>1, RaisedMeant
<1>6. CallsMeant(surfaceCalls')
  BY <1>5, CallSetsMeant, SurfaceCallMeant DEF RetryCurrentTask, CancelCurrentTask
<1> QED
  BY <1>4, <1>6

LEMMA RetryAnsweredMeant ==
  ASSUME SurfaceInv, NEW c \in surfaceCalls, RetryAnswered(c)
  PROVE  PageMeant(page') /\ CallsMeant(surfaceCalls')
<1> DEFINE rest == surfaceCalls \ {c}
<1>1. PICK p : p = Released(page, {"submit"})
  OBVIOUS
<1>2. PageMeant(p) /\ CallsMeant(rest)
  BY <1>1, CallSetsMeant, HandlersMeant DEF SurfaceInv
<1>3. PageMeant([p EXCEPT !.shown = c.view]) /\ PageMeant([p EXCEPT !.error = TRUE])
  BY <1>2 DEF PageMeant, PageFields
<1>4. PageMeant(Polling([p EXCEPT !.shown = c.view], c.view))
  BY <1>3, HandlersMeant
<1>5. CallsMeant(rest \cup PollLoop(c.view, 0))
  BY <1>2, CallSetsMeant
<1> QED
  BY <1>1, <1>2, <1>3, <1>4, <1>5 DEF RetryAnswered

LEMMA CancelAnsweredMeant ==
  ASSUME SurfaceInv, NEW c \in surfaceCalls, CancelAnswered(c)
  PROVE  PageMeant(page') /\ CallsMeant(surfaceCalls')
<1> DEFINE rest == surfaceCalls \ {c}
<1>1. PICK p : p = Released(page, {"cancel"})
  OBVIOUS
<1>2. PageMeant(p) /\ CallsMeant(rest)
  BY <1>1, CallSetsMeant, HandlersMeant DEF SurfaceInv
<1>3. PageMeant([p EXCEPT !.error = TRUE]) /\ PageMeant(Applied(p, c.view))
  BY <1>2, HandlersMeant, FailedMeant
<1>4. \A v : /\ PageMeant(Polling([p EXCEPT !.error = TRUE], v))
             /\ PageMeant(Polling(Applied(p, c.view), v))
             /\ CallsMeant(rest \cup PollLoop(v, 0))
  BY <1>2, <1>3, HandlersMeant, CallSetsMeant
<1> QED
  BY <1>1, <1>2, <1>3, <1>4 DEF CancelAnswered

\* What is sent is the reconciled batch, for the pause that is shown.
LEMMA SubmitMeant ==
  ASSUME NEW p, PageMeant(p), CallsMeant(surfaceCalls), SubmitReviewBatch(p)
  PROVE  PageMeant(page') /\ CallsMeant(surfaceCalls')
<1>1. PICK batch : batch = ReconcileReviewBatch(p.batch, p.shown)
  OBVIOUS
<1>2. PICK key : key = IF batch.key # 0 THEN batch.key ELSE p.keys + 1
  OBVIOUS
<1>3. /\ BatchMeant(batch)
      /\ p.shown.pause # 0 => batch.authority = p.shown.pause
  BY <1>1, ReconcileMeant DEF PageMeant
<1>4. /\ p.shown.pause # 0
      /\ page' = [p EXCEPT !.locks = @ \cup {"review"},
                     !.keys = IF key > @ THEN key ELSE @,
                     !.batch = IF @.authority = p.shown.pause
                               THEN [@ EXCEPT !.phase = "submitting", !.key = key]
                               ELSE @]
      /\ surfaceCalls' = surfaceCalls \cup
            {[SurfaceCall("respond", 0, "sent") EXCEPT !.pause = p.shown.pause,
                                        !.drafts = batch.drafts, !.key = key]}
  BY <1>1, <1>2 DEF SubmitReviewBatch
<1>5. PICK b : b = IF p.batch.authority = p.shown.pause
                   THEN [p.batch EXCEPT !.phase = "submitting", !.key = key]
                   ELSE p.batch
  OBVIOUS
<1>6. BatchMeant(b)
  BY <1>5 DEF PageMeant, BatchMeant, BatchFields
<1>7. DOMAIN page' = PageFields /\ page'.batch = b
  BY <1>4, <1>5 DEF PageMeant, PageFields
<1>8. PICK c : c = [SurfaceCall("respond", 0, "sent") EXCEPT !.pause = p.shown.pause,
                                        !.drafts = batch.drafts, !.key = key]
  OBVIOUS
<1>9. DOMAIN c = CallFields /\ c.pause = p.shown.pause /\ c.drafts = batch.drafts
  BY <1>8 DEF SurfaceCall, CallFields
<1>10. CallMeant(c)
  BY <1>3, <1>4, <1>9 DEF CallMeant, BatchMeant
<1>11. CallsMeant(surfaceCalls')
  BY <1>4, <1>8, <1>10, CallSetsMeant
<1> QED
  BY <1>6, <1>7, <1>11 DEF PageMeant

LEMMA SubmitReviewMeant ==
  ASSUME SurfaceInv, SubmitReview
  PROVE  PageMeant(page') /\ CallsMeant(surfaceCalls')
<1>1. PageMeant(Clicked(page)) /\ CallsMeant(surfaceCalls)
  BY HandlersMeant DEF SurfaceInv
<1> QED
  BY <1>1, SubmitMeant DEF SubmitReview

\* A decision is added to a batch that was reconciled with the pause shown,
\* which is the pause the user sees.
LEMMA DecideReviewMeant ==
  ASSUME SurfaceInv, NEW m \in ReviewMembers, DecideReview(m)
  PROVE  PageMeant(page') /\ CallsMeant(surfaceCalls')
<1>1. PageMeant(page) /\ CallsMeant(surfaceCalls)
  BY DEF SurfaceInv
<1>2. PICK batch : batch = ReconcileReviewBatch(page.batch, page.shown)
  OBVIOUS
<1>3. PICK old : old = {d \in batch.drafts : d.member = m}
  OBVIOUS
<1>4. PICK draft : draft = [member |-> m, pause |-> page.rendered.pause]
  OBVIOUS
<1>5. PICK b : b = [batch EXCEPT
                       !.drafts = (@ \ old) \cup {draft},
                       !.key = IF old = {} THEN @ ELSE 0,
                       !.phase = IF @ = "network_error" THEN "idle" ELSE @]
  OBVIOUS
<1>6. page.shown.pause = page.rendered.pause /\ page.rendered.pause # 0
  BY DEF DecideReview, ReviewPanelOpen
<1>7. BatchMeant(batch) /\ batch.authority = page.rendered.pause
  BY <1>1, <1>2, <1>6, ReconcileMeant DEF PageMeant
<1>8. /\ DOMAIN b = BatchFields /\ b.authority = batch.authority
      /\ b.drafts = (batch.drafts \ old) \cup {draft}
  BY <1>5, <1>7 DEF BatchMeant, BatchFields
<1>9. BatchMeant(b)
  BY <1>4, <1>7, <1>8 DEF BatchMeant
<1>10. PICK p : p = [page EXCEPT !.batch = b]
  OBVIOUS
<1>11. PageMeant(p)
  BY <1>1, <1>9, <1>10 DEF PageMeant, PageFields
<1>12. IF Cardinality(ReviewMembers) = 1
       THEN UserActs /\ SubmitReviewBatch(Clicked(p))
       ELSE page' = p /\ UNCHANGED <<service, surfaceCalls>>
  BY <1>2, <1>3, <1>4, <1>5, <1>10 DEF DecideReview
<1>13. PageMeant(Clicked(p))
  BY <1>11, HandlersMeant
<1> QED
  BY <1>1, <1>11, <1>12, <1>13, SubmitMeant

\* The answer to a review changes the batch's phase and key, never its drafts.
LEMMA RespondAnsweredMeant ==
  ASSUME SurfaceInv, NEW c \in surfaceCalls, RespondAnswered(c)
  PROVE  PageMeant(page') /\ CallsMeant(surfaceCalls')
<1> DEFINE rest == surfaceCalls \ {c}
           a    == Authoritative(page, c.view)
<1>1. PICK p : p = Released(page, {"review"})
  OBVIOUS
<1>2. PageMeant(p) /\ CallsMeant(rest)
  BY <1>1, CallSetsMeant, HandlersMeant DEF SurfaceInv
<1>3. \A b, phase, key : BatchMeant(b) => BatchMeant(BatchAfter(b, c, phase, key))
  BY DEF BatchAfter, BatchMeant, BatchFields
<1>4. \A q, phase, key : PageMeant(q) =>
         PageMeant([q EXCEPT !.batch = BatchAfter(@, c, phase, key)])
  BY <1>3 DEF PageMeant, PageFields
<1>5. CASE ~StillAsked(c)
  BY <1>1, <1>2, <1>5 DEF RespondAnswered
<1>6. CASE StillAsked(c) /\ c.reply = "view"
  <2>1. PICK q : q = Quiet(Released(Applied(p, c.view), {"polling"}))
    OBVIOUS
  <2>2. PageMeant(q)
    BY <1>2, <2>1, HandlersMeant
  <2>3. PICK r : r = [q EXCEPT !.batch = BatchAfter(@, c, "accepted", 0)]
    OBVIOUS
  <2>4. PageMeant(r)
    BY <1>3, <2>2, <2>3 DEF PageMeant, PageFields
  <2>5. page' = Polling(r, a) /\ surfaceCalls' = VersionRaised(rest) \cup PollLoop(a, 0)
    BY <1>1, <1>6, <2>1, <2>3 DEF RespondAnswered
  <2>6. CallsMeant(VersionRaised(rest))
    BY <1>2, RaisedMeant
  <2> QED
    BY <2>4, <2>5, <2>6, HandlersMeant, CallSetsMeant
<1>7. CASE StillAsked(c) /\ c.reply \in {"unsure", "denied"}
  <2>1. PICK phase, key : page' = [p EXCEPT !.batch = BatchAfter(@, c, phase, key)]
    BY <1>1, <1>7 DEF RespondAnswered
  <2>2. PageMeant(page')
    BY <1>2, <1>3, <2>1 DEF PageMeant, PageFields
  <2> QED
    BY <1>2, <1>7, <2>2 DEF RespondAnswered
<1>8. CASE StillAsked(c) /\ c.reply = "refused"
  <2>1. PICK q : q = [p EXCEPT !.batch = BatchAfter(@, c, "conflict", 0)]
    OBVIOUS
  <2>2. PageMeant(q)
    BY <1>2, <1>3, <2>1 DEF PageMeant, PageFields
  <2>3. page' = Recovering(q, 0) /\ surfaceCalls' = RecoverCalls(rest, 0)
    BY <1>1, <1>8, <2>1 DEF RespondAnswered
  <2> QED
    BY <1>2, <2>2, <2>3, HandlersMeant, CallSetsMeant
<1> QED
  BY <1>5, <1>6, <1>7, <1>8 DEF RespondAnswered

LEMMA SubmitForkMeant ==
  ASSUME SurfaceInv, SubmitFork
  PROVE  PageMeant(page') /\ CallsMeant(surfaceCalls')
<1>1. PICK p : p = Clicked(page)
  OBVIOUS
<1>2. PageMeant(p)
  BY <1>1, HandlersMeant DEF SurfaceInv
<1>3. PageMeant([p EXCEPT !.forkRefused = FALSE])
  BY <1>2 DEF PageMeant, PageFields
<1>4. CallsMeant(surfaceCalls')
  BY CallSetsMeant, SurfaceCallMeant DEF SurfaceInv, SubmitFork
<1> QED
  BY <1>1, <1>3, <1>4 DEF SubmitFork

LEMMA ForkAnsweredMeant ==
  ASSUME SurfaceInv, NEW c \in surfaceCalls, ForkAnswered(c)
  PROVE  PageMeant(page') /\ CallsMeant(surfaceCalls')
<1> DEFINE rest == surfaceCalls \ {c}
<1>1. PageMeant(page) /\ CallsMeant(rest)
  BY CallSetsMeant DEF SurfaceInv
<1>2. PICK q : q = Quiet(Released(Applied(page, c.view), {"polling", "review", "cancel"}))
  OBVIOUS
<1>3. PICK b : b = EmptyReviewBatch(0)
  OBVIOUS
<1>4. PageMeant(q) /\ BatchMeant(b)
  BY <1>1, <1>2, <1>3, HandlersMeant, EmptyMeant
<1>5. PICK r : r = [q EXCEPT !.batch = b, !.selected = 0, !.notice = c.view.run]
  OBVIOUS
<1>6. PageMeant(r)
  BY <1>4, <1>5 DEF PageMeant, PageFields
<1>7. r = ForkAccepted(page, c.view)
  BY <1>2, <1>3, <1>5 DEF ForkAccepted
<1>8. PageMeant(Polling(ForkAccepted(page, c.view), c.view))
  BY <1>6, <1>7, HandlersMeant
<1>9. CallsMeant(PanelLeft(VersionRaised(rest)))
  BY <1>1, RaisedMeant
<1>10. CallsMeant(PanelLeft(VersionRaised(rest)) \cup PollLoop(c.view, 0))
  BY <1>9, CallSetsMeant
<1>11. PageMeant([page EXCEPT !.forkRefused = (c.reply = "refused")])
  BY <1>1 DEF PageMeant, PageFields
<1> QED
  BY <1>1, <1>8, <1>10, <1>11 DEF ForkAnswered

\* The commands that read the Task anew.
LEMMA RecoverMeant ==
  ASSUME SurfaceInv, RefreshForkContext \/ ResumePolling
  PROVE  PageMeant(page') /\ CallsMeant(surfaceCalls')
<1>1. PageMeant(page) /\ CallsMeant(surfaceCalls)
  BY DEF SurfaceInv
<1>2. PageMeant([page EXCEPT !.forkRefused = FALSE])
  BY <1>1 DEF PageMeant, PageFields
<1>3. \A selected : /\ PageMeant(Recovering([page EXCEPT !.forkRefused = FALSE], selected))
                    /\ PageMeant(Recovering(Clicked(page), selected))
                    /\ CallsMeant(RecoverCalls(surfaceCalls, selected))
  BY <1>1, <1>2, HandlersMeant, CallSetsMeant
<1> QED
  BY <1>3 DEF RefreshForkContext, ResumePolling

LEMMA LoadMeant ==
  ASSUME SurfaceInv, NEW run \in 0..service.run, LoadTaskSelection(run)
  PROVE  PageMeant(page') /\ CallsMeant(surfaceCalls')
<1>1. PageMeant(page) /\ CallsMeant(PanelLeft(surfaceCalls))
  BY RaisedMeant DEF SurfaceInv
<1>2. PICK p : p = Released(Clicked(page), {"submit", "review", "cancel"})
  OBVIOUS
<1>3. PICK b : b = EmptyReviewBatch(0)
  OBVIOUS
<1>4. PageMeant(p) /\ BatchMeant(b)
  BY <1>1, <1>2, <1>3, HandlersMeant, EmptyMeant
<1>5. PICK q : q = [p EXCEPT !.shown = NoView, !.batch = b,
                       !.notice = 0, !.creating = FALSE, !.forkRefused = FALSE]
  OBVIOUS
<1>6. PageMeant(q)
  BY <1>4, <1>5 DEF PageMeant, PageFields
<1>7. page' = Recovering(q, run) /\ surfaceCalls' = RecoverCalls(PanelLeft(surfaceCalls), run)
  BY <1>2, <1>3, <1>5 DEF LoadTaskSelection
<1> QED
  BY <1>1, <1>6, <1>7, HandlersMeant, CallSetsMeant

-----------------------------------------------------------------------------
LEMMA SurfaceInitInv == SurfaceInit => SurfaceInv
<1> SUFFICES ASSUME SurfaceInit PROVE SurfaceInv
  OBVIOUS
<1>1. PICK b : b = EmptyReviewBatch(0)
  OBVIOUS
<1>2. BatchMeant(b)
  BY <1>1, EmptyMeant
<1>3. DOMAIN page = PageFields /\ page.batch = b
  BY <1>1 DEF SurfaceInit, PageFields
<1>4. CallsMeant(surfaceCalls)
  BY DEF SurfaceInit, CallsMeant
<1> QED
  BY <1>2, <1>3, <1>4 DEF SurfaceInv, PageMeant

LEMMA CallAnsweredMeant ==
  ASSUME SurfaceInv, NEW c \in surfaceCalls, CallAnswered(c)
  PROVE  PageMeant(page') /\ CallsMeant(surfaceCalls')
  BY PollAnsweredMeant, RecoverAnsweredMeant, RefreshAnsweredMeant,
     RevalidationAnsweredMeant, CreateAnsweredMeant, RetryAnsweredMeant,
     CancelAnsweredMeant, RespondAnsweredMeant, ForkAnsweredMeant DEF CallAnswered

LEMMA UserStepMeant ==
  ASSUME SurfaceInv, UserStep
  PROVE  PageMeant(page') /\ CallsMeant(surfaceCalls')
  BY CreateMeant, CommandsMeant, SubmitReviewMeant, SubmitForkMeant, RecoverMeant,
     DecideReviewMeant, LoadMeant DEF UserStep

LEMMA SurfaceNextInv == SurfaceInv /\ [SurfaceNext]_surfaceVars => SurfaceInv'
<1> SUFFICES ASSUME SurfaceInv, [SurfaceNext]_surfaceVars
             PROVE  PageMeant(page') /\ CallsMeant(surfaceCalls')
  BY DEF SurfaceInv
<1>1. CASE ServiceProgress \/ UNCHANGED surfaceVars
  BY <1>1 DEF SurfaceInv, ServiceProgress, surfaceVars
<1>2. CASE UserStep
  BY <1>2, UserStepMeant
<1>3. CASE RefreshProductTask \/ RevalidateTask \/ RunEffects
  BY <1>3, RefreshMeant, RevalidateTaskMeant, RunEffectsMeant
<1>4. ASSUME NEW c \in surfaceCalls, CallStep(c) \/ LoseCall(c)
      PROVE  PageMeant(page') /\ CallsMeant(surfaceCalls')
  BY <1>4, PollWakesMeant, ServeMeant, CallAnsweredMeant DEF CallStep
<1> QED
  BY <1>1, <1>2, <1>3, <1>4 DEF SurfaceNext

(* Every decision in a review that the page sends was taken on the pause   *)
(* the review answers, whatever reads, renders, forks and lost answers     *)
(* came in between (reconcileReviewBatchState, submitReviewBatch).         *)
THEOREM ReviewsMeantHolds == SurfaceSpec => []ReviewsMeant
<1>1. SurfaceInv => ReviewsMeant
  BY DEF SurfaceInv, CallsMeant, CallMeant, ReviewsMeant
<1> QED
  BY <1>1, SurfaceInitInv, SurfaceNextInv, PTL DEF SurfaceSpec
=============================================================================
