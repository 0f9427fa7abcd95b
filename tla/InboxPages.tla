------------------------------ MODULE InboxPages ------------------------------
(***************************************************************************)
(* The review inbox: the Product service lists an owner's interrupt pauses *)
(* newest first in pages (list_inbox, keyset cursor over created_at and    *)
(* id), and the inbox page of the frontend loads the first page, appends   *)
(* further ones, refreshes what it shows every seven seconds or on focus,  *)
(* switches filters and follows the browser's Back button.  Meanwhile      *)
(* pauses come, are answered, resolved, expired and cancelled.  Answering  *)
(* a review from its card is the module InboxDecisions.                    *)
(*                                                                         *)
(* Abstractions.  A review is a number, its id.  created_at is the start   *)
(* of the transaction that creates it and may precede reviews committed    *)
(* earlier: late reviews need not be the newest.  The service reads pauses *)
(* and members in two statements of a READ COMMITTED transaction.  A state *)
(* update and the effects it triggers are one step; an answer nobody waits *)
(* for (another requestVersion, or an effect cleaned up) is not `awaited'. *)
(***************************************************************************)
EXTENDS Integers, Sequences, FiniteSets, SequencesExt

CONSTANTS Reviews,           \* ids of the pauses, numbers
          CreatedAt,         \* review -> created_at
          LateReviews,       \* those committed after the page was opened
          InboxPageSize,     \* pageSize
          MaxInboxLimit,     \* the most a refresh asks for
          MaxListCalls, MaxFilterMoves,
          MaxSettled         \* how many reviews end while the page is open

VARIABLES reviews,           \* the interrupt_pauses rows
          inbox,             \* the page
          listCalls          \* list_inbox requests under way

inboxVars == <<reviews, inbox, listCalls>>

ASSUME InboxAssumption ==
    /\ Reviews \subseteq Nat /\ CreatedAt \in [Reviews -> Nat]
    /\ MaxListCalls \in Nat /\ MaxInboxLimit \in Nat
    /\ InboxPageSize \in 1..MaxInboxLimit

Filters == {"active", "resolved", "all"}
NoCursor == [filter |-> "none", after |-> 0]
NoListCall == [kind |-> "none"]

-----------------------------------------------------------------------------
(* ProductAnalysisService.list_inbox *)

MatchesFilter(filter, status) ==
    CASE filter = "active"   -> status \in {"pending", "responding"}
      [] filter = "resolved" -> status = "resolved"
      [] OTHER               -> status # "none"

Newer(p, q) == CreatedAt[p] > CreatedAt[q] \/ (CreatedAt[p] = CreatedAt[q] /\ p > q)

BeyondCursor(p, cursor) == cursor = NoCursor \/ Newer(cursor.after, p)

Matching(filter) == {p \in Reviews : MatchesFilter(filter, reviews[p])}

InboxRows(filter, cursor) == {p \in Matching(filter) : BeyondCursor(p, cursor)}

NewestFirst(page) == \A i, j \in DOMAIN page : i < j => Newer(page[i], page[j])

(* ORDER BY created_at DESC, id DESC LIMIT limit: the first rows in this   *)
(* order, and all of them if they are not more than the limit.             *)
IsPage(page, rows, limit) ==
    /\ NewestFirst(page)
    /\ Len(page) = limit \/ rows \subseteq Range(page)
    /\ \A p \in rows \ Range(page) : Newer(Last(page), p)

PagesOf(rows, limit) ==
    {page \in UNION {[1..n -> rows] : n \in 0..limit} : IsPage(page, rows, limit)}

CursorRefused(call) == call.cursor # NoCursor /\ call.cursor.filter # call.filter

ListCall(kind, filter, cursor, limit) ==
    [kind |-> kind, filter |-> filter, cursor |-> cursor, limit |-> limit,
     at |-> "sent", awaited |-> TRUE, found |-> << >>, statuses |-> << >>, next |-> NoCursor, matching |-> {}]

(* The first statement: the page of pauses, one row more to see whether    *)
(* another page follows.  A cursor of another filter is refused.           *)
ReadPauses(c) ==
    LET call == listCalls[c]
        rows == InboxRows(call.filter, call.cursor)
    IN  /\ call # NoListCall /\ call.at = "sent"
        /\ \E found \in PagesOf(rows, call.limit) :
               listCalls' = [listCalls EXCEPT ![c] =
                   IF CursorRefused(call) THEN [call EXCEPT !.at = "failed"]
                   ELSE [call EXCEPT !.at = "paused",
                       !.found = found,
                       !.statuses = [i \in DOMAIN found |-> reviews[found[i]]],
                       !.next = IF rows \subseteq Range(found) THEN NoCursor
                                ELSE [filter |-> call.filter, after |-> Last(found)],
                       !.matching = IF call.awaited THEN Matching(call.filter) ELSE {}]]
        /\ UNCHANGED <<reviews, inbox>>

(* The second statement: the members.  They carry the pause's status, and  *)
(* one that has moved on in between makes the whole request an error.      *)
ReadMembers(c) ==
    LET call == listCalls[c] IN
    /\ call # NoListCall /\ call.at = "paused"
    /\ listCalls' = [listCalls EXCEPT ![c].statuses = << >>, ![c].at =
           IF \A i \in DOMAIN call.found : reviews[call.found[i]] = call.statuses[i]
           THEN "answered" ELSE "failed"]
    /\ UNCHANGED <<reviews, inbox>>

-----------------------------------------------------------------------------
(* The page: InboxSurface. *)

Send(calls, call) ==
    LET c == CHOOSE n \in 1..MaxListCalls :
                 calls[n] = NoListCall /\ \A m \in 1..(n - 1) : calls[m] # NoListCall
    IN  [calls EXCEPT ![c] = call]

CanSend(calls) == \E c \in 1..MaxListCalls : calls[c] = NoListCall

(* A new requestVersion or a cleaned up effect: nobody awaits these calls. *)
(* An abandoned refresh or first page can have no effect at all any more   *)
(* and is forgotten.                                                       *)
Abandoned(call) ==
    IF call.kind = "more" THEN [call EXCEPT !.awaited = FALSE, !.matching = {}] ELSE NoListCall

Abandon(kinds) ==
    [c \in 1..MaxListCalls |->
        IF listCalls[c].kind \in kinds THEN Abandoned(listCalls[c]) ELSE listCalls[c]]

AllKinds == {"first", "refresh", "more"}

FirstPage(filter) == ListCall("first", filter, NoCursor, InboxPageSize)

InboxInit ==
    /\ reviews = [p \in Reviews |-> IF p \in LateReviews THEN "none" ELSE "pending"]
    /\ inbox = [filter |-> "active", items |-> << >>, cursor |-> NoCursor, loading |-> TRUE,
                loadingMore |-> FALSE, error |-> FALSE, pageError |-> FALSE,
                history |-> << >>, moves |-> 0, wentBack |-> FALSE, steady |-> {}]
    /\ listCalls = [c \in 1..MaxListCalls |-> IF c = 1 THEN FirstPage("active") ELSE NoListCall]

Emptied(page) ==
    [page EXCEPT !.items = << >>, !.cursor = NoCursor, !.error = FALSE, !.pageError = FALSE,
                 !.loading = TRUE, !.steady = {}]

SelectFilter(filter) ==
    /\ filter # inbox.filter
    /\ inbox.moves < MaxFilterMoves
    /\ CanSend(listCalls)
    /\ inbox' = [Emptied(inbox) EXCEPT !.filter = filter, !.loadingMore = FALSE,
                              !.history = Append(@, inbox.filter), !.moves = @ + 1]
    /\ listCalls' = Send(Abandon(AllKinds), FirstPage(filter))
    /\ UNCHANGED reviews

(* Back changes the filter in the URL only: what is shown stays until the  *)
(* first page of the other filter arrives, and loadingMore stays as it is. *)
GoBack ==
    /\ inbox.history # << >>
    /\ CanSend(listCalls)
    /\ inbox' = [inbox EXCEPT !.filter = Last(inbox.history), !.history = Front(@),
                              !.wentBack = TRUE]
    /\ listCalls' = Send(Abandon(AllKinds), FirstPage(Last(inbox.history)))
    /\ UNCHANGED reviews

ReloadInbox ==
    /\ ~inbox.loading /\ inbox.error
    /\ CanSend(listCalls)
    /\ inbox' = Emptied(inbox)
    /\ listCalls' = Send(Abandon(AllKinds), FirstPage(inbox.filter))
    /\ UNCHANGED reviews

RefreshVisibleItems ==
    /\ ~inbox.loading /\ ~inbox.loadingMore /\ ~inbox.error
    /\ CanSend(listCalls)
    /\ LET shown == IF Len(inbox.items) > InboxPageSize THEN Len(inbox.items) ELSE InboxPageSize
           limit == IF shown > MaxInboxLimit THEN MaxInboxLimit ELSE shown
       IN  listCalls' = Send(listCalls, ListCall("refresh", inbox.filter, NoCursor, limit))
    /\ UNCHANGED <<reviews, inbox>>

LoadMore ==
    /\ ~inbox.loading /\ ~inbox.error /\ ~inbox.loadingMore
    /\ inbox.cursor # NoCursor
    /\ CanSend(listCalls)
    /\ inbox' = [inbox EXCEPT !.loadingMore = TRUE, !.pageError = FALSE]
    /\ listCalls' = Send(Abandon({"refresh"}),
                         ListCall("more", inbox.filter, inbox.cursor, InboxPageSize))
    /\ UNCHANGED reviews

-----------------------------------------------------------------------------
(* Answers of list_inbox. *)

ShowPage(page, call) ==
    [page EXCEPT
        !.items = (IF call.kind = "more" THEN @ ELSE << >>) \o call.found,
        !.cursor = call.next,
        !.steady = IF call.kind = "more" THEN @ \cap call.matching ELSE call.matching,
        !.loading = @ /\ call.kind # "first",
        !.loadingMore = @ /\ call.kind # "more",
        !.pageError = @ /\ call.kind # "refresh"]

ShowFailure(page, call) ==
    IF call.kind = "first" THEN [page EXCEPT !.error = TRUE, !.loading = FALSE]
    ELSE [page EXCEPT !.pageError = TRUE, !.loadingMore = @ /\ call.kind # "more"]

(* A failed first load changes `error', an effect the refresh depends on.  *)
StillAwaited(calls, page) ==
    [n \in 1..MaxListCalls |->
        IF calls[n].kind = "refresh" /\ (page.error # inbox.error \/ page.loading # inbox.loading)
        THEN Abandoned(calls[n]) ELSE calls[n]]

(* Mutant: the answer to "load more" is appended whatever has happened.    *)
ListAnsweredLate(c, failed) ==
    LET call == listCalls[c]
        page == IF ~call.awaited /\ call.kind # "more" THEN inbox
                ELSE IF failed THEN ShowFailure(inbox, call) ELSE ShowPage(inbox, call)
    IN  /\ inbox' = page
        /\ listCalls' = StillAwaited([listCalls EXCEPT ![c] = NoListCall], page)
        /\ UNCHANGED reviews

ListAnswered(c, failed) ==
    LET call == listCalls[c]
        page == IF ~call.awaited THEN inbox
                ELSE IF failed THEN ShowFailure(inbox, call) ELSE ShowPage(inbox, call)
    IN  /\ inbox' = page
        /\ listCalls' = StillAwaited([listCalls EXCEPT ![c] = NoListCall], page)
        /\ UNCHANGED reviews

ListCallReturns(c) ==
    /\ listCalls[c] # NoListCall
    /\ listCalls[c].at \in {"answered", "failed"}
    /\ ListAnswered(c, listCalls[c].at = "failed")

-----------------------------------------------------------------------------
(* What the rest of the system does to the pauses.  The inbox makes no      *)
(* difference between expired, cancelled and resume_failed: closed.        *)

ReviewAppears(p) ==
    /\ reviews[p] = "none"
    /\ reviews' = [reviews EXCEPT ![p] = "pending"]
    /\ UNCHANGED <<inbox, listCalls>>

ReviewMovesOn(p) ==
    /\ Cardinality({q \in Reviews : reviews[q] \in {"resolved", "closed"}}) < MaxSettled
    /\ \/ /\ reviews[p] = "pending"
          /\ \E status \in {"responding", "closed"} :
                 reviews' = [reviews EXCEPT ![p] = status]
       \/ /\ reviews[p] = "responding"
          /\ \E status \in {"resolved", "closed"} :
                 reviews' = [reviews EXCEPT ![p] = status]
    /\ UNCHANGED <<inbox, listCalls>>

InboxNext ==
    \/ \E c \in 1..MaxListCalls : ReadPauses(c) \/ ReadMembers(c) \/ ListCallReturns(c)
    \/ \E filter \in Filters : SelectFilter(filter)
    \/ GoBack \/ ReloadInbox \/ RefreshVisibleItems \/ LoadMore
    \/ \E p \in Reviews : ReviewAppears(p) \/ ReviewMovesOn(p)

InboxSpec == InboxInit /\ [][InboxNext]_inboxVars

-----------------------------------------------------------------------------
(* What the inbox lists is whole.  As long as the user does not press      *)
(* Back, no review is listed twice, and a review that matched the filter   *)
(* whenever the service read one of the pages shown is listed unless it    *)
(* belongs below the last one while "load more" is offered - whatever      *)
(* filter changes, refreshes, failures, late answers and new reviews came  *)
(* in between (list_inbox and InboxSurface together).                      *)
InboxWhole ==
    ~inbox.wentBack =>
        /\ IsInjective(inbox.items)
        /\ \A p \in inbox.steady :
            p \in Range(inbox.items) \/ (inbox.cursor # NoCursor /\ Newer(Last(inbox.items), p))

=============================================================================
