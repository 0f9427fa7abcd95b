---------------------------- MODULE InboxDecisions ----------------------------
(***************************************************************************)
(* Answering a review from its card in the inbox.  The card (InboxCard)    *)
(* sends the decision under an idempotency key it keeps as long as the     *)
(* decision stays the same; the service (respond_inbox_review) reads the   *)
(* pause, hands the answer to respond_interrupts and reads the receipt in  *)
(* a third session.  Meanwhile list answers show older or newer states of  *)
(* the review, the card is unmounted and mounted again, connections break  *)
(* while the service still works, and the review expires or is cancelled.  *)
(*                                                                         *)
(* One review with one member: the service refuses others (member_count)   *)
(* and a pause keeps its pause_version.  The list is the module            *)
(* InboxPages; here a list answer is what it says of this review.          *)
(***************************************************************************)
EXTENDS Integers, Sequences, SequencesExt

CONSTANTS Decisions,         \* what a user may answer
          MaxAttempts, MaxListsAway, MaxUnmounts

ASSUME InboxDecisionAssumption == "none" \notin Decisions

VARIABLES reviewRow,         \* the pause: status, deadline passed, accepted answer
          card,              \* the card and what the list shows of the review
          listsAway,         \* states of the review in list answers under way
          decideCalls        \* respond_inbox_review requests, in the order sent

decisionVars == <<reviewRow, card, listsAway, decideCalls>>

NoKey == 0
IdleCard == [shown |-> "absent", phase |-> "idle", sent |-> "none", key |-> NoKey,
             unmounts |-> 0]

InboxDecisionInit ==
    /\ reviewRow = [status |-> "pending", due |-> FALSE, response |-> "none", key |-> NoKey]
    /\ card = [IdleCard EXCEPT !.shown = "pending"]
    /\ listsAway = << >>
    /\ decideCalls = << >>

-----------------------------------------------------------------------------
(* The card. *)

CardOpen == card.shown = "pending" /\ card.phase \in {"idle", "network_error"}

DecisionKey(decision) ==
    IF card.sent = decision THEN card.key ELSE Len(decideCalls) + 1

Decide(decision) ==
    /\ CardOpen
    /\ Len(decideCalls) < MaxAttempts
    /\ card' = [card EXCEPT !.phase = "submitting", !.sent = decision,
                            !.key = DecisionKey(decision)]
    /\ decideCalls' = Append(decideCalls,
           [response |-> decision, key |-> DecisionKey(decision), at |-> "sent",
            heard |-> TRUE, mounted |-> TRUE, status |-> "none"])
    /\ UNCHANGED <<reviewRow, listsAway>>

(* The promise settles the phase of the card that sent it, if mounted; the *)
(* receipt updates the list in any case.                                   *)
PhaseSet(call, phase) == IF call.mounted THEN [card EXCEPT !.phase = phase] ELSE card

DecideAnswered(n) ==
    LET call == decideCalls[n] IN
    /\ call.heard
    /\ \/ /\ call.at = "receipt"
          /\ card' = [PhaseSet(call, "accepted") EXCEPT
                         !.shown = IF @ = "absent" THEN @ ELSE call.status]
       \/ /\ call.at = "conflict"
          /\ card' = PhaseSet(call, "conflict")
    /\ decideCalls' = [decideCalls EXCEPT ![n].heard = FALSE]
    /\ UNCHANGED <<reviewRow, listsAway>>

(* The connection breaks; the service may still handle the request.        *)
DecideLost(n) ==
    /\ decideCalls[n].heard
    /\ card' = PhaseSet(decideCalls[n], "network_error")
    /\ decideCalls' = [decideCalls EXCEPT ![n].heard = FALSE]
    /\ UNCHANGED <<reviewRow, listsAway>>

-----------------------------------------------------------------------------
(* The list around the card, under the filter "active".  A card that       *)
(* leaves it is unmounted and forgets its phase and its key.               *)

CardUnmounted ==
    /\ card' = [IdleCard EXCEPT !.unmounts = card.unmounts + 1]
    /\ decideCalls' = [n \in DOMAIN decideCalls |-> [decideCalls[n] EXCEPT !.mounted = FALSE]]

ListReadsReview ==
    /\ Len(listsAway) < MaxListsAway
    /\ listsAway' = Append(listsAway,
           IF reviewRow.status \in {"pending", "responding"} THEN reviewRow.status ELSE "absent")
    /\ UNCHANGED <<reviewRow, card, decideCalls>>

(* Two refreshes under way may be answered in either order. *)
ListShowsReview(i) ==
    /\ listsAway' = RemoveAt(listsAway, i)
    /\ \/ /\ listsAway[i] = "absent" /\ card.shown # "absent"
          /\ CardUnmounted
       \/ /\ listsAway[i] = "absent" /\ card.shown = "absent"
          /\ UNCHANGED <<card, decideCalls>>
       \/ /\ listsAway[i] # "absent"
          /\ card' = [card EXCEPT !.shown = listsAway[i]]
          /\ UNCHANGED decideCalls
    /\ UNCHANGED reviewRow

(* Another filter is selected: list answers under way are ignored.         *)
LeaveList ==
    /\ card.shown # "absent"
    /\ card.unmounts < MaxUnmounts
    /\ CardUnmounted
    /\ listsAway' = << >>
    /\ UNCHANGED reviewRow

-----------------------------------------------------------------------------
(* ProductAnalysisService.respond_inbox_review *)

(* respond_interrupts: the replay of an accepted key is accepted again,    *)
(* any other answer needs a pending pause whose deadline has not passed.   *)
Replays(call) == call.key = reviewRow.key

(* Mutant: the status is looked at before the key. *)
AcceptsPendingOnly(call) == reviewRow.status = "pending" /\ ~reviewRow.due

AcceptsDecision(call) == Replays(call) \/ (reviewRow.status = "pending" /\ ~reviewRow.due)

RespondInboxReview(n) ==
    LET call == decideCalls[n] IN
    /\ call.at = "sent"
    /\ decideCalls' = [decideCalls EXCEPT ![n].at =
                           IF AcceptsDecision(call) THEN "accepted" ELSE "conflict"]
    /\ reviewRow' = IF AcceptsDecision(call) /\ ~Replays(call)
                    THEN [reviewRow EXCEPT !.status = "responding", !.key = call.key,
                                           !.response = call.response]
                    ELSE reviewRow
    /\ UNCHANGED <<card, listsAway>>

(* The receipt tells the status as it is by now. *)
ReadReceipt(n) ==
    /\ decideCalls[n].at = "accepted"
    /\ decideCalls' = [decideCalls EXCEPT ![n].at = "receipt", ![n].status = reviewRow.status]
    /\ UNCHANGED <<reviewRow, card, listsAway>>

-----------------------------------------------------------------------------
(* What else happens to the pause: its deadline passes and the dispatcher  *)
(* expires it, the Task is cancelled, the resumed Run resolves it or fails *)
(* to start.  The inbox treats all but "resolved" alike: closed.           *)

DeadlinePasses ==
    /\ ~reviewRow.due
    /\ reviewRow' = [reviewRow EXCEPT !.due = TRUE]
    /\ UNCHANGED <<card, listsAway, decideCalls>>

ReviewEnds ==
    /\ \/ /\ reviewRow.status \in {"pending", "responding"}
          /\ reviewRow' = [reviewRow EXCEPT !.status = "closed"]
       \/ /\ reviewRow.status = "responding"
          /\ reviewRow' = [reviewRow EXCEPT !.status = "resolved"]
    /\ UNCHANGED <<card, listsAway, decideCalls>>

InboxDecisionNext ==
    \/ \E decision \in Decisions : Decide(decision)
    \/ \E n \in DOMAIN decideCalls :
           RespondInboxReview(n) \/ ReadReceipt(n) \/ DecideAnswered(n) \/ DecideLost(n)
    \/ \E i \in DOMAIN listsAway : ListShowsReview(i)
    \/ ListReadsReview \/ LeaveList \/ DeadlinePasses \/ ReviewEnds

InboxDecisionSpec == InboxDecisionInit /\ [][InboxDecisionNext]_decisionVars

-----------------------------------------------------------------------------
(* What the card says of an answer is true and final: "accepted" means the *)
(* service recorded this very answer, "conflict" that it recorded another  *)
(* attempt or none, and of all the attempts made at a review - repeated    *)
(* after a lost connection, changed, or sent again from a card mounted     *)
(* anew - those accepted carry one key (InboxCard, respond_inbox_review).  *)
AnswerTold ==
    /\ card.phase = "accepted" =>
        card.key = reviewRow.key /\ card.sent = reviewRow.response
    /\ card.phase = "conflict" => card.key # reviewRow.key
    /\ \A m, n \in DOMAIN decideCalls :
        decideCalls[m].at \in {"accepted", "receipt"}
            /\ decideCalls[n].at \in {"accepted", "receipt"}
            => decideCalls[m].key = decideCalls[n].key

=============================================================================
