--------------------------- MODULE NotificationOutbox ---------------------------
(***************************************************************************)
(* One row of the notification outbox, its attempts, and the workers that  *)
(* deliver it through the Bark adapter.  The projection of a succeeded Run *)
(* plans the row in its own transaction; workers claim it under a fenced   *)
(* lease, mark it as sending before the request leaves, and record what    *)
(* the adapter reported.  What Bark did (accepted, misreported) is not     *)
(* visible to the code; the two variables are kept to state what the user  *)
(* sees.                                                                   *)
(*                                                                         *)
(* The clock is abstracted: a lease is valid or due, a retry is due now or *)
(* later, and the retry window of 24 hours is open or closed.              *)
(***************************************************************************)
EXTENDS WorkerLeases

CONSTANTS
    MaxPushes,        \* max_attempts, 5 in the code
    MaxLostSends      \* bound: workers crash or lose leases only below this fence

ASSUME OutboxAssumption ==
    /\ MaxPushes \in Nat \ {0}
    /\ MaxLostSends \in Nat

VARIABLES
    outbox,         \* the notification_outbox row
    attempt,        \* the notification_attempts rows, by attempt_number
    retryWindow,    \* created_at against the retry window: "open" or "closed"
    sender,         \* what each worker holds in memory
    accepted,       \* the attempts whose push Bark accepted
    misreported     \* those of them that the adapter called a retryable failure

outboxVars == <<outbox, attempt, retryWindow, sender, accepted, misreported>>

PushNumbers == 1 .. MaxPushes
NotificationStatus ==
    {"absent", "planned", "leased", "sending", "delivered",
     "failed_retryable", "failed_terminal", "unknown"}
Resendable == {"unknown", "failed_retryable", "failed_terminal"}
SettledNotification == {"delivered", "unknown", "failed_terminal"}

OutboxRow ==
    [status: NotificationStatus, attempts: 0 .. MaxPushes, fence: Nat,
     owner: Holder, lease: LeaseState, manual: BOOLEAN, available: BOOLEAN]
AttemptRow ==
    [result: {"absent", "sending", "delivered", "failed_retryable",
              "failed_terminal", "unknown"},
     trigger: {"automatic", "manual"}, fence: Nat, owner: Holder]
NoAttempt == [result |-> "absent", trigger |-> "automatic", fence |-> 0,
              owner |-> NoWorker]

\* NotificationLease and the DeliveryResult it waits for
DeliveryReport == {"none", "delivered", "retryable", "terminal", "uncertain"}
Sender == [pc: {"idle", "claimed", "sending", "answered"}, fence: Nat,
           number: 0 .. MaxPushes + 1, trigger: {"automatic", "manual"},
           report: DeliveryReport]
NotSending == [pc |-> "idle", fence |-> 0, number |-> 0,
               trigger |-> "automatic", report |-> "none"]

OutboxInit ==
    /\ outbox = [status |-> "absent", attempts |-> 0, fence |-> 0,
                 owner |-> NoWorker, lease |-> "none", manual |-> FALSE,
                 available |-> FALSE]
    /\ attempt = [n \in PushNumbers |-> NoAttempt]
    /\ retryWindow = "open"
    /\ sender = [w \in Workers |-> NotSending]
    /\ accepted = {}
    /\ misreported = {}

-----------------------------------------------------------------------------
(* Helpers on the row. *)

ClearSendLease(r, status) ==
    [r EXCEPT !.status = status, !.owner = NoWorker, !.lease = "none"]

ReleaseWithoutSend(r) ==
    IF r.attempts >= MaxPushes \/ retryWindow = "closed"
    THEN ClearSendLease(r, "failed_terminal")
    ELSE [ClearSendLease(r, "failed_retryable") EXCEPT !.available = TRUE]

\* _active_attempt: the attempt the row's lease is about
IsActiveAttempt(n) ==
    /\ n = outbox.attempts
    /\ attempt[n].owner = outbox.owner
    /\ attempt[n].fence = outbox.fence
    /\ attempt[n].result = "sending"

ActiveAttemptAs(result) ==
    [n \in PushNumbers |-> IF IsActiveAttempt(n)
                        THEN [attempt[n] EXCEPT !.result = result]
                        ELSE attempt[n]]

\* Mutant: an expired lease is retried although the request may have left.
EndLeaseAlwaysRetries ==
    [row |-> ReleaseWithoutSend(outbox), attempt |-> ActiveAttemptAs("unknown")]

\* the two ways a lease ends without a report: while sending, or before
EndSendLease ==
    IF outbox.status = "sending"
    THEN [row |-> ClearSendLease(outbox, "unknown"),
          attempt |-> ActiveAttemptAs("unknown")]
    ELSE [row |-> ReleaseWithoutSend(outbox), attempt |-> attempt]

\* Mutant: a lease that expired while sending is left to its worker.
RecoveredOnlyLeased ==
    IF outbox.status = "leased" /\ outbox.lease = "due"
    THEN EndSendLease
    ELSE [row |-> outbox, attempt |-> attempt]

\* _recover_expired_leases, the first statement of claim_next
RecoveredNotification ==
    IF outbox.status \in {"leased", "sending"} /\ outbox.lease = "due"
    THEN EndSendLease
    ELSE [row |-> outbox, attempt |-> attempt]

\* _terminalize_expired_retry_windows, the second
TerminalizedNotification(r) ==
    IF r.status \in {"planned", "failed_retryable"} /\ retryWindow = "closed"
    THEN ClearSendLease(r, "failed_terminal")
    ELSE r

WithinRetryBudget(r) == r.attempts < MaxPushes /\ retryWindow = "open"

ManualClaimable(r) == r.manual /\ r.status \in Resendable /\ WithinRetryBudget(r)

AutomaticClaimable(r) ==
    /\ r.status \in {"planned", "failed_retryable"}
    /\ ~r.manual
    /\ r.available
    /\ WithinRetryBudget(r)

ClaimLockedNotification(w, r, trigger) ==
    /\ outbox' = [r EXCEPT !.status = "leased", !.fence = @ + 1, !.owner = w,
                        !.lease = "valid"]
    /\ sender' = [sender EXCEPT ![w] = [pc |-> "claimed", fence |-> r.fence + 1,
                                number |-> r.attempts + 1, trigger |-> trigger,
                                report |-> "none"]]

\* _locked_lease
OwnsSendLease(w) == outbox.owner = w /\ outbox.fence = sender[w].fence

-----------------------------------------------------------------------------
(* The rows are planned, and users ask for a resend. *)

\* plan_notification; a second plan of the same logical key inserts nothing
PlanNotification ==
    /\ outbox.status = "absent"
    /\ outbox' = [outbox EXCEPT !.status = "planned", !.available = TRUE]
    /\ UNCHANGED <<attempt, retryWindow, sender, accepted, misreported>>

MayResend ==
    /\ outbox.status \in Resendable
    /\ ~outbox.manual
    /\ \A n \in PushNumbers : attempt[n].trigger # "manual"
    /\ WithinRetryBudget(outbox)

RequestManualResend ==
    /\ MayResend
    /\ outbox' = [outbox EXCEPT !.manual = TRUE]
    /\ UNCHANGED <<attempt, retryWindow, sender, accepted, misreported>>

-----------------------------------------------------------------------------
(* The worker. *)

ClaimNotification(w) ==
    /\ sender[w].pc = "idle"
    /\ LET r == TerminalizedNotification(RecoveredNotification.row) IN
       /\ \/ /\ ManualClaimable(r)
             /\ ClaimLockedNotification(w, r, "manual")
          \/ /\ ~ManualClaimable(r)
             /\ AutomaticClaimable(r)
             /\ ClaimLockedNotification(w, r, "automatic")
          \/ /\ ~ManualClaimable(r)
             /\ ~AutomaticClaimable(r)
             /\ r # outbox
             /\ outbox' = r
             /\ UNCHANGED sender
       /\ attempt' = RecoveredNotification.attempt
    /\ UNCHANGED <<retryWindow, accepted, misreported>>

\* claim_manual_resend: request and claim in one transaction
ClaimManualResend(w) ==
    /\ sender[w].pc = "idle"
    /\ MayResend
    /\ ClaimLockedNotification(w, [outbox EXCEPT !.manual = TRUE], "manual")
    /\ UNCHANGED <<attempt, retryWindow, accepted, misreported>>

MarkSending(w) ==
    /\ sender[w].pc = "claimed"
    /\ IF /\ OwnsSendLease(w)
          /\ outbox.status = "leased"
          /\ outbox.lease = "valid"
          /\ outbox.attempts + 1 = sender[w].number
          /\ WithinRetryBudget(outbox)
       THEN /\ attempt' = [attempt EXCEPT ![sender[w].number] =
                   [result |-> "sending", trigger |-> sender[w].trigger,
                    fence |-> sender[w].fence, owner |-> w]]
            /\ outbox' = [outbox EXCEPT !.status = "sending",
                                        !.attempts = sender[w].number,
                                        !.manual = @ /\ sender[w].trigger # "manual"]
            /\ sender' = [sender EXCEPT ![w].pc = "sending"]
       ELSE /\ sender' = [sender EXCEPT ![w] = NotSending]
            /\ UNCHANGED <<outbox, attempt>>
    /\ UNCHANGED <<retryWindow, accepted, misreported>>

\* BarkNotificationAdapter.send: what the adapter reports, and whether Bark
\* accepted the push.  A read or write timeout, an answer that cannot be read
\* and a missing receipt are uncertain; a failed connection, a 429 or a 5xx is
\* retryable and so is every other transport error, although Bark may have
\* accepted the push before the connection broke; the rest is terminal.
Sends(report, accepts) ==
    \/ report = "delivered" /\ accepts
    \/ report \in {"uncertain", "retryable"}
    \/ report = "terminal" /\ ~accepts

Send(w, report, accepts) ==
    /\ sender[w].pc = "sending"
    /\ Sends(report, accepts)
    /\ sender' = [sender EXCEPT ![w].pc = "answered", ![w].report = report]
    /\ accepted' = IF accepts THEN accepted \cup {sender[w].number} ELSE accepted
    /\ misreported' = IF accepts /\ report = "retryable"
                      THEN misreported \cup {sender[w].number} ELSE misreported
    /\ UNCHANGED <<outbox, attempt, retryWindow>>

\* _finish_uncertain: timeout, DeliveryUncertainError, or the task was cancelled
FinishUncertain(w) ==
    /\ sender[w].pc = "answered"
    /\ sender[w].report = "uncertain"
    /\ sender' = [sender EXCEPT ![w] = NotSending]
    /\ IF OwnsSendLease(w) /\ outbox.status = "sending"
       THEN /\ outbox' = ClearSendLease(outbox, "unknown")
            /\ attempt' = ActiveAttemptAs("unknown")
       ELSE UNCHANGED <<outbox, attempt>>
    /\ UNCHANGED <<retryWindow, accepted, misreported>>

\* _finish_result; pastDeadline: the next retry would start after the window
FinishResult(w, pastDeadline) ==
    /\ sender[w].pc = "answered"
    /\ sender[w].report # "uncertain"
    /\ retryWindow = "closed" => pastDeadline
    /\ sender' = [sender EXCEPT ![w] = NotSending]
    /\ IF /\ OwnsSendLease(w)
          /\ outbox.status = "sending"
          /\ IsActiveAttempt(outbox.attempts)
       THEN LET result ==
                  CASE sender[w].report = "delivered" -> "delivered"
                    [] sender[w].report = "terminal" -> "failed_terminal"
                    [] OTHER ->
                        IF \/ sender[w].trigger = "manual"
                           \/ outbox.attempts >= MaxPushes
                           \/ pastDeadline
                        THEN "failed_terminal" ELSE "failed_retryable"
            IN /\ outbox' = [ClearSendLease(outbox, result) EXCEPT
                              !.available = @ /\ result # "failed_retryable"]
               /\ attempt' = ActiveAttemptAs(result)
       ELSE UNCHANGED <<outbox, attempt>>
    /\ UNCHANGED <<retryWindow, accepted, misreported>>

\* a push on its way when the worker stops may still be accepted
MaybeAccepted(w) ==
    IF sender[w].pc = "sending"
    THEN {accepted, accepted \cup {sender[w].number}}
    ELSE {accepted}

\* release_owned_leases at shutdown; the send itself is cancelled or lost
ReleaseOwnedNotifications(w) ==
    /\ outbox.fence < MaxLostSends
    /\ sender[w].pc # "idle"
    /\ sender' = [sender EXCEPT ![w] = NotSending]
    /\ IF outbox.owner = w /\ outbox.status \in {"leased", "sending"}
       THEN outbox' = EndSendLease.row /\ attempt' = EndSendLease.attempt
       ELSE UNCHANGED <<outbox, attempt>>
    /\ accepted' \in MaybeAccepted(w)
    /\ UNCHANGED <<retryWindow, misreported>>

\* The process dies; a push on its way may still be accepted
SenderCrash(w) ==
    /\ outbox.fence < MaxLostSends
    /\ sender[w].pc # "idle"
    /\ sender' = [sender EXCEPT ![w] = NotSending]
    /\ accepted' \in MaybeAccepted(w)
    /\ UNCHANGED <<outbox, attempt, retryWindow, misreported>>

-----------------------------------------------------------------------------
(* Time. *)

SenderGone == \A w \in Workers : OwnsSendLease(w) => sender[w].pc = "idle"

SendLeaseExpires ==
    /\ outbox.lease = "valid"
    /\ SenderGone \/ outbox.fence < MaxLostSends
    /\ outbox' = [outbox EXCEPT !.lease = "due"]
    /\ UNCHANGED <<attempt, retryWindow, sender, accepted, misreported>>

RetryBecomesDue ==
    /\ outbox.status = "failed_retryable"
    /\ ~outbox.available
    /\ outbox' = [outbox EXCEPT !.available = TRUE]
    /\ UNCHANGED <<attempt, retryWindow, sender, accepted, misreported>>

RetryWindowCloses ==
    /\ outbox.status # "absent"
    /\ retryWindow = "open"
    /\ retryWindow' = "closed"
    /\ UNCHANGED <<outbox, attempt, sender, accepted, misreported>>

SenderStep(w) ==
    \/ ClaimNotification(w)
    \/ MarkSending(w)
    \/ \E report \in DeliveryReport, accepts \in BOOLEAN : Send(w, report, accepts)
    \/ FinishUncertain(w)
    \/ \E pastDeadline \in BOOLEAN : FinishResult(w, pastDeadline)

OutboxNext ==
    \/ PlanNotification
    \/ RequestManualResend
    \/ \E w \in Workers :
          \/ SenderStep(w)
          \/ ClaimManualResend(w)
          \/ ReleaseOwnedNotifications(w)
          \/ SenderCrash(w)
    \/ SendLeaseExpires
    \/ RetryBecomesDue
    \/ RetryWindowCloses

OutboxSafety == OutboxInit /\ [][OutboxNext]_outboxVars

\* Workers poll, and time passes; no user is obliged to do anything.
OutboxSpec ==
    /\ OutboxSafety
    /\ \A w \in Workers : WF_outboxVars(SenderStep(w))
    /\ WF_outboxVars(SendLeaseExpires)
    /\ WF_outboxVars(RetryWindowCloses)

-----------------------------------------------------------------------------
(* Properties. *)

\* The rows are well formed; a lease is held exactly while the row is leased
\* or sending (ck_notification_outbox_active_lease).
OutboxTypeOK ==
    /\ outbox \in OutboxRow
    /\ attempt \in [PushNumbers -> AttemptRow]
    /\ retryWindow \in {"open", "closed"}
    /\ sender \in [Workers -> Sender]
    /\ accepted \subseteq PushNumbers
    /\ misreported \subseteq accepted
    /\ outbox.status \in {"leased", "sending"} <=> outbox.owner # NoWorker
    /\ outbox.lease = "none" <=> outbox.owner = NoWorker

\* After a push that was accepted, or whose outcome is unknown, nothing is sent
\* unless a user asked for it: neither a lost lease, nor a crash, nor a shutdown
\* in the middle of a send leads to an automatic second push.  The one exception
\* is a push that Bark accepted and the adapter itself called a retryable failure
\* (misreported: a transport error or a 5xx after the request arrived).  And the
\* one manual resend is used at most once, whichever worker and entry point
\* (request or direct claim) served it.
NoUnaskedPush ==
    /\ \A n, k \in PushNumbers :
           (/\ n < k
            /\ attempt[n].result = "unknown" \/ n \in accepted \ misreported
            /\ attempt[k].result # "absent") => attempt[k].trigger = "manual"
    /\ \A n, k \in PushNumbers :
           attempt[n].trigger = "manual" /\ attempt[k].trigger = "manual" => n = k

\* Not so without the exception: Bark may show the same notification twice.
ShownOnce ==
    \A n, k \in accepted : n < k => attempt[k].trigger = "manual"

\* The attempts are the history of the row: numbered without a gap, every one
\* but the newest finished, the newest being sent exactly while the row is.
LedgerMatchesRow ==
    /\ \A n \in PushNumbers : attempt[n].result = "absent" <=> n > outbox.attempts
    /\ \A n \in PushNumbers : attempt[n].result = "sending"
                              <=> n = outbox.attempts /\ outbox.status = "sending"

\* A planned notification ends: it is delivered, failed for good, or of unknown
\* outcome, in spite of crashes and lost leases; and a resend ends too.
NotificationSettles ==
    outbox.status # "absent" ~> outbox.status \in SettledNotification
=============================================================================
