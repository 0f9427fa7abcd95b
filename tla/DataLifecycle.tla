----------------------------- MODULE DataLifecycle -----------------------------
(***************************************************************************)
(* Export and deletion of one user's data (lifecycle/).  The service       *)
(* queues an export job and a deletion job; workers claim them under a     *)
(* lease.  An export reads the Product rows and stores a bundle in one     *)
(* transaction.  A deletion removes the Product rows and scrubs bundles in *)
(* one transaction, then calls the adapter of every other system, one      *)
(* after the other, with a transaction of its own to record each result.   *)
(*                                                                         *)
(* No transaction but the claim locks the job row, and a job has no fence: *)
(* a transaction finds its job by status and lease_owner, and writes it by *)
(* primary key when it commits.  Each is therefore two steps here, one     *)
(* that reads and one that commits, and a worker that lost its job between *)
(* the two still commits what it had read.                                 *)
(***************************************************************************)
EXTENDS WorkerLeases, Sequences

CONSTANTS
    Adapters,     \* for every external system, in order, the adapter it has:
                  \* "concrete", "not_configured", "none" or "retention"
    MaxClaims     \* bound: workers crash or lose leases only below this attempt

ASSUME LifecycleAssumption ==
    /\ Adapters \in Seq({"concrete", "not_configured", "none", "retention"})
    /\ Adapters # <<>>     \* DATA_LIFECYCLE_EXTERNAL_SYSTEMS is a fixed tuple
    /\ MaxClaims \in Nat

VARIABLES
    hold,         \* DataLifecyclePolicy.legal_hold_active
    export,       \* the DataExportJob
    deletion,     \* the DataDeletionJob
    systemStatus, \* DataDeletionJob.system_status; 0 is product_db
    receipts,     \* DataDeletionReceipt: [system, attempt, outcome] of a scan
    data,         \* which systems hold data of the user; 0 is product_db
    clean,        \* <<system, attempt>>: a scan of that attempt found nothing
    overtaken,    \* since the last attempt began, a worker that had lost the job
                  \* committed a transaction it had begun before
    remover       \* what each worker is doing

lifecycleVars == <<hold, export, deletion, systemStatus, receipts, data, clean,
                   overtaken, remover>>

External == DOMAIN Adapters
Systems  == {0} \cup External
LastSystem == Len(Adapters)

Outcome == {"succeeded", "not_applicable", "pending_external", "pending_expiry",
            "failed"}
SystemStatus == Outcome \cup {"pending", "blocked_legal_hold"}
Job == [status: {"absent", "queued", "running", "succeeded", "failed",
                 "pending_external", "blocked_legal_hold"},
        owner: Holder, lease: LeaseState, attempt: Nat]
NoJob == [status |-> "absent", owner |-> NoWorker, lease |-> "none", attempt |-> 0]
ExportJob == [job: Job, bundle: {"none", "empty", "data", "deleted"}]

\* read: were there Product rows to export, or is the legal hold active;
\* attempt and seen: the attempt and the system_status of the job as it was read
Remover == [pc: {"idle", "export", "write", "delete", "purge", "call", "scan",
                 "record", "commit", "finish", "close"},
            at: Nat, deleted: Outcome, scanned: Outcome, read: BOOLEAN,
            attempt: Nat, seen: [Systems -> SystemStatus]]
NothingSeen == [s \in Systems |-> "pending"]
NotRemoving == [pc |-> "idle", at |-> 0, deleted |-> "failed",
                scanned |-> "failed", read |-> FALSE, attempt |-> 0,
                seen |-> NothingSeen]

LifecycleInit ==
    /\ hold = FALSE
    /\ export = [job |-> NoJob, bundle |-> "none"]
    /\ deletion = NoJob
    /\ systemStatus = [s \in Systems |-> "pending"]
    /\ receipts = {}
    /\ data = [s \in Systems |-> TRUE]
    /\ clean = {}
    /\ overtaken = FALSE
    /\ remover = [w \in Workers |-> NotRemoving]

-----------------------------------------------------------------------------
(* The user: LifecycleService, and any other use of the Product. *)

UpdatePolicy ==
    /\ hold' = ~hold
    /\ UNCHANGED <<export, deletion, systemStatus, receipts, data, clean, overtaken,
                   remover>>

Queued == [NoJob EXCEPT !.status = "queued"]

CreateExport ==
    /\ export.job.status = "absent"
    /\ export' = [export EXCEPT !.job = Queued]
    /\ UNCHANGED <<hold, deletion, systemStatus, receipts, data, clean, overtaken,
                   remover>>

CreateDeletion ==
    /\ deletion.status = "absent"
    /\ deletion' = [deletion EXCEPT !.status = IF hold THEN "blocked_legal_hold"
                                              ELSE "queued"]
    /\ systemStatus' = [s \in Systems |->
                           IF hold THEN "blocked_legal_hold" ELSE "pending"]
    /\ UNCHANGED <<hold, export, receipts, data, clean, overtaken,
                   remover>>

\* the user, or a Run that is still going, writes to some system
UserWrites(s) ==
    /\ ~data[s]
    /\ data' = [data EXCEPT ![s] = TRUE]
    /\ UNCHANGED <<hold, export, deletion, systemStatus, receipts, clean, overtaken,
                   remover>>

-----------------------------------------------------------------------------
(* The worker: claims. *)

\* Mutant: a job whose worker died is not looked for.
ClaimableQueued(job) == job.status = "queued"

Claimable(job) ==
    job.status = "queued" \/ (job.status = "running" /\ job.lease # "valid")

ClaimedBy(w, job) == [status |-> "running", owner |-> w, lease |-> "valid",
                      attempt |-> job.attempt + 1]

\* a claim of dispatch_once: exports first
ClaimJob(w) ==
    /\ remover[w].pc = "idle"
    /\ \/ /\ Claimable(export.job)
          /\ export' = [export EXCEPT !.job = ClaimedBy(w, @)]
          /\ remover' = [remover EXCEPT ![w].pc = "export"]
          /\ UNCHANGED deletion
       \/ /\ ~Claimable(export.job)
          /\ Claimable(deletion)
          /\ deletion' = ClaimedBy(w, deletion)
          /\ remover' = [remover EXCEPT ![w].pc = "delete"]
          /\ UNCHANGED export
    /\ UNCHANGED <<hold, systemStatus, receipts, data, clean, overtaken>>

Owns(w, job) == job.status = "running" /\ job.owner = w

Ended(job, status) ==
    [job EXCEPT !.status = status, !.owner = NoWorker, !.lease = "none"]

-----------------------------------------------------------------------------
(* _process_export: one transaction that reads first and writes last. *)

BuildExportPayload(w) ==
    /\ remover[w].pc = "export"
    /\ remover' = [remover EXCEPT ![w] =
           IF Owns(w, export.job)
           THEN [NotRemoving EXCEPT !.pc = "write", !.read = data[0]]
           ELSE NotRemoving]
    /\ UNCHANGED <<hold, export, deletion, systemStatus, receipts, data, clean, overtaken>>

StoreExport(w) ==
    /\ remover[w].pc = "write"
    /\ \/ export' = [job |-> Ended(export.job, "succeeded"),
                     bundle |-> IF remover[w].read THEN "data" ELSE "empty"]
       \/ export' = [export EXCEPT !.job =
                        IF Owns(w, @) THEN Ended(@, "failed") ELSE @]
    /\ remover' = [remover EXCEPT ![w] = NotRemoving]
    /\ UNCHANGED <<hold, deletion, systemStatus, receipts, data, clean, overtaken>>

-----------------------------------------------------------------------------
(* _process_deletion. *)

\* _append_receipt: the first result of an attempt stays
AppendReceipt(w, s, outcome) ==
    IF \E r \in receipts : r.system = s /\ r.attempt = remover[w].attempt
    THEN receipts
    ELSE receipts \cup
         {[system |-> s, attempt |-> remover[w].attempt, outcome |-> outcome]}

\* Mutant: the survivor scan is not looked at.
SystemOutcomeOfDelete(del, scan) == del

\* _system_outcome
SystemOutcome(del, scan) ==
    IF "failed" \in {del, scan} THEN "failed"
    ELSE IF del \in {"pending_external", "pending_expiry"} THEN del
    ELSE IF scan \in {"pending_external", "pending_expiry"} THEN scan
    ELSE IF del = "not_applicable" /\ scan = "not_applicable" THEN "not_applicable"
    ELSE "succeeded"

\* the select of a transaction: the job if it is still the worker's
ReadOwnJob(w, next) ==
    /\ remover' = [remover EXCEPT ![w] = next]
    /\ UNCHANGED <<hold, export, deletion, systemStatus, receipts, data, clean,
                   overtaken>>

AsRead(w, pc) == [remover[w] EXCEPT !.pc = pc, !.attempt = deletion.attempt,
                                    !.seen = systemStatus]

\* The update of a commit: whatever the job is by now.  A column whose new value
\* equals the one that was read is not part of it.
WriteSystemStatus(w, new) ==
    systemStatus' = IF new = remover[w].seen THEN systemStatus ELSE new

Late(w) == overtaken \/ ~Owns(w, deletion)

\* the first transaction, its reads: the job and the policy
ReadDeletionJob(w) ==
    /\ remover[w].pc = "delete"
    /\ ReadOwnJob(w, IF Owns(w, deletion) THEN [AsRead(w, "purge") EXCEPT !.read = hold]
                     ELSE NotRemoving)

\* its commit under a legal hold
BlockDeletion(w) ==
    /\ remover[w].pc = "purge"
    /\ remover[w].read
    /\ deletion' = Ended(deletion, "blocked_legal_hold")
    /\ WriteSystemStatus(w, [s \in Systems |-> "blocked_legal_hold"])
    /\ overtaken' = Late(w)
    /\ remover' = [remover EXCEPT ![w] = NotRemoving]
    /\ UNCHANGED <<hold, export, receipts, data, clean>>

\* its commit otherwise: Product rows, bundles, survivor count, the first status;
\* survivors: does a concurrent write survive
DeleteProductRows(w, survivors) ==
    /\ remover[w].pc = "purge"
    /\ ~remover[w].read
    /\ LET scan == IF survivors THEN "failed" ELSE "succeeded" IN
       /\ data' = [data EXCEPT ![0] = survivors]
       /\ clean' = IF survivors THEN clean
                   ELSE clean \cup {<<0, remover[w].attempt>>}
       /\ export' = [export EXCEPT !.bundle =
                        IF export.job.status = "absent" THEN @ ELSE "deleted"]
       /\ receipts' = AppendReceipt(w, 0, scan)
       /\ WriteSystemStatus(w, [s \in Systems |->
              IF s = 0 THEN SystemOutcome("succeeded", scan) ELSE "pending"])
    /\ deletion' = IF survivors THEN Ended(deletion, "failed")
                   ELSE [deletion EXCEPT !.lease = "valid"]
    /\ overtaken' = ~Owns(w, deletion)
    /\ remover' = [remover EXCEPT ![w] =
           IF survivors THEN NotRemoving
           ELSE [NotRemoving EXCEPT !.pc = "call", !.at = 1,
                                    !.attempt = remover[w].attempt]]
    /\ UNCHANGED hold

\* any exception of the transactions: the job fails if it is still ours
DeletionRaises(w) ==
    /\ remover[w].pc \in {"delete", "purge", "record", "commit", "finish", "close"}
    /\ deletion' = IF Owns(w, deletion) THEN Ended(deletion, "failed") ELSE deletion
    /\ remover' = [remover EXCEPT ![w] = NotRemoving]
    /\ UNCHANGED <<hold, export, systemStatus, receipts, data, clean, overtaken>>

\* what an adapter answers without data of its own
FixedOutcome(kind) ==
    CASE kind = "not_configured" -> "not_applicable"
      [] kind = "none" -> "pending_external"
      [] kind = "retention" -> "pending_expiry"
      [] OTHER -> "succeeded"

\* adapter.delete: everything the user has in that system, or an exception,
\* before or after some of it was removed
AdapterDelete(w) ==
    /\ remover[w].pc = "call"
    /\ LET s == remover[w].at IN
       IF Adapters[s] # "concrete"
       THEN /\ remover' = [remover EXCEPT ![w].pc = "record",
                   ![w].deleted = FixedOutcome(Adapters[s]),
                   ![w].scanned = FixedOutcome(Adapters[s])]
            /\ UNCHANGED data
       ELSE \/ /\ data' = [data EXCEPT ![s] = FALSE]
               /\ remover' = [remover EXCEPT ![w].pc = "scan",
                                             ![w].deleted = "succeeded"]
            \/ /\ remover' = [remover EXCEPT ![w].pc = "record",
                                             ![w].deleted = "failed",
                                             ![w].scanned = "failed"]
               /\ UNCHANGED data
    /\ UNCHANGED <<hold, export, deletion, systemStatus, receipts, clean, overtaken>>

\* adapter.survivor_scan
SurvivorScan(w) ==
    /\ remover[w].pc = "scan"
    /\ LET s == remover[w].at IN
       \/ /\ remover' = [remover EXCEPT ![w].pc = "record",
                 ![w].scanned = IF data[s] THEN "failed" ELSE "succeeded"]
          /\ clean' = IF data[s] THEN clean
                      ELSE clean \cup {<<s, remover[w].attempt>>}
       \/ /\ remover' = [remover EXCEPT ![w].pc = "record",
                 ![w].deleted = "failed", ![w].scanned = "failed"]
          /\ UNCHANGED clean
    /\ UNCHANGED <<hold, export, deletion, systemStatus, receipts, data, overtaken>>

\* what follows a result: the next system, or the last transaction
AfterResult(w) ==
    IF remover[w].at < LastSystem
    THEN [NotRemoving EXCEPT !.pc = "call", !.at = remover[w].at + 1,
                             !.attempt = remover[w].attempt]
    ELSE [NotRemoving EXCEPT !.pc = "finish", !.attempt = remover[w].attempt]

\* _record_adapter_result, its read; a worker that lost its job records nothing
\* and goes on
ReadJobForResult(w) ==
    /\ remover[w].pc = "record"
    /\ ReadOwnJob(w, IF Owns(w, deletion) THEN AsRead(w, "commit") ELSE AfterResult(w))

\* its commit: the whole system_status it read, with one entry replaced
RecordAdapterResult(w) ==
    /\ remover[w].pc = "commit"
    /\ LET s == remover[w].at
           outcome == SystemOutcome(remover[w].deleted, remover[w].scanned)
       IN /\ receipts' = AppendReceipt(w, s, remover[w].scanned)
          /\ WriteSystemStatus(w, [remover[w].seen EXCEPT ![s] = outcome])
    /\ deletion' = [deletion EXCEPT !.lease = "valid"]
    /\ overtaken' = Late(w)
    /\ remover' = [remover EXCEPT ![w] = AfterResult(w)]
    /\ UNCHANGED <<hold, export, data, clean>>

\* Mutant: only failures are looked at.
JobOutcomeWithoutPending(outcomes) ==
    IF "failed" \in outcomes THEN "failed" ELSE "succeeded"

\* the status the last transaction gives the job
JobOutcome(outcomes) ==
    IF "failed" \in outcomes THEN "failed"
    ELSE IF outcomes \cap {"pending_external", "pending_expiry", "pending"} # {}
    THEN "pending_external"
    ELSE "succeeded"

\* the last transaction, its read
ReadJobToFinish(w) ==
    /\ remover[w].pc = "finish"
    /\ ReadOwnJob(w, IF Owns(w, deletion) THEN AsRead(w, "close") ELSE NotRemoving)

FinishDeletion(w) ==
    /\ remover[w].pc = "close"
    /\ deletion' = Ended(deletion, JobOutcome({remover[w].seen[s] : s \in Systems}))
    /\ overtaken' = Late(w)
    /\ remover' = [remover EXCEPT ![w] = NotRemoving]
    /\ UNCHANGED <<hold, export, systemStatus, receipts, data, clean>>

-----------------------------------------------------------------------------
(* Shutdown, crashes and time. *)

MayBeLost(w) ==
    /\ remover[w].pc # "idle"
    /\ export.job.attempt < MaxClaims
    /\ deletion.attempt < MaxClaims

Requeued(w, job) ==
    IF Owns(w, job) THEN [Ended(job, "queued") EXCEPT !.lease = "none"] ELSE job

ReleaseOwnedJobs(w) ==
    /\ MayBeLost(w)
    /\ export' = [export EXCEPT !.job = Requeued(w, @)]
    /\ deletion' = Requeued(w, deletion)
    /\ remover' = [remover EXCEPT ![w] = NotRemoving]
    /\ UNCHANGED <<hold, systemStatus, receipts, data, clean, overtaken>>

RemoverCrash(w) ==
    /\ MayBeLost(w)
    /\ remover' = [remover EXCEPT ![w] = NotRemoving]
    /\ UNCHANGED <<hold, export, deletion, systemStatus, receipts, data, clean, overtaken>>

\* a lease is renewed by every recorded result; it expires when its worker is
\* gone, or (boundedly) under a worker that is slow
MayExpire(job, busy) ==
    /\ job.lease = "valid"
    /\ \/ job.attempt < MaxClaims
       \/ \A w \in Workers : job.owner = w => remover[w].pc \notin busy

ExportLeaseExpires ==
    /\ MayExpire(export.job, {"export", "write"})
    /\ export' = [export EXCEPT !.job.lease = "due"]
    /\ UNCHANGED <<hold, deletion, systemStatus, receipts, data, clean, overtaken,
                   remover>>

DeletionLeaseExpires ==
    /\ MayExpire(deletion, {"delete", "purge", "call", "scan", "record", "commit",
                            "finish", "close"})
    /\ deletion' = [deletion EXCEPT !.lease = "due"]
    /\ UNCHANGED <<hold, export, systemStatus, receipts, data, clean, overtaken,
                   remover>>

RemoverStep(w) ==
    \/ ClaimJob(w)
    \/ BuildExportPayload(w)
    \/ StoreExport(w)
    \/ ReadDeletionJob(w)
    \/ BlockDeletion(w)
    \/ \E survivors \in BOOLEAN : DeleteProductRows(w, survivors)
    \/ DeletionRaises(w)
    \/ AdapterDelete(w)
    \/ SurvivorScan(w)
    \/ ReadJobForResult(w)
    \/ RecordAdapterResult(w)
    \/ ReadJobToFinish(w)
    \/ FinishDeletion(w)

LifecycleNext ==
    \/ UpdatePolicy
    \/ CreateExport
    \/ CreateDeletion
    \/ \E s \in Systems : UserWrites(s)
    \/ \E w \in Workers :
          \/ RemoverStep(w)
          \/ ReleaseOwnedJobs(w)
          \/ RemoverCrash(w)
    \/ ExportLeaseExpires
    \/ DeletionLeaseExpires

LifecycleSafety == LifecycleInit /\ [][LifecycleNext]_lifecycleVars

LifecycleSpec ==
    /\ LifecycleSafety
    /\ \A w \in Workers : WF_lifecycleVars(RemoverStep(w))
    /\ WF_lifecycleVars(ExportLeaseExpires)
    /\ WF_lifecycleVars(DeletionLeaseExpires)

-----------------------------------------------------------------------------
(* Properties. *)

\* A deletion reports no more than was seen.  Whoever wrote the report, and when:
\* a system it calls deleted was found empty by a scan whose receipt is kept.  And
\* when the job ends without failure, the report is about its last attempt: every
\* system has a receipt of that attempt, the systems called deleted were found
\* empty in it, none failed, and one that still waits for something makes the job
\* wait too.  The second part holds unless a worker that had lost the job
\* committed, since that attempt began, a transaction it had read before
\* (overtaken): no lock and no fence keeps such a commit out.
DeletionHonest ==
    /\ \A s \in Systems : systemStatus[s] = "succeeded" =>
           \E r \in receipts : /\ r.system = s
                               /\ r.outcome = "succeeded"
                               /\ <<s, r.attempt>> \in clean
    /\ deletion.status \in {"succeeded", "pending_external"} /\ ~overtaken =>
        /\ \A s \in Systems :
              systemStatus[s] = "succeeded" => <<s, deletion.attempt>> \in clean
        /\ \A s \in Systems : \E r \in receipts :
              r.system = s /\ r.attempt = deletion.attempt
        /\ \A s \in Systems : systemStatus[s] # "failed"
        /\ deletion.status = "succeeded" =>
              \A s \in Systems : systemStatus[s] \in {"succeeded", "not_applicable"}

\* Not so without the exemption: an owner that stalls inside one transaction
\* until another worker claimed the job makes its report cover the other's.
DeletionReportCurrent ==
    deletion.status \in {"succeeded", "pending_external"} =>
        \A s \in Systems : systemStatus[s] # "failed"

\* An exported bundle is user data: once a deletion removed the Product rows and
\* nobody wrote new ones, no export holds a bundle with data.
BundleScrubbed ==
    deletion.status = "pending_external" /\ ~data[0] => export.bundle # "data"

\* No export and no deletion stays queued or running: each ends, although
\* workers crash or lose their leases.
LifecycleEnds ==
    []<>(/\ export.job.status \notin {"queued", "running"}
         /\ deletion.status \notin {"queued", "running"})
=============================================================================
