----------------------------- MODULE MemoryOutcome -----------------------------
(***************************************************************************)
(* One memory entry with the jobs that delete it, and one outcome          *)
(* observation with the workers that mature it (workers/memory_outcome.py, *)
(* the memory operations of api/service.py).  The entry is the one of its  *)
(* session, purpose and key: uq_memory_entries_actor_session_purpose_key   *)
(* also counts deleted rows, so there is never a second.                   *)
(***************************************************************************)
EXTENDS WorkerLeases

CONSTANTS
    DeleteKeys,       \* Idempotency-Keys of delete requests
    MaxMemoryFaults   \* bound: crashes, stalls and database failures

ASSUME MemoryAssumption == DeleteKeys # {} /\ MaxMemoryFaults \in Nat

VARIABLES
    memory,        \* the memory_entries row: [content, enabled, deleted]
    forgetJobs,    \* the memory_deletion_jobs rows, by idempotency key
    eraser,        \* per worker: the job it claimed, or NoDeletion
    observation,   \* the outcome_observations row
    maturer,       \* per worker: what it holds of the observation
    memoryFaults

memoryVars == <<memory, forgetJobs, eraser>>
outcomeVars == <<observation, maturer>>
memoryOutcomeVars == <<memoryVars, outcomeVars, memoryFaults>>

CONSTANT NoDeletion   \* a worker without a job
ASSUME NoDeletionAssumption == NoDeletion \notin DeleteKeys

MemoryRow == [content: {"absent", "text", "erased"}, enabled: BOOLEAN, deleted: BOOLEAN]
ForgetJob == [status: {"absent", "queued", "running", "succeeded"}, owner: Holder,
              lease: LeaseState]
ObservationRow ==
    [status: {"absent", "scheduled", "pending", "matured", "failed"}, mature: BOOLEAN,
     owner: Holder, lease: LeaseState, metrics: {"none", "measured", "error"}]
Maturer == {"idle", "claimed", "measured", "error"}

MemoryOutcomeInit ==
    /\ memory = [content |-> "absent", enabled |-> FALSE, deleted |-> FALSE]
    /\ forgetJobs = [k \in DeleteKeys |->
           [status |-> "absent", owner |-> NoWorker, lease |-> "none"]]
    /\ eraser = [w \in Workers |-> NoDeletion]
    /\ observation = [status |-> "absent", mature |-> FALSE, owner |-> NoWorker,
                      lease |-> "none", metrics |-> "none"]
    /\ maturer = [w \in Workers |-> "idle"]
    /\ memoryFaults = 0

FaultHappens ==
    /\ memoryFaults < MaxMemoryFaults
    /\ memoryFaults' = memoryFaults + 1

-----------------------------------------------------------------------------
(* Requests on the memory *)

\* upsert; an insert of a key whose row was deleted fails on the constraint
CreateMemory(enabled) ==
    /\ ~memory.deleted
    /\ memory' = [memory EXCEPT !.content = "text", !.enabled = enabled]
    /\ UNCHANGED <<forgetJobs, eraser, outcomeVars, memoryFaults>>

\* Mutant: an update that does not look at deleted_at.
UpdateDeletedMemory(enabled) ==
    /\ memory.content # "absent"
    /\ memory' = [memory EXCEPT !.content = "text", !.enabled = enabled]
    /\ UNCHANGED <<forgetJobs, eraser, outcomeVars, memoryFaults>>

UpdateMemory(enabled) ==
    /\ memory.content # "absent" /\ ~memory.deleted
    /\ memory' = [memory EXCEPT !.content = "text", !.enabled = enabled]
    /\ UNCHANGED <<forgetJobs, eraser, outcomeVars, memoryFaults>>

\* a key that was used answers with its job and changes nothing
DeleteMemory(k) ==
    /\ memory.content # "absent" /\ ~memory.deleted
    /\ forgetJobs[k].status = "absent"
    /\ memory' = [memory EXCEPT !.enabled = FALSE]
    /\ forgetJobs' = [forgetJobs EXCEPT ![k].status = "queued"]
    /\ UNCHANGED <<eraser, outcomeVars, memoryFaults>>

-----------------------------------------------------------------------------
(* MemoryDeletionWorker *)

ClaimableForget(j) == j.status = "queued" \/ (j.status = "running" /\ j.lease = "due")

ClaimForget(w, k) ==
    /\ eraser[w] = NoDeletion
    /\ ClaimableForget(forgetJobs[k])
    /\ forgetJobs' = [forgetJobs EXCEPT ![k] =
           [status |-> "running", owner |-> w, lease |-> "valid"]]
    /\ eraser' = [eraser EXCEPT ![w] = k]
    /\ UNCHANGED <<memory, outcomeVars, memoryFaults>>

\* the job is read without a lock: only the memory row is locked
EraseMemory(w) ==
    /\ eraser[w] # NoDeletion
    /\ LET j == forgetJobs[eraser[w]] IN
       IF j.status = "running" /\ j.owner = w
       THEN /\ memory' = [content |-> "erased", enabled |-> FALSE, deleted |-> TRUE]
            /\ forgetJobs' = [forgetJobs EXCEPT ![eraser[w]] =
                   [status |-> "succeeded", owner |-> NoWorker, lease |-> "none"]]
       ELSE UNCHANGED <<memory, forgetJobs>>
    /\ eraser' = [eraser EXCEPT ![w] = NoDeletion]
    /\ UNCHANGED <<outcomeVars, memoryFaults>>

\* an exception, a crash: the job stays running until its lease is due
EraserFails(w) ==
    /\ eraser[w] # NoDeletion
    /\ FaultHappens
    /\ eraser' = [eraser EXCEPT ![w] = NoDeletion]
    /\ UNCHANGED <<memory, forgetJobs, outcomeVars>>

ReleaseForgets(w) ==
    /\ eraser[w] # NoDeletion
    /\ FaultHappens
    /\ forgetJobs' = [k \in DeleteKeys |->
           IF forgetJobs[k].status = "running" /\ forgetJobs[k].owner = w
           THEN [status |-> "queued", owner |-> NoWorker, lease |-> "none"]
           ELSE forgetJobs[k]]
    /\ eraser' = [eraser EXCEPT ![w] = NoDeletion]
    /\ UNCHANGED <<memory, outcomeVars>>

\* of a worker that is gone, or of one that is only slow
ForgetLeaseExpires(k) ==
    /\ forgetJobs[k].lease = "valid"
    /\ IF \E w \in Workers : eraser[w] = k /\ forgetJobs[k].owner = w
       THEN FaultHappens ELSE UNCHANGED memoryFaults
    /\ forgetJobs' = [forgetJobs EXCEPT ![k].lease = "due"]
    /\ UNCHANGED <<memory, eraser, outcomeVars>>

-----------------------------------------------------------------------------
(* OutcomeMaturationWorker *)

\* by the dispatcher, with the artifact version of a succeeded Run
ScheduleOutcome ==
    /\ observation.status = "absent"
    /\ observation' = [observation EXCEPT !.status = "scheduled"]
    /\ UNCHANGED <<memoryVars, maturer, memoryFaults>>

MaturationReached ==
    /\ observation.status = "scheduled" /\ ~observation.mature
    /\ observation' = [observation EXCEPT !.mature = TRUE]
    /\ UNCHANGED <<memoryVars, maturer, memoryFaults>>

ClaimOutcome(w) ==
    /\ maturer[w] = "idle"
    /\ observation.status \in {"scheduled", "pending"}
    /\ observation.mature
    /\ observation.lease \in {"none", "due"}
    /\ observation' = [observation EXCEPT !.status = "pending", !.owner = w,
                                          !.lease = "valid"]
    /\ maturer' = [maturer EXCEPT ![w] = "claimed"]
    /\ UNCHANGED <<memoryVars, memoryFaults>>

\* the snapshot is fetched and measured; no provider, no symbol, inconsistent
\* prices or an unreachable exchange are all failures
MeasureOutcome(w, result) ==
    /\ maturer[w] = "claimed"
    /\ maturer' = [maturer EXCEPT ![w] =
           IF observation.owner = w THEN result ELSE "idle"]
    /\ UNCHANGED <<memoryVars, observation, memoryFaults>>

\* Mutant: the result is stored whoever owns the lease.
StoreOutcomeOfAnyone(w) ==
    observation' = [observation EXCEPT
        !.status = IF maturer[w] = "measured" THEN "matured" ELSE "failed",
        !.metrics = maturer[w], !.owner = NoWorker, !.lease = "none"]

\* _finish by the owner of the lease; status and fence are not looked at
StoreOutcome(w) ==
    observation' =
        IF observation.owner = w
        THEN [observation EXCEPT
                !.status = IF maturer[w] = "measured" THEN "matured" ELSE "failed",
                !.metrics = maturer[w], !.owner = NoWorker, !.lease = "none"]
        ELSE observation

FinishOutcome(w) ==
    /\ maturer[w] \in {"measured", "error"}
    /\ StoreOutcome(w)
    /\ maturer' = [maturer EXCEPT ![w] = "idle"]
    /\ UNCHANGED <<memoryVars, memoryFaults>>

\* _finish("matured") raises, before or after its commit: _finish("failed") follows
FinishOutcomeRaises(w, committed) ==
    /\ maturer[w] = "measured"
    /\ FaultHappens
    /\ IF committed THEN StoreOutcome(w) ELSE UNCHANGED observation
    /\ maturer' = [maturer EXCEPT ![w] = "error"]
    /\ UNCHANGED memoryVars

MaturerCrash(w) ==
    /\ maturer[w] # "idle"
    /\ FaultHappens
    /\ maturer' = [maturer EXCEPT ![w] = "idle"]
    /\ UNCHANGED <<memoryVars, observation>>

ReleaseOutcomes(w) ==
    /\ maturer[w] # "idle"
    /\ FaultHappens
    /\ observation' =
           IF observation.status = "pending" /\ observation.owner = w
           THEN [observation EXCEPT !.status = "scheduled", !.owner = NoWorker,
                                    !.lease = "none"]
           ELSE observation
    /\ maturer' = [maturer EXCEPT ![w] = "idle"]
    /\ UNCHANGED memoryVars

OutcomeLeaseExpires ==
    /\ observation.lease = "valid"
    /\ IF \E w \in Workers : observation.owner = w /\ maturer[w] # "idle"
       THEN FaultHappens ELSE UNCHANGED memoryFaults
    /\ observation' = [observation EXCEPT !.lease = "due"]
    /\ UNCHANGED <<memoryVars, maturer>>

-----------------------------------------------------------------------------
EraserStep(w) == (\E k \in DeleteKeys : ClaimForget(w, k)) \/ EraseMemory(w)

MaturerStep(w) ==
    \/ ClaimOutcome(w)
    \/ \E result \in {"measured", "error"} : MeasureOutcome(w, result)
    \/ FinishOutcome(w)

MemoryOutcomeNext ==
    \/ \E enabled \in BOOLEAN : CreateMemory(enabled) \/ UpdateMemory(enabled)
    \/ \E k \in DeleteKeys : DeleteMemory(k) \/ ForgetLeaseExpires(k)
    \/ ScheduleOutcome \/ MaturationReached \/ OutcomeLeaseExpires
    \/ \E w \in Workers :
          \/ EraserStep(w) \/ EraserFails(w) \/ ReleaseForgets(w)
          \/ MaturerStep(w) \/ MaturerCrash(w) \/ ReleaseOutcomes(w)
          \/ \E committed \in BOOLEAN : FinishOutcomeRaises(w, committed)

\* Workers poll for ever, and leases and maturation are reached by the clock.
MemoryOutcomeSpec ==
    /\ MemoryOutcomeInit /\ [][MemoryOutcomeNext]_memoryOutcomeVars
    /\ \A w \in Workers : WF_memoryOutcomeVars(EraserStep(w))
                          /\ WF_memoryOutcomeVars(MaturerStep(w))
    /\ \A k \in DeleteKeys : WF_memoryOutcomeVars(ForgetLeaseExpires(k))
    /\ WF_memoryOutcomeVars(OutcomeLeaseExpires)
    /\ WF_memoryOutcomeVars(MaturationReached)

-----------------------------------------------------------------------------
(* Properties. *)

\* What was forgotten stays forgotten: once a deletion job has succeeded the
\* content is erased and disabled, whatever updates, upserts and second
\* deletions arrive before, between or after the worker's two transactions.
ForgottenStaysForgotten ==
    (\E k \in DeleteKeys : forgetJobs[k].status = "succeeded")
       => memory = [content |-> "erased", enabled |-> FALSE, deleted |-> TRUE]

\* An outcome is recorded once: a worker that comes back after its lease went to
\* another, or that repeats a write whose answer was lost, changes nothing.
OutcomeRecordedOnce ==
    [][observation.status \in {"matured", "failed"} => observation' = observation
      ]_memoryOutcomeVars

\* Every deletion that was accepted is carried out, and every outcome that was
\* scheduled is measured or failed.
MemoryWorkEnds ==
    []<>(/\ \A k \in DeleteKeys : forgetJobs[k].status \in {"absent", "succeeded"}
         /\ observation.status \in {"absent", "matured", "failed"})
=============================================================================
