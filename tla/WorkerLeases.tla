----------------------------- MODULE WorkerLeases -----------------------------
(***************************************************************************)
(* What the background workers have in common: an identity (worker_id) and *)
(* rows that one of them holds under a lease.  A lease that expires is not *)
(* taken back from its holder, who may still be running: it is due, and    *)
(* the next claim may give the row to another worker.                      *)
(***************************************************************************)
EXTENDS Integers, FiniteSets

CONSTANTS
    Workers,    \* the worker_ids
    NoWorker    \* lease_owner IS NULL

ASSUME WorkerAssumption == NoWorker \notin Workers

Holder     == Workers \cup {NoWorker}
LeaseState == {"none", "valid", "due"}
=============================================================================
