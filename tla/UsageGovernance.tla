---------------------------- MODULE UsageGovernance ----------------------------
(***************************************************************************)
(* What a workspace may use and is charged for                             *)
(* (persistence/usage_governance.py, admit_trigger of                      *)
(* persistence/monitor_repository.py).  Requests and monitor triggers are  *)
(* admitted under the lock of the WorkspaceEntitlement row; the dispatcher *)
(* records what a Run used without that lock; a reconciliation compares    *)
(* the immutable ledger of a month with the rows it should stand for, and  *)
(* may add what is missing.                                                *)
(***************************************************************************)
EXTENDS Integers, FiniteSets

CONSTANTS
    Requesters,           \* duplicates of one request: same idempotency key
    TriggerIds,           \* official_run_id or manual_stable_key of a trigger
    Months,               \* bound: the months that pass, 1..n
    MaxConcurrentTasks,   \* max_concurrent_tasks
    MonthlyAdmissions,    \* monthly_agent_admission_limit
    MonthlyTriggers       \* monthly_trigger_limit

ASSUME UsageAssumption ==
    /\ Requesters # {} /\ "request" \notin TriggerIds
    /\ Months = 1..Cardinality(Months)
    /\ {MaxConcurrentTasks, MonthlyAdmissions, MonthlyTriggers} \subseteq Nat

VARIABLES
    month,         \* now
    entitled,      \* is the WorkspaceEntitlement usable
    tasks,         \* admitted work: [task, created, ended, active]
    triggers,      \* MonitorTriggers: [id, status, received]
    ledger,        \* UsageLedgerEntry: [key, fact, period]
    requester,     \* what each request is doing
    auditor,       \* a reconciliation in progress, holding the lock if it repairs
    repaired       \* facts that a finished repair looked at

usageVars == <<month, entitled, tasks, triggers, ledger, requester, auditor, repaired>>

RunUnits == {"model_token", "runtime_millisecond"}

\* what can be charged: UsageFact by unit and resource
Admission(t) == <<"agent_admission", t>>
Triggered(x) == <<"trigger", x>>
RunUsage(t)  == {<<unit, t>> : unit \in RunUnits}

NoAudit == [pc |-> "idle", month |-> 1, repair |-> FALSE, source |-> {}]

UsageInit ==
    /\ month = 1
    /\ entitled = TRUE
    /\ tasks = {}
    /\ triggers = {}
    /\ ledger = {}
    /\ requester = [r \in Requesters |-> [pc |-> "idle", started |-> 1]]
    /\ auditor = NoAudit
    /\ repaired = {}

Locked == auditor.pc = "compare" /\ auditor.repair

\* a UsageLedgerEntry: the unit and resource of the fact, and period_start
LedgerEntry(key, fact) == [key |-> key, fact |-> fact, period |-> month]

\* append_fact: INSERT ... ON CONFLICT (idempotency_key) DO NOTHING
Charge(key, fact) ==
    IF \E e \in ledger : e.key = key THEN ledger ELSE ledger \cup {LedgerEntry(key, fact)}

EntriesOf(unit, period) ==
    {e \in ledger : e.fact[1] = unit /\ e.period = period}

ActiveTasks == {t \in tasks : t.active}

-----------------------------------------------------------------------------
(* _create_product_task.  The transaction starts, and looks for the key,   *)
(* before it waits for the entitlement; created_at is when it started.     *)

FindAdmissionTask(r) ==
    /\ requester[r].pc = "idle"
    /\ requester' = [requester EXCEPT ![r] =
           [pc |-> IF \E t \in tasks : t.task = "request" THEN "done" ELSE "admit",
            started |-> month]]
    /\ UNCHANGED <<month, entitled, tasks, triggers, ledger, auditor, repaired>>

\* a second insert of the idempotency key is an IntegrityError: rolled back
Admitted(r) ==
    IF \E t \in tasks : t.task = "request"
    THEN UNCHANGED <<tasks, ledger>>
    ELSE /\ tasks' = tasks \cup {[task |-> "request", created |-> requester[r].started,
                                  ended |-> 0, active |-> TRUE]}
         /\ ledger' = Charge(<<"agent-admission", "request">>, Admission("request"))

AdmitAgent(r) ==
    /\ requester[r].pc = "admit"
    /\ ~Locked
    /\ IF /\ entitled
          /\ Cardinality(ActiveTasks) < MaxConcurrentTasks
          /\ Cardinality(EntriesOf("agent_admission", month)) < MonthlyAdmissions
       THEN Admitted(r)
       ELSE UNCHANGED <<tasks, ledger>>
    /\ requester' = [requester EXCEPT ![r].pc = "done"]
    /\ UNCHANGED <<month, entitled, triggers, auditor, repaired>>

-----------------------------------------------------------------------------
(* admit_trigger *)

\* the sum of the month is not restricted to one unit
SuppressionReason ==
    \/ ~entitled
    \/ Cardinality({e \in ledger : e.period = month}) >= MonthlyTriggers
    \/ Cardinality({t \in ActiveTasks : t.task \in TriggerIds}) >= MaxConcurrentTasks

\* _find_existing_trigger, under the lock of the monitor row
NewTrigger(x) == \A y \in triggers : y.id # x

\* admit_monitor_ingress for a member who was revoked takes no entitlement lock
IngressRevoked(x) ==
    /\ NewTrigger(x)
    /\ triggers' = triggers \cup {[id |-> x, received |-> month, status |-> "suppressed"]}
    /\ UNCHANGED <<month, entitled, tasks, ledger, requester, auditor, repaired>>

\* suppressed: the monitor, its expiry, schedule, quiet hours or interval
AdmitTrigger(x, suppressed) ==
    /\ ~Locked
    /\ NewTrigger(x)
    /\ LET refuse == suppressed \/ SuppressionReason IN
       /\ triggers' = triggers \cup
              {[id |-> x, received |-> month,
                status |-> IF refuse THEN "suppressed" ELSE "admitted"]}
       /\ tasks' = IF refuse THEN tasks
                   ELSE tasks \cup {[task |-> x, created |-> month, ended |-> 0,
                                     active |-> TRUE]}
       /\ ledger' = IF refuse THEN ledger
                    ELSE Charge(<<"monitor-trigger-usage", x>>, Triggered(x))
    /\ UNCHANGED <<month, entitled, requester, auditor, repaired>>

-----------------------------------------------------------------------------
(* append_run_usage_receipts, in the transaction that ends a Run *)

RunEnds(t) ==
    /\ t \in ActiveTasks
    /\ tasks' = (tasks \ {t}) \cup {[t EXCEPT !.active = FALSE, !.ended = month]}
    /\ ledger' = ledger \cup {LedgerEntry(<<"run-usage", f>>, f) : f \in RunUsage(t.task)}
    /\ UNCHANGED <<month, entitled, triggers, requester, auditor, repaired>>

-----------------------------------------------------------------------------
(* reconcile *)

\* source_facts of a month
SourceFacts(m) ==
    {Admission(t.task) : t \in {u \in tasks : u.created = m}}
    \cup {Triggered(x.id) : x \in {y \in triggers : y.received = m}}
    \cup UNION {RunUsage(t.task) : t \in {u \in tasks : u.ended = m}}

ReadSource(m, repair) ==
    /\ auditor.pc = "idle"
    /\ entitled
    /\ auditor' = [pc |-> "compare", month |-> m, repair |-> repair,
                   source |-> SourceFacts(m)]
    /\ UNCHANGED <<month, entitled, tasks, triggers, ledger, requester, repaired>>

ReconcileKey(fact) ==
    CASE fact[1] = "agent_admission" -> <<"agent-admission", fact[2]>>
      [] fact[1] = "trigger" -> <<"reconcile-monitor-trigger", fact[2]>>
      [] OTHER -> <<"run-usage", fact>>

\* Mutant: a trigger that was charged on admission is charged again.
MissingByKey(fact) ==
    \A e \in ledger : e.key # ReconcileKey(fact)

\* existing_keys and existing_trigger_ids, then the conflict on the key
Missing(fact) ==
    /\ \A e \in ledger : e.key # ReconcileKey(fact)
    /\ fact[1] = "trigger" =>
          \A e \in ledger :
             e.key = <<"monitor-trigger-usage", fact[2]>> => e.period # auditor.month

Compare ==
    /\ auditor.pc = "compare"
    /\ ledger' = IF auditor.repair
                 THEN ledger \cup
                      {[key |-> ReconcileKey(f), fact |-> f, period |-> auditor.month] :
                       f \in {g \in auditor.source : Missing(g)}}
                 ELSE ledger
    /\ repaired' = IF auditor.repair THEN repaired \cup auditor.source ELSE repaired
    /\ auditor' = NoAudit
    /\ UNCHANGED <<month, entitled, tasks, triggers, requester>>

-----------------------------------------------------------------------------
MonthEnds ==
    /\ month + 1 \in Months
    /\ month' = month + 1
    /\ UNCHANGED <<entitled, tasks, triggers, ledger, requester, auditor, repaired>>

EntitlementChanges ==
    /\ ~Locked
    /\ entitled' = ~entitled
    /\ UNCHANGED <<month, tasks, triggers, ledger, requester, auditor, repaired>>

UsageNext ==
    \/ \E r \in Requesters : FindAdmissionTask(r) \/ AdmitAgent(r)
    \/ \E x \in TriggerIds, suppressed \in BOOLEAN : AdmitTrigger(x, suppressed)
    \/ \E x \in TriggerIds : IngressRevoked(x)
    \/ \E t \in tasks : RunEnds(t)
    \/ \E m \in 1..month, repair \in BOOLEAN : ReadSource(m, repair)
    \/ Compare
    \/ MonthEnds
    \/ EntitlementChanges

UsageSpec == UsageInit /\ [][UsageNext]_usageVars

-----------------------------------------------------------------------------
(* Properties. *)

Charges(fact) == {e \in ledger : e.fact = fact}

\* Nothing is charged twice: not a request that was sent twice, not a trigger
\* that a repair finds under another key, not work whose month ended between its
\* start and its charge; and what a repair looked at is charged.
ChargedOnce ==
    /\ \A e \in ledger : Cardinality(Charges(e.fact)) = 1
    /\ \A f \in repaired : Charges(f) # {}

\* A suppressed trigger is not charged.
SuppressedNotCharged ==
    \A x \in triggers : x.status = "suppressed" => Charges(Triggered(x.id)) = {}
=============================================================================
