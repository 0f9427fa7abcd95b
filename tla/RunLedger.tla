----------------------------- MODULE RunLedger -----------------------------
(***************************************************************************)
(* What a Run leaves in the product database besides its status: the       *)
(* domain events of its Thread (projections/domain_events.py), the web     *)
(* evidence and artifact versions its terminal output commits, and the     *)
(* worker that repairs the events of ended Runs.                           *)
(*                                                                         *)
(* Every operation runs in one transaction that holds the Task, Run or     *)
(* Thread row it needs, so each is one step.  A payload is a name; two     *)
(* payloads have the same hash when they are equal.  A Thread numbers all  *)
(* its events; what reads them asks for those of one Run and one type, so  *)
(* only their order is kept.                                               *)
(***************************************************************************)
EXTENDS Naturals, Sequences, SequencesExt, FiniteSets

CONSTANTS
    MaxLedgerRuns,    \* Runs of one Task, one after the other
    OldRuns,          \* how many of them ended before the ledger existed
    EvidenceLists,    \* non-empty lists of web evidence
    AnalysisContents, \* contents of an analysis
    MaxUpdates        \* updates the official streams hold

VARIABLES
    runRow,      \* Run -> status, output, place in the official stream
    stream,      \* Run -> the updates of its official stream
    events,      \* Run -> type -> the domain events of this Run and type, oldest first
    evidenceRow, \* Run -> the web evidence rows stored for it
    versions,    \* the versions of the Task's artifact
    finished     \* the ended Runs, oldest first (Run.finished_at)

ledgerVars == <<runRow, stream, events, evidenceRow, versions, finished>>

None == "none"

\* TerminalGraphOutput, as model_dump(exclude_none=True) stores it: a missing
\* evidence list is stored as the empty list.
Outputs ==
    [status : {"succeeded"}, market : {"market"}, evidence : EvidenceLists \cup {"empty"},
     artifact : {"committed"}, kind : {"analysis", "research"}, content : AnalysisContents]
    \cup
    [status : {"blocked"}, market : {"market"}, evidence : EvidenceLists \cup {"empty"},
     artifact : {"draft"}, kind : {"analysis", "research"}, content : AnalysisContents]
    \cup
    [status : {"failed", "cancelled"}, market : {"market", None},
     evidence : EvidenceLists \cup {"empty"}, artifact : {None},
     kind : {None}, content : {None}]

ConflictOutput ==
    [status |-> "failed", market |-> None, evidence |-> "empty",
     artifact |-> None, kind |-> None, content |-> "conflict"]

NoOutput == [status |-> None]

LedgerRuns == 1..MaxLedgerRuns
EventTypes == {"market", "evidence", "agent", "evidence_verdict", "risk_verdict", "artifact",
               "notification", "terminal"}
NewRun(status) == [status |-> status, output |-> NoOutput, last |-> 0]
RunEnded(r) == runRow[r].status \notin {"absent", "running"}

LedgerInit ==
    /\ stream = [r \in LedgerRuns |-> <<>>]
    /\ events = [r \in LedgerRuns |-> [type \in EventTypes |-> <<>>]]
    /\ evidenceRow = [r \in LedgerRuns |-> {}]
    /\ versions = <<>>
    \* Runs that ended before migration 0017 have an output and no events.
    /\ \E out \in {o \in Outputs : o.artifact = None} :
          runRow = [r \in LedgerRuns |->
             IF r <= OldRuns THEN [status |-> out.status, output |-> out, last |-> 0]
             ELSE NewRun("absent")]
    /\ finished = [i \in 1..OldRuns |-> i]

-----------------------------------------------------------------------------
(* The specs that one source writes are a function from event types to     *)
(* payloads: no source has two specs of one type.                          *)

\* domain_event_specs
OutputTypes(out, notified) ==
    {"terminal"}
    \cup (IF out.market # None THEN {"market"} ELSE {})
    \cup (IF out.evidence # "empty" \/ out.artifact # None THEN {"evidence"} ELSE {})
    \cup (IF out.artifact # None THEN {"agent"} ELSE {})
    \cup (IF out.kind = "analysis" THEN {"evidence_verdict", "risk_verdict"} ELSE {})
    \cup (IF out.artifact = "committed" THEN {"artifact"} ELSE {})
    \cup (IF notified THEN {"notification"} ELSE {})

PayloadOf(out, type) ==
    CASE type = "market"                   -> out.market
      [] type = "evidence"                 -> out.evidence
      [] type \in {"artifact", "terminal"} -> out
      [] OTHER                             -> out.content

OutputSpecs(out, notified) ==
    [type \in OutputTypes(out, notified) |-> PayloadOf(out, type)]

\* The updates of the graph's nodes and what progressive_event_specs makes
\* of them.  collect_market_snapshot may carry evidence of its own.
Updates ==
    [node : {"collect_market_snapshot"}, evidence : EvidenceLists \cup {None}]
    \cup [node : {"research_events"}, evidence : EvidenceLists]
    \cup [node : {"analyze_market", "apply_risk_policy"}, content : AnalysisContents]

UpdateSpecs(u) ==
    CASE u.node = "research_events"   -> [evidence |-> u.evidence]
      [] u.node = "analyze_market"    -> [agent |-> u.content]
      [] u.node = "apply_risk_policy" -> [risk_verdict |-> u.content]
      [] OTHER -> IF u.evidence = None THEN [market |-> "market"]
                  ELSE [market |-> "market", evidence |-> u.evidence]

TypesOf(r) == {type \in EventTypes : events[r][type] # <<>>}
OldestEvent(r, type) == events[r][type][1]
NewestEvent(r, type) == events[r][type][Len(events[r][type])]

WroteBefore(r, source, type) ==
    \E i \in DOMAIN events[r][type] : events[r][type][i].source = source

\* append_event_specs: a spec is new unless its source wrote it before or
\* the newest event of its type holds the same payload.
IsNewSpecOfAny(r, source, type, payload) ==
    /\ ~WroteBefore(r, source, type)
    /\ type \in TypesOf(r) => OldestEvent(r, type).payload # payload
IsNewSpec(r, source, type, payload) ==
    /\ ~WroteBefore(r, source, type)
    /\ type \in TypesOf(r) => NewestEvent(r, type).payload # payload

EventsAppended(r, source, specs) ==
    [events EXCEPT ![r] = [type \in EventTypes |->
        IF type \in DOMAIN specs /\ IsNewSpec(r, source, type, specs[type])
        THEN Append(events[r][type], [source |-> source, payload |-> specs[type]])
        ELSE events[r][type]]]

TerminalSource(out) == <<"terminal", out>>
StreamSource(n) == <<"stream", n>>

-----------------------------------------------------------------------------
\* The Task's first Run, or a retry or fork of an ended one.
StartRun(r) ==
    /\ runRow[r].status = "absent"
    /\ \A q \in 1..(r - 1) : RunEnded(q)
    /\ runRow' = [runRow EXCEPT ![r] = NewRun("running")]
    /\ UNCHANGED <<stream, events, evidenceRow, versions, finished>>

\* The official Run produces an update.
StreamGrows(r) ==
    /\ runRow[r].status = "running"
    /\ FoldFunction(LAMBDA u, n : Len(u) + n, 0, stream) < MaxUpdates
    /\ \E u \in Updates : stream' = [stream EXCEPT ![r] = Append(@, u)]
    /\ UNCHANGED <<runRow, events, evidenceRow, versions, finished>>

\* _persist_progressive_update.  The stream is resumed after the last event
\* stored; an event may be delivered again.
PersistProgressiveUpdate(r) ==
    /\ runRow[r].status = "running"
    /\ \E n \in 1..Len(stream[r]) :
          /\ n <= runRow[r].last + 1
          /\ events' = EventsAppended(r, StreamSource(n), UpdateSpecs(stream[r][n]))
          /\ runRow' = [runRow EXCEPT ![r].last = n]
    /\ UNCHANGED <<stream, evidenceRow, versions, finished>>

\* _persist_verified_web_evidence: a source already stored is not repeated.
EvidenceStored(r, list) ==
    [evidenceRow EXCEPT ![r] = @ \cup (IF list = "empty" THEN {} ELSE {list})]

\* ArtifactRepository.commit_version, under the Artifact row's lock.
VersionCommitted(r, out) ==
    IF out.status # "succeeded" THEN versions
    ELSE Append(versions, [run |-> r, number |-> Len(versions) + 1, content |-> out.content])

\* The Run ends and its output is stored with everything that follows from it.
PersistTerminalOutput(r) ==
    /\ runRow[r].status = "running"
    /\ \E out \in Outputs, notify \in BOOLEAN :
          /\ runRow' = [runRow EXCEPT ![r].status = out.status, ![r].output = out]
          /\ evidenceRow' = EvidenceStored(r, out.evidence)
          /\ versions' = VersionCommitted(r, out)
          /\ events' = EventsAppended(r, TerminalSource(out),
                OutputSpecs(out, notify /\ out.status = "succeeded"
                                        /\ out.kind = "analysis"))
    /\ finished' = Append(finished, r)
    /\ UNCHANGED stream

\* A replay of the terminal output does not match what was stored.
PersistConflict(r) ==
    /\ runRow[r].status \in {"succeeded", "blocked"}
    /\ runRow' = [runRow EXCEPT ![r].status = "failed", ![r].output = ConflictOutput]
    /\ events' = EventsAppended(r, TerminalSource(ConflictOutput),
                                OutputSpecs(ConflictOutput, FALSE))
    /\ finished' = Append(SelectSeq(finished, LAMBDA q : q # r), r)
    /\ UNCHANGED <<stream, evidenceRow, versions>>

\* The query of DomainEventProjectionWorker.dispatch_once.  A stored empty
\* evidence list is not NULL.  The order and the limit pick the oldest Run.
HasEventGap(r) ==
    LET out == runRow[r].output
        missing(type) == type \notin TypesOf(r)
    IN  /\ RunEnded(r)
        /\ \/ missing("terminal")
           \/ out.market # None /\ missing("market")
           \/ missing("evidence")
           \/ out.kind = "analysis" /\ missing("agent")
           \/ out.kind = "analysis" /\ missing("evidence_verdict")
           \/ out.kind = "analysis" /\ missing("risk_verdict")
           \/ out.kind = "analysis" /\ out.artifact = "committed" /\ missing("artifact")

IsOldestGap(r) ==
    /\ HasEventGap(r)
    /\ \E i \in DOMAIN finished :
          finished[i] = r /\ \A j \in 1..(i - 1) : ~HasEventGap(finished[j])

\* A notification's event is written with its plan, so the repair adds none.
RepairEvents ==
    /\ \E r \in LedgerRuns :
          /\ IsOldestGap(r)
          /\ events' = EventsAppended(r, TerminalSource(runRow[r].output),
                                      OutputSpecs(runRow[r].output, FALSE))
    /\ UNCHANGED <<runRow, stream, evidenceRow, versions, finished>>

LedgerNext ==
    \/ \E r \in LedgerRuns :
          \/ StartRun(r) \/ StreamGrows(r) \/ PersistProgressiveUpdate(r)
          \/ PersistTerminalOutput(r) \/ PersistConflict(r)
    \/ RepairEvents

LedgerSpec == LedgerInit /\ [][LedgerNext]_ledgerVars
                         /\ WF_ledgerVars(RepairEvents)

-----------------------------------------------------------------------------
\* The newest event of each type tells what the Run's stored output says: for
\* an ended Run whose terminal event is in the ledger, every part of its
\* output is the newest event of that part, whatever the stream showed before
\* and however often its events were delivered again.
LedgerTellsOutput ==
    \A r \in LedgerRuns :
        (RunEnded(r) /\ "terminal" \in TypesOf(r)) =>
            \A type \in OutputTypes(runRow[r].output, FALSE) :
                /\ type \in TypesOf(r)
                /\ NewestEvent(r, type).payload = PayloadOf(runRow[r].output, type)

\* "repairs Runs missing run.terminal" (docs/v2/implementation/
\* 2026-07-18-task-07-domain-event-ledger.md:53): the worker gives every ended
\* Run its terminal event.
TerminalEventsRepaired ==
    \A r \in LedgerRuns :
        RunEnded(r) ~> ("terminal" \in TypesOf(r))
=============================================================================
