---------------------------- MODULE AgentServer ----------------------------
(***************************************************************************)
(* The Agent Server (LangGraph), as the dispatcher uses it through         *)
(* api/agent_server.py.  The server itself is external.                    *)
(*                                                                         *)
(* official[r] is the official Run created for Product Run r: "active" is  *)
(* pending or running, "paused" waits for a human review, "stopped" was    *)
(* interrupted by a cancel call.  duplicate[r]: a second official Run was  *)
(* created for the same Product Run.  inflight[r]: a create request left   *)
(* a client that no longer waits for the answer; the server may still      *)
(* accept it, or never see it.                                             *)
(***************************************************************************)
EXTENDS TaskStore

VARIABLES official, duplicate, inflight

serverVars == <<official, duplicate, inflight>>

OfficialStatus == {"none", "active", "paused", "success", "error", "stopped"}

ServerInit ==
    /\ official  = [r \in Runs |-> "none"]
    /\ duplicate = [r \in Runs |-> FALSE]
    /\ inflight  = [r \in Runs |-> FALSE]

ServerTypeOK ==
    /\ official  \in [Runs -> OfficialStatus]
    /\ duplicate \in [Runs -> BOOLEAN]
    /\ inflight  \in [Runs -> BOOLEAN]

\* A thread runs one official Run at a time.  Starts and resumes ask for that with
\* multitask_strategy "reject"; a fork passes no strategy, and the server is taken
\* to refuse it in the same way.
ThreadBusy == \E q \in Runs : official[q] = "active"

\* The server accepts a create request for r: its first, or a second one.
Accepts(r) ==
    /\ ~ThreadBusy
    /\ official' = [official EXCEPT ![r] = "active"]
    /\ duplicate' = [duplicate EXCEPT ![r] = @ \/ official[r] # "none"]

LateAccept(r) ==
    /\ inflight[r]
    /\ Accepts(r)
    /\ inflight' = [inflight EXCEPT ![r] = FALSE]

LateDrop(r) ==
    /\ inflight[r]
    /\ inflight' = [inflight EXCEPT ![r] = FALSE]
    /\ UNCHANGED <<official, duplicate>>

\* The graph of an active official Run ends, fails or interrupts for review.
GraphEnds(r) ==
    /\ official[r] = "active"
    /\ \E s \in {"success", "error", "paused"} :
          official' = [official EXCEPT ![r] = s]
    /\ UNCHANGED <<duplicate, inflight>>

(***************************************************************************)
(* _find_existing_run: the one official Run with this product_run_id.      *)
(***************************************************************************)
Found(r)     == official[r] # "none" /\ ~duplicate[r]
NotFound(r)  == official[r] = "none"
Ambiguous(r) == duplicate[r]

(***************************************************************************)
(* get: a Run that ended with pending interrupts reads as interrupted only *)
(* while the thread's checkpoint is still its own.                         *)
(***************************************************************************)
Superseded(r) == \E q \in Runs : q > r /\ official[q] # "none"
StatusOf(r) ==
    IF official[r] = "paused"
    THEN IF Superseded(r) THEN "success" ELSE "interrupted"
    ELSE IF official[r] = "stopped" THEN "interrupted"
    ELSE official[r]

(***************************************************************************)
(* cancel(action="interrupt") followed by get.  Confirmed: the Run reads   *)
(* as interrupted.  Terminal: it ended before.  Unconfirmed: the call      *)
(* failed, before or after the server stopped the Run, or it still runs.   *)
(***************************************************************************)
Stop(r) == official' = [official EXCEPT ![r] = IF @ = "active" THEN "stopped" ELSE @]
\* Mutant: an interrupted Run is taken for a Run that ended.
CancelTerminalIfNotActive(r) == StatusOf(r) # "active"

CancelTerminal(r)  == StatusOf(r) \in {"success", "error"}
CancelConfirmed(r) == ~CancelTerminal(r)
CancelLost(r)      == Stop(r) \/ UNCHANGED official

ServerStep == \E r \in Runs : LateAccept(r) \/ LateDrop(r) \/ GraphEnds(r)
=============================================================================
