--------------------------- MODULE TaskLifecycle ---------------------------
(***************************************************************************)
(* What the owner of a Task is promised, without commands, leases, workers *)
(* or an Agent Server: a Task is active until it ends once; an answer is   *)
(* produced only in the step that ends the active Task as succeeded and is *)
(* never taken back; and only the owner reopens a Task that has ended.     *)
(***************************************************************************)
CONSTANT Runs       \* the Runs that can produce an answer

VARIABLES status,   \* the status shown for the Task
          answers   \* the Runs whose result is published

lifeVars == <<status, answers>>

Active == {"queued", "running", "waiting_human"}
Ended  == {"succeeded", "blocked", "failed", "cancelled"}

Init == status = "queued" /\ answers = {}

Work ==
    /\ status \in Active
    /\ status' \in Active
    /\ UNCHANGED answers

Succeed ==
    /\ status \in Active
    /\ status' = "succeeded"
    /\ \E r \in Runs \ answers : answers' = answers \cup {r}

End ==
    /\ status \in Active
    /\ status' \in Ended \ {"succeeded"}
    /\ UNCHANGED answers

Reopen ==
    /\ status \in Ended
    /\ status' = "queued"
    /\ UNCHANGED answers

Next == Work \/ Succeed \/ End \/ Reopen

Spec == Init /\ [][Next]_lifeVars
=============================================================================
