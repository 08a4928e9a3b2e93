----------------------------- MODULE TaskGraph -----------------------------
(***************************************************************************)
(* What Freeline's task engine promises to the builders that hand it a     *)
(* graph of tasks: a task works once, after all its parents have ended.    *)
(***************************************************************************)
CONSTANTS
  Tasks,     \* the tasks of the builds
  Parents    \* Parents[t]: the tasks t was added to as a child (task.parent_tasks);
             \* Parents \in [Tasks -> SUBSET Tasks], see EngineAssumption of TaskEngine

VARIABLE status

Statuses == {"READY", "WAITING", "WORKING", "SUCCESS", "FAILURE"}

Ended(t) == status[t] \in {"SUCCESS", "FAILURE"}

Init == status = [t \in Tasks |-> "READY"]

\* A worker has taken the task and waits for its parents.
TakeUp(t) ==
  /\ status[t] = "READY"
  /\ status' = [status EXCEPT ![t] = "WAITING"]

Begin(t) ==
  /\ status[t] = "WAITING"
  /\ \A p \in Parents[t] : Ended(p)
  /\ status' = [status EXCEPT ![t] = "WORKING"]

End(t) ==
  /\ status[t] = "WORKING"
  /\ \E s \in {"SUCCESS", "FAILURE"} : status' = [status EXCEPT ![t] = s]

Next == \E t \in Tasks : TakeUp(t) \/ Begin(t) \/ End(t)

Spec == Init /\ [][Next]_status
=============================================================================
