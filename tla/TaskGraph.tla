------------------------------ MODULE TaskGraph ------------------------------
(***************************************************************************)
(* What a task queue with dependencies promises to whoever submits work to *)
(* it, with no driver, no workers and no locks: a task is submitted once,  *)
(* is started at most once, only when every task it depends on has         *)
(* completed, and its outcome, once recorded, is final.                    *)
(*                                                                         *)
(* Orchestrator.tla is shown to implement this module as long as a single  *)
(* run uses the queue.                                                     *)
(***************************************************************************)

CONSTANTS Tasks,   \* the tasks that may ever be submitted
          Deps     \* Deps[t]: the tasks that must complete before t starts

VARIABLE status

\* TaskStatus in types.rs, and "absent" for a task nobody submitted yet.
Live     == {"pending", "running"}
Terminal == {"completed", "review", "failed"}
Statuses == {"absent"} \cup Live \cup Terminal

TypeOK == status \in [Tasks -> Statuses]

\* Every dependency of t has completed.  A task waiting for human review has
\* not: its dependents stay blocked.
Unblocked(t) == \A d \in Deps[t] : status[d] = "completed"

Init == status = [t \in Tasks |-> "absent"]

\* A batch of tasks is submitted under one lock.
Submit == \E S \in SUBSET {t \in Tasks : status[t] = "absent"} :
            /\ S # {}
            /\ status' = [t \in Tasks |-> IF t \in S THEN "pending" ELSE status[t]]

Start(t) == /\ status[t] = "pending"
            /\ Unblocked(t)
            /\ status' = [status EXCEPT ![t] = "running"]

Finish(t, outcome) == /\ status[t] = "running"
                      /\ status' = [status EXCEPT ![t] = outcome]

Next == \/ Submit
        \/ \E t \in Tasks : Start(t)
        \/ \E t \in Tasks, outcome \in Terminal : Finish(t, outcome)

Spec == Init /\ [][Next]_status

-----------------------------------------------------------------------------
(***************************************************************************)
(* A task that has been started, whatever became of it, had and still has  *)
(* all its dependencies completed: the promise of TaskQueue::all_ready.    *)
(***************************************************************************)
StartedInOrder ==
  \A t \in Tasks : status[t] \in {"running"} \cup Terminal => Unblocked(t)
=============================================================================
