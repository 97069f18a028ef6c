----------------------------- MODULE MCWorkflow -----------------------------
(* Definitions in the shape of the pre-built ones, and one with loops. *)
EXTENDS Workflow
CONSTANTS loop, single

Task(condition, onFailure, max, target) ==
  [type |-> "task", ifTrue |-> 0, ifFalse |-> 0,
   condition |-> condition, onFailure |-> onFailure, max |-> max, target |-> target]
Branch(condition, yes, no) ==
  [type |-> "branch", ifTrue |-> yes, ifFalse |-> no,
   condition |-> condition, onFailure |-> "abort", max |-> 0, target |-> 0]

\* lead_qualification: qualify, branch, assign with retries, follow up, notify.
Lead == << Task("always", "abort", 0, 0), Branch("ifPreviousSucceeded", 3, 5),
           Task("always", "retry", 1, 0), Task("ifPreviousSucceeded", "skip", 0, 0),
           Task("expression", "skip", 0, 0) >>

\* A step that jumps back when it fails, one that is retried, and a loop.
Looping == << Task("always", "retry", 1, 0), Task("expression", "goto", 0, 1),
              Branch("always", 1, 0) >>

Definitions == {Lead, Looping}
=============================================================================
