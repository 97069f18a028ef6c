-------------------------------- MODULE Cycles --------------------------------
(***************************************************************************)
(* What a cycle in the dependencies of a task queue is: some of the queued *)
(* tasks all wait for one another.  Orchestrator rejects a plan by this    *)
(* definition, and CycleCheck shows that the search of the code decides it.*)
(***************************************************************************)
WaitForEachOther(S, dependencies) == \A n \in S : dependencies[n] \cap S # {}

CycleIn(queue, dependencies) ==
  \E S \in SUBSET queue : S # {} /\ WaitForEachOther(S, dependencies)
=============================================================================
