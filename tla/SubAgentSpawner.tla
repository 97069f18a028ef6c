---------------------------- MODULE SubAgentSpawner ----------------------------
(***************************************************************************)
(* SubAgentSpawner::spawn called concurrently on one queue.  A call checks *)
(* the depth and fan-out limits under a read lock, releases it, and adds   *)
(* its task under a write lock: two calls may both pass the check before   *)
(* either has added its task.                                              *)
(***************************************************************************)
EXTENDS Integers, FiniteSets

CONSTANTS
  Roots,        \* tasks queued by something else, at depth 0
  Calls,        \* calls of spawn(); each names the task it would create
  MaxDepth,     \* with_max_depth, a u32
  MaxChildren,  \* with_max_children, a u32
  MaxInFlight   \* bound: how many calls overlap

Ids == Roots \cup Calls

ASSUME SpawnerAssumption ==
  /\ IsFiniteSet(Calls)
  /\ Roots \cap Calls = {}
  /\ MaxDepth \in Nat /\ MaxChildren \in Nat
  /\ MaxInFlight \in Nat \ {0}

VARIABLES
  queued,   \* the ids of the tasks in the queue
  parent,   \* parent[c]: Task::parent_task of the task that call c adds
  depth,    \* depth[t]: Task::depth
  pc        \* where call c is: "start", "checked" or "done", or "refused"

vars == <<queued, parent, depth, pc>>

TypeOK == /\ queued \in SUBSET Ids
          /\ parent \in [Calls -> Ids]
          /\ depth \in [Ids -> Nat]
          /\ pc \in [Calls -> {"start", "checked", "done", "refused"}]

Children(p) == {c \in queued \cap Calls : parent[c] = p}
InFlight    == {c \in Calls : pc[c] = "checked"}

Init == /\ queued = Roots
        /\ parent = [c \in Calls |-> c]     \* not yet requested
        /\ depth = [t \in Ids |-> 0]
        /\ pc = [c \in Calls |-> "start"]

\* Slips: the limits are compared one off.
DepthAllowed_Late(p)  == ~ (depth[p] > MaxDepth)
FanOutAllowed_Late(p) == ~ (Cardinality(Children(p)) > MaxChildren)

DepthAllowed(p)  == ~ (depth[p] + 1 > MaxDepth)
FanOutAllowed(p) == ~ (Cardinality(Children(p)) >= MaxChildren)

\* The read phase, and the comparison with max_children after the lock.
Check(c, p) ==
  /\ pc[c] = "start"
  /\ Cardinality(InFlight) < MaxInFlight
  /\ parent' = [parent EXCEPT ![c] = p]
  /\ IF p \in queued /\ DepthAllowed(p) /\ FanOutAllowed(p)
     THEN /\ depth' = [depth EXCEPT ![c] = depth[p] + 1]
          /\ pc' = [pc EXCEPT ![c] = "checked"]
     ELSE /\ pc' = [pc EXCEPT ![c] = "refused"]
          /\ UNCHANGED depth
  /\ UNCHANGED queued

\* The write phase.
Insert(c) ==
  /\ pc[c] = "checked"
  /\ queued' = queued \cup {c}
  /\ pc' = [pc EXCEPT ![c] = "done"]
  /\ UNCHANGED <<parent, depth>>

Next == \E c \in Calls : Insert(c) \/ \E p \in Ids : Check(c, p)

Spec == Init /\ [][Next]_vars

-----------------------------------------------------------------------------
(***************************************************************************)
(* Every task of the queue is within the depth limit and one level below   *)
(* its parent, which is queued too: the tasks form a forest whose height   *)
(* is bounded, so recursion cannot run away in depth.                      *)
(***************************************************************************)
BoundedForest ==
  \A c \in queued \cap Calls : /\ parent[c] \in queued
                               /\ depth[c] = depth[parent[c]] + 1
                               /\ depth[c] <= MaxDepth

(***************************************************************************)
(* The fan-out limit is overshot by at most the calls that overlap: with   *)
(* one call at a time it is exact.                                         *)
(***************************************************************************)
FanOutOvershoot ==
  \A p \in queued : Cardinality(Children(p)) <= MaxChildren + MaxInFlight - 1
=============================================================================
