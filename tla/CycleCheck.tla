------------------------------ MODULE CycleCheck ------------------------------
(***************************************************************************)
(* TaskQueue::has_cycle, the depth-first search that validates a plan.     *)
(* dfs_cycle is recursive; here its call stack is part of the state, so    *)
(* that a step is one call up to its loop, one return, or one iteration.   *)
(*                                                                         *)
(* The search runs over any queue, some of whose dependencies may name     *)
(* tasks that are not queued.  The order in which the HashMap yields its   *)
(* keys and the order of a task's dependencies are left open.              *)
(***************************************************************************)
EXTENDS Integers, Sequences, Cycles

CONSTANTS Nodes,    \* the ids of the queued tasks
          Missing   \* ids that are named as dependencies but not queued

Ids == Nodes \cup Missing

VARIABLES deps,     \* deps[n]: the dependencies of queued task n
          keys,     \* the keys of the HashMap that has_cycle has still to visit
          visited,  \* visited[id]: 0 not in the map, 1 in progress, 2 done
          path,     \* the ids of the calls of dfs_cycle that have not returned
          todo,     \* todo[id]: the dependencies the loop has still to search
          answer    \* "unknown" until has_cycle returns

searchVars == <<deps, keys, visited, path, todo, answer>>

\* self.tasks.get(&id): an id that is not queued has no dependencies.
Dependencies(id) == IF id \in Nodes THEN deps[id] ELSE {}

Deepest == path[Len(path)]

\* Slip: a finished node is not recoloured, so a second path to it looks like
\* a back edge.
MarkDone_Forgets(colour, id) == colour

\* visited.insert(id, 2)
MarkDone(colour, id) == [colour EXCEPT ![id] = 2]

-----------------------------------------------------------------------------
SearchInit ==
  /\ deps \in [Nodes -> SUBSET Ids]
  /\ keys = Nodes
  /\ visited = [id \in Ids |-> 0]
  /\ path = <<>>
  /\ todo = [id \in Ids |-> Dependencies(id)]
  /\ answer = "unknown"

\* dfs_cycle(id) up to its loop: an open node is a back edge, and the calls
\* all return true; a finished one is left alone.
Dfs(id) ==
  /\ answer' = IF visited[id] = 1 THEN "cycle" ELSE answer
  /\ IF visited[id] = 0
     THEN visited' = [visited EXCEPT ![id] = 1] /\ path' = Append(path, id)
     ELSE UNCHANGED <<visited, path>>

\* One iteration of has_cycle's loop.
SearchFrom(n) ==
  /\ path = <<>> /\ n \in keys
  /\ keys' = keys \ {n}
  /\ Dfs(n)
  /\ UNCHANGED <<deps, todo>>

\* One iteration of the loop of the innermost call.
SearchDependency(d) ==
  /\ path # <<>> /\ d \in todo[Deepest]
  /\ todo' = [todo EXCEPT ![Deepest] = @ \ {d}]
  /\ Dfs(d)
  /\ UNCHANGED <<deps, keys>>

\* The innermost call has met no cycle.
DfsReturns ==
  /\ path # <<>> /\ todo[Deepest] = {}
  /\ visited' = MarkDone(visited, Deepest)
  /\ path' = SubSeq(path, 1, Len(path) - 1)
  /\ UNCHANGED <<deps, keys, todo, answer>>

HasCycleReturns ==
  /\ path = <<>> /\ keys = {}
  /\ answer' = "acyclic"
  /\ UNCHANGED <<deps, keys, visited, path, todo>>

SearchNext ==
  /\ answer = "unknown"
  /\ \/ \E n \in Nodes : SearchFrom(n)
     \/ \E d \in Ids : SearchDependency(d)
     \/ DfsReturns
     \/ HasCycleReturns

SearchSpec == SearchInit /\ [][SearchNext]_searchVars

-----------------------------------------------------------------------------
(***************************************************************************)
(* has_cycle answers "cycle" exactly for the queues that have one: shared  *)
(* dependencies and dependencies that are not queued are no cycles, and    *)
(* colours kept between the roots hide none.                               *)
(***************************************************************************)
SearchIsExact == answer # "unknown" => (answer = "cycle") = CycleIn(Nodes, deps)
=============================================================================
