------------------------ MODULE SubAgentSpawner_proofs ------------------------
(***************************************************************************)
(* Theorems about SubAgentSpawner, for any number of calls and any limits. *)
(***************************************************************************)
EXTENDS SubAgentSpawner, FiniteSetTheorems, TLAPS

\* The calls that passed the check for p and have not added their task.
Passed(p) == {c \in InFlight : parent[c] = p}

(***************************************************************************)
(* A call that passed the check holds a promise that is still valid: its   *)
(* parent is queued and never leaves, and depths of queued tasks are never *)
(* changed.                                                                *)
(***************************************************************************)
PromiseKept ==
  /\ Roots \subseteq queued
  /\ \A c \in Calls : c \in queued <=> pc[c] = "done"
  /\ \A c \in Calls : pc[c] \in {"checked", "done"} =>
       /\ parent[c] \in queued
       /\ depth[c] = depth[parent[c]] + 1
       /\ depth[c] <= MaxDepth

(***************************************************************************)
(* Children and calls on their way to become children are bounded         *)
(* together: a call passes while there are at most MaxChildren - 1         *)
(* children, and at most MaxInFlight calls are in flight.                  *)
(***************************************************************************)
Headroom ==
  /\ Cardinality(InFlight) <= MaxInFlight
  /\ \A p \in Ids : Cardinality(Children(p)) + Cardinality(Passed(p))
                      <= MaxChildren + MaxInFlight - 1

SpawnerInv == TypeOK /\ PromiseKept /\ Headroom

LEMMA SpawnerInit == Init => SpawnerInv
<1> SUFFICES ASSUME Init PROVE SpawnerInv
  OBVIOUS
<1> USE SpawnerAssumption DEF Init
<1>1. TypeOK
  BY DEF TypeOK, Ids
<1>2. PromiseKept
  BY DEF PromiseKept
<1>3. InFlight = {} /\ \A p \in Ids : Children(p) = {} /\ Passed(p) = {}
  BY DEF InFlight, Children, Passed
<1>4. Headroom
  <2>1. Cardinality(InFlight) = 0
    BY <1>3, FS_EmptySet
  <2>2. \A p \in Ids : Cardinality(Children(p)) = 0 /\ Cardinality(Passed(p)) = 0
    BY <1>3, FS_EmptySet
  <2> QED BY <2>1, <2>2 DEF Headroom
<1> QED BY <1>1, <1>2, <1>4 DEF SpawnerInv

\* Every set of calls is finite.
LEMMA FiniteCalls ==
  /\ IsFiniteSet(InFlight) /\ Cardinality(InFlight) \in Nat
  /\ \A p : /\ IsFiniteSet(Children(p)) /\ Cardinality(Children(p)) \in Nat
            /\ IsFiniteSet(Passed(p)) /\ Cardinality(Passed(p)) \in Nat
            /\ Cardinality(Passed(p)) <= Cardinality(InFlight)
<1>1. InFlight \subseteq Calls /\ IsFiniteSet(InFlight) /\ Cardinality(InFlight) \in Nat
  BY SpawnerAssumption, FS_Subset, FS_CardinalityType DEF InFlight
<1>2. ASSUME NEW p
      PROVE  /\ IsFiniteSet(Children(p)) /\ Cardinality(Children(p)) \in Nat
             /\ IsFiniteSet(Passed(p)) /\ Cardinality(Passed(p)) \in Nat
             /\ Cardinality(Passed(p)) <= Cardinality(InFlight)
  <2>1. Children(p) \subseteq Calls /\ Passed(p) \subseteq InFlight
    BY DEF Children, Passed
  <2> QED BY <1>1, <2>1, SpawnerAssumption, FS_Subset, FS_CardinalityType
<1> QED BY <1>1, <1>2

LEMMA CheckStep ==
  ASSUME SpawnerInv, NEW c \in Calls, NEW p \in Ids, Check(c, p)
  PROVE  SpawnerInv'
<1> USE SpawnerAssumption
<1>1. TypeOK'
  BY DEF SpawnerInv, Check, TypeOK, Ids
<1>2. c \notin queued /\ pc[c] = "start"
  BY DEF SpawnerInv, PromiseKept, Check
<1>3. PromiseKept'
  BY <1>2 DEF SpawnerInv, PromiseKept, TypeOK, Check, DepthAllowed, Ids
<1>4. \A q \in Ids : Children(q)' = Children(q)
  BY <1>2 DEF SpawnerInv, TypeOK, Check, Children
<1>5. Headroom'
  <2>1. CASE pc' = [pc EXCEPT ![c] = "refused"]
    <3>1. InFlight' = InFlight
      BY <1>2, <2>1 DEF SpawnerInv, TypeOK, InFlight
    <3>2. \A q \in Ids : Passed(q)' = Passed(q)
      BY <1>2, <3>1 DEF Passed, InFlight, Check, SpawnerInv, TypeOK
    <3> QED BY <1>4, <3>1, <3>2 DEF SpawnerInv, Headroom
  <2>2. CASE /\ pc' = [pc EXCEPT ![c] = "checked"]
             /\ FanOutAllowed(p)
    <3>1. InFlight' = InFlight \cup {c} /\ c \notin InFlight
      BY <1>2, <2>2 DEF SpawnerInv, TypeOK, InFlight
    <3>2. Cardinality(InFlight') = Cardinality(InFlight) + 1
      BY <3>1, FiniteCalls, FS_AddElement
    <3>3. Cardinality(InFlight') <= MaxInFlight
      BY <3>2, FiniteCalls DEF Check
    <3>4. ASSUME NEW q \in Ids
          PROVE  Cardinality(Children(q)') + Cardinality(Passed(q)')
                   <= MaxChildren + MaxInFlight - 1
      <4>1. CASE q = p
        <5>1. Passed(q)' \subseteq InFlight' /\ IsFiniteSet(InFlight')
          BY <3>1, FiniteCalls, FS_AddElement DEF Passed
        <5>2. Cardinality(Passed(q)') <= MaxInFlight /\ Cardinality(Passed(q)') \in Nat
          BY <5>1, <3>3, FS_Subset, FS_CardinalityType
        <5>3. Cardinality(Children(q)') <= MaxChildren - 1
          BY <1>4, <2>2, <4>1, FiniteCalls DEF FanOutAllowed
        <5> QED BY <1>4, <5>2, <5>3, FiniteCalls
      <4>2. CASE q # p
        <5>1. Passed(q)' = Passed(q)
          BY <1>2, <3>1, <4>2 DEF Passed, Check, SpawnerInv, TypeOK, InFlight
        <5> QED BY <1>4, <5>1 DEF SpawnerInv, Headroom
      <4> QED BY <4>1, <4>2
    <3> QED BY <3>3, <3>4 DEF Headroom
  <2> QED BY <2>1, <2>2 DEF Check
<1> QED BY <1>1, <1>3, <1>5 DEF SpawnerInv

LEMMA InsertStep ==
  ASSUME SpawnerInv, NEW c \in Calls, Insert(c)
  PROVE  SpawnerInv'
<1> USE SpawnerAssumption
<1>1. TypeOK'
  BY DEF SpawnerInv, Insert, TypeOK, Ids
<1>2. c \notin queued /\ pc[c] = "checked"
  BY DEF SpawnerInv, PromiseKept, Insert
<1>3. PromiseKept'
  BY DEF SpawnerInv, PromiseKept, TypeOK, Insert
<1>4. InFlight' = InFlight \ {c} /\ c \in InFlight
  BY <1>2 DEF SpawnerInv, TypeOK, Insert, InFlight
<1>5. Cardinality(InFlight') <= MaxInFlight
  <2>1. Cardinality(InFlight') = Cardinality(InFlight) - 1
    BY <1>4, FiniteCalls, FS_RemoveElement
  <2> QED BY <2>1, FiniteCalls DEF SpawnerInv, Headroom
<1>6. ASSUME NEW q \in Ids
      PROVE  Cardinality(Children(q)') + Cardinality(Passed(q)')
               <= MaxChildren + MaxInFlight - 1
  <2>1. CASE parent[c] = q
    <3>1. Children(q)' = Children(q) \cup {c} /\ c \notin Children(q)
      BY <1>2, <2>1 DEF Insert, Children
    <3>2. Passed(q)' = Passed(q) \ {c} /\ c \in Passed(q)
      BY <1>4, <2>1 DEF Insert, Passed
    <3>3. Cardinality(Children(q)') = Cardinality(Children(q)) + 1
      BY <3>1, FiniteCalls, FS_AddElement
    <3>4. Cardinality(Passed(q)') = Cardinality(Passed(q)) - 1
      BY <3>2, FiniteCalls, FS_RemoveElement
    <3> QED BY <3>3, <3>4, FiniteCalls DEF SpawnerInv, Headroom
  <2>2. CASE parent[c] # q
    <3>1. Children(q)' = Children(q)
      BY <2>2 DEF Insert, Children
    <3>2. Passed(q)' = Passed(q)
      BY <1>4, <2>2 DEF Insert, Passed
    <3> QED BY <3>1, <3>2 DEF SpawnerInv, Headroom
  <2> QED BY <2>1, <2>2
<1> QED BY <1>1, <1>3, <1>5, <1>6 DEF SpawnerInv, Headroom

LEMMA SpawnerStep == SpawnerInv /\ [Next]_vars => SpawnerInv'
<1>1. SpawnerInv /\ UNCHANGED vars => SpawnerInv'
  BY DEF vars, SpawnerInv, TypeOK, PromiseKept, Headroom, InFlight, Children, Passed
<1> QED BY <1>1, CheckStep, InsertStep DEF Next

(***************************************************************************)
(* The depth limit holds however calls overlap: the value read before the  *)
(* lock is released is still right when the task is added.                 *)
(***************************************************************************)
THEOREM DepthIsBounded == Spec => []BoundedForest
<1>1. SpawnerInv => BoundedForest
  BY DEF SpawnerInv, PromiseKept, BoundedForest
<1> QED BY <1>1, SpawnerInit, SpawnerStep, PTL DEF Spec

(***************************************************************************)
(* The fan-out limit is overshot by at most the overlapping calls.         *)
(***************************************************************************)
THEOREM OvershootIsBounded == Spec => []FanOutOvershoot
<1>1. SpawnerInv => FanOutOvershoot
  <2> SUFFICES ASSUME SpawnerInv, NEW p \in queued
               PROVE  Cardinality(Children(p)) <= MaxChildren + MaxInFlight - 1
    BY DEF FanOutOvershoot
  <2>1. p \in Ids
    BY DEF SpawnerInv, TypeOK
  <2> QED BY <2>1, FiniteCalls, SpawnerAssumption DEF SpawnerInv, Headroom
<1> QED BY <1>1, SpawnerInit, SpawnerStep, PTL DEF Spec
=============================================================================
