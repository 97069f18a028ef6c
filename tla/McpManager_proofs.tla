-------------------------- MODULE McpManager_proofs --------------------------
(***************************************************************************)
(* Theorems about McpManager, for any servers, tool calls, capacity of the *)
(* pipes and number of troubles.                                           *)
(***************************************************************************)
EXTENDS McpManager, FiniteSetTheorems, SequenceTheorems, TLAPS

-----------------------------------------------------------------------------
(* Types *)

\* An actor has a client exactly while it is in a request.
Placed == \A a \in Actors : at[a] \in InRequest <=> client[a] # Nobody

\* There is an attempt left when one is made.
Tried == at[Manager] = "reconnect" => tries < MaxAttempts

\* The servers still to be checked have a client, and so does a new connection.
Listed == /\ \A x \in rest : servers[x].client # Nobody
          /\ at[Manager] = "swap" => fresh # Nobody

\* A sender in the map belongs to the request that holds its id.
Filed == \A k \in Clients, i \in Ids, a \in Actors :
           pending[k][i] = a => client[a] = k /\ id[a] = i

PlaceInv == TypeOK /\ Placed /\ Tried /\ Listed

\* An id that no message and no request carries exists: a pipe holds at most
\* Room messages, and the actor that asks has no request yet.
LEMMA FreshIdExists ==
  ASSUME PlaceInv, NEW k \in Clients, NEW a \in Actors, at[a] \notin InRequest
  PROVE  FreshId(k) \in Ids /\ FreshId(k) \notin OnWire(k) \cup Awaited(k)
<1> DEFINE asking == {b \in Actors : client[b] = k}
<1>1. IsFiniteSet(Actors) /\ Cardinality(Actors) \in Nat
  BY McpAssumption, FS_AddElement, FS_CardinalityType DEF Actors
<1>2. IsFiniteSet(OnWire(k)) /\ Cardinality(OnWire(k)) <= Room
  <2> DEFINE f == [n \in 1..Len(pipe[k]) |-> pipe[k][n].id]
  <2>1. Len(pipe[k]) \in 0..Room /\ DOMAIN pipe[k] = 1..Len(pipe[k])
    BY DEF PlaceInv, TypeOK
  <2>2. f \in Surjection(1..Len(pipe[k]), OnWire(k))
    BY <2>1 DEF Surjection, OnWire, Pipe
  <2>3. IsFiniteSet(1..Len(pipe[k])) /\ Cardinality(1..Len(pipe[k])) <= Room
    <3> DEFINE n == Len(pipe[k])
    <3>1. n \in Nat /\ n <= Room
      BY <2>1, McpAssumption
    <3> HIDE DEF n
    <3>2. IsFiniteSet(1..n) /\ Cardinality(1..n) = IF 1 > n THEN 0 ELSE n - 1 + 1
      BY <3>1, FS_Interval
    <3>3. IsFiniteSet(1..n) /\ Cardinality(1..n) <= Room
      BY <3>1, <3>2, McpAssumption
    <3> QED BY <3>3 DEF n
  <2>4. /\ IsFiniteSet(OnWire(k))
        /\ Cardinality(OnWire(k)) <= Cardinality(1..Len(pipe[k]))
    BY <2>2, <2>3, FS_Surjection
  <2> QED BY <2>3, <2>4, <2>1, FS_CardinalityType, McpAssumption
<1>3. IsFiniteSet(asking) /\ Cardinality(asking) < Cardinality(Actors)
  <2>1. asking \in SUBSET (Actors \ {a})
    BY McpAssumption DEF PlaceInv, Placed
  <2>2. IsFiniteSet(Actors \ {a}) /\ Cardinality(Actors \ {a}) = Cardinality(Actors) - 1
    BY <1>1, FS_RemoveElement
  <2>3. IsFiniteSet(asking) /\ Cardinality(asking) <= Cardinality(Actors \ {a})
    BY <2>1, <2>2, FS_Subset
  <2> QED BY <1>1, <2>2, <2>3, FS_CardinalityType
<1>4. IsFiniteSet(Awaited(k)) /\ Cardinality(Awaited(k)) <= Cardinality(asking)
  <2> DEFINE g == [b \in asking |-> id[b]]
  <2>1. g \in Surjection(asking, Awaited(k))
    BY DEF Surjection, Awaited
  <2> QED BY <1>3, <2>1, FS_Surjection
<1> DEFINE taken == OnWire(k) \cup Awaited(k)
<1>5. IsFiniteSet(taken) /\ Cardinality(taken) < Room + Cardinality(Actors)
  <2>1. IsFiniteSet(taken)
    BY <1>2, <1>4, FS_Union
  <2>2. Cardinality(taken) = Cardinality(OnWire(k)) + Cardinality(Awaited(k))
                               - Cardinality(OnWire(k) \cap Awaited(k))
    BY <1>2, <1>4, FS_Union
  <2>3. Cardinality(OnWire(k) \cap Awaited(k)) \in Nat
    BY <1>2, FS_Intersection, FS_CardinalityType
  <2>4. Cardinality(OnWire(k)) \in Nat /\ Cardinality(Awaited(k)) \in Nat /\ Cardinality(asking) \in Nat
    BY <1>2, <1>3, <1>4, FS_CardinalityType
  <2> QED BY <1>1, <1>2, <1>3, <1>4, <2>1, <2>2, <2>3, <2>4, McpAssumption
<1>6. IsFiniteSet(Ids) /\ Cardinality(Ids) = Room + Cardinality(Actors)
  <2> DEFINE n == Room + Cardinality(Actors)
  <2>1. n \in Nat \ {0}
    BY <1>1, McpAssumption
  <2> HIDE DEF n
  <2>2. IsFiniteSet(1..n) /\ Cardinality(1..n) = IF 1 > n THEN 0 ELSE n - 1 + 1
    BY <2>1, FS_Interval
  <2>3. IsFiniteSet(1..n) /\ Cardinality(1..n) = n
    BY <2>1, <2>2
  <2> QED BY <2>3 DEF Ids, n
<1>7. \E i \in Ids : i \notin taken
  <2> SUFFICES ASSUME Ids \in SUBSET taken PROVE FALSE
    OBVIOUS
  <2>1. Cardinality(Ids) <= Cardinality(taken)
    BY <1>5, FS_Subset
  <2> QED BY <1>1, <1>5, <1>6, <2>1, FS_CardinalityType, McpAssumption
<1> QED BY <1>7 DEF FreshId

LEMMA PlaceInit == Init => PlaceInv
<1> SUFFICES ASSUME Init PROVE PlaceInv
  OBVIOUS
<1> USE McpAssumption
<1>1. 1 \in Ids
  BY FS_AddElement, FS_CardinalityType DEF Ids, Actors
<1>2. Placed /\ Tried /\ Listed
  BY DEF Init, Placed, Tried, Listed, InRequest, Actors
<1>3. pipe \in [Clients -> Seq(Message)] /\ \A k \in Clients : Len(pipe[k]) <= Room
  BY DEF Init
<1>4. /\ command \in [Configs -> Keys]
      /\ tool \in [Configs -> Clients \cup {Nobody}]
      /\ servers \in [Keys -> [client : Clients \cup {Nobody}, config : Configs \cup {Nobody}]]
  BY DEF Init
<1>5. /\ process \in [Clients -> {"none", "up", "hung", "dead"}]
      /\ pending \in [Clients -> [Ids -> Actors \cup {Nobody}]]
      /\ stdin \in [Clients -> Actors \cup {Nobody}]
      /\ torn \in [Clients -> BOOLEAN]
  BY DEF Init
<1>6. /\ at \in [Actors -> CallAt \cup LoopAt]
      /\ client \in [Actors -> Clients \cup {Nobody}]
      /\ id \in [Actors -> Ids]
      /\ reply \in [Actors -> Actors \cup {Nobody}]
      /\ spoilt \subseteq Actors
  BY <1>1 DEF Init, CallAt, LoopAt
<1>7. /\ rest \subseteq Keys /\ key \in Keys
      /\ tries \in 0..MaxAttempts
      /\ fresh \in Clients \cup {Nobody}
      /\ troubles \in 0..MaxTroubles
  BY DEF Init
<1> QED BY <1>2, <1>3, <1>4, <1>5, <1>6, <1>7 DEF PlaceInv, TypeOK

-----------------------------------------------------------------------------
(* Types and places are kept, one lemma for what the actions have in common *)

\* A request begins.
LEMMA EnqueueTyped ==
  ASSUME PlaceInv, NEW a \in Actors, at[a] \notin InRequest, NEW k \in Clients, Enqueue(a, k)
  PROVE  /\ at' \in [Actors -> CallAt \cup LoopAt]
         /\ client' \in [Actors -> Clients \cup {Nobody}]
         /\ id' \in [Actors -> Ids]
         /\ pending' \in [Clients -> [Ids -> Actors \cup {Nobody}]]
         /\ spoilt' \subseteq Actors
         /\ Placed'
<1>1. FreshId(k) \in Ids
  BY FreshIdExists
<1>2. client' \in [Actors -> Clients \cup {Nobody}] /\ id' \in [Actors -> Ids] /\ spoilt' \subseteq Actors
  BY <1>1 DEF Enqueue, PlaceInv, TypeOK
<1>3. at' \in [Actors -> CallAt \cup LoopAt]
  BY DEF Enqueue, PlaceInv, TypeOK, CallAt, InRequest
<1>4. pending' \in [Clients -> [Ids -> Actors \cup {Nobody}]]
  BY <1>1 DEF Enqueue, PlaceInv, TypeOK
<1>5. Placed'
  BY McpAssumption DEF Enqueue, PlaceInv, TypeOK, Placed, InRequest
<1> QED BY <1>2, <1>3, <1>4, <1>5

\* A request ends.
LEMMA OverTyped ==
  ASSUME PlaceInv, NEW a \in Actors, at[a] \in InRequest,
         NEW to \in {"answered", "failed", "gone"}, Over(a, to)
  PROVE  /\ at' \in [Actors -> CallAt \cup LoopAt]
         /\ client' \in [Actors -> Clients \cup {Nobody}]
         /\ id' \in [Actors -> Ids]
         /\ pending' \in [Clients -> [Ids -> Actors \cup {Nobody}]]
         /\ Placed'
<1>1. 1 \in Ids
  BY McpAssumption, FS_AddElement, FS_CardinalityType DEF Ids, Actors
<1>2. client' \in [Actors -> Clients \cup {Nobody}] /\ id' \in [Actors -> Ids]
  BY <1>1 DEF Over, PlaceInv, TypeOK
<1>3. at' \in [Actors -> CallAt \cup LoopAt]
  BY DEF Over, PlaceInv, TypeOK, CallAt
<1>4. pending' \in [Clients -> [Ids -> Actors \cup {Nobody}]]
  <2>1. client[a] \in Clients
    BY DEF PlaceInv, TypeOK, Placed
  <2>2. [i \in Ids |-> IF pending[client[a]][i] = a THEN Nobody ELSE pending[client[a]][i]]
          \in [Ids -> Actors \cup {Nobody}]
    BY <2>1 DEF PlaceInv, TypeOK
  <2> QED BY <2>1, <2>2 DEF Over, PlaceInv, TypeOK
<1>5. Placed'
  BY DEF Over, PlaceInv, TypeOK, Placed, InRequest
<1> QED BY <1>2, <1>3, <1>4, <1>5

\* A connection is made.
LEMMA ConnectTyped ==
  ASSUME PlaceInv, NEW k \in Clients, Connect(k)
  PROVE  /\ process' \in [Clients -> {"none", "up", "hung", "dead"}]
         /\ pending' \in [Clients -> [Ids -> Actors \cup {Nobody}]]
         /\ stdin' \in [Clients -> Actors \cup {Nobody}]
         /\ torn' \in [Clients -> BOOLEAN]
         /\ pipe' \in [Clients -> Seq(Message)] /\ \A j \in Clients : Len(pipe'[j]) <= Room
<1>1. <<>> \in Seq(Message) /\ Len(<<>>) <= Room
  BY McpAssumption
<1>2. [i \in Ids |-> Nobody] \in [Ids -> Actors \cup {Nobody}]
  OBVIOUS
<1>3. /\ process' \in [Clients -> {"none", "up", "hung", "dead"}]
      /\ stdin' \in [Clients -> Actors \cup {Nobody}]
      /\ torn' \in [Clients -> BOOLEAN]
  BY DEF Connect, PlaceInv, TypeOK
<1>4. pending' \in [Clients -> [Ids -> Actors \cup {Nobody}]]
  BY <1>2 DEF Connect, PlaceInv, TypeOK
<1>5. pipe' \in [Clients -> Seq(Message)] /\ \A j \in Clients : Len(pipe'[j]) <= Room
  BY <1>1 DEF Connect, PlaceInv, TypeOK
<1> QED BY <1>3, <1>4, <1>5

LEMMA PlaceStep == PlaceInv /\ Filed /\ [Next]_vars => PlaceInv'
<1> SUFFICES ASSUME PlaceInv, Filed, [Next]_vars PROVE PlaceInv'
  OBVIOUS
<1> USE McpAssumption
<1>m. Manager \in Actors /\ Callers \subseteq Actors
  BY DEF Actors
\* What the steps of the health loop that begin and end no request have in common.
<1>g. ASSUME NEW from \in LoopAt \ InRequest, NEW to \in LoopAt \ InRequest, Goto(Manager, from, to),
             UNCHANGED client
      PROVE  at' \in [Actors -> CallAt \cup LoopAt] /\ Placed'
  BY <1>g, <1>m DEF Goto, PlaceInv, TypeOK, Placed
<1>l. {"start", "idle", "next", "answered", "failed", "reconnect", "swap"} \subseteq LoopAt \ InRequest
  BY DEF LoopAt, InRequest
<1>1. ASSUME NEW c \in Configs, NEW k \in Clients, ConnectServer(c, k) PROVE PlaceInv'
  <2>1. Connect(k) /\ UNCHANGED <<at, client, tries>>
    BY <1>1 DEF ConnectServer, request, loop
  <2>2. Placed' /\ Tried' /\ Listed'
    BY <1>1, <2>1 DEF ConnectServer, loop, PlaceInv, TypeOK, Placed, Tried, Listed
  <2>3. tool' \in [Configs -> Clients \cup {Nobody}]
    BY <1>1 DEF ConnectServer, PlaceInv, TypeOK
  <2>4. servers' \in [Keys -> [client : Clients \cup {Nobody}, config : Configs \cup {Nobody}]]
    BY <1>1 DEF ConnectServer, PlaceInv, TypeOK
  <2> QED BY <1>1, <2>1, <2>2, <2>3, <2>4, ConnectTyped DEF ConnectServer, PlaceInv, TypeOK, request, loop
<1>2. CASE Started
  <2>1. at' \in [Actors -> CallAt \cup LoopAt] /\ Placed' /\ Tried' /\ Listed'
    BY <1>2, <1>g, <1>l, <1>m DEF Started, Goto, loop, Tried, Listed, PlaceInv, TypeOK
  <2> QED BY <1>2, <2>1 DEF Started, PlaceInv, TypeOK, registry, child, wire, loop
<1>3. CASE StartRound
  <2>1. at' \in [Actors -> CallAt \cup LoopAt] /\ Placed' /\ Tried' /\ Listed'
    BY <1>3, <1>g, <1>l, <1>m DEF StartRound, Goto, Tried, Listed, PlaceInv, TypeOK
  <2>2. rest' \subseteq Keys
    BY <1>3 DEF StartRound
  <2> QED BY <1>3, <2>1, <2>2 DEF StartRound, PlaceInv, TypeOK, registry, child, wire
<1>4. CASE EndRound
  <2>1. at' \in [Actors -> CallAt \cup LoopAt] /\ Placed' /\ Tried' /\ Listed'
    BY <1>4, <1>g, <1>l, <1>m DEF EndRound, Goto, loop, Tried, Listed, PlaceInv, TypeOK
  <2> QED BY <1>4, <2>1 DEF EndRound, PlaceInv, TypeOK, registry, child, wire, loop
<1>5. CASE Healthy
  <2>1. at' \in [Actors -> CallAt \cup LoopAt] /\ Placed' /\ Tried' /\ Listed'
    BY <1>5, <1>g, <1>l, <1>m DEF Healthy, Goto, loop, Tried, Listed, PlaceInv, TypeOK
  <2> QED BY <1>5, <2>1 DEF Healthy, PlaceInv, TypeOK, registry, child, wire, loop
<1>6. CASE Unhealthy
  <2>0. PICK from \in {"answered", "failed"}, to \in {"reconnect", "next"} : Goto(Manager, from, to)
    BY <1>6 DEF Unhealthy, Goto
  <2>1. at' \in [Actors -> CallAt \cup LoopAt] /\ Placed'
    BY <1>6, <1>g, <1>l, <2>0 DEF Unhealthy
  <2>2. Tried' /\ Listed' /\ tries' \in 0..MaxAttempts
    BY <1>6, <1>m DEF Unhealthy, Goto, Tried, Listed, PlaceInv, TypeOK
  <2> QED BY <1>6, <2>1, <2>2 DEF Unhealthy, PlaceInv, TypeOK, registry, child, wire
<1>7. CASE AttemptFails
  <2>1. at' \in [Actors -> CallAt \cup LoopAt] /\ Placed'
    BY <1>7, <1>g, <1>l DEF AttemptFails
  <2>2. tries < MaxAttempts /\ tries \in Nat
    BY <1>7 DEF AttemptFails, Goto, PlaceInv, TypeOK, Tried
  <2>3. Tried' /\ Listed' /\ tries' \in 0..MaxAttempts
    BY <1>7, <1>m, <2>2 DEF AttemptFails, Goto, Tried, Listed, PlaceInv, TypeOK
  <2> QED BY <1>7, <2>1, <2>3 DEF AttemptFails, PlaceInv, TypeOK, registry, child, wire
<1>8. CASE Swap
  <2>1. at' \in [Actors -> CallAt \cup LoopAt] /\ Placed'
    BY <1>8, <1>g, <1>l DEF Swap
  <2>2. Tried' /\ Listed' /\ tries' \in 0..MaxAttempts
    BY <1>8, <1>m DEF Swap, Goto, Tried, Listed, PlaceInv, TypeOK
  <2>3. servers' \in [Keys -> [client : Clients \cup {Nobody}, config : Configs \cup {Nobody}]]
    <3>1. servers' = [servers EXCEPT ![key].client = fresh]
      BY <1>8 DEF Swap
    <3>2. [servers[key] EXCEPT !.client = fresh] \in [client : Clients \cup {Nobody}, config : Configs \cup {Nobody}]
      <4>1. servers[key] \in [client : Clients \cup {Nobody}, config : Configs \cup {Nobody}]
            /\ fresh \in Clients \cup {Nobody}
        BY DEF PlaceInv, TypeOK
      <4> QED BY <4>1
    <3> QED BY <3>1, <3>2 DEF PlaceInv, TypeOK
  <2>4. process' \in [Clients -> {"none", "up", "hung", "dead"}]
    <3>1. process' \in {process, [process EXCEPT ![servers[key].client] = "none"]}
      BY <1>8 DEF Swap
    <3> QED BY <3>1 DEF PlaceInv, TypeOK
  <2>5. pipe' \in [Clients -> Seq(Message)] /\ \A j \in Clients : Len(pipe'[j]) <= Room
    <3>1. <<>> \in Seq(Message) /\ Len(<<>>) <= Room
      OBVIOUS
    <3> QED BY <1>8, <3>1 DEF Swap, PlaceInv, TypeOK
  <2> QED BY <1>8, <2>1, <2>2, <2>3, <2>4, <2>5 DEF Swap, PlaceInv, TypeOK, registry
<1>9. ASSUME NEW x \in Keys, Check(x) PROVE PlaceInv'
  <2>1. at[Manager] = "next" /\ at[Manager] \notin InRequest
    BY <1>9 DEF Check, InRequest
  <2>2. servers[x].client \in Clients
    BY <1>9 DEF Check, Listed, PlaceInv, TypeOK
  <2>3. Enqueue(Manager, servers[x].client)
    BY <1>9 DEF Check
  <2>4. Tried' /\ Listed'
    BY <1>9, <2>3, <1>m DEF Check, Enqueue, Tried, Listed, PlaceInv, TypeOK
  <2>5. reply' \in [Actors -> Actors \cup {Nobody}] /\ rest' \subseteq Keys /\ key' \in Keys
    BY <1>9, <1>m DEF Check, PlaceInv, TypeOK
  <2> QED BY <1>9, <1>m, <2>1, <2>2, <2>3, <2>4, <2>5, EnqueueTyped
          DEF Check, PlaceInv, TypeOK, registry, child, wire
<1>10. ASSUME NEW k \in Clients, Reconnect(k) PROVE PlaceInv'
  <2>1. at' \in [Actors -> CallAt \cup LoopAt] /\ Placed' /\ Tried' /\ Listed'
    BY <1>10, <1>g, <1>l, <1>m DEF Reconnect, Goto, Tried, Listed, PlaceInv, TypeOK
  <2>2. Connect(k) /\ fresh' = k
    BY <1>10 DEF Reconnect
  <2> QED BY <1>10, <2>1, <2>2, ConnectTyped DEF Reconnect, PlaceInv, TypeOK, registry
<1>11. ASSUME NEW a \in Actors, LockStdin(a) PROVE PlaceInv'
  <2>1. at' \in [Actors -> CallAt \cup LoopAt] /\ Placed' /\ Tried' /\ Listed'
    BY <1>11, <1>m DEF LockStdin, Goto, loop, Tried, Listed, Placed, InRequest, CallAt, PlaceInv, TypeOK
  <2>2. stdin' \in [Clients -> Actors \cup {Nobody}]
    BY <1>11 DEF LockStdin, PlaceInv, TypeOK
  <2> QED BY <1>11, <2>1, <2>2 DEF LockStdin, PlaceInv, TypeOK, registry, child, loop
<1>12. ASSUME NEW a \in Actors, Write(a) PROVE PlaceInv'
  <2>1. at' \in [Actors -> CallAt \cup LoopAt] /\ Placed' /\ Tried' /\ Listed'
    BY <1>12, <1>m DEF Write, Goto, loop, Tried, Listed, Placed, InRequest, CallAt, PlaceInv, TypeOK
  <2>2. stdin' \in [Clients -> Actors \cup {Nobody}] /\ torn' \in [Clients -> BOOLEAN] /\ spoilt' \subseteq Actors
    BY <1>12 DEF Write, PlaceInv, TypeOK
  <2>3. client[a] \in Clients
    BY <1>12 DEF Write, Goto, Placed, InRequest, PlaceInv, TypeOK
  <2> DEFINE m == [id |-> id[a], of |-> a, junk |-> torn[client[a]]]
  <2>4. m \in Message
    <3>1. torn[client[a]] \in BOOLEAN
      BY <2>3 DEF PlaceInv, TypeOK
    <3> QED BY <3>1 DEF Message, PlaceInv, TypeOK
  <2>5. pipe' = [pipe EXCEPT ![client[a]] = Append(@, m)] /\ Len(pipe[client[a]]) < Room
    BY <1>12 DEF Write
  <2>6. pipe' \in [Clients -> Seq(Message)] /\ \A j \in Clients : Len(pipe'[j]) <= Room
    <3> HIDE DEF m
    <3>1. pipe[client[a]] \in Seq(Message)
      BY <2>3 DEF PlaceInv, TypeOK
    <3>2. /\ Append(pipe[client[a]], m) \in Seq(Message)
          /\ Len(Append(pipe[client[a]], m)) = Len(pipe[client[a]]) + 1
          /\ Len(pipe[client[a]]) \in Nat
      BY <3>1, <2>4
    <3> QED BY <2>3, <2>5, <3>2 DEF PlaceInv, TypeOK
  <2> QED BY <1>12, <2>1, <2>2, <2>6 DEF Write, PlaceInv, TypeOK, registry, child, loop
<1>13. ASSUME NEW a \in Actors, WriteFails(a) PROVE PlaceInv'
  <2>1. at[a] \in InRequest /\ Over(a, "failed")
    BY <1>13 DEF WriteFails, InRequest
  <2>2. Tried' /\ Listed'
    BY <1>13, <1>m, <2>1 DEF WriteFails, Over, Tried, Listed, loop, PlaceInv, TypeOK
  <2>3. stdin' \in [Clients -> Actors \cup {Nobody}]
    BY <1>13 DEF WriteFails, PlaceInv, TypeOK
  <2> QED BY <1>13, <2>1, <2>2, <2>3, OverTyped DEF WriteFails, PlaceInv, TypeOK, registry, child, loop
<1>14. ASSUME NEW a \in Actors, TimeOut(a) PROVE PlaceInv'
  <2>1. at[a] \in InRequest /\ Over(a, "failed")
    BY <1>14 DEF TimeOut, InRequest
  <2>2. Tried' /\ Listed'
    BY <1>14, <1>m, <2>1 DEF TimeOut, Over, Tried, Listed, loop, PlaceInv, TypeOK
  <2> QED BY <1>14, <2>1, <2>2, OverTyped DEF TimeOut, PlaceInv, TypeOK, registry, child, wire, loop
<1>15. ASSUME NEW a \in Callers, NEW c \in Configs, CallTool(a, c) PROVE PlaceInv'
  <2>1. at[a] \notin InRequest /\ tool[c] \in Clients /\ Enqueue(a, tool[c])
    BY <1>15 DEF CallTool, InRequest, PlaceInv, TypeOK
  <2>2. Tried' /\ Listed'
    BY <1>15, <1>m, <2>1 DEF CallTool, Enqueue, Tried, Listed, loop, PlaceInv, TypeOK
  <2> QED BY <1>15, <1>m, <2>1, <2>2, EnqueueTyped DEF CallTool, PlaceInv, TypeOK, registry, child, wire, loop
<1>16. ASSUME NEW a \in Callers, Vanish(a) PROVE PlaceInv'
  <2>1. at[a] \in InRequest /\ Over(a, "gone")
    BY <1>16 DEF Vanish
  <2>2. Tried' /\ Listed'
    BY <1>16, <1>m, <2>1 DEF Vanish, Over, Tried, Listed, loop, PlaceInv, TypeOK
  <2>3. stdin' \in [Clients -> Actors \cup {Nobody}]
    BY <1>16 DEF Vanish, PlaceInv, TypeOK
  <2>4. torn' \in [Clients -> BOOLEAN]
    BY <1>16 DEF Vanish, PlaceInv, TypeOK
  <2> QED BY <1>16, <1>m, <2>1, <2>2, <2>3, <2>4, OverTyped DEF Vanish, PlaceInv, TypeOK, registry, child, loop
<1>17. ASSUME NEW k \in Clients, Answer(k) PROVE PlaceInv'
  <2> DEFINE m == Head(pipe[k])
             a == pending[k][m.id]
  <2>1. pipe' \in [Clients -> Seq(Message)] /\ \A j \in Clients : Len(pipe'[j]) <= Room
    <3>1. pipe[k] \in Seq(Message) /\ pipe[k] # <<>> /\ Len(pipe[k]) <= Room /\ Room \in Nat
      BY <1>17 DEF Answer, PlaceInv, TypeOK
    <3>2. Tail(pipe[k]) \in Seq(Message) /\ Len(Tail(pipe[k])) <= Room
      BY <3>1
    <3> QED BY <1>17, <3>2 DEF Answer, PlaceInv, TypeOK
  <2>2. CASE UNCHANGED <<pending, at, client, id, reply>>
    <3>1. Placed' /\ Tried' /\ Listed'
      BY <1>17, <2>2 DEF Answer, Placed, Tried, Listed, PlaceInv, loop
    <3> QED BY <1>17, <2>1, <2>2, <3>1 DEF Answer, PlaceInv, TypeOK, registry, child, loop
  <2>3. CASE ~m.junk /\ a # Nobody /\ Over(a, "answered") /\ reply' = [reply EXCEPT ![a] = m.of]
    <3>1. m \in Message
      BY <1>17 DEF Answer, PlaceInv, TypeOK
    <3>2. a \in Actors /\ m.of \in Actors
      BY <2>3, <3>1 DEF Message, PlaceInv, TypeOK
    <3>3. at[a] \in InRequest
      BY <3>1, <3>2 DEF Filed, Placed, Message, PlaceInv
    <3>4. Tried' /\ Listed'
      BY <1>17, <1>m, <2>3, <3>2 DEF Answer, Over, Tried, Listed, loop, PlaceInv, TypeOK
    <3>5. reply' \in [Actors -> Actors \cup {Nobody}]
      BY <2>3, <3>2 DEF PlaceInv, TypeOK
    <3> QED BY <1>17, <2>1, <2>3, <3>2, <3>3, <3>4, <3>5, OverTyped
            DEF Answer, PlaceInv, TypeOK, registry, child, loop
  <2> QED BY <1>17, <2>2, <2>3 DEF Answer
<1>18. ASSUME NEW k \in Clients, Trouble(k) PROVE PlaceInv'
  <2>1. Placed' /\ Tried' /\ Listed'
    BY <1>18 DEF Trouble, Placed, Tried, Listed, PlaceInv, request, loop
  <2>2. process' \in [Clients -> {"none", "up", "hung", "dead"}] /\ troubles' \in 0..MaxTroubles
    <3>1. \E st \in {"hung", "dead"} : process' = [process EXCEPT ![k] = st]
      BY <1>18 DEF Trouble
    <3>2. troubles < MaxTroubles /\ troubles' = troubles + 1
      BY <1>18 DEF Trouble
    <3>3. process' \in [Clients -> {"none", "up", "hung", "dead"}]
      BY <3>1 DEF PlaceInv, TypeOK
    <3>4. troubles' \in 0..MaxTroubles
      BY <3>2 DEF PlaceInv, TypeOK
    <3> QED BY <3>3, <3>4
  <2>3. pipe' \in [Clients -> Seq(Message)] /\ \A j \in Clients : Len(pipe'[j]) <= Room
    <3>1. <<>> \in Seq(Message) /\ Len(<<>>) <= Room
      OBVIOUS
    <3>2. pipe' = pipe \/ pipe' = [pipe EXCEPT ![k] = <<>>]
      BY <1>18 DEF Trouble
    <3>3. CASE pipe' = pipe
      BY <3>3 DEF PlaceInv, TypeOK
    <3>4. CASE pipe' = [pipe EXCEPT ![k] = <<>>]
      BY <3>1, <3>4 DEF PlaceInv, TypeOK
    <3> QED BY <3>2, <3>3, <3>4
  <2> QED BY <1>18, <2>1, <2>2, <2>3 DEF Trouble, PlaceInv, TypeOK, registry, request, loop
<1>19. CASE UNCHANGED vars
  BY <1>19 DEF vars, registry, child, wire, request, loop, PlaceInv, TypeOK, Placed, Tried, Listed
<1> QED BY <1>1, <1>2, <1>3, <1>4, <1>5, <1>6, <1>7, <1>8, <1>9, <1>10, <1>11, <1>12, <1>13, <1>14,
           <1>15, <1>16, <1>17, <1>18, <1>19
    DEF Next, Startup, HealthLoop, Restart, Request, Call

-----------------------------------------------------------------------------
(* Answers *)

\* The sender of a request is in the map for as long as the request lasts.
Kept == \A a \in Actors : at[a] \in InRequest => pending[client[a]][id[a]] = a

\* Where the map still has a sender for a message, it is the one that asked.
Meant == \A k \in Clients : \A m \in Pipe(k) : pending[k][m.id] \in {Nobody, m.of}

Sent(a) == [id |-> id[a], of |-> a, junk |-> FALSE] \in Pipe(client[a])

\* What a request that waits has written has not been read yet.
Unread == \A a \in Actors :
            at[a] = "waiting" /\ process[client[a]] \in {"up", "hung"} => a \in spoilt \/ Sent(a)

WireInv   == Filed /\ Kept /\ Meant /\ Unread
AnswerInv == PlaceInv /\ WireInv /\ OwnAnswer

LEMMA AnswerInit == Init => AnswerInv
<1> SUFFICES ASSUME Init PROVE AnswerInv
  OBVIOUS
<1> USE McpAssumption
<1>1. Filed
  BY DEF Init, Filed, Actors
<1>2. Kept /\ Unread
  BY DEF Init, Kept, Unread, InRequest
<1>3. Meant
  BY DEF Init, Meant, Pipe
<1>4. OwnAnswer
  BY DEF Init, OwnAnswer
<1> QED BY <1>1, <1>2, <1>3, <1>4, PlaceInit DEF AnswerInv, WireInv

\* A step that begins and ends no request, writes nothing and reads nothing
\* that somebody waits for.
LEMMA QuietStep ==
  ASSUME AnswerInv, UNCHANGED <<pending, client, id, spoilt, reply>>,
         \A a \in Actors : /\ at'[a] \in InRequest => at[a] \in InRequest
                           /\ at'[a] = "waiting" => at[a] = "waiting",
         \A k \in Clients :
           \/ pipe'[k] = pipe[k] /\ (process'[k] \in {"up", "hung"} => process[k] \in {"up", "hung"})
           \/ pipe'[k] = <<>> /\ process'[k] \notin {"up", "hung"}
  PROVE  WireInv' /\ OwnAnswer'
<1>1. Filed' /\ Kept' /\ OwnAnswer'
  BY DEF AnswerInv, WireInv, Filed, Kept, InRequest, OwnAnswer
<1>2. \A k \in Clients : Pipe(k)' \subseteq Pipe(k)
  BY DEF Pipe
<1>3. Meant'
  BY <1>2 DEF AnswerInv, WireInv, Meant
<1>4. Unread'
  <2> SUFFICES ASSUME NEW a \in Actors, at'[a] = "waiting", process'[client[a]] \in {"up", "hung"}
               PROVE  a \in spoilt \/ Sent(a)'
    BY DEF Unread
  <2>1. client[a] \in Clients
    <3>1. at[a] \in InRequest
      BY DEF InRequest
    <3> QED BY <3>1 DEF AnswerInv, PlaceInv, TypeOK, Placed
  <2>2. pipe'[client[a]] = pipe[client[a]] /\ process[client[a]] \in {"up", "hung"}
    BY <2>1
  <2>3. at[a] = "waiting" /\ client' = client /\ id' = id
    OBVIOUS
  <2>4. a \in spoilt \/ Sent(a)
    BY <2>2, <2>3 DEF AnswerInv, WireInv, Unread
  <2>5. Pipe(client[a])' = Pipe(client[a])
    BY <2>2, <2>3 DEF Pipe
  <2>6. Sent(a)' = Sent(a)
    BY <2>3, <2>5 DEF Sent
  <2> QED BY <2>4, <2>6
<1> QED BY <1>1, <1>3, <1>4 DEF WireInv

\* A connection is made under a name that no request uses.
LEMMA ConnectStep ==
  ASSUME AnswerInv, NEW k \in Clients, Connect(k), UNCHANGED <<client, id, spoilt, reply>>,
         \A a \in Actors : /\ at'[a] \in InRequest => at[a] \in InRequest
                           /\ at'[a] = "waiting" => at[a] = "waiting"
  PROVE  WireInv' /\ OwnAnswer'
<1> USE McpAssumption
<1>1. \A a \in Actors : client[a] # k
  BY DEF Connect, Held
<1>2. \A j \in Clients : j # k => pending'[j] = pending[j] /\ pipe'[j] = pipe[j] /\ process'[j] = process[j]
  BY DEF Connect, AnswerInv, PlaceInv, TypeOK
<1>3. pending'[k] = [i \in Ids |-> Nobody] /\ pipe'[k] = <<>>
  BY DEF Connect, AnswerInv, PlaceInv, TypeOK
<1>4. Filed'
  BY <1>2, <1>3 DEF AnswerInv, WireInv, Filed, Actors
<1>5. Kept'
  <2> SUFFICES ASSUME NEW a \in Actors, at'[a] \in InRequest PROVE pending'[client[a]][id[a]] = a
    BY DEF Kept, InRequest
  <2>1. at[a] \in InRequest
    OBVIOUS
  <2>2. client[a] \in Clients /\ client[a] # k
    BY <1>1, <2>1 DEF AnswerInv, PlaceInv, TypeOK, Placed
  <2> QED BY <1>2, <2>1, <2>2 DEF AnswerInv, WireInv, Kept
<1>6. Meant'
  <2>1. Pipe(k)' = {}
    BY <1>3 DEF Pipe
  <2>2. \A j \in Clients : j # k => Pipe(j)' = Pipe(j)
    BY <1>2 DEF Pipe
  <2> QED BY <1>2, <2>1, <2>2 DEF AnswerInv, WireInv, Meant
<1>7. Unread'
  <2> SUFFICES ASSUME NEW a \in Actors, at'[a] = "waiting", process'[client[a]] \in {"up", "hung"}
               PROVE  a \in spoilt \/ Sent(a)'
    BY DEF Unread
  <2>1. client[a] \in Clients /\ client[a] # k
    <3>1. at[a] \in InRequest
      BY DEF InRequest
    <3> QED BY <1>1, <3>1 DEF AnswerInv, PlaceInv, TypeOK, Placed
  <2>2. pipe'[client[a]] = pipe[client[a]] /\ process'[client[a]] = process[client[a]]
    BY <1>2, <2>1
  <2>3. at[a] = "waiting" /\ client' = client /\ id' = id
    OBVIOUS
  <2>4. a \in spoilt \/ Sent(a)
    BY <2>2, <2>3 DEF AnswerInv, WireInv, Unread
  <2>5. Pipe(client[a])' = Pipe(client[a])
    BY <2>2, <2>3 DEF Pipe
  <2>6. Sent(a)' = Sent(a)
    BY <2>3, <2>5 DEF Sent
  <2> QED BY <2>4, <2>6
<1>8. OwnAnswer'
  BY DEF AnswerInv, OwnAnswer
<1> QED BY <1>4, <1>5, <1>6, <1>7, <1>8 DEF WireInv

\* A request begins.
LEMMA EnqueueStep ==
  ASSUME AnswerInv, NEW a \in Actors, at[a] \notin InRequest, NEW k \in Clients, Enqueue(a, k),
         UNCHANGED <<pipe, process>>, \A b \in Actors : reply'[b] \in {Nobody, reply[b]}
  PROVE  WireInv' /\ OwnAnswer'
<1> USE McpAssumption
<1> DEFINE new == FreshId(k)
<1>1. new \in Ids /\ new \notin OnWire(k) /\ new \notin Awaited(k)
  BY FreshIdExists DEF AnswerInv
<1>2. client[a] = Nobody /\ Nobody \notin Clients /\ a # Nobody
  BY DEF AnswerInv, PlaceInv, Placed
<1>3. /\ at'[a] = "locking" /\ client'[a] = k /\ id'[a] = new
      /\ \A b \in Actors : b # a => at'[b] = at[b] /\ client'[b] = client[b] /\ id'[b] = id[b]
  BY DEF Enqueue, AnswerInv, PlaceInv, TypeOK
<1>4. /\ pending'[k][new] = a
      /\ \A j \in Clients, i \in Ids : j # k \/ i # new => pending'[j][i] = pending[j][i]
  BY <1>1 DEF Enqueue, AnswerInv, PlaceInv, TypeOK
<1>5. \A b \in Actors : client[b] = k => id[b] # new
  BY <1>1 DEF Awaited
<1> HIDE DEF new
<1>6. Filed'
  <2> SUFFICES ASSUME NEW j \in Clients, NEW i \in Ids, NEW b \in Actors, pending'[j][i] = b
               PROVE  client'[b] = j /\ id'[b] = i
    BY DEF Filed
  <2>1. CASE j = k /\ i = new
    BY <1>3, <1>4, <2>1
  <2>2. CASE j # k \/ i # new
    <3>1. client[b] = j /\ id[b] = i
      BY <1>4, <2>2 DEF AnswerInv, WireInv, Filed
    <3>2. b # a
      BY <1>2, <3>1
    <3> QED BY <1>3, <3>1, <3>2
  <2> QED BY <2>1, <2>2
<1>7. Kept'
  <2> SUFFICES ASSUME NEW b \in Actors, at'[b] \in InRequest PROVE pending'[client'[b]][id'[b]] = b
    BY DEF Kept
  <2>1. CASE b = a
    BY <1>3, <1>4, <2>1
  <2>2. CASE b # a
    <3>1. at[b] \in InRequest /\ client[b] \in Clients /\ id[b] \in Ids
      BY <1>3, <2>2 DEF AnswerInv, PlaceInv, TypeOK, Placed
    <3>2. pending[client[b]][id[b]] = b
      BY <3>1 DEF AnswerInv, WireInv, Kept
    <3> QED BY <1>3, <1>4, <1>5, <2>2, <3>1, <3>2
  <2> QED BY <2>1, <2>2
<1>8. Meant'
  <2> SUFFICES ASSUME NEW j \in Clients, NEW m \in Pipe(j) PROVE pending'[j][m.id] \in {Nobody, m.of}
    BY DEF Meant, Pipe
  <2>1. m \in Message
    BY DEF Pipe, AnswerInv, PlaceInv, TypeOK
  <2>2. m.id \in Ids /\ (j = k => m.id # new)
    BY <1>1, <2>1 DEF OnWire, Message
  <2> QED BY <1>4, <2>2 DEF AnswerInv, WireInv, Meant
<1>9. Unread'
  <2> SUFFICES ASSUME NEW b \in Actors, at'[b] = "waiting", process[client'[b]] \in {"up", "hung"}
               PROVE  b \in spoilt' \/ Sent(b)'
    BY DEF Unread
  <2>1. b # a /\ at[b] = "waiting" /\ client'[b] = client[b] /\ id'[b] = id[b]
    BY <1>3
  <2>2. b \in spoilt \/ Sent(b)
    BY <2>1 DEF AnswerInv, WireInv, Unread
  <2>3. spoilt' = spoilt \ {a}
    BY DEF Enqueue
  <2>4. Pipe(client[b])' = Pipe(client[b])
    BY <2>1 DEF Pipe
  <2>5. Sent(b)' = Sent(b)
    BY <2>1 DEF Sent, Pipe
  <2> QED BY <2>1, <2>2, <2>3, <2>5
<1>10. OwnAnswer'
  BY DEF AnswerInv, OwnAnswer
<1> QED BY <1>6, <1>7, <1>8, <1>9, <1>10 DEF WireInv

\* A request ends, whatever was written stays or is read.
LEMMA OverStep ==
  ASSUME AnswerInv, NEW a \in Actors, at[a] \in InRequest,
         NEW to \in {"answered", "failed", "gone"}, Over(a, to), UNCHANGED <<process, spoilt>>,
         \A k \in Clients : Pipe(k)' \subseteq Pipe(k),
         \A k \in Clients, b \in Actors \ {a} :
           LET m == [id |-> id[b], of |-> b, junk |-> FALSE]
           IN  client[b] = k /\ at[b] = "waiting" /\ m \in Pipe(k) => m \in Pipe(k)'
  PROVE  WireInv'
<1> USE McpAssumption
<1>1. /\ at'[a] = to /\ client'[a] = Nobody
      /\ \A b \in Actors : b # a => at'[b] = at[b] /\ client'[b] = client[b] /\ id'[b] = id[b]
  BY DEF Over, AnswerInv, PlaceInv, TypeOK
<1>2. client[a] \in Clients /\ id[a] \in Ids
  BY DEF AnswerInv, PlaceInv, TypeOK, Placed
<1>3. \A j \in Clients, i \in Ids :
        pending'[j][i] = IF j = client[a] /\ pending[j][i] = a THEN Nobody ELSE pending[j][i]
  BY <1>2 DEF Over, AnswerInv, PlaceInv, TypeOK
<1>4. \A j \in Clients, i \in Ids : pending'[j][i] # a /\ pending'[j][i] \in {Nobody, pending[j][i]}
  BY <1>3 DEF AnswerInv, WireInv, Filed, Actors
<1>5. Filed'
  BY <1>1, <1>4 DEF AnswerInv, WireInv, Filed, Actors
<1>6. Kept'
  <2> SUFFICES ASSUME NEW b \in Actors, at'[b] \in InRequest PROVE pending'[client'[b]][id'[b]] = b
    BY DEF Kept
  <2>1. b # a
    BY <1>1 DEF InRequest
  <2>2. at[b] \in InRequest /\ client[b] \in Clients /\ id[b] \in Ids
    BY <1>1, <2>1 DEF AnswerInv, PlaceInv, TypeOK, Placed
  <2> QED BY <1>1, <1>3, <2>1, <2>2 DEF AnswerInv, WireInv, Kept
<1>7. Meant'
  <2> SUFFICES ASSUME NEW j \in Clients, NEW m \in Pipe(j)' PROVE pending'[j][m.id] \in {Nobody, m.of}
    BY DEF Meant
  <2>0. m \in Pipe(j)
    OBVIOUS
  <2>1. m \in Pipe(j) /\ m \in Message
    BY <2>0 DEF Pipe, AnswerInv, PlaceInv, TypeOK
  <2> QED BY <1>4, <2>1 DEF AnswerInv, WireInv, Meant, Message
<1>8. Unread'
  <2> SUFFICES ASSUME NEW b \in Actors, at'[b] = "waiting", process[client'[b]] \in {"up", "hung"}
               PROVE  b \in spoilt \/ [id |-> id'[b], of |-> b, junk |-> FALSE] \in Pipe(client[b])'
    BY DEF Unread, Sent
  <2>1. b # a
    BY <1>1
  <2> DEFINE k == client[b]
  <2>2. at[b] = "waiting" /\ client'[b] = k /\ id'[b] = id[b] /\ k \in Clients
    BY <1>1, <2>1 DEF AnswerInv, PlaceInv, TypeOK, Placed, InRequest
  <2>3. b \in spoilt \/ [id |-> id[b], of |-> b, junk |-> FALSE] \in Pipe(k)
    BY <2>2 DEF AnswerInv, WireInv, Unread, Sent
  <2>4. b \in spoilt \/ [id |-> id[b], of |-> b, junk |-> FALSE] \in {pipe'[k][n] : n \in DOMAIN pipe'[k]}
    BY <2>1, <2>2, <2>3 DEF Pipe
  <2> QED BY <2>2, <2>4 DEF Pipe
<1> QED BY <1>5, <1>6, <1>7, <1>8 DEF WireInv

LEMMA AnswerStep == AnswerInv /\ [Next]_vars => AnswerInv'
<1> SUFFICES ASSUME AnswerInv, [Next]_vars PROVE AnswerInv'
  OBVIOUS
<1> USE McpAssumption
<1>p. PlaceInv /\ PlaceInv'
  BY PlaceStep DEF AnswerInv, WireInv
<1>m. Manager \in Actors /\ Callers \subseteq Actors
  BY DEF Actors
<1> SUFFICES WireInv' /\ OwnAnswer'
  BY <1>p DEF AnswerInv
<1>a. at \in [Actors -> CallAt \cup LoopAt]
  BY <1>p DEF PlaceInv, TypeOK
<1>1. ASSUME NEW c \in Configs, NEW k \in Clients, ConnectServer(c, k) PROVE WireInv' /\ OwnAnswer'
  BY <1>1, ConnectStep DEF ConnectServer, request
<1>2. CASE Started
  BY <1>2, <1>a, <1>m, QuietStep DEF Started, Goto, InRequest, wire, child
<1>3. CASE StartRound
  BY <1>3, <1>a, <1>m, QuietStep DEF StartRound, Goto, InRequest, wire, child
<1>4. CASE EndRound
  BY <1>4, <1>a, <1>m, QuietStep DEF EndRound, Goto, InRequest, wire, child
<1>5. CASE Healthy
  BY <1>5, <1>a, <1>m, QuietStep DEF Healthy, Goto, InRequest, wire, child
<1>6. CASE Unhealthy
  BY <1>6, <1>a, <1>m, QuietStep DEF Unhealthy, Goto, InRequest, wire, child
<1>7. CASE AttemptFails
  BY <1>7, <1>a, <1>m, QuietStep DEF AttemptFails, Goto, InRequest, wire, child
<1>8. CASE Swap
  <2> DEFINE old == servers[key].client
  <2>1. \A a \in Actors : /\ at'[a] \in InRequest => at[a] \in InRequest
                          /\ at'[a] = "waiting" => at[a] = "waiting"
    BY <1>8, <1>a, <1>m DEF Swap, Goto, InRequest
  <2>2. \/ process' = process /\ pipe' = pipe
        \/ process' = [process EXCEPT ![old] = "none"] /\ pipe' = [pipe EXCEPT ![old] = <<>>]
    BY <1>8 DEF Swap
  <2>3. \A k \in Clients :
           \/ pipe'[k] = pipe[k] /\ (process'[k] \in {"up", "hung"} => process[k] \in {"up", "hung"})
           \/ pipe'[k] = <<>> /\ process'[k] \notin {"up", "hung"}
    BY <1>p, <2>2 DEF PlaceInv, TypeOK
  <2>4. UNCHANGED <<pending, client, id, spoilt, reply>>
    BY <1>8 DEF Swap
  <2> QED BY <2>1, <2>3, <2>4, QuietStep
<1>9. ASSUME NEW x \in Keys, Check(x) PROVE WireInv' /\ OwnAnswer'
  <2>1. at[Manager] \notin InRequest /\ Enqueue(Manager, servers[x].client)
    BY <1>9 DEF Check, InRequest
  <2>2. servers[x].client \in Clients
    BY <1>9, <1>p DEF Check, Listed, PlaceInv, TypeOK
  <2>3. UNCHANGED <<pipe, process>> /\ \A b \in Actors : reply'[b] \in {Nobody, reply[b]}
    BY <1>9, <1>p DEF Check, wire, child, PlaceInv, TypeOK
  <2> QED BY <1>m, <2>1, <2>2, <2>3, EnqueueStep
<1>10. ASSUME NEW k \in Clients, Reconnect(k) PROVE WireInv' /\ OwnAnswer'
  <2>1. \A a \in Actors : /\ at'[a] \in InRequest => at[a] \in InRequest
                          /\ at'[a] = "waiting" => at[a] = "waiting"
    BY <1>10, <1>a, <1>m DEF Reconnect, Goto, InRequest
  <2> QED BY <1>10, <2>1, ConnectStep DEF Reconnect
<1>11. ASSUME NEW a \in Actors, LockStdin(a) PROVE WireInv' /\ OwnAnswer'
  BY <1>11, <1>a, QuietStep DEF LockStdin, Goto, InRequest, child
<1>12. ASSUME NEW a \in Actors, Write(a) PROVE WireInv' /\ OwnAnswer'
  <2>k. PICK k \in Clients : k = client[a]
    BY <1>12, <1>p DEF Write, Goto, InRequest, Placed, PlaceInv, TypeOK
  <2> DEFINE m == [id |-> id[a], of |-> a, junk |-> torn[k]]
  <2>1. at[a] = "writing" /\ client[a] = k /\ id[a] \in Ids /\ pending[k][id[a]] = a
    BY <1>12, <1>p, <2>k DEF Write, Goto, InRequest, PlaceInv, TypeOK, AnswerInv, WireInv, Kept
  <2>2. /\ pipe' = [pipe EXCEPT ![k] = Append(@, m)]
        /\ UNCHANGED <<pending, client, id, reply, process>>
    BY <1>12, <2>k DEF Write, child
  <2>3. at' = [at EXCEPT ![a] = "waiting"] /\ spoilt' = IF torn[k] THEN spoilt \cup {a} ELSE spoilt
    BY <1>12, <2>k DEF Write, Goto
  <2>4. \A j \in Clients : j # k => Pipe(j)' = Pipe(j)
    BY <2>2, <1>p DEF Pipe, PlaceInv, TypeOK
  <2>5. Pipe(k)' = Pipe(k) \cup {m}
    <3> HIDE DEF m
    <3>1. pipe'[k] = Append(pipe[k], m) /\ pipe[k] \in Seq(Message)
      BY <1>p, <2>1, <2>2 DEF PlaceInv, TypeOK
    <3>2. /\ DOMAIN pipe'[k] = 1..Len(pipe[k]) + 1 /\ DOMAIN pipe[k] = 1..Len(pipe[k]) /\ Len(pipe[k]) \in Nat
          /\ pipe'[k][Len(pipe[k]) + 1] = m
          /\ \A n \in 1..Len(pipe[k]) : pipe'[k][n] = pipe[k][n]
      BY <3>1, AppendProperties
    <3>3. Pipe(k)' = {pipe'[k][n] : n \in DOMAIN pipe'[k]}
      BY <2>2 DEF Pipe
    <3>4. Pipe(k) = {pipe[k][n] : n \in 1..Len(pipe[k])}
      BY <3>2 DEF Pipe
    <3>5. ASSUME NEW n \in 1..Len(pipe[k]) + 1 PROVE pipe'[k][n] \in Pipe(k) \cup {m}
      <4>1. CASE n = Len(pipe[k]) + 1
        BY <3>2, <4>1
      <4>2. CASE n \in 1..Len(pipe[k])
        BY <3>2, <3>4, <4>2
      <4> QED BY <3>2, <4>1, <4>2
    <3>6. ASSUME NEW n \in 1..Len(pipe[k]) PROVE pipe[k][n] \in Pipe(k)'
      BY <3>2, <3>3
    <3>7. m \in Pipe(k)'
      BY <3>2, <3>3
    <3>8. Pipe(k)' \subseteq Pipe(k) \cup {m}
      BY <3>2, <3>3, <3>5
    <3>9. Pipe(k) \subseteq Pipe(k)'
      BY <3>4, <3>6
    <3> QED BY <3>7, <3>8, <3>9
  <2>6. Filed' /\ OwnAnswer'
    BY <2>2 DEF AnswerInv, WireInv, Filed, OwnAnswer
  <2>7. Kept'
    BY <1>a, <2>1, <2>2, <2>3 DEF AnswerInv, WireInv, Kept, InRequest
  <2>8. Meant'
    BY <2>1, <2>2, <2>4, <2>5 DEF AnswerInv, WireInv, Meant
  <2>9. Unread'
    <3> SUFFICES ASSUME NEW b \in Actors, NEW j \in Clients, client[b] = j, at'[b] = "waiting",
                        process[j] \in {"up", "hung"}
                 PROVE  b \in spoilt' \/ [id |-> id[b], of |-> b, junk |-> FALSE] \in Pipe(j)'
      <4>1. ASSUME NEW b \in Actors, at'[b] = "waiting" PROVE client[b] \in Clients
        BY <1>a, <1>p, <2>1, <2>3, <4>1 DEF Placed, InRequest, PlaceInv, TypeOK
      <4> QED BY <2>2, <4>1 DEF Unread, Sent, Pipe
    <3>1. CASE b = a
      <4>1. torn[k] \in BOOLEAN
        BY <1>p, <2>1 DEF PlaceInv, TypeOK
      <4>2. CASE torn[k]
        BY <2>3, <3>1, <4>2
      <4>3. CASE torn[k] = FALSE
        <5>1. m \in Pipe(j)' /\ j = k
          BY <2>1, <2>5, <3>1
        <5> QED BY <3>1, <4>3, <5>1
      <4> QED BY <4>1, <4>2, <4>3
    <3>2. CASE b # a
      <4>1. at[b] = "waiting"
        BY <1>a, <2>3, <3>2
      <4>2. b \in spoilt \/ [id |-> id[b], of |-> b, junk |-> FALSE] \in Pipe(j)
        BY <4>1 DEF AnswerInv, WireInv, Unread, Sent
      <4>3. Pipe(j) \subseteq Pipe(j)'
        <5> HIDE DEF m
        <5> QED BY <2>4, <2>5
      <4> QED BY <2>3, <4>2, <4>3
    <3> QED BY <3>1, <3>2
  <2> QED BY <2>6, <2>7, <2>8, <2>9 DEF WireInv
<1>13. ASSUME NEW a \in Actors, WriteFails(a) PROVE WireInv' /\ OwnAnswer'
  <2>1. at[a] \in InRequest /\ Over(a, "failed") /\ UNCHANGED <<pipe, process, spoilt, reply>>
    BY <1>13 DEF WriteFails, InRequest, child
  <2>2. \A k \in Clients : Pipe(k)' = Pipe(k)
    BY <2>1 DEF Pipe
  <2>3. OwnAnswer'
    BY <2>1 DEF AnswerInv, OwnAnswer
  <2> QED BY <2>1, <2>2, <2>3, OverStep
<1>14. ASSUME NEW a \in Actors, TimeOut(a) PROVE WireInv' /\ OwnAnswer'
  <2>1. at[a] \in InRequest /\ Over(a, "failed") /\ UNCHANGED <<pipe, process, spoilt, reply>>
    BY <1>14 DEF TimeOut, InRequest, child, wire
  <2>2. \A k \in Clients : Pipe(k)' = Pipe(k)
    BY <2>1 DEF Pipe
  <2>3. OwnAnswer'
    BY <2>1 DEF AnswerInv, OwnAnswer
  <2> QED BY <2>1, <2>2, <2>3, OverStep
<1>15. ASSUME NEW a \in Callers, NEW c \in Configs, CallTool(a, c) PROVE WireInv' /\ OwnAnswer'
  <2>1. at[a] \notin InRequest /\ tool[c] \in Clients /\ Enqueue(a, tool[c])
    BY <1>15, <1>p DEF CallTool, InRequest, PlaceInv, TypeOK
  <2>2. UNCHANGED <<pipe, process, reply>>
    BY <1>15 DEF CallTool, wire, child
  <2> QED BY <1>m, <2>1, <2>2, EnqueueStep
<1>16. ASSUME NEW a \in Callers, Vanish(a) PROVE WireInv' /\ OwnAnswer'
  <2>1. at[a] \in InRequest /\ Over(a, "gone") /\ UNCHANGED <<pipe, process, spoilt, reply>>
    BY <1>16 DEF Vanish, child
  <2>2. \A k \in Clients : Pipe(k)' = Pipe(k)
    BY <2>1 DEF Pipe
  <2>3. OwnAnswer'
    BY <2>1 DEF AnswerInv, OwnAnswer
  <2> QED BY <1>m, <2>1, <2>2, <2>3, OverStep
<1>17. ASSUME NEW k \in Clients, Answer(k) PROVE WireInv' /\ OwnAnswer'
  <2> DEFINE m == Head(pipe[k])
             a == pending[k][m.id]
  <2>1. pipe[k] \in Seq(Message) /\ pipe[k] # <<>> /\ pipe' = [pipe EXCEPT ![k] = Tail(@)]
    BY <1>17, <1>p DEF Answer, PlaceInv, TypeOK
  <2>2. m \in Pipe(k) /\ m \in Message
    BY <2>1 DEF Pipe
  <2>3. UNCHANGED <<process, spoilt>>
    BY <1>17 DEF Answer, child
  <2>4. \A j \in Clients : j # k => Pipe(j)' = Pipe(j)
    BY <2>1, <1>p DEF Pipe, PlaceInv, TypeOK
  <2>5. Pipe(k)' \subseteq Pipe(k) /\ Pipe(k) \subseteq Pipe(k)' \cup {m}
    <3>1. pipe'[k] = Tail(pipe[k])
      BY <1>p, <2>1 DEF PlaceInv, TypeOK
    <3>2. /\ DOMAIN pipe[k] = 1..Len(pipe[k]) /\ Len(pipe[k]) \in Nat \ {0}
          /\ DOMAIN pipe'[k] = 1..Len(pipe[k]) - 1
          /\ m = pipe[k][1]
          /\ \A n \in 1..Len(pipe[k]) - 1 : pipe'[k][n] = pipe[k][n + 1]
      <4>1. Len(pipe[k]) \in Nat /\ Len(pipe[k]) # 0 /\ DOMAIN pipe[k] = 1..Len(pipe[k])
        BY <2>1, EmptySeq
      <4>2. m = pipe[k][1]
        BY <2>1
      <4>3. /\ Tail(pipe[k]) \in Seq(Message) /\ Len(Tail(pipe[k])) = Len(pipe[k]) - 1
            /\ \A n \in 1..Len(pipe[k]) - 1 : Tail(pipe[k])[n] = pipe[k][n + 1]
        BY <2>1, <4>1
      <4>4. DOMAIN pipe'[k] = 1..Len(pipe[k]) - 1
        BY <3>1, <4>3
      <4> HIDE DEF m
      <4> QED BY <3>1, <4>1, <4>2, <4>3, <4>4
    <3>3. Pipe(k)' = {pipe'[k][n] : n \in DOMAIN pipe'[k]}
      BY DEF Pipe
    <3>4. ASSUME NEW n \in DOMAIN pipe'[k] PROVE pipe'[k][n] \in Pipe(k)
      BY <3>2 DEF Pipe
    <3>5. ASSUME NEW n \in DOMAIN pipe[k], n # 1 PROVE pipe[k][n] \in Pipe(k)'
      <4>1. n - 1 \in DOMAIN pipe'[k] /\ pipe'[k][n - 1] = pipe[k][n]
        BY <3>2, <3>5
      <4> QED BY <3>3, <4>1
    <3>6. 1 \in DOMAIN pipe[k] => pipe[k][1] = m
      BY <3>2
    <3> HIDE DEF m
    <3>7. Pipe(k)' \subseteq Pipe(k)
      BY <3>3, <3>4
    <3>8. ASSUME NEW x \in Pipe(k) PROVE x \in Pipe(k)' \cup {m}
      <4>1. PICK n \in DOMAIN pipe[k] : x = pipe[k][n]
        BY <3>8 DEF Pipe
      <4>2. CASE n = 1
        BY <3>6, <4>1, <4>2
      <4>3. CASE n # 1
        BY <3>5, <4>1, <4>3
      <4> QED BY <4>2, <4>3
    <3> QED BY <3>7, <3>8
  <2>6. \A j \in Clients : Pipe(j)' \subseteq Pipe(j)
    BY <2>4, <2>5
  <2>7. CASE UNCHANGED <<pending, at, client, id, reply>> /\ (m.junk \/ a = Nobody)
    <3>1. Filed' /\ Kept' /\ OwnAnswer'
      BY <2>7 DEF AnswerInv, WireInv, Filed, Kept, InRequest, OwnAnswer
    <3>2. Meant'
      BY <2>6, <2>7 DEF AnswerInv, WireInv, Meant
    <3>3. Unread'
      <4> SUFFICES ASSUME NEW b \in Actors, NEW j \in Clients, client[b] = j, at[b] = "waiting",
                          process[j] \in {"up", "hung"}
                   PROVE  b \in spoilt \/ [id |-> id[b], of |-> b, junk |-> FALSE] \in Pipe(j)'
        <5>1. ASSUME NEW b \in Actors, at[b] = "waiting" PROVE client[b] \in Clients
          BY <1>p, <5>1 DEF Placed, InRequest, PlaceInv, TypeOK
        <5> QED BY <2>3, <2>7, <5>1 DEF Unread, Sent, Pipe
      <4> DEFINE q == [id |-> id[b], of |-> b, junk |-> FALSE]
      <4>1. pending[j][id[b]] = b /\ b # Nobody
        BY DEF AnswerInv, WireInv, Kept, InRequest, Actors
      <4>2. b \in spoilt \/ q \in Pipe(j)
        BY DEF AnswerInv, WireInv, Unread, Sent
      <4>3. j = k => q # m
        BY <2>7, <4>1
      <4> HIDE DEF q, m
      <4>4. b \in spoilt \/ q \in Pipe(j)'
        BY <2>4, <2>5, <4>2, <4>3
      <4> QED BY <4>4 DEF q
    <3> QED BY <3>1, <3>2, <3>3 DEF WireInv
  <2>8. CASE ~m.junk /\ a # Nobody /\ Over(a, "answered") /\ reply' = [reply EXCEPT ![a] = m.of]
    <3>1. a \in Actors /\ a = m.of
      BY <1>p, <2>2, <2>8 DEF AnswerInv, WireInv, Meant, Message, PlaceInv, TypeOK
    <3>2. at[a] \in InRequest /\ client[a] = k /\ id[a] = m.id
      BY <1>p, <2>2, <3>1 DEF AnswerInv, WireInv, Filed, Placed, Message, PlaceInv
    <3>3. ASSUME NEW j \in Clients, NEW b \in Actors \ {a},
                 [id |-> id[b], of |-> b, junk |-> FALSE] \in Pipe(j)
          PROVE  [id |-> id[b], of |-> b, junk |-> FALSE] \in Pipe(j)'
      <4> DEFINE q == [id |-> id[b], of |-> b, junk |-> FALSE]
      <4>1. q # m
        BY <3>1
      <4> HIDE DEF q, m
      <4>2. q \in Pipe(j)'
        BY <2>4, <2>5, <3>3, <4>1 DEF q
      <4> QED BY <4>2 DEF q
    <3>4. WireInv'
      BY <2>3, <2>6, <2>8, <3>1, <3>2, <3>3, OverStep
    <3>5. OwnAnswer'
      BY <1>p, <2>8, <3>1 DEF AnswerInv, OwnAnswer, PlaceInv, TypeOK
    <3> QED BY <3>4, <3>5
  <2> QED BY <1>17, <2>7, <2>8 DEF Answer
<1>18. ASSUME NEW k \in Clients, Trouble(k) PROVE WireInv' /\ OwnAnswer'
  <2>1. UNCHANGED <<pending, at, client, id, spoilt, reply>>
    BY <1>18 DEF Trouble, request
  <2>2. \/ process[k] = "up" /\ process' = [process EXCEPT ![k] = "hung"] /\ pipe' = pipe
        \/ process' = [process EXCEPT ![k] = "dead"] /\ pipe' = [pipe EXCEPT ![k] = <<>>]
    BY <1>18 DEF Trouble
  <2>3. \A j \in Clients :
           \/ pipe'[j] = pipe[j] /\ (process'[j] \in {"up", "hung"} => process[j] \in {"up", "hung"})
           \/ pipe'[j] = <<>> /\ process'[j] \notin {"up", "hung"}
    BY <1>p, <2>2 DEF PlaceInv, TypeOK
  <2> QED BY <2>1, <2>3, QuietStep
<1>19. CASE UNCHANGED vars
  BY <1>19, QuietStep DEF vars, request, wire, child
<1> QED BY <1>1, <1>2, <1>3, <1>4, <1>5, <1>6, <1>7, <1>8, <1>9, <1>10, <1>11, <1>12, <1>13, <1>14,
           <1>15, <1>16, <1>17, <1>18, <1>19
    DEF Next, Startup, HealthLoop, Restart, Request, Call

-----------------------------------------------------------------------------
(***************************************************************************)
(* No request is ever given the answer to another one: ids are not used    *)
(* twice while anything carries them, and the reader removes a sender with *)
(* its use (client.rs 57-93, 131-138).                                     *)
(***************************************************************************)
THEOREM NoForeignAnswer == Spec => []OwnAnswer
<1>1. AnswerInv => OwnAnswer
  BY DEF AnswerInv
<1> QED BY AnswerInit, AnswerStep, <1>1, PTL DEF Spec

(***************************************************************************)
(* A request that waits can still be answered while its child lives: its   *)
(* sender was in the map before it was written, and nothing but its own    *)
(* end takes it out (client.rs 131-157).                                   *)
(***************************************************************************)
THEOREM WaitsForAnswer == Spec => []AnswerOnTheWay
<1>1. AnswerInv => AnswerOnTheWay
  BY DEF AnswerInv, WireInv, Kept, Unread, Sent, AnswerOnTheWay, InRequest
<1> QED BY AnswerInit, AnswerStep, <1>1, PTL DEF Spec

(***************************************************************************)
(* Every reachable state of the connections is well formed: a pipe holds   *)
(* no more than its room, and reconnection is tried at most MaxAttempts    *)
(* times (manager.rs 285-325).                                             *)
(***************************************************************************)
THEOREM TypeCorrect == Spec => []TypeOK
<1>1. AnswerInv => TypeOK
  BY DEF AnswerInv, PlaceInv
<1> QED BY AnswerInit, AnswerStep, <1>1, PTL DEF Spec

-----------------------------------------------------------------------------
(***************************************************************************)
(* Rounds of health checks                                                 *)
(***************************************************************************)
Forward ==
  \/ rest' \subseteq rest /\ rest' # rest
  \/ rest' = rest /\ RoundPart(at[Manager]) < RoundPart(at'[Manager])
  \/ rest' = rest /\ at'[Manager] = at[Manager] /\ tries < tries' /\ tries' < MaxAttempts

\* A step that takes the manager from one place to a later one.
LEMMA LaterPart ==
  /\ RoundPart("locking") = 1 /\ RoundPart("writing") = 2 /\ RoundPart("waiting") = 3
  /\ RoundPart("answered") = 4 /\ RoundPart("failed") = 4 /\ RoundPart("reconnect") = 5
  /\ RoundPart("swap") = 6 /\ RoundPart("next") = 7 /\ RoundPart("idle") = 8
BY DEF RoundPart

LEMMA ManagerForward ==
  ASSUME PlaceInv, ManagerStep
  PROVE  at[Manager] = "idle" \/ Forward
<1>0. Manager \in Actors /\ TypeOK /\ MaxAttempts \in Nat
  BY McpAssumption DEF Actors, PlaceInv
<1>1. CASE LockStdin(Manager)
  BY <1>0, <1>1, LaterPart DEF LockStdin, Goto, loop, TypeOK, Forward
<1>2. CASE Request(Manager)
  <2>1. at' = [at EXCEPT ![Manager] = at'[Manager]] /\ rest' = rest
        /\ \/ at[Manager] = "writing" /\ at'[Manager] \in {"waiting", "failed"}
           \/ at[Manager] = "waiting" /\ at'[Manager] = "failed"
    BY <1>0, <1>2 DEF Request, Write, WriteFails, TimeOut, Over, Goto, loop, TypeOK
  <2> QED BY <2>1, LaterPart DEF Forward
<1>3. CASE StartRound
  BY <1>3 DEF StartRound, Goto
<1>4. CASE EndRound \/ Healthy
  BY <1>0, <1>4, LaterPart DEF EndRound, Healthy, Goto, loop, TypeOK, Forward
<1>5. CASE Unhealthy
  BY <1>0, <1>5, LaterPart DEF Unhealthy, Goto, TypeOK, Forward
<1>6. CASE AttemptFails
  <2>1. at[Manager] = "reconnect" /\ rest' = rest /\ tries' = tries + 1 /\ tries \in Nat
    BY <1>0, <1>6 DEF AttemptFails, Goto, TypeOK
  <2>2. CASE tries + 1 < MaxAttempts
    <3>1. at'[Manager] = at[Manager]
      BY <1>0, <1>6, <2>2 DEF AttemptFails, Goto, TypeOK
    <3> QED BY <2>1, <2>2, <3>1 DEF Forward
  <2>3. CASE ~(tries + 1 < MaxAttempts)
    <3>1. at'[Manager] = "next"
      BY <1>0, <1>6, <2>3 DEF AttemptFails, Goto, TypeOK
    <3> QED BY <2>1, <3>1, LaterPart DEF Forward
  <2> QED BY <2>2, <2>3
<1>7. CASE Swap
  BY <1>0, <1>7, LaterPart DEF Swap, Goto, TypeOK, Forward
<1>8. ASSUME NEW x \in Keys, Check(x) PROVE Forward
  BY <1>8 DEF Check, Forward
<1>9. ASSUME NEW k \in Clients, Reconnect(k) PROVE Forward
  BY <1>0, <1>9, LaterPart DEF Reconnect, Goto, TypeOK, Forward
<1> QED BY <1>1, <1>2, <1>3, <1>4, <1>5, <1>6, <1>7, <1>8, <1>9
    DEF ManagerStep, HealthLoop, Restart

\* What a child answers reaches the manager only while it waits in a request.
LEMMA AnswerForward ==
  ASSUME AnswerInv, NEW k \in Clients, Answer(k)
  PROVE  UNCHANGED <<rest, at[Manager], tries>> \/ Forward
<1> DEFINE m == Head(pipe[k])
           a == pending[k][m.id]
<1>0. Manager \in Actors /\ PlaceInv /\ TypeOK /\ Filed
  BY McpAssumption DEF Actors, AnswerInv, PlaceInv, WireInv
<1>1. UNCHANGED <<rest, tries>>
  BY DEF Answer, loop
<1>2. m.id \in Ids
  <2>1. pipe[k] \in Seq(Message) /\ pipe[k] # <<>>
    BY <1>0 DEF Answer, TypeOK
  <2>2. Head(pipe[k]) \in Message
    BY <2>1
  <2> QED BY <2>2 DEF Message
<1>3. a \in Actors \cup {Nobody}
  BY <1>0, <1>2 DEF TypeOK
<1>4. \/ UNCHANGED at
      \/ a # Nobody /\ at' = [at EXCEPT ![a] = "answered"]
  BY DEF Answer, Over
<1> HIDE DEF m
<1>5. CASE UNCHANGED at
  BY <1>1, <1>5
<1>6. CASE a # Nobody /\ at' = [at EXCEPT ![a] = "answered"]
  <2>1. a \in Actors /\ at[a] \in InRequest
    <3>1. client[a] = k
      BY <1>0, <1>2, <1>3, <1>6 DEF Filed
    <3> QED BY <1>0, <1>3, <1>6, <3>1, McpAssumption DEF PlaceInv, Placed
  <2> HIDE DEF a
  <2>2. CASE a = Manager
    BY <1>0, <1>1, <1>6, <2>1, <2>2, LaterPart DEF InRequest, TypeOK, Forward
  <2>3. CASE a # Manager
    BY <1>0, <1>1, <1>6, <2>1, <2>3 DEF TypeOK
  <2> QED BY <2>2, <2>3
<1> QED BY <1>4, <1>5, <1>6

LEMMA RoundStep ==
  ASSUME AnswerInv, [Next]_vars
  PROVE  \/ at[Manager] \in {"start", "idle"}
         \/ Forward
         \/ ~ManagerStep /\ UNCHANGED <<rest, at[Manager], tries>>
         \/ UNCHANGED vars
<1>0. Manager \in Actors \ Callers /\ TypeOK /\ PlaceInv
  BY McpAssumption DEF Actors, AnswerInv, PlaceInv
<1>1. CASE ManagerStep
  BY <1>0, <1>1, ManagerForward
<1>2. CASE Startup
  BY <1>2 DEF Startup, Started, ConnectServer, Goto
<1>3. ASSUME NEW a \in Callers, LockStdin(a) \/ Request(a) \/ Call(a) \/ Vanish(a)
      PROVE  UNCHANGED <<rest, at[Manager], tries>>
  <2>1. a # Manager
    BY <1>0
  <2>2. UNCHANGED <<rest, tries>> /\ \E to : at' = [at EXCEPT ![a] = to]
    BY <1>3 DEF LockStdin, Request, Write, WriteFails, TimeOut, Call, CallTool, Vanish, Enqueue,
                Over, Goto, loop
  <2> QED BY <1>0, <2>1, <2>2 DEF TypeOK
<1>4. ASSUME NEW k \in Clients, Trouble(k) PROVE UNCHANGED <<rest, at[Manager], tries>>
  BY <1>4 DEF Trouble, request, loop
<1>5. ASSUME NEW k \in Clients, Answer(k)
      PROVE  UNCHANGED <<rest, at[Manager], tries>> \/ Forward
  BY <1>5, AnswerForward
<1> QED BY <1>1, <1>2, <1>3, <1>4, <1>5 DEF Next, ManagerStep, Actors

(***************************************************************************)
(* A round of health checks only goes forward, whatever the children, the  *)
(* tool calls and the timeouts do (manager.rs 170-233, 285-325).  With     *)
(* finitely many servers it has finitely many steps; that they are taken   *)
(* is left to Heals.                                                       *)
(***************************************************************************)
THEOREM RoundsAdvance == Spec => RoundAdvances
<1>1. AnswerInv /\ [Next]_vars =>
        [\/ at[Manager] \in {"start", "idle"}
         \/ rest' \subseteq rest /\ rest' # rest
         \/ rest' = rest /\ RoundPart(at[Manager]) < RoundPart(at'[Manager])
         \/ rest' = rest /\ at'[Manager] = at[Manager] /\ tries < tries' /\ tries' < MaxAttempts
         \/ ~ManagerStep /\ UNCHANGED <<rest, at[Manager], tries>>]_vars
  BY RoundStep DEF Forward
<1> QED BY <1>1, AnswerInit, AnswerStep, PTL DEF Spec, RoundAdvances
=============================================================================
