--------------------------- MODULE AgentLoop_proofs ---------------------------
(***************************************************************************)
(* Theorems about AgentLoop, for any messages, sessions, tools, responses  *)
(* and budgets.  What is said of the approval channel holds for a back end *)
(* that gives every call an id of its own (DistinctIds); for one that does *)
(* not it is false (AgentLoopPositions.cfg).                               *)
(***************************************************************************)
EXTENDS AgentLoop, FiniteSetTheorems, TLAPS

DistinctIds == \A c, d \in Calls : TaskId[c] = TaskId[d] => c = d

-----------------------------------------------------------------------------
(* Where a message is in its turn *)

InCall == Asking \cup {"cleaning", "cleared", "working"}
BeforeCalls == {"new", "turn", "llm", "recorded", "act"}

\* A turn that was begun is one of MaxTurns; a call that was begun is one that
\* the response lists; and the first call of a response comes first.
Placed ==
  \A r \in Runs :
    /\ at[r] \in {"llm", "recorded", "act", "calls"} \cup InCall => turn[r] <= MaxTurns
    /\ at[r] \in InCall => index[r] <= Len(todo[r])
    /\ at[r] \in BeforeCalls => index[r] = 1

PlaceInv == TypeOK /\ Placed

LEMMA PlaceInit == Init => PlaceInv
  BY AgentLoopAssumption
     DEF Init, PlaceInv, TypeOK, Placed, At, InCall, Asking, Suspended, Ended, BeforeCalls

\* A response is not longer than MaxCalls.
LEMMA TodoLength ==
  ASSUME TypeOK, NEW r \in Runs PROVE Len(todo[r]) \in 0..MaxCalls
<1>1. Len(<<>>) = 0
  OBVIOUS
<1> QED BY <1>1, AgentLoopAssumption DEF TypeOK

\* The call that a message is at is a call.
LEMMA CurIsCall ==
  ASSUME PlaceInv, NEW r \in Runs, at[r] \in InCall \/ AtCall(r) PROVE Cur(r) \in Calls
<1>1. index[r] \in 1..MaxCalls /\ turn[r] \in 1..MaxTurns
  BY TodoLength, AgentLoopAssumption DEF PlaceInv, TypeOK, Placed, AtCall, InCall, Asking
<1> QED BY <1>1 DEF Cur, Calls

\* Counting a call off leaves the position within its range.
LEMMA NextCallTyped ==
  ASSUME PlaceInv, NEW r \in Runs, at[r] \in InCall \/ AtCall(r), NextCall(r)
  PROVE  /\ index' \in [Runs -> 1..MaxCalls + 1]
         /\ \A q \in Runs : q # r => index'[q] = index[q]
<1>1. index[r] \in 1..MaxCalls
  BY TodoLength, AgentLoopAssumption DEF PlaceInv, TypeOK, Placed, AtCall, InCall, Asking
<1> QED BY <1>1, AgentLoopAssumption DEF NextCall, PlaceInv, TypeOK

LEMMA PlaceStep == PlaceInv /\ [Next]_vars => PlaceInv'
<1> SUFFICES ASSUME PlaceInv, [Next]_vars PROVE PlaceInv'
  OBVIOUS
<1> USE DEF PlaceInv, InCall, BeforeCalls, At, Asking, Suspended, Ended,
            Goto, store, loop, budget, channel, gate
<1>0. MaxTurns \in Nat /\ MaxCalls \in Nat
  BY AgentLoopAssumption
<1>1. ASSUME NEW r \in Runs, Route(r) PROVE PlaceInv'
  <2>1. CASE Load(r)
    <3>1. SessionOf[r] \in Sessions /\ stored[SessionOf[r]] \in SUBSET Runs
      BY AgentLoopAssumption DEF TypeOK
    <3>2. overlaps' \subseteq Sessions /\ copy' \in [Runs -> SUBSET Runs]
      BY <2>1, <3>1 DEF Load, TypeOK
    <3> QED BY <2>1, <3>2 DEF Load, TypeOK, Placed
  <2>2. CASE Reject(r)
    BY <2>2 DEF Reject, TypeOK, Placed
  <2>3. CASE Save(r)
    <3> DEFINE S == copy[r] \cup {r}
    <3>1. SessionOf[r] \in Sessions /\ S \in SUBSET Runs
      BY AgentLoopAssumption DEF TypeOK
    <3>a. stored' = [stored EXCEPT ![SessionOf[r]] = S]
      BY <2>3 DEF Save
    <3> HIDE DEF S
    <3>2. stored' \in [Sessions -> SUBSET Runs]
      BY <3>1, <3>a DEF TypeOK
    <3> QED BY <2>3, <3>2 DEF Save, TypeOK, Placed
  <2>4. CASE SaveFails(r)
    BY <2>4 DEF SaveFails, TypeOK, Placed
  <2> QED BY <1>1, <2>1, <2>2, <2>3, <2>4 DEF Route
<1>2. ASSUME NEW r \in Runs, Vanish(r) PROVE PlaceInv'
  BY <1>2 DEF Vanish, TypeOK, Placed
<1>3. ASSUME NEW r \in Runs, Turn(r) PROVE PlaceInv'
  <2>1. CASE OutOfTurns(r)
    BY <2>1 DEF OutOfTurns, TypeOK, Placed
  <2>2. CASE Blocked(r)
    BY <2>2 DEF Blocked, TypeOK, Placed
  <2>3. CASE AnswerFromCache(r)
    BY <2>3 DEF AnswerFromCache, TypeOK, Placed
  <2>4. CASE CallLlm(r)
    BY <2>4 DEF CallLlm, TypeOK, Placed
  <2>5. CASE LlmFails(r)
    BY <2>5 DEF LlmFails, TypeOK, Placed
  <2>6. CASE LlmAnswers(r)
    <3>0. \E use \in ToolUses \cup {<<>>} : todo' = [todo EXCEPT ![r] = use]
      BY <2>6 DEF LlmAnswers
    <3>a. final' = final \/ \E b \in BOOLEAN : final' = [final EXCEPT ![r] = b]
      BY <2>6 DEF LlmAnswers
    <3>b. final \in [Runs -> BOOLEAN] /\ todo \in [Runs -> ToolUses \cup {<<>>}]
      BY DEF TypeOK
    <3>1. final' \in [Runs -> BOOLEAN] /\ todo' \in [Runs -> ToolUses \cup {<<>>}]
      BY <3>0, <3>a, <3>b
    <3>2. index' = index /\ used' \in Nat
      BY <2>6 DEF LlmAnswers, TypeOK, Placed
    <3>3. at' = [at EXCEPT ![r] = "recorded"] \/ at' = [at EXCEPT ![r] = "act"]
      BY <2>6 DEF LlmAnswers
    <3>4. UNCHANGED <<stored, overlaps, copy, mode, turn, spent, pending, inbox, shown,
                      proxy, approved, ran>>
      BY <2>6 DEF LlmAnswers
    <3>5. TypeOK'
      BY <3>1, <3>2, <3>3, <3>4 DEF TypeOK
    <3>6. at[r] = "llm" /\ \A q \in Runs : q # r => todo'[q] = todo[q]
      BY <2>6, <3>0 DEF LlmAnswers, TypeOK
    <3>7. Placed'
      BY <3>2, <3>3, <3>4, <3>6 DEF Placed, TypeOK
    <3> QED BY <3>5, <3>7
  <2>7. CASE CheckBudget(r)
    <3>1. /\ at[r] = "recorded"
          /\ at' = [at EXCEPT ![r] = "saving"] \/ at' = [at EXCEPT ![r] = "act"]
          /\ spent' = spent \cup {r} \/ spent' = spent
          /\ UNCHANGED <<stored, overlaps, copy, mode, turn, todo, index, final, used, pending,
                         inbox, shown, proxy, approved, ran>>
      BY <2>7 DEF CheckBudget, Goto, store, loop, channel, gate
    <3>2. TypeOK'
      BY <3>1 DEF TypeOK
    <3> QED BY <3>1, <3>2 DEF TypeOK, Placed
  <2>8. CASE Conclude(r)
    <3>1. /\ at' = [at EXCEPT ![r] = "saving"] \/ at' = [at EXCEPT ![r] = "failed"]
          /\ UNCHANGED <<stored, overlaps, copy, mode, turn, todo, index, final, used, spent,
                          pending, inbox, shown, proxy, approved, ran>>
      BY <2>8 DEF Conclude
    <3>2. TypeOK'
      BY <3>1 DEF TypeOK
    <3> QED BY <3>1, <3>2 DEF TypeOK, Placed
  <2>9. CASE UseTools(r)
    BY <2>9 DEF UseTools, TypeOK, Placed
  <2>10. CASE EndTurn(r)
    BY <2>10, <1>0 DEF EndTurn, TypeOK, Placed
  <2> QED BY <1>3, <2>1, <2>2, <2>3, <2>4, <2>5, <2>6, <2>7, <2>8, <2>9, <2>10 DEF Turn
<1>4. ASSUME NEW r \in Runs, ExecuteTool(r) PROVE PlaceInv'
  <2>1. CASE Skip(r)
    BY <2>1, NextCallTyped DEF Skip, TypeOK, Placed, NextCall
  <2>2. CASE Pass(r)
    BY <2>2 DEF Pass, TypeOK, Placed, AtCall
  <2>3. CASE Ask(r)
    BY <2>3, CurIsCall, AgentLoopAssumption DEF Ask, TypeOK, Placed, AtCall
  <2>4. CASE Announce(r)
    BY <2>4, CurIsCall DEF Announce, TypeOK, Placed
  <2>5. CASE Receive(r)
    <3>0. at[r] = "waiting" /\ inbox' = [inbox EXCEPT ![r] = "none"]
          /\ UNCHANGED <<stored, overlaps, copy, mode, turn, todo, final, used, spent,
                          pending, shown, proxy, approved, ran>>
      BY <2>5 DEF Receive, NextCall
    <3>1. CASE at' = [at EXCEPT ![r] = "cleared"] /\ UNCHANGED index
      BY <3>0, <3>1 DEF TypeOK, Placed
    <3>2. CASE at' = [at EXCEPT ![r] = "calls"] /\ NextCall(r)
      <4>1. TypeOK'
        BY <3>0, <3>2, NextCallTyped DEF TypeOK
      <4> QED BY <3>0, <3>2, <4>1, NextCallTyped DEF TypeOK, Placed
    <3> QED BY <2>5, <3>1, <3>2 DEF Receive
  <2>6. CASE GiveUp(r)
    BY <2>6 DEF GiveUp, TypeOK, Placed
  <2>7. CASE Cleanup(r)
    BY <2>7, NextCallTyped DEF Cleanup, TypeOK, Placed, NextCall
  <2>8. CASE Rebuff(r)
    BY <2>8, NextCallTyped DEF Rebuff, TypeOK, Placed, NextCall
  <2>9. CASE Execute(r)
    BY <2>9, CurIsCall DEF Execute, TypeOK, Placed
  <2>10. CASE Finish(r)
    BY <2>10, NextCallTyped DEF Finish, TypeOK, Placed, NextCall
  <2> QED BY <1>4, <2>1, <2>2, <2>3, <2>4, <2>5, <2>6, <2>7, <2>8, <2>9, <2>10 DEF ExecuteTool
<1>5. ASSUME NEW c \in Calls, NEW answer \in {"yes", "no"}, Review(c, answer) PROVE PlaceInv'
  <2>1. TypeOK'
    BY <1>5, AgentLoopAssumption DEF Review, TypeOK, Calls
  <2> QED BY <1>5, <2>1 DEF Review, Placed
<1>6. CASE UNCHANGED vars
  BY <1>6 DEF vars, TypeOK, Placed
<1> QED BY <1>1, <1>2, <1>3, <1>4, <1>5, <1>6 DEF Next, Step

(***************************************************************************)
(* Every variable keeps its type: no message begins a turn beyond          *)
(* max_turns or a call that its response does not list.                    *)
(***************************************************************************)
THEOREM TypeCorrect == Spec => []TypeOK
<1>1. PlaceInv => TypeOK
  BY DEF PlaceInv
<1> QED BY <1>1, PlaceInit, PlaceStep, PTL DEF Spec

-----------------------------------------------------------------------------
(* The approval channel *)

Waiting == Asking \cup {"cleaning"}

\* The map holds a call under the call's own id.
Own == \A i \in Ids : pending[i] # NoCall => TaskId[pending[i]] = i

\* An answer is sent once, and its sender leaves the map with it.
SentOnce ==
  \A r \in Runs : inbox[r] # "none" =>
    \/ at[r] = "gone"
    \/ at[r] \in Asking /\ pending[TaskId[Cur(r)]] # Cur(r)

ChannelInv == PlaceInv /\ Own /\ SentOnce /\ SenderKept /\ PendingAccounted

\* The other messages stay where they are.
OnlyMoves(r) ==
  \A q \in Runs \ {r} : at'[q] = at[q] /\ turn'[q] = turn[q] /\ index'[q] = index[q]

LEMMA OneMoves ==
  ASSUME PlaceInv, NEW r \in Runs, Step(r) \/ Vanish(r) PROVE OnlyMoves(r)
<1> USE DEF PlaceInv, TypeOK, OnlyMoves, loop, Goto, NextCall
<1>1. CASE Route(r)
  BY <1>1 DEF Route, Load, Reject, Save, SaveFails
<1>2. CASE Turn(r)
  BY <1>2 DEF Turn, OutOfTurns, Blocked, AnswerFromCache, CallLlm, LlmFails, LlmAnswers,
              CheckBudget, Conclude, UseTools, EndTurn
<1>3. CASE ExecuteTool(r)
  BY <1>3 DEF ExecuteTool, Skip, Pass, Ask, Announce, Receive, GiveUp, Cleanup, Rebuff,
              Execute, Finish
<1>4. CASE Vanish(r)
  BY <1>4 DEF Vanish
<1> QED BY <1>1, <1>2, <1>3, <1>4 DEF Step

LEMMA ChannelInit == Init => ChannelInv
<1> SUFFICES ASSUME Init PROVE ChannelInv
  OBVIOUS
<1>1. /\ \A i \in Ids : pending[i] = NoCall
      /\ \A r \in Runs : inbox[r] = "none" /\ at[r] = "new"
  BY DEF Init
<1> QED BY <1>1, PlaceInit DEF ChannelInv, Own, SentOnce, SenderKept, PendingAccounted, Asking

\* What a message does while it waits for nobody is nothing to the channel.
LEMMA Elsewhere ==
  ASSUME ChannelInv, NEW r \in Runs, OnlyMoves(r), UNCHANGED <<pending, inbox>>,
         at[r] \notin Waiting \cup {"gone"}, at'[r] \notin Waiting
  PROVE  Own' /\ SentOnce' /\ SenderKept' /\ PendingAccounted'
<1>1. \A i \in Ids : pending[i] # NoCall => pending[i][1] \in Runs /\ pending[i][1] # r
  BY DEF ChannelInv, PlaceInv, TypeOK, PendingAccounted, Calls, Waiting
<1>2. \A q \in Runs \ {r} : Cur(q)' = Cur(q)
  BY DEF OnlyMoves, Cur
<1>3. inbox[r] = "none"
  BY DEF ChannelInv, SentOnce, Waiting
<1>4. Own' /\ PendingAccounted'
  BY <1>1, <1>2 DEF ChannelInv, Own, PendingAccounted, OnlyMoves
<1>5. SentOnce' /\ SenderKept'
  BY <1>2, <1>3 DEF ChannelInv, SentOnce, SenderKept, OnlyMoves, Waiting
<1> QED BY <1>4, <1>5

\* The steps that are not about a request.
Unasked(r) ==
  \/ Route(r) \/ Turn(r) \/ Skip(r) \/ Pass(r) \/ Rebuff(r) \/ Execute(r) \/ Finish(r)

LEMMA UnaskedElsewhere ==
  ASSUME PlaceInv, NEW r \in Runs, Unasked(r)
  PROVE  /\ at[r] \notin Waiting \cup {"gone"} /\ at'[r] \notin Waiting
         /\ UNCHANGED <<pending, inbox>>
<1> USE DEF PlaceInv, TypeOK, Goto, channel, Waiting, Asking
<1>1. CASE Route(r)
  BY <1>1 DEF Route, Load, Reject, Save, SaveFails
<1>2. CASE Turn(r)
  BY <1>2 DEF Turn, OutOfTurns, Blocked, AnswerFromCache, CallLlm, LlmFails, LlmAnswers,
              CheckBudget, Conclude, UseTools, EndTurn
<1>3. CASE Skip(r) \/ Pass(r) \/ Rebuff(r) \/ Execute(r) \/ Finish(r)
  BY <1>3 DEF Skip, Pass, Rebuff, Execute, Finish
<1> QED BY <1>1, <1>2, <1>3 DEF Unasked

\* A message may leave the wait, or its handler be dropped, with the entry kept.
LEMMA Lingers ==
  ASSUME ChannelInv, NEW r \in Runs, NEW p \in {"waiting", "cleaning", "gone"},
         at' = [at EXCEPT ![r] = p], UNCHANGED <<turn, index, pending, inbox>>,
         p = "waiting" => at[r] \in Asking, p = "cleaning" => inbox[r] = "none"
  PROVE  Own' /\ SentOnce' /\ SenderKept' /\ PendingAccounted'
<1> USE DEF Asking
<1>1. /\ \A q \in Runs : Cur(q)' = Cur(q)
      /\ at'[r] = p /\ \A q \in Runs \ {r} : at'[q] = at[q]
  BY DEF Cur, ChannelInv, PlaceInv, TypeOK
<1>2. Own'
  BY DEF ChannelInv, Own
<1>3. SentOnce'
  BY <1>1 DEF ChannelInv, SentOnce
<1>4. SenderKept'
  BY <1>1 DEF ChannelInv, SenderKept
<1>5. PendingAccounted'
  <2>1. \A i \in Ids : pending[i] # NoCall => pending[i][1] \in Runs
    BY DEF ChannelInv, PlaceInv, TypeOK, Calls
  <2> QED BY <1>1, <2>1 DEF ChannelInv, PendingAccounted
<1> QED BY <1>2, <1>3, <1>4, <1>5

LEMMA ChannelStep == DistinctIds /\ ChannelInv /\ [Next]_vars => ChannelInv'
<1> SUFFICES ASSUME DistinctIds, ChannelInv, [Next]_vars PROVE ChannelInv'
  OBVIOUS
<1> USE DEF Waiting, Asking
<1>0. PlaceInv /\ PlaceInv'
  BY PlaceStep DEF ChannelInv
<1>a. ASSUME NEW r \in Runs, at[r] \in InCall \/ AtCall(r)
      PROVE  Cur(r) \in Calls /\ Cur(r)[1] = r /\ TaskId[Cur(r)] \in Ids
  BY <1>0, <1>a, CurIsCall, AgentLoopAssumption DEF Cur
<1>b. ASSUME NEW r \in Runs, OnlyMoves(r), NEW q \in Runs \ {r} PROVE Cur(q)' = Cur(q)
  BY <1>b DEF OnlyMoves, Cur
<1>c. \A i \in Ids : pending[i] # NoCall =>
        /\ pending[i] \in Calls /\ pending[i][1] \in Runs
        /\ Cur(pending[i][1]) = pending[i] /\ TaskId[pending[i]] = i
  BY <1>0 DEF ChannelInv, PlaceInv, TypeOK, Calls, PendingAccounted, Own
<1>1. ASSUME NEW r \in Runs, Unasked(r) PROVE ChannelInv'
  BY <1>0, <1>1, UnaskedElsewhere, Elsewhere, OneMoves
     DEF Unasked, Step, ExecuteTool, ChannelInv
<1>2. ASSUME NEW r \in Runs, Vanish(r) PROVE ChannelInv'
  BY <1>0, <1>2, Lingers DEF Vanish, loop, channel, ChannelInv
<1>3. ASSUME NEW r \in Runs, Ask(r) PROVE ChannelInv'
  <2>1. /\ at[r] = "calls" /\ at' = [at EXCEPT ![r] = "announce"]
        /\ pending' = [pending EXCEPT ![TaskId[Cur(r)]] = Cur(r)]
        /\ inbox' = [inbox EXCEPT ![r] = "none"]
        /\ \A q \in Runs : Cur(q)' = Cur(q)
    BY <1>3 DEF Ask, Goto, loop, Cur
  <2>2. Cur(r) \in Calls /\ Cur(r)[1] = r /\ TaskId[Cur(r)] \in Ids
    BY <1>3, <1>a DEF Ask
  <2>3. /\ at'[r] = "announce" /\ inbox'[r] = "none"
        /\ pending'[TaskId[Cur(r)]] = Cur(r)
        /\ \A q \in Runs \ {r} : at'[q] = at[q] /\ inbox'[q] = inbox[q]
        /\ \A i \in Ids \ {TaskId[Cur(r)]} : pending'[i] = pending[i]
    BY <1>0, <2>1, <2>2 DEF PlaceInv, TypeOK
  <2>4. \A q \in Runs \ {r} : at[q] \in Asking =>
          /\ Cur(q) \in Calls /\ TaskId[Cur(q)] \in Ids
          /\ TaskId[Cur(q)] # TaskId[Cur(r)]
    <3>1. \A q \in Runs : Cur(q)[1] = q
      BY DEF Cur
    <3> QED BY <1>a, <2>2, <3>1 DEF DistinctIds, InCall
  <2>5. Own'
    BY <2>2, <2>3 DEF ChannelInv, Own
  <2>6. SentOnce' /\ SenderKept'
    BY <2>1, <2>3, <2>4 DEF ChannelInv, SentOnce, SenderKept
  <2>7. PendingAccounted'
    BY <1>c, <2>1, <2>2, <2>3 DEF ChannelInv, PendingAccounted
  <2> QED BY <1>0, <2>5, <2>6, <2>7 DEF ChannelInv
<1>4. ASSUME NEW r \in Runs, Announce(r) \/ GiveUp(r) PROVE ChannelInv'
  BY <1>0, <1>4, Lingers DEF Announce, GiveUp, Goto, loop, channel, ChannelInv
<1>5. ASSUME NEW r \in Runs, Receive(r) PROVE ChannelInv'
  <2>1. /\ at[r] = "waiting" /\ at' \in [Runs -> At] /\ at'[r] \in {"cleared", "calls"}
        /\ inbox[r] # "none" /\ inbox' = [inbox EXCEPT ![r] = "none"]
        /\ UNCHANGED pending
    BY <1>0, <1>5 DEF Receive, Goto, PlaceInv, TypeOK
  <2>2. OnlyMoves(r)
    BY <1>0, <1>5, OneMoves DEF Step, ExecuteTool
  <2>3. \A i \in Ids : pending[i] # NoCall => pending[i][1] # r
    BY <1>c, <2>1 DEF ChannelInv, SentOnce
  <2>4. \A q \in Runs \ {r} : at'[q] = at[q] /\ inbox'[q] = inbox[q] /\ Cur(q)' = Cur(q)
    <3>1. \A q \in Runs \ {r} : inbox'[q] = inbox[q]
      BY <1>0, <2>1 DEF PlaceInv, TypeOK
    <3> QED BY <1>b, <2>2, <3>1 DEF OnlyMoves
  <2>5. inbox'[r] = "none"
    BY <1>0, <2>1 DEF PlaceInv, TypeOK
  <2>6. Own' /\ SentOnce' /\ SenderKept'
    BY <2>1, <2>4, <2>5 DEF ChannelInv, Own, SentOnce, SenderKept
  <2>7. PendingAccounted'
    BY <1>c, <2>1, <2>3, <2>4 DEF ChannelInv, PendingAccounted
  <2> QED BY <1>0, <2>6, <2>7 DEF ChannelInv
<1>6. ASSUME NEW r \in Runs, Cleanup(r) PROVE ChannelInv'
  <2>1. /\ at[r] = "cleaning" /\ at' = [at EXCEPT ![r] = "calls"]
        /\ pending' = [pending EXCEPT ![TaskId[Cur(r)]] = NoCall]
        /\ UNCHANGED inbox
    BY <1>6 DEF Cleanup, Goto
  <2>2. OnlyMoves(r)
    BY <1>0, <1>6, OneMoves DEF Step, ExecuteTool
  <2>3. Cur(r) \in Calls /\ TaskId[Cur(r)] \in Ids
    BY <1>a, <2>1 DEF InCall
  <2>4. /\ at'[r] = "calls"
        /\ \A q \in Runs \ {r} : at'[q] = at[q] /\ Cur(q)' = Cur(q)
        /\ pending'[TaskId[Cur(r)]] = NoCall
        /\ \A i \in Ids \ {TaskId[Cur(r)]} : pending'[i] = pending[i]
    BY <1>0, <1>b, <2>1, <2>2, <2>3 DEF PlaceInv, TypeOK
  <2>5. \A q \in Runs \ {r} : at[q] \in Asking =>
          TaskId[Cur(q)] \in Ids /\ TaskId[Cur(q)] # TaskId[Cur(r)]
    <3>1. \A q \in Runs : Cur(q)[1] = q
      BY DEF Cur
    <3> QED BY <1>a, <2>3, <3>1 DEF DistinctIds, InCall
  <2>6. inbox[r] = "none"
    BY <2>1 DEF ChannelInv, SentOnce
  <2>7. Own' /\ SentOnce' /\ SenderKept'
    BY <2>1, <2>4, <2>5, <2>6 DEF ChannelInv, Own, SentOnce, SenderKept
  <2>8. PendingAccounted'
    BY <1>c, <2>1, <2>4 DEF ChannelInv, PendingAccounted
  <2> QED BY <1>0, <2>7, <2>8 DEF ChannelInv
<1>7. ASSUME NEW c \in Calls, NEW answer \in {"yes", "no"}, Review(c, answer)
      PROVE  ChannelInv'
  <2> DEFINE id == TaskId[c]
             to == pending[id]
  <2>1. /\ pending' = [pending EXCEPT ![id] = NoCall]
        /\ inbox' = IF to # NoCall /\ Listening(to)
                    THEN [inbox EXCEPT ![to[1]] = answer] ELSE inbox
        /\ UNCHANGED at /\ \A q \in Runs : Cur(q)' = Cur(q)
    BY <1>7 DEF Review, loop, Cur
  <2>2. id \in Ids
    BY AgentLoopAssumption
  <2>3. pending'[id] = NoCall /\ \A i \in Ids \ {id} : pending'[i] = pending[i]
    BY <1>0, <2>1, <2>2 DEF PlaceInv, TypeOK
  <2>4. \A q \in Runs : inbox'[q] # inbox[q] =>
          /\ at[q] \in Asking /\ Cur(q) = to /\ TaskId[Cur(q)] = id /\ inbox'[q] # "none"
    BY <1>0, <1>c, <2>1, <2>2 DEF Listening, PlaceInv, TypeOK
  <2>5. \A q \in Runs : at[q] \in Asking => Cur(q) \in Calls /\ TaskId[Cur(q)] \in Ids
    BY <1>a DEF InCall
  <2>6. Own' /\ PendingAccounted'
    BY <1>c, <2>1, <2>3 DEF ChannelInv, Own, PendingAccounted
  <2>7. SentOnce'
    BY <2>1, <2>2, <2>3, <2>4, <2>5, AgentLoopAssumption DEF ChannelInv, SentOnce
  <2>8. SenderKept'
    <3>1. ASSUME NEW q \in Runs, at[q] \in Asking, TaskId[Cur(q)] = id, pending[id] = Cur(q)
          PROVE  inbox'[q] # "none"
      <4>1. to # NoCall /\ to[1] = q /\ Listening(to)
        BY <2>5, <3>1, AgentLoopAssumption DEF Listening, Cur
      <4> QED BY <1>0, <2>1, <4>1 DEF PlaceInv, TypeOK
    <3> QED BY <2>1, <2>3, <2>4, <2>5, <3>1 DEF ChannelInv, SenderKept
  <2> QED BY <1>0, <2>6, <2>7, <2>8 DEF ChannelInv
<1>8. CASE UNCHANGED vars
  BY <1>0, <1>8 DEF vars, loop, channel, ChannelInv, Own, SentOnce, SenderKept,
                    PendingAccounted, Cur
<1> QED BY <1>1, <1>2, <1>3, <1>4, <1>5, <1>6, <1>7, <1>8
        DEF Next, Step, ExecuteTool, Unasked

(***************************************************************************)
(* No wait loses its sender: while a request waits, the map holds it or it *)
(* has been answered (the error branch "Sender was dropped" of             *)
(* ws_approval.rs is dead code when the ids are distinct).                 *)
(***************************************************************************)
THEOREM NoSenderDropped == ASSUME DistinctIds PROVE Spec => []SenderKept
<1>1. ChannelInv => SenderKept
  BY DEF ChannelInv
<1>2. ChannelInv /\ [Next]_vars => ChannelInv'
  BY ChannelStep
<1> QED BY <1>1, <1>2, ChannelInit, PTL DEF Spec

(***************************************************************************)
(* The map of pending approvals holds requests that are being waited for,  *)
(* or whose handler was dropped while it waited, and nothing else.         *)
(***************************************************************************)
THEOREM NoStrayEntry == ASSUME DistinctIds PROVE Spec => []PendingAccounted
<1>1. ChannelInv => PendingAccounted
  BY DEF ChannelInv
<1>2. ChannelInv /\ [Next]_vars => ChannelInv'
  BY ChannelStep
<1> QED BY <1>1, <1>2, ChannelInit, PTL DEF Spec

-----------------------------------------------------------------------------
(* The gate *)

\* A yes that has arrived was meant for the call it has arrived at.
YesMeant == \A r \in Runs : inbox[r] = "yes" => Cur(r) \in approved

\* A guarded call that is cleared was approved, unless nobody is asked.
ClearedApproved ==
  \A r \in Runs : at[r] = "cleared" /\ Tool(r) \in Guarded => proxy \/ Cur(r) \in approved

\* What has run lies behind the place where its message is, or is running.
RanBefore ==
  \A c \in ran : LET r == c[1]
                 IN  \/ c[2] < turn[r]
                     \/ c[2] = turn[r] /\ c[3] < index[r]
                     \/ c = Cur(r) /\ at[r] \in {"working", "gone"}

GateInv == ChannelInv /\ YesMeant /\ ClearedApproved /\ RanBefore /\ OnlyApprovedRun

LEMMA GateInit == Init => GateInv
<1> SUFFICES ASSUME Init PROVE GateInv
  OBVIOUS
<1>1. ran = {} /\ \A r \in Runs : inbox[r] = "none" /\ at[r] = "new"
  BY DEF Init
<1> QED BY <1>1, ChannelInit
        DEF GateInv, YesMeant, ClearedApproved, RanBefore, OnlyApprovedRun

\* A message that moves on, without clearing or running a guarded call.
Onward(r) ==
  /\ OnlyMoves(r) /\ UNCHANGED gate
  /\ \A q \in Runs \ {r} : todo'[q] = todo[q] /\ inbox'[q] = inbox[q]
  /\ inbox'[r] = "yes" => inbox[r] = "yes" /\ Cur(r)' = Cur(r)
  /\ at'[r] = "cleared" => proxy \/ Tool(r)' \notin Guarded \/ Cur(r)' \in approved
  /\ \/ turn'[r] > turn[r]
     \/ turn'[r] = turn[r] /\ index'[r] > index[r]
     \/ /\ turn'[r] = turn[r] /\ index'[r] = index[r]
        /\ at[r] \in {"working", "gone"} => at'[r] = "gone"

LEMMA OnwardGate ==
  ASSUME GateInv, PlaceInv', NEW r \in Runs, Onward(r)
  PROVE  YesMeant' /\ ClearedApproved' /\ RanBefore' /\ OnlyApprovedRun'
<1>0. /\ proxy' = proxy /\ approved' = approved /\ ran' = ran
      /\ \A q \in Runs \ {r} : Cur(q)' = Cur(q) /\ at'[q] = at[q] /\ Tool(q)' = Tool(q)
  BY DEF Onward, OnlyMoves, gate, Cur, Tool
<1>1. YesMeant'
  BY <1>0 DEF GateInv, YesMeant, Onward
<1>2. ClearedApproved'
  BY <1>0 DEF GateInv, ClearedApproved, Onward
<1>3. RanBefore'
  <2> SUFFICES ASSUME NEW c \in ran
               PROVE  LET q == c[1]
                      IN  \/ c[2] < turn'[q]
                          \/ c[2] = turn'[q] /\ c[3] < index'[q]
                          \/ c = Cur(q)' /\ at'[q] \in {"working", "gone"}
    BY <1>0 DEF RanBefore
  <2>1. c \in Calls /\ c[1] \in Runs /\ c[2] \in Nat /\ c[3] \in Nat
    BY DEF GateInv, ChannelInv, PlaceInv, TypeOK, Calls
  <2>2. \/ c[2] < turn[c[1]]
        \/ c[2] = turn[c[1]] /\ c[3] < index[c[1]]
        \/ c = Cur(c[1]) /\ at[c[1]] \in {"working", "gone"}
    BY DEF GateInv, RanBefore
  <2>3. CASE c[1] # r
    BY <1>0, <2>1, <2>2, <2>3 DEF Onward, OnlyMoves
  <2>4. CASE c[1] = r
    <3>1. /\ turn[r] \in Nat /\ index[r] \in Nat /\ turn'[r] \in Nat /\ index'[r] \in Nat
      BY AgentLoopAssumption DEF GateInv, ChannelInv, PlaceInv, TypeOK
    <3>2. c = Cur(r) => c[2] = turn[r] /\ c[3] = index[r]
      BY DEF Cur
    <3>3. CASE turn'[r] > turn[r]
      BY <2>1, <2>2, <2>4, <3>1, <3>2, <3>3
    <3>4. CASE turn'[r] = turn[r] /\ index'[r] > index[r]
      BY <2>1, <2>2, <2>4, <3>1, <3>2, <3>4
    <3>5. CASE /\ turn'[r] = turn[r] /\ index'[r] = index[r]
               /\ at[r] \in {"working", "gone"} => at'[r] = "gone"
      BY <2>1, <2>2, <2>4, <3>1, <3>5 DEF Cur
    <3> QED BY <3>3, <3>4, <3>5 DEF Onward
  <2> QED BY <2>3, <2>4
<1>4. OnlyApprovedRun'
  BY <1>0 DEF GateInv, OnlyApprovedRun
<1> QED BY <1>1, <1>2, <1>3, <1>4

\* Every step of a message but the execution of a call is of that kind.
LEMMA StepsOnward ==
  ASSUME GateInv, PlaceInv', NEW r \in Runs, Step(r) \/ Vanish(r), ~Execute(r)
  PROVE  Onward(r)
<1>0. PlaceInv /\ TypeOK /\ OnlyMoves(r) /\ MaxCalls \in Nat /\ MaxTurns \in Nat
  BY OneMoves, AgentLoopAssumption DEF GateInv, ChannelInv, PlaceInv
<1>a. \A q \in Runs : inbox[q] # "none" => at[q] \in Asking \cup {"gone"}
  BY DEF GateInv, ChannelInv, SentOnce
<1> USE <1>0 DEF Goto, loop, channel, Onward, Cur
<1>1. CASE Route(r)
  BY <1>1 DEF TypeOK, Route, Load, Reject, Save, SaveFails
<1>2. CASE \/ OutOfTurns(r) \/ Blocked(r) \/ AnswerFromCache(r) \/ CallLlm(r)
           \/ LlmFails(r) \/ CheckBudget(r) \/ Conclude(r) \/ UseTools(r)
  BY <1>2 DEF TypeOK, OutOfTurns, Blocked, AnswerFromCache, CallLlm, LlmFails, CheckBudget,
              Conclude, UseTools
<1>3. CASE LlmAnswers(r)
  BY <1>3 DEF TypeOK, LlmAnswers, GateInv, ChannelInv, PlaceInv, Placed, BeforeCalls
<1>4. CASE EndTurn(r)
  <2>1. at[r] = "calls" /\ turn' = [turn EXCEPT ![r] = @ + 1] /\ UNCHANGED <<inbox, gate>>
    BY <1>4 DEF EndTurn
  <2>2. inbox'[r] # "yes"
    BY <1>a, <2>1 DEF Asking
  <2>3. turn'[r] > turn[r]
    BY <2>1 DEF TypeOK
  <2> QED BY <1>4, <2>1, <2>2, <2>3 DEF EndTurn, TypeOK
<1>5. CASE Skip(r) \/ Cleanup(r) \/ Rebuff(r) \/ Finish(r)
  <2>1. /\ at[r] \in {"calls", "cleaning", "cleared", "working"} /\ at' \in [Runs -> At]
        /\ at'[r] = "calls" /\ NextCall(r) /\ UNCHANGED <<inbox, gate>>
    BY <1>5 DEF Skip, Cleanup, Rebuff, Finish, TypeOK, At
  <2>2. inbox'[r] # "yes"
    BY <1>a, <2>1 DEF Asking
  <2>3. turn'[r] = turn[r] /\ index'[r] > index[r]
    BY <2>1 DEF TypeOK, NextCall
  <2> QED BY <2>1, <2>2, <2>3 DEF NextCall
<1>6. CASE Pass(r)
  BY <1>6 DEF TypeOK, Pass, Tool
<1>7. CASE Ask(r) \/ Announce(r) \/ GiveUp(r)
  BY <1>7 DEF TypeOK, Ask, Announce, GiveUp
<1>8. CASE Receive(r)
  BY <1>8 DEF TypeOK, Receive, NextCall, GateInv, YesMeant
<1>9. CASE Vanish(r)
  BY <1>9 DEF TypeOK, Vanish
<1> QED BY <1>1, <1>2, <1>3, <1>4, <1>5, <1>6, <1>7, <1>8, <1>9
        DEF Step, Turn, ExecuteTool

LEMMA GateStep == DistinctIds /\ GateInv /\ [Next]_vars => GateInv'
<1> SUFFICES ASSUME DistinctIds, GateInv, [Next]_vars PROVE GateInv'
  OBVIOUS
<1>0. ChannelInv /\ ChannelInv' /\ TypeOK /\ PlaceInv'
  BY ChannelStep DEF GateInv, ChannelInv, PlaceInv
<1>1. ASSUME NEW r \in Runs, Step(r) \/ Vanish(r), ~Execute(r) PROVE GateInv'
  BY <1>0, <1>1, StepsOnward, OnwardGate DEF GateInv
<1>2. ASSUME NEW r \in Runs, Execute(r) PROVE GateInv'
  <2>1. /\ at[r] = "cleared" /\ at' = [at EXCEPT ![r] = "working"]
        /\ ran' = IF Tool(r) \in Guarded THEN ran \cup {Cur(r)} ELSE ran
        /\ UNCHANGED <<proxy, approved, inbox>>
        /\ \A q \in Runs : Cur(q)' = Cur(q) /\ Tool(q)' = Tool(q)
        /\ UNCHANGED <<turn, index>>
    BY <1>2 DEF Execute, Goto, loop, channel, Cur, Tool
  <2>2. at'[r] = "working" /\ \A q \in Runs \ {r} : at'[q] = at[q]
    BY <1>0, <2>1 DEF TypeOK
  <2>3. OnlyApprovedRun'
    BY <2>1 DEF GateInv, OnlyApprovedRun, ClearedApproved
  <2>4. YesMeant' /\ ClearedApproved'
    BY <2>1, <2>2 DEF GateInv, YesMeant, ClearedApproved
  <2>5. RanBefore'
    <3>1. ASSUME NEW c \in ran', c \in ran
          PROVE  \/ c[2] < turn'[c[1]]
                 \/ c[2] = turn'[c[1]] /\ c[3] < index'[c[1]]
                 \/ c = Cur(c[1])' /\ at'[c[1]] \in {"working", "gone"}
      <4>1. c[1] \in Runs
        BY <1>0, <3>1 DEF TypeOK, Calls
      <4> QED BY <2>1, <2>2, <3>1, <4>1 DEF GateInv, RanBefore
    <3>2. Cur(r)[1] = r
      BY DEF Cur
    <3> QED BY <2>1, <2>2, <3>1, <3>2 DEF RanBefore
  <2> QED BY <1>0, <2>3, <2>4, <2>5 DEF GateInv
<1>3. ASSUME NEW c \in Calls, NEW answer \in {"yes", "no"}, Review(c, answer) PROVE GateInv'
  <2>1. /\ UNCHANGED <<at, proxy>> /\ ran' = ran /\ \A q \in Runs : Cur(q)' = Cur(q) /\ Tool(q)' = Tool(q)
        /\ UNCHANGED <<turn, index>>
        /\ approved \subseteq approved'
        /\ answer = "yes" => c \in approved'
    BY <1>3 DEF Review, loop, Cur, Tool
  <2>2. ClearedApproved' /\ OnlyApprovedRun'
    BY <2>1 DEF GateInv, ClearedApproved, OnlyApprovedRun
  <2>3. RanBefore'
    <3>1. \A d \in ran : d[1] \in Runs
      BY <1>0 DEF TypeOK, Calls
    <3> QED BY <2>1, <3>1 DEF GateInv, RanBefore
  <2>4. YesMeant'
    <3> DEFINE to == pending[TaskId[c]]
    <3>1. \A q \in Runs : inbox'[q] # inbox[q] => inbox'[q] = answer /\ to \in Calls /\ Cur(q) = to
      BY <1>0, <1>3, AgentLoopAssumption DEF Review, TypeOK, Listening
    <3>2. to \in Calls => to = c
      BY <1>0, AgentLoopAssumption DEF ChannelInv, Own, DistinctIds
    <3> QED BY <2>1, <3>1, <3>2 DEF GateInv, YesMeant
  <2> QED BY <1>0, <2>2, <2>3, <2>4 DEF GateInv
<1>4. CASE UNCHANGED vars
  <2>1. \A q \in Runs : Cur(q)' = Cur(q) /\ Tool(q)' = Tool(q)
    BY <1>4 DEF vars, loop, Cur, Tool
  <2>2. \A d \in ran : d[1] \in Runs
    BY <1>0 DEF TypeOK, Calls
  <2>3. YesMeant' /\ ClearedApproved' /\ OnlyApprovedRun'
    BY <1>4, <2>1 DEF vars, gate, channel, GateInv, YesMeant, ClearedApproved, OnlyApprovedRun
  <2>4. RanBefore'
    BY <1>4, <2>1, <2>2 DEF vars, gate, loop, GateInv, RanBefore
  <2> QED BY <1>0, <2>3, <2>4 DEF GateInv
<1> QED BY <1>1, <1>2, <1>3, <1>4 DEF Next

(***************************************************************************)
(* A tool that requires approval runs only after a reviewer said yes to    *)
(* that very call, whatever messages are handled at once, whatever answers *)
(* come late or twice, and whatever handlers are dropped.                  *)
(***************************************************************************)
THEOREM OnlyApprovedCallsRun == ASSUME DistinctIds PROVE Spec => []OnlyApprovedRun
<1>1. GateInv => OnlyApprovedRun
  BY DEF GateInv
<1>2. GateInv /\ [Next]_vars => GateInv'
  BY GateStep
<1> QED BY <1>1, <1>2, GateInit, PTL DEF Spec

(***************************************************************************)
(* The agent loop implements the gate: a guarded call runs at most once,   *)
(* and only after it was approved.                                         *)
(***************************************************************************)
THEOREM LoopImplementsGate == ASSUME DistinctIds PROVE Spec => ImplementsGate
<1>1. Init => Gate!Init
  BY DEF Init, Gate!Init
<1>2. GateInv /\ [Next]_vars => [Gate!Next]_(Gate!vars)
  <2> SUFFICES ASSUME GateInv, [Next]_vars PROVE [Gate!Next]_(Gate!vars)
    OBVIOUS
  <2>0. PlaceInv /\ (PlaceInv)'
    BY PlaceStep DEF GateInv, ChannelInv
  <2>1. ASSUME NEW r \in Runs, Execute(r) PROVE [Gate!Next]_(Gate!vars)
    <3>1. at[r] = "cleared" /\ Cur(r) \in Calls
      BY <2>0, <2>1, CurIsCall DEF Execute, Goto, InCall
    <3>2. Cur(r) \notin ran
      <4>1. Cur(r)[1] = r /\ Cur(r)[2] = turn[r] /\ Cur(r)[3] = index[r]
        BY DEF Cur
      <4>2. turn[r] \in Nat /\ index[r] \in Nat
        BY <2>0, AgentLoopAssumption DEF PlaceInv, TypeOK
      <4> QED BY <3>1, <4>1, <4>2 DEF GateInv, RanBefore
    <3>3. CASE Tool(r) \in Guarded
      BY <2>1, <3>1, <3>2, <3>3 DEF Execute, GateInv, ClearedApproved, Gate!Next, Gate!Run
    <3>4. CASE Tool(r) \notin Guarded
      BY <2>1, <3>4 DEF Execute, Gate!vars
    <3> QED BY <3>3, <3>4
  <2>2. ASSUME NEW r \in Runs, Step(r) \/ Vanish(r), ~Execute(r)
        PROVE  [Gate!Next]_(Gate!vars)
    BY <2>0, <2>2, StepsOnward DEF Onward, gate, Gate!vars
  <2>3. ASSUME NEW c \in Calls, NEW answer \in {"yes", "no"}, Review(c, answer)
        PROVE  [Gate!Next]_(Gate!vars)
    BY <2>3 DEF Review, Gate!Next, Gate!Approve, Gate!vars
  <2>4. CASE UNCHANGED vars
    BY <2>4 DEF vars, gate, Gate!vars
  <2> QED BY <2>1, <2>2, <2>3, <2>4 DEF Next
<1>3. GateInv /\ [Next]_vars => GateInv'
  BY GateStep
<1> QED BY <1>1, <1>2, <1>3, GateInit, PTL DEF Spec, ImplementsGate, Gate!Spec

-----------------------------------------------------------------------------
(* The session store *)

\* In a session whose messages never overlapped, at most one is handled, and its
\* copy is what is stored.
OneAtATime ==
  \A s \in Sessions \ overlaps :
    /\ \A q, r \in Active(s) : q = r
    /\ \A r \in Active(s) : copy[r] = stored[s]

StoreInv == PlaceInv /\ OneAtATime /\ SequentialHistory

LEMMA StoreInit == Init => StoreInv
<1> SUFFICES ASSUME Init PROVE StoreInv
  OBVIOUS
<1>1. \A r \in Runs : at[r] = "new"
  BY DEF Init
<1>2. \A s \in Sessions : stored[s] = {} /\ Active(s) = {}
  BY <1>1 DEF Init, Active
<1> QED BY <1>1, <1>2, PlaceInit DEF StoreInv, OneAtATime, SequentialHistory

\* The steps that neither load nor save a session.
LEMMA StoreUntouched ==
  ASSUME StoreInv, NEW r \in Runs, Step(r) \/ Vanish(r), ~Load(r), ~Save(r)
  PROVE  /\ UNCHANGED <<store, copy>>
         /\ \A q \in Runs \ {r} : at'[q] = at[q]
         /\ at[r] # "replied" /\ at'[r] \notin {"new", "replied"}
         /\ at'[r] \notin Ended => at[r] \notin {"new"} \cup Ended
<1> USE DEF StoreInv, PlaceInv, TypeOK, loop, Goto, Ended
<1>1. CASE Route(r)
  BY <1>1 DEF Route, Reject, SaveFails
<1>2. CASE Turn(r)
  BY <1>2 DEF Turn, OutOfTurns, Blocked, AnswerFromCache, CallLlm, LlmFails, LlmAnswers,
              CheckBudget, Conclude, UseTools, EndTurn
<1>3. CASE ExecuteTool(r)
  BY <1>3 DEF ExecuteTool, Skip, Pass, Ask, Announce, Receive, GiveUp, Cleanup, Rebuff,
              Execute, Finish, NextCall
<1>4. CASE Vanish(r)
  BY <1>4 DEF Vanish, Suspended, Asking
<1> QED BY <1>1, <1>2, <1>3, <1>4 DEF Step

LEMMA StoreStep == StoreInv /\ [Next]_vars => StoreInv'
<1> SUFFICES ASSUME StoreInv, [Next]_vars PROVE StoreInv'
  OBVIOUS
<1>0. PlaceInv' /\ TypeOK
  BY PlaceStep DEF StoreInv, PlaceInv
<1>1. ASSUME NEW r \in Runs, Load(r) PROVE StoreInv'
  <2> DEFINE s == SessionOf[r]
  <2>1. /\ at[r] = "new" /\ at'[r] = "turn" /\ \A q \in Runs \ {r} : at'[q] = at[q]
        /\ copy'[r] = stored[s] /\ \A q \in Runs \ {r} : copy'[q] = copy[q]
        /\ UNCHANGED stored /\ overlaps \subseteq overlaps'
        /\ s \in Sessions /\ (s \notin overlaps' => Active(s) = {})
    BY <1>0, <1>1, AgentLoopAssumption DEF Load, Goto, TypeOK
  <2>2. \A z \in Sessions : Active(z)' = IF z = s THEN Active(s) \cup {r} ELSE Active(z)
    BY <2>1 DEF Active, Ended
  <2>3. OneAtATime'
    BY <2>1, <2>2 DEF StoreInv, OneAtATime, Active
  <2>4. SequentialHistory'
    BY <2>1 DEF StoreInv, SequentialHistory
  <2> QED BY <1>0, <2>3, <2>4 DEF StoreInv
<1>2. ASSUME NEW r \in Runs, Save(r) PROVE StoreInv'
  <2> DEFINE s == SessionOf[r]
             new == copy[r] \cup {r}
  <2>1. stored' = [stored EXCEPT ![s] = new] /\ s \in Sessions
    BY <1>2, AgentLoopAssumption DEF Save
  <2> HIDE DEF new
  <2>2. /\ at[r] = "saving" /\ at'[r] = "replied" /\ \A q \in Runs \ {r} : at'[q] = at[q]
        /\ UNCHANGED <<copy, overlaps>>
        /\ stored'[s] = new /\ \A z \in Sessions \ {s} : stored'[z] = stored[z]
    BY <1>0, <1>2, <2>1 DEF Save, Goto, loop, TypeOK
  <2>3. \A z \in Sessions : Active(z)' = Active(z) \ {r}
    BY <2>2 DEF Active, Ended
  <2>4. r \in Active(s) /\ \A z \in Sessions \ {s} : r \notin Active(z)
    BY <2>2 DEF Active, Ended
  <2>5. OneAtATime'
    BY <2>1, <2>2, <2>3, <2>4 DEF StoreInv, OneAtATime
  <2>6. SequentialHistory'
    <3>1. s \notin overlaps => new = stored[s] \cup {r}
      BY <2>1, <2>4 DEF StoreInv, OneAtATime, new
    <3> QED BY <2>1, <2>2, <3>1 DEF StoreInv, SequentialHistory
  <2> QED BY <1>0, <2>5, <2>6 DEF StoreInv
<1>3. ASSUME NEW r \in Runs, Step(r) \/ Vanish(r), ~Load(r), ~Save(r) PROVE StoreInv'
  <2>1. /\ UNCHANGED <<stored, overlaps, copy>>
        /\ \A q \in Runs \ {r} : at'[q] = at[q]
        /\ at[r] # "replied" /\ at'[r] # "replied"
        /\ at'[r] \notin {"new"} \cup Ended => at[r] \notin {"new"} \cup Ended
    BY <1>3, StoreUntouched DEF store
  <2>2. \A z \in Sessions : Active(z)' \subseteq Active(z)
    BY <2>1 DEF Active
  <2>3. OneAtATime' /\ SequentialHistory'
    BY <2>1, <2>2 DEF StoreInv, OneAtATime, SequentialHistory
  <2> QED BY <1>0, <2>3 DEF StoreInv
<1>4. CASE UNCHANGED vars \/ \E c \in Calls, answer \in {"yes", "no"} : Review(c, answer)
  <2>1. UNCHANGED <<stored, overlaps, copy, at>>
    BY <1>4 DEF vars, Review, store, loop
  <2> QED BY <1>0, <2>1 DEF StoreInv, OneAtATime, SequentialHistory, Active
<1> QED BY <1>1, <1>2, <1>3, <1>4 DEF Next

(***************************************************************************)
(* The history of a session whose messages never overlapped is exactly the *)
(* messages that were answered.                                            *)
(***************************************************************************)
THEOREM HistoryExact == Spec => []SequentialHistory
<1>1. StoreInv => SequentialHistory
  BY DEF StoreInv
<1> QED BY <1>1, StoreInit, StoreStep, PTL DEF Spec

-----------------------------------------------------------------------------
(***************************************************************************)
(* The budget.  A response is counted before it is checked, and several    *)
(* messages may be between the two; a message the budget ended must not be *)
(* counted again, so it has left its loop for good.                        *)
(***************************************************************************)
Recorded == {r \in Runs : at[r] = "recorded"}

SpentEnd == \A r \in spent : at[r] \in {"saving"} \cup Ended

BudgetInv ==
  PlaceInv /\ IsFiniteSet(spent) /\ IsFiniteSet(Recorded) /\ SpentEnd /\ OverdrawnOnce

LEMMA BudgetInit == Init => BudgetInv
<1> SUFFICES ASSUME Init PROVE BudgetInv
  OBVIOUS
<1>1. Recorded = {} /\ spent = {} /\ used = 0
  BY DEF Init, Recorded
<1>2. IsFiniteSet({}) /\ Cardinality({}) = 0
  BY FS_EmptySet
<1>3. OverdrawnOnce
  <2>1. Cardinality(spent) = 0 /\ Cardinality({r \in Runs : at[r] = "recorded"}) = 0
    BY <1>1, <1>2 DEF Recorded
  <2> QED BY <1>1, <2>1, AgentLoopAssumption DEF OverdrawnOnce
<1> QED BY <1>1, <1>2, <1>3, PlaceInit DEF BudgetInv, SpentEnd

\* The steps that neither count a response nor look at the budget.
Unbudgeted(r) == Vanish(r) \/ (Step(r) /\ ~LlmAnswers(r) /\ ~CheckBudget(r))

LEMMA UnbudgetedStep ==
  ASSUME PlaceInv, SpentEnd, NEW r \in Runs, Unbudgeted(r)
  PROVE  UNCHANGED budget /\ Recorded' = Recorded /\ SpentEnd'
<1> USE DEF PlaceInv, TypeOK, Goto, Asking, Suspended, Ended
<1>1. /\ UNCHANGED budget
      /\ at[r] # "recorded" /\ at'[r] # "recorded"
      /\ at[r] \in {"saving"} \cup Ended => at'[r] \in Ended
  <2>1. CASE Vanish(r)
    BY <2>1 DEF Vanish
  <2>2. CASE Route(r)
    BY <2>2 DEF Route, Load, Reject, Save, SaveFails, budget
  <2>3. CASE Turn(r) /\ ~LlmAnswers(r) /\ ~CheckBudget(r)
    BY <2>3 DEF Turn, OutOfTurns, Blocked, AnswerFromCache, CallLlm, LlmFails, Conclude,
                UseTools, EndTurn, budget
  <2>4. CASE ExecuteTool(r)
    BY <2>4 DEF ExecuteTool, Skip, Pass, Ask, Announce, Receive, GiveUp, Cleanup, Rebuff,
                Execute, Finish, budget
  <2> QED BY <2>1, <2>2, <2>3, <2>4 DEF Unbudgeted, Step
<1>2. \A q \in Runs \ {r} : at'[q] = at[q]
  BY OneMoves DEF Unbudgeted, OnlyMoves
<1>3. Recorded' = Recorded
  BY <1>1, <1>2 DEF Recorded
<1>4. SpentEnd'
  BY <1>1, <1>2 DEF SpentEnd, budget
<1> QED BY <1>1, <1>3, <1>4

LEMMA BudgetStep == BudgetInv /\ [Next]_vars => BudgetInv'
<1> SUFFICES ASSUME BudgetInv, [Next]_vars PROVE BudgetInv'
  OBVIOUS
<1> DEFINE reserve == IF Budget = 0 THEN 1 ELSE Budget
<1>0. /\ PlaceInv /\ PlaceInv' /\ used \in Nat /\ Budget \in Nat /\ reserve \in Nat
      /\ IsFiniteSet(spent) /\ Cardinality(spent) \in Nat
      /\ IsFiniteSet(Recorded) /\ Cardinality(Recorded) \in Nat
  BY PlaceStep, AgentLoopAssumption, FS_CardinalityType DEF BudgetInv, PlaceInv, TypeOK
<1>1. used < reserve + Cardinality(spent) + Cardinality(Recorded)
  BY DEF BudgetInv, OverdrawnOnce, Recorded
<1>2. SUFFICES /\ IsFiniteSet(spent') /\ IsFiniteSet(Recorded') /\ SpentEnd'
               /\ used' < reserve + Cardinality(spent') + Cardinality(Recorded')
  BY <1>0 DEF BudgetInv, OverdrawnOnce, Recorded
<1> HIDE DEF reserve
<1>3. ASSUME UNCHANGED <<budget, at>>
      PROVE  /\ IsFiniteSet(spent') /\ IsFiniteSet(Recorded') /\ SpentEnd'
             /\ used' < reserve + Cardinality(spent') + Cardinality(Recorded')
  BY <1>0, <1>1, <1>3 DEF budget, Recorded, SpentEnd, BudgetInv
<1>4. CASE \E r \in Runs : Unbudgeted(r)
  BY <1>0, <1>1, <1>4, UnbudgetedStep DEF BudgetInv, budget
<1>5. ASSUME NEW r \in Runs, LlmAnswers(r)
      PROVE  /\ IsFiniteSet(spent') /\ IsFiniteSet(Recorded') /\ SpentEnd'
             /\ used' < reserve + Cardinality(spent') + Cardinality(Recorded')
  <2>1. at[r] = "llm" /\ UNCHANGED spent
    BY <1>5 DEF LlmAnswers
  <2>2. SpentEnd'
    <3>1. SpentEnd /\ r \notin spent
      BY <2>1 DEF BudgetInv, SpentEnd, Ended
    <3>2. at \in [Runs -> At] /\ spent \subseteq Runs
      BY DEF BudgetInv, PlaceInv, TypeOK
    <3>3. at' = [at EXCEPT ![r] = "recorded"] \/ at' = [at EXCEPT ![r] = "act"]
      BY <1>5 DEF LlmAnswers
    <3>4. \A q \in spent : at'[q] = at[q]
      BY <3>1, <3>2, <3>3
    <3> QED BY <2>1, <3>1, <3>4 DEF SpentEnd
  <2>3. CASE mode[r] = "run"
    <3>1. used' = used + 1 /\ at' = [at EXCEPT ![r] = "recorded"]
      BY <1>5, <2>3 DEF LlmAnswers
    <3>2. Recorded' = Recorded \cup {r} /\ r \notin Recorded
      BY <1>0, <2>1, <3>1 DEF Recorded, PlaceInv, TypeOK
    <3>3. IsFiniteSet(Recorded') /\ Cardinality(Recorded') = Cardinality(Recorded) + 1
      BY <1>0, <3>2, FS_AddElement
    <3> QED BY <1>0, <1>1, <2>1, <2>2, <3>1, <3>3
  <2>4. CASE mode[r] # "run"
    <3>1. used' = used /\ at' = [at EXCEPT ![r] = "act"]
      BY <1>5, <2>4 DEF LlmAnswers
    <3>2. Recorded' = Recorded
      BY <1>0, <2>1, <3>1 DEF Recorded, PlaceInv, TypeOK
    <3> QED BY <1>0, <1>1, <2>1, <2>2, <3>1, <3>2
  <2> QED BY <2>3, <2>4
<1>6. ASSUME NEW r \in Runs, CheckBudget(r)
      PROVE  /\ IsFiniteSet(spent') /\ IsFiniteSet(Recorded') /\ SpentEnd'
             /\ used' < reserve + Cardinality(spent') + Cardinality(Recorded')
  <2>1. r \in Recorded /\ r \notin spent /\ UNCHANGED used
    BY <1>6 DEF CheckBudget, Goto, Recorded, BudgetInv, SpentEnd, Ended
  <2>2. Recorded' = Recorded \ {r}
    BY <1>0, <1>6 DEF CheckBudget, Goto, Recorded, PlaceInv, TypeOK
  <2>3. IsFiniteSet(Recorded') /\ Cardinality(Recorded') = Cardinality(Recorded) - 1
    BY <1>0, <2>1, <2>2, FS_RemoveElement
  <2>4. CASE Exhausted
    <3>1. spent' = spent \cup {r} /\ at' = [at EXCEPT ![r] = "saving"]
      BY <1>6, <2>4 DEF CheckBudget, Goto
    <3>2. IsFiniteSet(spent') /\ Cardinality(spent') = Cardinality(spent) + 1
      BY <1>0, <2>1, <3>1, FS_AddElement
    <3>3. SpentEnd'
      BY <1>0, <3>1 DEF BudgetInv, SpentEnd, PlaceInv, TypeOK
    <3> QED BY <1>0, <1>1, <2>1, <2>3, <3>2, <3>3
  \* Below its limit the budget is overdrawn by nobody, recorded or not.
  <2>5. CASE ~Exhausted
    <3>1. spent' = spent /\ at' = [at EXCEPT ![r] = "act"]
      BY <1>6, <2>5 DEF CheckBudget, Goto
    <3>2. SpentEnd'
      BY <1>0, <2>1, <3>1 DEF BudgetInv, SpentEnd, PlaceInv, TypeOK
    <3>3. used < reserve
      BY <1>0, <2>5 DEF Exhausted, reserve
    <3>4. Cardinality(Recorded') \in Nat
      BY <2>3, FS_CardinalityType
    <3> QED BY <1>0, <2>1, <2>3, <3>1, <3>2, <3>3, <3>4
  <2> QED BY <2>4, <2>5
<1>7. ASSUME NEW c \in Calls, NEW answer \in {"yes", "no"}, Review(c, answer)
      PROVE  UNCHANGED <<budget, at>>
  BY <1>7 DEF Review
<1>8. CASE UNCHANGED vars
  BY <1>3, <1>8 DEF vars
<1> QED BY <1>3, <1>4, <1>5, <1>6, <1>7, <1>8 DEF Next, Unbudgeted

(***************************************************************************)
(* The budget is overdrawn by at most one response of each message that it *)
(* ends or is about to look at, whatever the budget and however many       *)
(* messages share it.                                                      *)
(***************************************************************************)
THEOREM BudgetEndsMessages == Spec => []OverdrawnOnce
<1>1. BudgetInv => OverdrawnOnce
  BY DEF BudgetInv
<1> QED BY <1>1, BudgetInit, BudgetStep, PTL DEF Spec

-----------------------------------------------------------------------------
(***************************************************************************)
(* Progress.  Positions are compared one component after the other; what a *)
(* step does to at, turn and index decides.                                *)
(***************************************************************************)
LEMMA FirstDifference ==
  ASSUME NEW p1, NEW p2, NEW p3, NEW p4, NEW p5, NEW q1, NEW q2, NEW q3, NEW q4, NEW q5,
         \/ p1 < q1
         \/ p1 = q1 /\ p2 < q2
         \/ p1 = q1 /\ p2 = q2 /\ p3 < q3
         \/ p1 = q1 /\ p2 = q2 /\ p3 = q3 /\ p4 < q4
         \/ p1 = q1 /\ p2 = q2 /\ p3 = q3 /\ p4 = q4 /\ p5 < q5
  PROVE  Precedes(<<p1, p2, p3, p4, p5>>, <<q1, q2, q3, q4, q5>>)
<1> DEFINE p == <<p1, p2, p3, p4, p5>>
           q == <<q1, q2, q3, q4, q5>>
<1>0. /\ p[1] = p1 /\ p[2] = p2 /\ p[3] = p3 /\ p[4] = p4 /\ p[5] = p5
      /\ q[1] = q1 /\ q[2] = q2 /\ q[3] = q3 /\ q[4] = q4 /\ q[5] = q5
  OBVIOUS
<1> HIDE DEF p, q
<1>1. PICK i \in 1..5 : p[i] < q[i] /\ (1 < i => p[1] = q[1]) /\ (2 < i => p[2] = q[2])
                         /\ (3 < i => p[3] = q[3]) /\ (4 < i => p[4] = q[4])
  BY <1>0
<1>2. \A j \in 1..i - 1 : p[j] = q[j]
  <2> SUFFICES ASSUME NEW j \in 1..i - 1 PROVE p[j] = q[j]
    OBVIOUS
  <2>1. j \in 1..4 /\ j < i
    OBVIOUS
  <2>2. j = 1 \/ j = 2 \/ j = 3 \/ j = 4
    BY <2>1
  <2> QED BY <1>1, <2>1, <2>2
<1>3. Precedes(p, q)
  BY <1>1, <1>2 DEF Precedes
<1> QED BY <1>3 DEF p, q

\* A message leaves its stage, its turn, the part of its turn, its call or the
\* part of its call for the next.
GoesOn(r) ==
  \/ Stage(at[r]) < Stage(at'[r])
  \/ Stage(at[r]) = Stage(at'[r]) /\ turn[r] < turn'[r]
  \/ /\ Stage(at[r]) = Stage(at'[r]) /\ turn[r] = turn'[r]
     /\ TurnPart(at[r]) < TurnPart(at'[r])
  \/ /\ Stage(at[r]) = Stage(at'[r]) /\ turn[r] = turn'[r]
     /\ TurnPart(at[r]) = TurnPart(at'[r]) /\ index[r] < index'[r]
  \/ /\ Stage(at[r]) = Stage(at'[r]) /\ turn[r] = turn'[r]
     /\ TurnPart(at[r]) = TurnPart(at'[r]) /\ index[r] = index'[r]
     /\ CallPart(at[r]) < CallPart(at'[r])

LEMMA Further == ASSUME NEW r \in Runs, GoesOn(r) PROVE Precedes(Position(r), Position(r)')
<1>1. Precedes(<<Stage(at[r]), turn[r], TurnPart(at[r]), index[r], CallPart(at[r])>>,
               <<Stage(at'[r]), turn'[r], TurnPart(at'[r]), index'[r], CallPart(at'[r])>>)
  BY FirstDifference DEF GoesOn
<1> QED BY <1>1 DEF Position, Stage, TurnPart, CallPart

LEMMA StepGoesOn ==
  ASSUME PlaceInv, NEW r \in Runs, Step(r) \/ Vanish(r) PROVE GoesOn(r)
<1> USE DEF PlaceInv, TypeOK, Goto, NextCall, loop, GoesOn, Stage, TurnPart, CallPart,
            Ended, Asking, Suspended
<1>0. at[r] \in At /\ turn[r] \in Int /\ index[r] \in Int
  BY AgentLoopAssumption
<1>1. CASE Route(r)
  BY <1>1 DEF Route, Load, Reject, Save, SaveFails
<1>2. CASE Vanish(r)
  BY <1>2 DEF Vanish
<1>3. CASE Turn(r)
  <2>1. CASE OutOfTurns(r) \/ Blocked(r) \/ AnswerFromCache(r) \/ CallLlm(r) \/ LlmFails(r)
    BY <2>1 DEF OutOfTurns, Blocked, AnswerFromCache, CallLlm, LlmFails
  <2>2. CASE LlmAnswers(r)
    BY <2>2 DEF LlmAnswers
  <2>3. CASE CheckBudget(r) \/ Conclude(r) \/ UseTools(r)
    BY <2>3 DEF CheckBudget, Conclude, UseTools
  <2>4. CASE EndTurn(r)
    <3>1. at'[r] = "turn" /\ at[r] = "calls" /\ turn'[r] = turn[r] + 1
      BY <2>4 DEF EndTurn
    <3> QED BY <1>0, <3>1
  <2> QED BY <1>3, <2>1, <2>2, <2>3, <2>4 DEF Turn
<1>4. CASE ExecuteTool(r)
  <2>1. CASE Skip(r) \/ Cleanup(r) \/ Rebuff(r) \/ Finish(r)
    <3>1. /\ at[r] \in {"calls", "cleaning", "cleared", "working"} /\ at'[r] = "calls"
          /\ turn'[r] = turn[r] /\ index'[r] = index[r] + 1
      BY <2>1 DEF Skip, Cleanup, Rebuff, Finish
    <3> QED BY <1>0, <3>1
  <2>2. CASE Pass(r) \/ Ask(r) \/ Announce(r) \/ GiveUp(r) \/ Execute(r)
    BY <2>2 DEF Pass, Ask, Announce, GiveUp, Execute
  <2>3. CASE Receive(r)
    <3>1. CASE at[r] = "waiting" /\ at'[r] = "cleared" /\ UNCHANGED <<turn, index>>
      BY <3>1
    <3>2. CASE at[r] = "waiting" /\ at'[r] = "calls" /\ turn' = turn /\ index'[r] = index[r] + 1
      BY <1>0, <3>2
    <3> QED BY <2>3, <3>1, <3>2 DEF Receive
  <2> QED BY <1>4, <2>1, <2>2, <2>3 DEF ExecuteTool
<1> QED BY <1>1, <1>2, <1>3, <1>4 DEF Step

\* Where nobody moves, no message makes a step of its own.
LEMMA ForwardStep ==
  PlaceInv /\ [Next]_vars =>
    [\A r \in Runs : \/ Precedes(Position(r), Position(r)')
                     \/ ~Step(r) /\ UNCHANGED Position(r)]_vars
<1> SUFFICES ASSUME PlaceInv, Next, NEW r \in Runs, ~Precedes(Position(r), Position(r)')
             PROVE  ~Step(r) /\ UNCHANGED Position(r)
  OBVIOUS
<1>1. ~Step(r) /\ ~Vanish(r)
  BY StepGoesOn, Further
<1>2. UNCHANGED <<at[r], turn[r], index[r]>>
  <2>1. ASSUME NEW q \in Runs, Step(q) \/ Vanish(q) PROVE UNCHANGED <<at[r], turn[r], index[r]>>
    <3>1. r \in Runs \ {q}
      BY <1>1, <2>1
    <3> QED BY <2>1, <3>1, OneMoves DEF OnlyMoves
  <2>2. ASSUME NEW c \in Calls, NEW answer \in {"yes", "no"}, Review(c, answer)
        PROVE  UNCHANGED <<at[r], turn[r], index[r]>>
    BY <2>2 DEF Review, loop
  <2> QED BY <2>1, <2>2 DEF Next
<1> QED BY <1>1, <1>2 DEF Position, Stage, TurnPart, CallPart

(***************************************************************************)
(* Every step that a message takes brings it nearer to its end, and nobody *)
(* takes it back, for any number of messages, turns, tools and reviewers.  *)
(***************************************************************************)
THEOREM MessagesAdvance == Spec => OnlyForward
  BY PlaceInit, PlaceStep, ForwardStep, PTL DEF Spec, OnlyForward
=============================================================================
