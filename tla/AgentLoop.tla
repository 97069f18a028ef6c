------------------------------ MODULE AgentLoop ------------------------------
(***************************************************************************)
(* What happens to an inbound message: the router loads the session, the   *)
(* shared AgentRunner works on it turn by turn (run or run_streaming), the *)
(* tools that need it wait for a human on the approval channel, and the    *)
(* router saves the session.  Several messages are handled at once; they   *)
(* share the session store, the token budget and the approval channel.     *)
(*                                                                         *)
(* Every action is the code between two awaits.  What the circuit breakers,*)
(* the guardrails, the hooks and the permission evaluator decide is left   *)
(* open here (CircuitBreaker models the first); so is the text of messages.*)
(***************************************************************************)
EXTENDS Integers, Sequences, FiniteSets

CONSTANTS
  Runs,       \* the inbound messages
  Sessions,
  SessionOf,  \* SessionOf[r]: the session the message belongs to
  MaxTurns,   \* AgentRunner::max_turns
  Guarded,    \* the tools with requires_approval
  ToolUses,   \* the lists of tools the model may call in one response
  MaxCalls,   \* bound: the longest of those lists
  Ids,
  TaskId,     \* TaskId[c]: the id the back end gives the call
  Budget,     \* TokenBudgetConfig::max_output_tokens, in responses
  NoCall

Calls == Runs \X (1..MaxTurns) \X (1..MaxCalls)

ASSUME AgentLoopAssumption ==
  /\ SessionOf \in [Runs -> Sessions]
  /\ MaxTurns \in Nat /\ MaxCalls \in Nat /\ Budget \in Nat
  /\ \A use \in ToolUses : Len(use) \in 0..MaxCalls
  /\ TaskId \in [Calls -> Ids]
  /\ NoCall \notin Calls

VARIABLES
  stored,    \* SessionStore: the messages whose turns a stored session holds
  overlaps,  \* the sessions two messages were ever handled for at once
  \* the future of each message
  at,        \* where it is suspended
  copy,      \* the messages its own copy of the session held when it was loaded
  mode,      \* "run" or "stream"
  turn,
  todo,      \* the tools of the current response
  index,     \* the position in todo
  final,     \* the response is LlmResponse::Done
  \* TokenBudget
  used,      \* TokenBudget::used, one per response
  spent,     \* the messages the budget ended
  \* WsApprovalChannel
  pending,   \* pending[id]: the call whose sender the map holds
  inbox,     \* inbox[r]: what was sent to the receiver that r holds
  shown,     \* the requests the reviewers were shown
  \* what HumanGate speaks of
  proxy,     \* AgentRunner::proxy is configured: set once, by with_proxy()
  approved, ran

store   == <<stored, overlaps>>
loop    == <<copy, mode, turn, todo, index, final>>
budget  == <<used, spent>>
channel == <<pending, inbox, shown>>
gate    == <<proxy, approved, ran>>
vars    == <<store, at, loop, budget, channel, gate>>

Ended     == {"replied", "failed", "gone"}
Asking    == {"announce", "waiting"}
Suspended == {"llm", "working", "cleaning", "saving"} \cup Asking
At        == {"new", "turn", "recorded", "act", "calls", "cleared"} \cup Suspended \cup Ended

Cur(r)  == <<r, turn[r], index[r]>>
Tool(r) == todo[r][index[r]]

\* The call is one that the current response lists.
AtCall(r) == turn[r] \in 1..MaxTurns /\ index[r] \in 1..Len(todo[r])

TypeOK ==
  /\ stored \in [Sessions -> SUBSET Runs]
  /\ overlaps \subseteq Sessions
  /\ at \in [Runs -> At]
  /\ copy \in [Runs -> SUBSET Runs]
  /\ mode \in [Runs -> {"run", "stream"}]
  /\ turn \in [Runs -> 1..MaxTurns + 1]
  /\ todo \in [Runs -> ToolUses \cup {<<>>}]
  /\ index \in [Runs -> 1..MaxCalls + 1]
  /\ final \in [Runs -> BOOLEAN]
  /\ used \in Nat
  /\ spent \subseteq Runs
  /\ pending \in [Ids -> Calls \cup {NoCall}]
  /\ inbox \in [Runs -> {"none", "yes", "no"}]
  /\ shown \subseteq Calls
  /\ proxy \in BOOLEAN
  /\ approved \subseteq Calls
  /\ ran \subseteq Calls

Active(s) == {r \in Runs : SessionOf[r] = s /\ at[r] \notin {"new"} \cup Ended}

Goto(r, from, to) == at[r] = from /\ at' = [at EXCEPT ![r] = to]

-----------------------------------------------------------------------------
Init ==
  /\ stored = [s \in Sessions |-> {}]
  /\ overlaps = {}
  /\ at = [r \in Runs |-> "new"]
  /\ copy = [r \in Runs |-> {}]
  /\ mode \in [Runs -> {"run", "stream"}]
  /\ turn = [r \in Runs |-> 1]
  /\ todo = [r \in Runs |-> <<>>]
  /\ index = [r \in Runs |-> 1]
  /\ final = [r \in Runs |-> FALSE]
  /\ used = 0
  /\ spent = {}
  /\ pending = [i \in Ids |-> NoCall]
  /\ inbox = [r \in Runs |-> "none"]
  /\ shown = {}
  /\ proxy \in BOOLEAN
  /\ approved = {}
  /\ ran = {}

(* AgentRouter: around the run *)

\* Slip: the message starts a session of its own.
Load_Fresh(r) ==
  /\ Goto(r, "new", "turn")
  /\ copy' = [copy EXCEPT ![r] = {}]
  /\ overlaps' = overlaps \cup (IF Active(SessionOf[r]) = {} THEN {} ELSE {SessionOf[r]})
  /\ UNCHANGED <<stored, mode, turn, todo, index, final, budget, channel, gate>>

Load(r) ==
  /\ Goto(r, "new", "turn")
  /\ copy' = [copy EXCEPT ![r] = stored[SessionOf[r]]]
  /\ overlaps' = overlaps \cup (IF Active(SessionOf[r]) = {} THEN {} ELSE {SessionOf[r]})
  /\ UNCHANGED <<stored, mode, turn, todo, index, final, budget, channel, gate>>

\* The sanitizer rejects the message, or the store cannot read the session.
Reject(r) == Goto(r, "new", "failed") /\ UNCHANGED <<store, loop, budget, channel, gate>>

\* sessions.update(): the whole session is replaced.
Save(r) ==
  /\ Goto(r, "saving", "replied")
  /\ stored' = [stored EXCEPT ![SessionOf[r]] = copy[r] \cup {r}]
  /\ UNCHANGED <<overlaps, loop, budget, channel, gate>>

SaveFails(r) == Goto(r, "saving", "failed") /\ UNCHANGED <<store, loop, budget, channel, gate>>

\* The caller of the router went away and its future is dropped.
Vanish(r) ==
  /\ at[r] \in Suspended
  /\ at' = [at EXCEPT ![r] = "gone"]
  /\ UNCHANGED <<store, loop, budget, channel, gate>>

(* AgentRunner: one turn *)

OutOfTurns(r) ==
  /\ turn[r] > MaxTurns
  /\ Goto(r, "turn", "failed")
  /\ UNCHANGED <<store, loop, budget, channel, gate>>

\* The provider's circuit is open, or a guardrail blocks the input: run only.
Blocked(r) ==
  /\ turn[r] <= MaxTurns /\ mode[r] = "run"
  /\ Goto(r, "turn", "failed")
  /\ UNCHANGED <<store, loop, budget, channel, gate>>

AnswerFromCache(r) ==
  /\ turn[r] <= MaxTurns /\ mode[r] = "run"
  /\ Goto(r, "turn", "saving")
  /\ UNCHANGED <<store, loop, budget, channel, gate>>

CallLlm(r) ==
  /\ turn[r] <= MaxTurns
  /\ Goto(r, "turn", "llm")
  /\ UNCHANGED <<store, loop, budget, channel, gate>>

LlmFails(r) == Goto(r, "llm", "failed") /\ UNCHANGED <<store, loop, budget, channel, gate>>

\* LlmResponse::Done, Text (no tools) or ToolUse.  run records the output.
LlmAnswers(r) ==
  /\ at[r] = "llm"
  /\ \/ todo' = [todo EXCEPT ![r] = <<>>] /\ final' \in {[final EXCEPT ![r] = b] : b \in BOOLEAN}
     \/ \E use \in ToolUses : todo' = [todo EXCEPT ![r] = use] /\ UNCHANGED final
  /\ index' = [index EXCEPT ![r] = 1]
  /\ IF mode[r] = "run" THEN used' = used + 1 /\ at' = [at EXCEPT ![r] = "recorded"]
                        ELSE UNCHANGED used /\ at' = [at EXCEPT ![r] = "act"]
  /\ UNCHANGED <<store, copy, mode, turn, spent, channel, gate>>

\* Slip: the budget may be overdrawn by one.
Exhausted_Late == used > Budget

Exhausted == used >= Budget

\* is_exhausted() reads the counter after other messages may have added to it.
CheckBudget(r) ==
  /\ IF Exhausted THEN Goto(r, "recorded", "saving") /\ spent' = spent \cup {r}
                  ELSE Goto(r, "recorded", "act") /\ UNCHANGED spent
  /\ UNCHANGED <<store, loop, used, channel, gate>>

\* The output guardrails may turn a final answer into an error.
Conclude(r) ==
  /\ final[r]
  /\ Goto(r, "act", "saving") \/ Goto(r, "act", "failed")
  /\ UNCHANGED <<store, loop, budget, channel, gate>>

UseTools(r) ==
  /\ ~final[r]
  /\ Goto(r, "act", "calls")
  /\ UNCHANGED <<store, loop, budget, channel, gate>>

EndTurn(r) ==
  /\ index[r] > Len(todo[r])
  /\ Goto(r, "calls", "turn")
  /\ turn' = [turn EXCEPT ![r] = @ + 1]
  /\ todo' = [todo EXCEPT ![r] = <<>>]
  /\ index' = [index EXCEPT ![r] = 1]
  /\ UNCHANGED <<store, copy, mode, final, budget, channel, gate>>

(* One tool call: execute_tool() *)

\* Slip: a call that was not executed is looked at again.
NextCall_Again(r) == UNCHANGED loop

\* The call is answered without being executed, and the next one is looked at.
NextCall(r) == index' = [index EXCEPT ![r] = @ + 1] /\ UNCHANGED <<copy, mode, turn, todo, final>>

\* A hook or the permission evaluator decides; no approval channel is configured.
Skip(r) ==
  /\ AtCall(r)
  /\ at[r] = "calls" /\ NextCall(r)
  /\ UNCHANGED <<at, store, budget, channel, gate>>

\* Behind a proxy no call is asked about, guarded or not.
Pass(r) ==
  /\ AtCall(r) /\ (proxy \/ Tool(r) \notin Guarded)
  /\ Goto(r, "calls", "cleared")
  /\ UNCHANGED <<store, loop, budget, channel, gate>>

\* Slip: the sender is not in the map when the request is broadcast.
Ask_Late(r) ==
  /\ AtCall(r) /\ ~proxy /\ Tool(r) \in Guarded
  /\ Goto(r, "calls", "announce")
  /\ inbox' = [inbox EXCEPT ![r] = "none"]
  /\ UNCHANGED <<store, loop, budget, pending, shown, gate>>

\* request_approval(): the sender that the map held for this id is dropped.
Ask(r) ==
  /\ AtCall(r) /\ ~proxy /\ Tool(r) \in Guarded
  /\ Goto(r, "calls", "announce")
  /\ pending' = [pending EXCEPT ![TaskId[Cur(r)]] = Cur(r)]
  /\ inbox' = [inbox EXCEPT ![r] = "none"]
  /\ UNCHANGED <<store, loop, budget, shown, gate>>

\* broadcast() reaches the connected clients, if there are any.
Announce(r) ==
  /\ Goto(r, "announce", "waiting")
  /\ shown' \in {shown, shown \cup {Cur(r)}}
  /\ UNCHANGED <<store, loop, budget, pending, inbox, gate>>

\* Slip: whatever came is taken for a yes.
Receive_AnyAnswer(r) ==
  /\ at[r] = "waiting" /\ inbox[r] # "none"
  /\ Goto(r, "waiting", "cleared") /\ UNCHANGED loop
  /\ inbox' = [inbox EXCEPT ![r] = "none"]
  /\ UNCHANGED <<store, budget, pending, shown, gate>>

Receive(r) ==
  /\ \/ inbox[r] = "yes" /\ Goto(r, "waiting", "cleared") /\ UNCHANGED loop
     \/ inbox[r] = "no"  /\ Goto(r, "waiting", "calls") /\ NextCall(r)
  /\ inbox' = [inbox EXCEPT ![r] = "none"]
  /\ UNCHANGED <<store, budget, pending, shown, gate>>

\* Slip: no timeout; only a dropped sender ends the wait.
GiveUp_Never(r) ==
  /\ at[r] = "waiting" /\ inbox[r] = "none" /\ pending[TaskId[Cur(r)]] # Cur(r)
  /\ Goto(r, "waiting", "cleaning")
  /\ UNCHANGED <<store, loop, budget, channel, gate>>

\* The sender is still there after the timeout, or it was dropped.
GiveUp(r) ==
  /\ inbox[r] = "none"
  /\ Goto(r, "waiting", "cleaning")
  /\ UNCHANGED <<store, loop, budget, channel, gate>>

\* Slip: a request that timed out stays in the map.
Cleanup_Keeps(r) ==
  /\ Goto(r, "cleaning", "calls") /\ NextCall(r)
  /\ UNCHANGED <<store, budget, channel, gate>>

\* pending.remove(task_id), whosever sender the map holds by now.
Cleanup(r) ==
  /\ Goto(r, "cleaning", "calls") /\ NextCall(r)
  /\ pending' = [pending EXCEPT ![TaskId[Cur(r)]] = NoCall]
  /\ UNCHANGED <<store, budget, inbox, shown, gate>>

\* The tool's circuit is open.
Rebuff(r) ==
  /\ Goto(r, "cleared", "calls") /\ NextCall(r)
  /\ UNCHANGED <<store, budget, channel, gate>>

Execute(r) ==
  /\ AtCall(r)
  /\ Goto(r, "cleared", "working")
  /\ ran' = IF Tool(r) \in Guarded THEN ran \cup {Cur(r)} ELSE ran
  /\ UNCHANGED <<store, loop, budget, channel, proxy, approved>>

\* The result or the error of the tool goes into the session.
Finish(r) ==
  /\ Goto(r, "working", "calls") /\ NextCall(r)
  /\ UNCHANGED <<store, budget, channel, gate>>

(* The reviewers *)

\* The receiver of the call is still there.
Listening(c) == at[c[1]] \in Asking /\ Cur(c[1]) = c

\* handle_approval_response(): the answer goes to the call that the map holds
\* for the id, if its receiver still exists.  approved notes what was meant.
Review(c, answer) ==
  LET to == pending[TaskId[c]]
  IN  /\ c \in shown
      /\ approved' = IF answer = "yes" THEN approved \cup {c} ELSE approved
      /\ pending' = [pending EXCEPT ![TaskId[c]] = NoCall]
      /\ inbox' = IF to # NoCall /\ Listening(to)
                  THEN [inbox EXCEPT ![to[1]] = answer] ELSE inbox
      /\ UNCHANGED <<store, at, loop, budget, shown, proxy, ran>>

-----------------------------------------------------------------------------
Route(r) == Load(r) \/ Reject(r) \/ Save(r) \/ SaveFails(r)

Turn(r) == \/ OutOfTurns(r) \/ Blocked(r) \/ AnswerFromCache(r) \/ CallLlm(r)
           \/ LlmFails(r) \/ LlmAnswers(r) \/ CheckBudget(r) \/ Conclude(r)
           \/ UseTools(r) \/ EndTurn(r)

ExecuteTool(r) == \/ Skip(r) \/ Pass(r) \/ Ask(r) \/ Announce(r) \/ Receive(r)
                  \/ GiveUp(r) \/ Cleanup(r) \/ Rebuff(r) \/ Execute(r) \/ Finish(r)

Step(r) == Route(r) \/ Turn(r) \/ ExecuteTool(r)

Next == \/ \E r \in Runs : Step(r) \/ Vanish(r)
        \/ \E c \in Calls, answer \in {"yes", "no"} : Review(c, answer)

Spec == Init /\ [][Next]_vars

\* The futures are polled, the provider and the tools answer or fail, and the
\* approval times out.  The reviewers owe nothing.
FairSpec == Spec /\ \A r \in Runs : WF_vars(Step(r))

-----------------------------------------------------------------------------
(* Properties *)

(***************************************************************************)
(* Unless the runner has a proxy, a tool that requires approval runs only  *)
(* after a reviewer said yes to this call, not to another one (runner.rs:  *)
(* "If approval is denied ... the call is blocked").                       *)
(***************************************************************************)
OnlyApprovedRun == proxy \/ ran \subseteq approved

(***************************************************************************)
(* Seen through approved and ran alone, the loop is the gate of HumanGate, *)
(* which the proxy of the runner leaves open: a guarded call then needs no *)
(* approval, but still runs at most once.                                  *)
(***************************************************************************)
Gate == INSTANCE HumanGate WITH open <- proxy, approved <- approved, ran <- ran
ImplementsGate == Gate!Spec

(***************************************************************************)
(* While a request waits, its sender is in the map or has been used:       *)
(* "Sender was dropped (shouldn't normally happen)", ws_approval.rs.       *)
(***************************************************************************)
SenderKept ==
  \A r \in Runs : at[r] \in Asking => \/ pending[TaskId[Cur(r)]] = Cur(r)
                                      \/ inbox[r] # "none"

(***************************************************************************)
(* The map of pending approvals does not leak: an entry belongs to a       *)
(* request that is being waited for, or to a message whose handler was     *)
(* dropped while it waited.  For the latter nothing ever removes it but a  *)
(* late answer or another call of the same id.                             *)
(***************************************************************************)
PendingAccounted ==
  \A i \in Ids : pending[i] # NoCall =>
    LET r == pending[i][1]
    IN  at[r] \in Asking \cup {"cleaning", "gone"} /\ Cur(r) = pending[i]

(***************************************************************************)
(* The budget is overdrawn only by messages it ends: whatever is recorded  *)
(* beyond it, each message contributes one response and then stops.  The   *)
(* first response is recorded before the budget is looked at, so a budget  *)
(* of 0 is one of 1.                                                       *)
(***************************************************************************)
OverdrawnOnce ==
  used < (IF Budget = 0 THEN 1 ELSE Budget)
         + Cardinality(spent) + Cardinality({r \in Runs : at[r] = "recorded"})

(***************************************************************************)
(* As long as the messages of a session are handled one after the other,   *)
(* its stored history holds those that were answered, each of them, and    *)
(* nothing of those that failed.                                           *)
(***************************************************************************)
SequentialHistory ==
  \A s \in Sessions \ overlaps :
    stored[s] = {r \in Runs : SessionOf[r] = s /\ at[r] = "replied"}

(***************************************************************************)
(* Every message is answered, fails, or its caller is gone: no wait of the *)
(* loop, for the reviewer in particular, is without an end.                *)
(***************************************************************************)
MessagesEnd == \A r \in Runs : <>(at[r] \in Ended)

(***************************************************************************)
(* How far a message is: its stage, its turn, the part of the turn, its    *)
(* call in the response, the part of the call.  Whatever a message does    *)
(* itself takes it further, and nothing takes it back: no answer, late or  *)
(* missing, makes the loop repeat a call or a turn.  turn and index have   *)
(* limits, so what is left to MessagesEnd is that no step is put off for   *)
(* ever.                                                                   *)
(***************************************************************************)
Stage(p) == CASE p = "new" -> 0 [] p = "saving" -> 2 [] p \in Ended -> 3 [] OTHER -> 1

TurnPart(p) ==
  CASE p = "turn" -> 0 [] p = "llm" -> 1 [] p = "recorded" -> 2 [] p = "act" -> 3 [] OTHER -> 4

CallPart(p) ==
  CASE p = "announce" -> 1 [] p = "waiting" -> 2 [] p \in {"cleaning", "cleared"} -> 3
    [] p = "working" -> 4 [] OTHER -> 0

Position(r) == <<Stage(at[r]), turn[r], TurnPart(at[r]), index[r], CallPart(at[r])>>

Precedes(p, q) == \E i \in 1..5 : p[i] < q[i] /\ \A j \in 1..i - 1 : p[j] = q[j]

OnlyForward ==
  [][\A r \in Runs : \/ Precedes(Position(r), Position(r)')
                     \/ ~Step(r) /\ UNCHANGED Position(r)]_vars
=============================================================================
