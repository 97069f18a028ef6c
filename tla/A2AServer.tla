------------------------------- MODULE A2AServer -------------------------------
(***************************************************************************)
(* The task store of the A2A server and the requests that work on it:      *)
(* tasks/send, tasks/sendSubscribe and tasks/cancel.                       *)
(*                                                                         *)
(* The store is one RwLock<HashMap>.  A send holds it twice, for a moment: *)
(* it clones the task, lets go, writes the clone back as Working, lets go, *)
(* waits for the handler, and writes back what the handler returned.  A    *)
(* cancel works on the stored task itself.                                 *)
(*                                                                         *)
(* tasks/get, tasks/list and agent/card only read.  Artifacts, metadata    *)
(* and time stamps are left out; the message of a request is the request.  *)
(***************************************************************************)
EXTENDS Sequences, Naturals

CONSTANTS
  Requests,  \* the send and sendSubscribe requests, each made at most once
  Ids        \* the task ids that may be drawn

VARIABLES
  tasks,   \* tasks[t]: the stored task, or Absent
  pc,      \* pc[r]: "new", "received" (cloned), "running" (handler), "done"
  target,  \* target[r]: the task r works on
  local,   \* local[r]: the task as r last read or wrote it
  dropped  \* the tasks one of whose handlers was dropped or panicked

vars == <<tasks, pc, target, local, dropped>>

Absent   == [status |-> "absent", messages |-> {}, history |-> <<>>]
Terminal == {"completed", "failed", "canceled"}
Status   == {"submitted", "working", "inputRequired"} \cup Terminal

\* A task that was stored, and the longest history Requests can give it.
Task == [status : Status, messages : SUBSET Requests, history : Seq(Status)]

TypeOK ==
  /\ tasks \in [Ids -> Task \cup {Absent}]
  /\ pc \in [Requests -> {"new", "received", "running", "done"}]
  /\ target \in [Requests -> Ids \cup {Absent}]
  /\ local \in [Requests -> Task \cup {Absent}]
  /\ dropped \in SUBSET Ids

Stored(t)     == tasks[t] # Absent
Active(r, t)  == pc[r] \in {"received", "running"} /\ target[r] = t

-----------------------------------------------------------------------------
(* Tasks *)

TransitionTo(task, s) ==
  [status |-> s, messages |-> task.messages, history |-> Append(task.history, s)]

AddMessage(task, m) ==
  [status |-> task.status, messages |-> task.messages \cup {m}, history |-> task.history]

\* Slip: Failed is forgotten.
IsTerminal_NotFailed(task) == task.status \in {"completed", "canceled"}

IsTerminal(task) == task.status \in Terminal

NewTask == [status |-> "submitted", messages |-> {}, history |-> <<"submitted">>]

Write(t, task) == tasks' = [tasks EXCEPT ![t] = task]

-----------------------------------------------------------------------------
(* Requests *)

Init == /\ tasks = [t \in Ids |-> Absent]
        /\ pc = [r \in Requests |-> "new"]
        /\ target = [r \in Requests |-> Absent]
        /\ local = [r \in Requests |-> Absent]
        /\ dropped = {}

\* A request that names a task clones it under the read lock.
Receive(r, t) ==
  /\ pc[r] = "new"
  /\ Stored(t) /\ ~IsTerminal(tasks[t])
  /\ pc' = [pc EXCEPT ![r] = "received"]
  /\ target' = [target EXCEPT ![r] = t]
  /\ local' = [local EXCEPT ![r] = tasks[t]]
  /\ UNCHANGED <<tasks, dropped>>

\* It is answered with an error when the task is unknown or terminal.
Refuse(r, t) ==
  /\ pc[r] = "new"
  /\ ~Stored(t) \/ IsTerminal(tasks[t])
  /\ pc' = [pc EXCEPT ![r] = "done"]
  /\ UNCHANGED <<tasks, target, local, dropped>>

\* A request that names none makes a task with an id nobody has (Uuid v4).
Create(r, t) ==
  /\ pc[r] = "new"
  /\ ~Stored(t) /\ \A q \in Requests : ~Active(q, t)
  /\ pc' = [pc EXCEPT ![r] = "received"]
  /\ target' = [target EXCEPT ![r] = t]
  /\ local' = [local EXCEPT ![r] = NewTask]
  /\ UNCHANGED <<tasks, dropped>>

\* The clone with the message added replaces the stored task, whatever that
\* has become in the meantime.
Store(r) ==
  LET task == TransitionTo(AddMessage(local[r], r), "working")
  IN  /\ pc[r] = "received"
      /\ Write(target[r], task)
      /\ local' = [local EXCEPT ![r] = task]
      /\ pc' = [pc EXCEPT ![r] = "running"]
      /\ UNCHANGED <<target, dropped>>

\* Slip: the error is answered and the task left as it was.
Finish_ErrNotStored(r, s) ==
  /\ pc[r] = "running"
  /\ IF s = "failed" THEN UNCHANGED tasks
     ELSE Write(target[r], TransitionTo(local[r], s))
  /\ pc' = [pc EXCEPT ![r] = "done"]
  /\ UNCHANGED <<target, local, dropped>>

\* The handler returned its clone, completed, failed or asking for input, or an
\* error, which the server turns into Failed.
Finish(r, s) ==
  /\ pc[r] = "running"
  /\ Write(target[r], TransitionTo(local[r], s))
  /\ pc' = [pc EXCEPT ![r] = "done"]
  /\ UNCHANGED <<target, local, dropped>>

\* A tasks/send waits for the handler itself: when its client hangs up its future
\* is dropped and the handler with it.  A tasks/sendSubscribe has spawned the
\* handler, which then ends early only if it panics.
Drop(r) ==
  /\ pc[r] \in {"received", "running"}
  /\ pc' = [pc EXCEPT ![r] = "done"]
  /\ dropped' = IF pc[r] = "running" THEN dropped \cup {target[r]} ELSE dropped
  /\ UNCHANGED <<tasks, target, local>>

\* Slip: a terminal task can be canceled.
Cancel_Always(t) ==
  /\ Stored(t) /\ tasks[t].status # "canceled"
  /\ Write(t, TransitionTo(tasks[t], "canceled"))
  /\ UNCHANGED <<pc, target, local, dropped>>

Cancel(t) ==
  /\ Stored(t) /\ ~IsTerminal(tasks[t])
  /\ Write(t, TransitionTo(tasks[t], "canceled"))
  /\ UNCHANGED <<pc, target, local, dropped>>

Step(r) ==
  \/ \E t \in Ids : Receive(r, t) \/ Refuse(r, t) \/ Create(r, t)
  \/ Store(r)
  \/ \E s \in {"completed", "failed", "inputRequired"} : Finish(r, s)
  \/ Drop(r)

Next == \/ \E r \in Requests : Step(r)
        \/ \E t \in Ids : Cancel(t)

\* The server runs on, and the handler answers.
Fairness == \A r \in Requests :
  /\ WF_vars(Store(r))
  /\ WF_vars(\E s \in {"completed", "failed", "inputRequired"} : Finish(r, s))

Spec     == Init /\ [][Next]_vars
FairSpec == Spec /\ Fairness

-----------------------------------------------------------------------------
(* Properties *)

(***************************************************************************)
(* However sends and cancels interleave, the history of a stored task is   *)
(* one that a task can have: it begins Submitted, ends with the status,    *)
(* and nothing follows Completed, Failed or Canceled.  transition_to()     *)
(* checks none of this; it rests on who may clone what.                    *)
(***************************************************************************)
Legal(task) ==
  LET h == task.history
  IN  /\ h # <<>> /\ h[1] = "submitted"
      /\ h[Len(h)] = task.status
      /\ \A i \in 1..Len(h) - 1 : h[i] \notin Terminal

HistoryLegal == \A t \in Ids : Stored(t) => Legal(tasks[t])

(***************************************************************************)
(* A step takes a message or an event of its history from a task only when *)
(* it is the write of a request whose copy is stale: had send compared its *)
(* copy with the stored task, nothing would ever be lost and no terminal   *)
(* task would go back to work.                                             *)
(***************************************************************************)
Extends(new, old) ==
  /\ old.messages \subseteq new.messages
  /\ Len(old.history) <= Len(new.history)
  /\ SubSeq(new.history, 1, Len(old.history)) = old.history

OnlyStaleWritesLose == [][
  \A t \in Ids :
    \/ ~Stored(t)
    \/ Extends(tasks'[t], tasks[t]) /\ (IsTerminal(tasks[t]) => tasks'[t] = tasks[t])
    \/ \E r \in Requests : Active(r, t) /\ pc'[r] # pc[r] /\ local[r] # tasks[t]
  ]_vars

(***************************************************************************)
(* Only a handler that still runs can end Working, so each task that is    *)
(* Working has one, or had one that was dropped: sends and cancels that    *)
(* overtake each other never leave a task Working that nobody works on.    *)
(***************************************************************************)
Handled(t)       == \E r \in Requests : pc[r] = "running" /\ target[r] = t
WorkingIsHandled == \A t \in Ids :
  tasks[t].status = "working" => Handled(t) \/ t \in dropped

(***************************************************************************)
(* A task does not stay Working for ever, unless a handler of it was       *)
(* dropped or panicked: there is no timeout that would find it.            *)
(***************************************************************************)
WorkEnds == \A t \in Ids :
  tasks[t].status = "working" ~> tasks[t].status # "working" \/ t \in dropped
=============================================================================
