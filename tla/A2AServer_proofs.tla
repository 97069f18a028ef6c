--------------------------- MODULE A2AServer_proofs ---------------------------
(* Histories, stale writes and running handlers, for any number of requests
   and tasks. *)
EXTENDS A2AServer, TLAPS

Held(r) == pc[r] \in {"received", "running"}

(***************************************************************************)
(* A request works on a copy that was not terminal when it was taken, and  *)
(* that it alone changes, so what it writes back is legal even when the    *)
(* stored task has moved on.                                               *)
(***************************************************************************)
CopiesLegal == \A r \in Requests : Held(r) =>
  /\ target[r] \in Ids
  /\ local[r] \in Task
  /\ Legal(local[r])
  /\ local[r].status \notin Terminal

HistoryInv == TypeOK /\ HistoryLegal /\ CopiesLegal

(***************************************************************************)
(* transition_to() keeps the history of a task legal when the task is not  *)
(* terminal.                                                               *)
(***************************************************************************)
LEMMA TransitionLegal ==
  ASSUME NEW task \in Task, Legal(task), task.status \notin Terminal,
         NEW s \in Status
  PROVE  /\ TransitionTo(task, s) \in Task
         /\ Legal(TransitionTo(task, s))
         /\ TransitionTo(task, s).status = s
<1> DEFINE h == task.history
           new == TransitionTo(task, s)
<1>1. h \in Seq(Status) /\ task.status \in Status  BY DEF Task
<1>2. new = [status |-> s, messages |-> task.messages, history |-> Append(h, s)]
  BY DEF TransitionTo, Task
<1>3. new \in Task /\ new.status = s /\ new.history = Append(h, s)
  BY <1>1, <1>2 DEF Task
<1>4. /\ Len(new.history) = Len(h) + 1
      /\ new.history[Len(h) + 1] = s
      /\ \A i \in 1..Len(h) : new.history[i] = h[i]
  BY <1>1, <1>3
<1>5. Len(h) \in Nat \ {0}  BY <1>1 DEF Legal
<1>6. \A i \in 1..Len(h) : h[i] \notin Terminal
  BY <1>1, <1>5 DEF Legal
<1>7. new.history # <<>> /\ new.history[1] = "submitted"
  BY <1>3, <1>4, <1>5 DEF Legal
<1>8. QED  BY <1>3, <1>4, <1>5, <1>6, <1>7 DEF Legal

(***************************************************************************)
(* add_message() touches neither the status nor the history.               *)
(***************************************************************************)
LEMMA MessageLegal ==
  ASSUME NEW task \in Task, NEW m \in Requests
  PROVE  /\ AddMessage(task, m) \in Task
         /\ Legal(task) => Legal(AddMessage(task, m))
         /\ AddMessage(task, m).status = task.status
<1>1. AddMessage(task, m) = [status |-> task.status,
                             messages |-> task.messages \cup {m},
                             history |-> task.history]
  BY DEF AddMessage, Task
<1>2. QED  BY <1>1 DEF Task, Legal

LEMMA NewTaskLegal ==
  NewTask \in Task /\ Legal(NewTask) /\ NewTask.status \notin Terminal
<1>1. <<"submitted">> \in Seq(Status) /\ Len(<<"submitted">>) = 1
  BY DEF Status, Terminal
<1>2. QED  BY <1>1 DEF NewTask, Task, Legal, Status, Terminal

LEMMA StoredIsTask ==
  ASSUME TypeOK, NEW t \in Ids, Stored(t)
  PROVE  tasks[t] \in Task
BY DEF TypeOK, Stored

LEMMA HistoryInit == Init => HistoryInv
BY DEF Init, HistoryInv, TypeOK, HistoryLegal, CopiesLegal, Held, Stored

LEMMA HistoryStep == HistoryInv /\ [Next]_vars => HistoryInv'
<1> SUFFICES ASSUME HistoryInv, [Next]_vars  PROVE HistoryInv'
  OBVIOUS
<1> USE DEF HistoryInv
<1>1. ASSUME NEW r \in Requests, NEW t \in Ids, Receive(r, t)  PROVE HistoryInv'
  <2>1. tasks[t] \in Task /\ Legal(tasks[t]) /\ tasks[t].status \notin Terminal
    BY <1>1, StoredIsTask DEF Receive, IsTerminal, HistoryLegal
  <2>2. TypeOK' /\ HistoryLegal'
    BY <1>1, <2>1 DEF Receive, TypeOK, HistoryLegal, Stored
  <2>3. CopiesLegal'
    BY <1>1, <2>1 DEF Receive, CopiesLegal, Held, TypeOK
  <2>4. QED  BY <2>2, <2>3
<1>2. ASSUME NEW r \in Requests, NEW t \in Ids, Refuse(r, t)  PROVE HistoryInv'
  BY <1>2 DEF Refuse, TypeOK, HistoryLegal, Stored, CopiesLegal, Held
<1>3. ASSUME NEW r \in Requests, NEW t \in Ids, Create(r, t)  PROVE HistoryInv'
  <2>1. TypeOK' /\ HistoryLegal'
    BY <1>3, NewTaskLegal DEF Create, TypeOK, HistoryLegal, Stored
  <2>2. CopiesLegal'
    BY <1>3, NewTaskLegal DEF Create, CopiesLegal, Held, TypeOK
  <2>3. QED  BY <2>1, <2>2
<1>4. ASSUME NEW r \in Requests, Store(r)  PROVE HistoryInv'
  <2> DEFINE task == TransitionTo(AddMessage(local[r], r), "working")
  <2>1. target[r] \in Ids /\ local[r] \in Task /\ Legal(local[r])
        /\ local[r].status \notin Terminal
    BY <1>4 DEF Store, CopiesLegal, Held
  <2>2. "working" \in Status \ Terminal  BY DEF Status, Terminal
  <2>3. task \in Task /\ Legal(task) /\ task.status = "working"
    BY <2>1, <2>2, MessageLegal, TransitionLegal
  <2>4. /\ tasks' = [tasks EXCEPT ![target[r]] = task]
        /\ local' = [local EXCEPT ![r] = task]
        /\ pc[r] = "received"
        /\ pc' = [pc EXCEPT ![r] = "running"]
        /\ UNCHANGED <<target, dropped>>
    BY <1>4 DEF Store, Write
  <2> HIDE DEF task
  <2>5. TypeOK' /\ HistoryLegal'
    BY <2>1, <2>3, <2>4 DEF TypeOK, HistoryLegal, Stored
  <2>6. CopiesLegal'
    BY <2>1, <2>2, <2>3, <2>4 DEF CopiesLegal, Held, TypeOK
  <2>7. QED  BY <2>5, <2>6
<1>5. ASSUME NEW r \in Requests,
             NEW s \in {"completed", "failed", "inputRequired"}, Finish(r, s)
      PROVE HistoryInv'
  <2> DEFINE task == TransitionTo(local[r], s)
  <2>1. s \in Status  BY DEF Status, Terminal
  <2>2. target[r] \in Ids /\ task \in Task /\ Legal(task)
    BY <1>5, <2>1, TransitionLegal DEF Finish, CopiesLegal, Held
  <2>3. /\ tasks' = [tasks EXCEPT ![target[r]] = task]
        /\ pc' = [pc EXCEPT ![r] = "done"]
        /\ UNCHANGED <<target, local, dropped>>
    BY <1>5 DEF Finish, Write
  <2> HIDE DEF task
  <2>4. TypeOK' /\ HistoryLegal'
    BY <2>2, <2>3 DEF TypeOK, HistoryLegal, Stored
  <2>5. CopiesLegal'
    BY <2>3 DEF CopiesLegal, Held, TypeOK
  <2>6. QED  BY <2>4, <2>5
<1>6. ASSUME NEW r \in Requests, Drop(r)  PROVE HistoryInv'
  <2>1. dropped' \in SUBSET Ids
    BY <1>6 DEF Drop, CopiesLegal, Held, TypeOK
  <2>2. QED
    BY <1>6, <2>1 DEF Drop, TypeOK, HistoryLegal, Stored, CopiesLegal, Held
<1>7. ASSUME NEW t \in Ids, Cancel(t)  PROVE HistoryInv'
  <2> DEFINE task == TransitionTo(tasks[t], "canceled")
  <2>1. tasks[t] \in Task /\ Legal(tasks[t]) /\ tasks[t].status \notin Terminal
    BY <1>7, StoredIsTask DEF Cancel, IsTerminal, HistoryLegal
  <2>2. "canceled" \in Status  BY DEF Status, Terminal
  <2>3. task \in Task /\ Legal(task)
    BY <2>1, <2>2, TransitionLegal
  <2>4. tasks' = [tasks EXCEPT ![t] = task] /\ UNCHANGED <<pc, target, local, dropped>>
    BY <1>7 DEF Cancel, Write
  <2> HIDE DEF task
  <2>5. QED
    BY <2>3, <2>4 DEF TypeOK, HistoryLegal, Stored, CopiesLegal, Held
<1>8. CASE UNCHANGED vars
  BY <1>8 DEF vars, TypeOK, HistoryLegal, Stored, CopiesLegal, Held
<1>9. QED
  BY <1>1, <1>2, <1>3, <1>4, <1>5, <1>6, <1>7, <1>8 DEF Next, Step

(***************************************************************************)
(* Sends and cancels of any number of clients leave every stored history   *)
(* legal, although each send writes back a clone it took earlier.          *)
(***************************************************************************)
THEOREM HistoriesLegal == Spec => []HistoryLegal
<1>1. Spec => []HistoryInv
  BY HistoryInit, HistoryStep, PTL DEF Spec
<1>2. HistoryInv => HistoryLegal  BY DEF HistoryInv
<1>3. QED  BY <1>1, <1>2, PTL

-----------------------------------------------------------------------------
(***************************************************************************)
(* A transition appends one event, and a message is added to the others.   *)
(***************************************************************************)
LEMMA TransitionExtends ==
  ASSUME NEW task \in Task, NEW new \in Task, NEW s \in Status,
         task.messages \subseteq new.messages,
         new.history = Append(task.history, s)
  PROVE  Extends(new, task)
<1> DEFINE h == task.history
<1>1. h \in Seq(Status) /\ Len(h) \in Nat  BY DEF Task
<1>2. Len(new.history) = Len(h) + 1  BY <1>1
<1>3. SubSeq(new.history, 1, Len(h)) = h
  BY <1>1, <1>2
<1>4. QED  BY <1>1, <1>2, <1>3 DEF Extends

LEMMA SameExtends == ASSUME NEW task \in Task PROVE Extends(task, task)
<1>1. task.history \in Seq(Status) /\ Len(task.history) \in Nat  BY DEF Task
<1>2. SubSeq(task.history, 1, Len(task.history)) = task.history  BY <1>1
<1>3. QED  BY <1>1, <1>2 DEF Extends

\* What OnlyStaleWritesLose says of one step and one task.
Kept(t)       == Extends(tasks'[t], tasks[t]) /\ (IsTerminal(tasks[t]) => tasks'[t] = tasks[t])
StaleWrite(t) == \E r \in Requests : Active(r, t) /\ pc'[r] # pc[r] /\ local[r] # tasks[t]

LEMMA UnchangedIsKept ==
  ASSUME TypeOK, NEW t \in Ids, Stored(t), tasks'[t] = tasks[t]
  PROVE  Kept(t)
<1>1. tasks[t] \in Task  BY StoredIsTask
<1>2. Extends(tasks'[t], tasks[t])  BY <1>1, SameExtends
<1>3. QED  BY <1>2 DEF Kept

LEMMA StepKeepsOrIsStale ==
  ASSUME HistoryInv, [Next]_vars, NEW t \in Ids, Stored(t)
  PROVE  Kept(t) \/ StaleWrite(t)
<1> USE DEF HistoryInv
<1>0. tasks[t] \in Task  BY StoredIsTask
\* A write of a request that made its copy from what is stored now.
<1>1. ASSUME NEW r \in Requests, Store(r)  PROVE Kept(t) \/ StaleWrite(t)
  <2> DEFINE task == TransitionTo(AddMessage(local[r], r), "working")
  <2>1. local[r] \in Task /\ Legal(local[r]) /\ local[r].status \notin Terminal
    BY <1>1 DEF Store, CopiesLegal, Held
  <2>2. /\ pc[r] = "received" /\ target[r] \in Ids
        /\ tasks' = [tasks EXCEPT ![target[r]] = task]
        /\ pc' = [pc EXCEPT ![r] = "running"]
    BY <1>1 DEF Store, Write, CopiesLegal, Held
  <2>3. "working" \in Status  BY DEF Status
  <2>4. /\ task \in Task /\ task.messages = local[r].messages \cup {r}
        /\ task.history = Append(local[r].history, "working")
    <3>1. AddMessage(local[r], r) \in Task /\ Legal(AddMessage(local[r], r))
          /\ AddMessage(local[r], r).status \notin Terminal
      BY <2>1, MessageLegal
    <3>2. QED  BY <3>1, <2>1, <2>3, TransitionLegal DEF TransitionTo, AddMessage
  <2> HIDE DEF task
  <2>5. CASE target[r] # t
    BY <2>2, <2>5, UnchangedIsKept DEF TypeOK
  <2>6. CASE target[r] = t /\ local[r] # tasks[t]
    BY <2>2, <2>6 DEF StaleWrite, Active, TypeOK
  <2>7. CASE target[r] = t /\ local[r] = tasks[t]
    <3>1. tasks'[t] = task  BY <2>2, <2>7 DEF TypeOK
    <3>2. Extends(task, tasks[t])
      BY <1>0, <2>3, <2>4, <2>7, TransitionExtends
    <3>3. QED  BY <2>1, <2>7, <3>1, <3>2 DEF Kept, IsTerminal
  <2>8. QED  BY <2>5, <2>6, <2>7
<1>2. ASSUME NEW r \in Requests,
             NEW s \in {"completed", "failed", "inputRequired"}, Finish(r, s)
      PROVE Kept(t) \/ StaleWrite(t)
  <2> DEFINE task == TransitionTo(local[r], s)
  <2>1. local[r] \in Task /\ Legal(local[r]) /\ local[r].status \notin Terminal
    BY <1>2 DEF Finish, CopiesLegal, Held
  <2>2. /\ pc[r] = "running" /\ target[r] \in Ids
        /\ tasks' = [tasks EXCEPT ![target[r]] = task]
        /\ pc' = [pc EXCEPT ![r] = "done"]
    BY <1>2 DEF Finish, Write, CopiesLegal, Held
  <2>3. s \in Status  BY DEF Status, Terminal
  <2>4. /\ task \in Task /\ task.messages = local[r].messages
        /\ task.history = Append(local[r].history, s)
    BY <2>1, <2>3, TransitionLegal DEF TransitionTo
  <2> HIDE DEF task
  <2>5. CASE target[r] # t
    BY <2>2, <2>5, UnchangedIsKept DEF TypeOK
  <2>6. CASE target[r] = t /\ local[r] # tasks[t]
    BY <2>2, <2>6 DEF StaleWrite, Active, TypeOK
  <2>7. CASE target[r] = t /\ local[r] = tasks[t]
    <3>1. tasks'[t] = task  BY <2>2, <2>7 DEF TypeOK
    <3>2. Extends(task, tasks[t])
      BY <1>0, <2>3, <2>4, <2>7, TransitionExtends
    <3>3. QED  BY <2>1, <2>7, <3>1, <3>2 DEF Kept, IsTerminal
  <2>8. QED  BY <2>5, <2>6, <2>7
<1>3. ASSUME NEW u \in Ids, Cancel(u)  PROVE Kept(t)
  <2> DEFINE task == TransitionTo(tasks[u], "canceled")
  <2>1. CASE u # t
    BY <1>3, <2>1, UnchangedIsKept DEF Cancel, Write, TypeOK
  <2>2. CASE u = t
    <3>1. "canceled" \in Status  BY DEF Status, Terminal
    <3>2. Legal(tasks[t]) /\ tasks[t].status \notin Terminal
      BY <1>3, <2>2 DEF Cancel, IsTerminal, HistoryLegal
    <3>3. /\ task \in Task /\ task.messages = tasks[t].messages
          /\ task.history = Append(tasks[t].history, "canceled")
      BY <1>0, <2>2, <3>1, <3>2, TransitionLegal DEF TransitionTo
    <3>4. tasks'[t] = task  BY <1>3, <2>2 DEF Cancel, Write, TypeOK
    <3> HIDE DEF task
    <3>5. Extends(task, tasks[t])
      BY <1>0, <3>1, <3>3, TransitionExtends
    <3>6. QED  BY <3>2, <3>4, <3>5 DEF Kept, IsTerminal
  <2>3. QED  BY <2>1, <2>2
<1>4. ASSUME UNCHANGED tasks  PROVE Kept(t)
  BY <1>4, UnchangedIsKept
<1>5. QED
  BY <1>1, <1>2, <1>3, <1>4 DEF Next, Step, Receive, Refuse, Create, Drop, vars

(***************************************************************************)
(* Nothing that a stored task has seen is lost, and no terminal task goes  *)
(* on, but by the write of a request that works on a stale clone.          *)
(***************************************************************************)
THEOREM OnlyStaleLose == Spec => OnlyStaleWritesLose
<1>1. HistoryInv /\ [Next]_vars =>
        [\A t \in Ids :
           \/ ~Stored(t)
           \/ Extends(tasks'[t], tasks[t]) /\ (IsTerminal(tasks[t]) => tasks'[t] = tasks[t])
           \/ \E r \in Requests : Active(r, t) /\ pc'[r] # pc[r] /\ local[r] # tasks[t]]_vars
  BY StepKeepsOrIsStale DEF Kept, StaleWrite
<1>2. Spec => []HistoryInv
  BY HistoryInit, HistoryStep, PTL DEF Spec
<1>3. QED  BY <1>1, <1>2, PTL DEF Spec, OnlyStaleWritesLose

-----------------------------------------------------------------------------
(***************************************************************************)
(* Working is written only by Store, whose handler then runs; that handler *)
(* leaves by Finish, which writes something else, or by Drop, which is     *)
(* recorded.  What other requests write in between is not Working or comes *)
(* with a handler of its own.                                              *)
(***************************************************************************)
LEMMA HandledInit == Init => WorkingIsHandled
BY DEF Init, WorkingIsHandled, Absent

LEMMA HandledStep == HistoryInv /\ WorkingIsHandled /\ [Next]_vars => WorkingIsHandled'
<1> SUFFICES ASSUME HistoryInv, WorkingIsHandled, [Next]_vars, NEW t \in Ids,
                    tasks'[t].status = "working"
             PROVE  Handled(t)' \/ t \in dropped'
  BY DEF WorkingIsHandled
<1> USE DEF HistoryInv
\* A step of a request that writes no task and ends no handler.
<1>1. ASSUME NEW r \in Requests, pc[r] # "running", UNCHANGED <<tasks, dropped>>,
             NEW q, pc' = [pc EXCEPT ![r] = q],
             \A x \in Requests \ {r} : target'[x] = target[x]
      PROVE  Handled(t)' \/ t \in dropped'
  <2>1. Handled(t) \/ t \in dropped  BY <1>1 DEF WorkingIsHandled
  <2>2. ASSUME NEW x \in Requests, pc[x] = "running", target[x] = t  PROVE Handled(t)'
    <3>1. x # r  BY <1>1, <2>2
    <3>2. pc'[x] = "running" /\ target'[x] = t  BY <1>1, <2>2, <3>1 DEF TypeOK
    <3>3. QED  BY <3>2 DEF Handled
  <2>3. QED  BY <1>1, <2>1, <2>2 DEF Handled
<1>2. ASSUME NEW r \in Requests, NEW u \in Ids, Receive(r, u)
      PROVE  Handled(t)' \/ t \in dropped'
  BY <1>1, <1>2 DEF Receive, TypeOK
<1>3. ASSUME NEW r \in Requests, NEW u \in Ids, Refuse(r, u)
      PROVE  Handled(t)' \/ t \in dropped'
  BY <1>1, <1>3 DEF Refuse, TypeOK
<1>4. ASSUME NEW r \in Requests, NEW u \in Ids, Create(r, u)
      PROVE  Handled(t)' \/ t \in dropped'
  BY <1>1, <1>4 DEF Create, TypeOK
<1>5. ASSUME NEW r \in Requests, Store(r)  PROVE Handled(t)' \/ t \in dropped'
  <2>1. CASE target[r] = t
    BY <1>5, <2>1 DEF Store, Handled, TypeOK
  <2>2. CASE target[r] # t
    <3>1. tasks'[t] = tasks[t]  BY <1>5, <2>2 DEF Store, Write, TypeOK
    <3>2. Handled(t) \/ t \in dropped  BY <3>1 DEF WorkingIsHandled
    <3>3. QED  BY <1>5, <3>2 DEF Store, Handled, TypeOK
  <2>3. QED  BY <2>1, <2>2
<1>6. ASSUME NEW r \in Requests,
             NEW s \in {"completed", "failed", "inputRequired"}, Finish(r, s)
      PROVE  Handled(t)' \/ t \in dropped'
  <2>1. TransitionTo(local[r], s).status = s  BY DEF TransitionTo
  <2>2. target[r] # t
    BY <1>6, <2>1 DEF Finish, Write, TypeOK
  <2>3. tasks'[t] = tasks[t]  BY <1>6, <2>2 DEF Finish, Write, TypeOK
  <2>4. Handled(t) \/ t \in dropped  BY <2>3 DEF WorkingIsHandled
  <2>5. QED  BY <1>6, <2>2, <2>4 DEF Finish, Handled, TypeOK
<1>7. ASSUME NEW r \in Requests, Drop(r)  PROVE Handled(t)' \/ t \in dropped'
  <2>1. Handled(t) \/ t \in dropped  BY <1>7 DEF Drop, WorkingIsHandled
  <2>2. dropped \subseteq dropped'  BY <1>7 DEF Drop
  <2>3. ASSUME NEW x \in Requests, pc[x] = "running", target[x] = t
        PROVE  Handled(t)' \/ t \in dropped'
    <3>1. CASE x = r  BY <1>7, <2>3, <3>1 DEF Drop
    <3>2. CASE x # r  BY <1>7, <2>3, <3>2 DEF Drop, Handled, TypeOK
    <3>3. QED  BY <3>1, <3>2
  <2>4. QED  BY <2>1, <2>2, <2>3 DEF Handled
<1>8. ASSUME NEW u \in Ids, Cancel(u)  PROVE Handled(t)' \/ t \in dropped'
  <2>1. u # t  BY <1>8 DEF Cancel, Write, TransitionTo, TypeOK
  <2>2. tasks'[t] = tasks[t]  BY <1>8, <2>1 DEF Cancel, Write, TypeOK
  <2>3. QED  BY <1>8, <2>2 DEF Cancel, WorkingIsHandled, Handled
<1>9. CASE UNCHANGED vars
  BY <1>9 DEF vars, WorkingIsHandled, Handled
<1>10. QED
  BY <1>2, <1>3, <1>4, <1>5, <1>6, <1>7, <1>8, <1>9 DEF Next, Step

(***************************************************************************)
(* A task that is Working has a handler that runs, or had one that was     *)
(* dropped.  This is the safety half of WorkEnds: what remains is that the *)
(* running handler answers, which the model assumes by fairness.           *)
(***************************************************************************)
THEOREM WorkHasHandler == Spec => []WorkingIsHandled
<1>1. Spec => []HistoryInv
  BY HistoryInit, HistoryStep, PTL DEF Spec
<1>2. QED  BY <1>1, HandledInit, HandledStep, PTL DEF Spec
=============================================================================
