------------------------- MODULE Orchestrator_proofs -------------------------
(***************************************************************************)
(* Theorems about Orchestrator, for any set of tasks, any dependencies,    *)
(* any plans and any number of runs, overlapping or not; and about         *)
(* CycleCheck, the search that decides whether a plan is accepted, for any *)
(* queue and any dependencies.                                             *)
(***************************************************************************)
EXTENDS Orchestrator, CycleCheck, SequenceTheorems, TLAPS

(***************************************************************************)
(* Each lock's critical section and each step of a future keeps the state  *)
(* well formed.                                                            *)
(***************************************************************************)
LEMMA TypeInit == Init => TypeOK
  BY OrchestratorAssumption, SMT
     DEF Init, TypeOK, Statuses, DriverAt, Outcomes, WorkerAt, AgentStatus, Idle, Workers, Runs

LEMMA TypeStep == TypeOK /\ [Next]_vars => TypeOK'
<1> USE OrchestratorAssumption
<1> SUFFICES ASSUME TypeOK, [Next]_vars PROVE TypeOK'
  OBVIOUS
<1> USE DEF TypeOK, Statuses, DriverAt, Outcomes, AgentStatus, Advance
<1>1. ASSUME NEW r \in Runs, BeginRun(r) PROVE TypeOK'
  BY <1>1 DEF BeginRun, StartTask, Track, queueVars, workerVars, Roles
<1>2. ASSUME NEW r \in Runs, EndPlan(r) PROVE TypeOK'
  BY <1>2 DEF EndPlan, FinishTask, Track, queueVars, workerVars, Roles
<1>3. ASSUME NEW r \in Runs, SubmitPlan(r) PROVE TypeOK'
  <2>1. created' \in Seq(Tasks)
    <3>1. Batch[r] \in Seq(Tasks) BY <1>3
    <3> QED BY <1>3, <3>1 DEF SubmitPlan
  <2>2. status' \in [Tasks -> Statuses]
    BY <1>3 DEF SubmitPlan
  <2> QED BY <1>3, <2>1, <2>2 DEF SubmitPlan, Return, workerVars
<1>4. ASSUME NEW r \in Runs, PrepareOutput(r) PROVE TypeOK'
  BY <1>4 DEF PrepareOutput, Return, queueVars, workerVars
<1>5. ASSUME NEW r \in Runs, Poll(r) PROVE TypeOK'
  <2>1. \E at \in DriverAt : driver' = [driver EXCEPT ![r] = at]
    BY <1>5 DEF Poll
  <2>2. AllReady \subseteq Tasks
    BY DEF AllReady
  <2>3. ready' \in [Runs -> SUBSET Tasks]
    BY <1>5, <2>2 DEF Poll
  <2>4. driver' \in [Runs -> DriverAt]
    BY <2>1
  <2> QED BY <1>5, <2>3, <2>4 DEF Poll, queueVars, workerVars
<1>6. ASSUME NEW r \in Runs, Recheck(r) PROVE TypeOK'
  BY <1>6 DEF Recheck, Return, queueVars, workerVars
<1>7. ASSUME NEW r \in Runs, Synthesize(r) PROVE TypeOK'
  BY <1>7 DEF Synthesize, Return, queueVars, workerVars
<1>8. ASSUME NEW r \in Runs, NEW t \in Tasks, Dispatch(r, t) PROVE TypeOK'
  <2>1. <<r, t>> \in Workers BY <1>8 DEF Workers
  <2>2. {d \in Deps[t] : artifacts[d] > 0} \subseteq Tasks BY <1>8
  <2> QED BY <1>8, <2>1, <2>2 DEF Dispatch, queueVars, WorkerAt
<1>9. ASSUME NEW r \in Runs, NEW t \in Tasks, Join(r, t) PROVE TypeOK'
  <2>1. \E at \in DriverAt : driver' = [driver EXCEPT ![r] = at]
    BY <1>9 DEF Join, Return
  <2>2. ready' \in [Runs -> SUBSET Tasks] /\ handles' \in [Runs -> SUBSET Tasks]
    <3>1. ready' = ready \/ ready' = [ready EXCEPT ![r] = {}]
      BY <1>9 DEF Join, Return
    <3>2. PICK H \in SUBSET Tasks : handles' = [handles EXCEPT ![r] = H]
      BY <1>9 DEF Join, Return
    <3>3. ready' \in [Runs -> SUBSET Tasks]
      BY <3>1
    <3>4. handles' \in [Runs -> SUBSET Tasks]
      BY <3>2
    <3> QED BY <3>3, <3>4
  <2>3. result' \in [Runs -> Outcomes]
    <3>1. result' = result \/ result' = [result EXCEPT ![r] = "failed"]
      BY <1>9 DEF Join, Return
    <3> QED BY <3>1
  <2>4. driver' \in [Runs -> DriverAt]
    BY <2>1
  <2> QED BY <1>9, <2>2, <2>3, <2>4 DEF Join, queueVars, workerVars
<1>10. ASSUME NEW t \in Tasks, AddExternal(t) PROVE TypeOK'
  BY <1>10 DEF AddExternal, driverVars, workerVars
<1>11. ASSUME NEW w \in Workers, Worker(w) PROVE TypeOK'
  <2>1. /\ w[2] \in Tasks /\ Role(w) \in Roles
        /\ monitor[Role(w)].task \in Tasks \cup {NoTask}
    BY DEF Workers, Role, Roles
  <2> USE <2>1 DEF Move, WorkerAt, Running, Ended, CutOff, driverVars
  <2>2. CASE MarkRunning(w) BY <2>2 DEF MarkRunning
  <2>3. CASE TrackStart(w) BY <2>3 DEF TrackStart, StartTask, Track, queueVars
  <2>4. CASE MissProfile(w) BY <2>4 DEF MissProfile, queueVars
  <2>5. CASE AgentAnswers(w) BY <2>5 DEF AgentAnswers, queueVars
  <2>6. CASE WaitForApproval(w) BY <2>6 DEF WaitForApproval, SetStatus, Track, queueVars
  <2>7. CASE MarkNeedsReview(w) BY <2>7 DEF MarkNeedsReview, Terminal
  <2>8. CASE MarkCompleted(w) BY <2>8 DEF MarkCompleted, Terminal
  <2>9. CASE TrackFinish(w) BY <2>9 DEF TrackFinish, FinishTask, Track, queueVars
  <2>10. CASE MarkFailed(w) BY <2>10 DEF MarkFailed, Terminal
  <2>11. CASE RecordError(w) BY <2>11 DEF RecordError, SetStatus, Track, queueVars
  <2>12. CASE TrackFailure(w) BY <2>12 DEF TrackFailure, FinishTask, Track, queueVars
  <2> QED BY <1>11, <2>2, <2>3, <2>4, <2>5, <2>6, <2>7, <2>8, <2>9, <2>10, <2>11, <2>12
          DEF Worker
<1>12. CASE UNCHANGED vars
  BY <1>12 DEF vars, queueVars, driverVars, workerVars
<1> QED BY <1>1, <1>2, <1>3, <1>4, <1>5, <1>6, <1>7, <1>8, <1>9, <1>10, <1>11, <1>12
        DEF Next, Driver

(***************************************************************************)
(* Type correctness of every reachable state.                              *)
(***************************************************************************)
THEOREM TypeCorrect == Spec => []TypeOK
  BY TypeInit, TypeStep, PTL DEF Spec

-----------------------------------------------------------------------------
(***************************************************************************)
(* Dependency order.  A worker's future is created from the snapshot taken *)
(* by Poll, several awaits earlier, so the invariant must say of the       *)
(* snapshot, too, that its dependencies are logged; and for the context to *)
(* be complete, that whatever is logged has an artifact: MarkCompleted     *)
(* stores both under one lock.                                             *)
(***************************************************************************)
LoggedHasArtifact == \A t \in Tasks : Completed(t) => artifacts[t] > 0

SnapshotUnblocked == \A r \in Runs : \A t \in ready[r] : \A d \in Deps[t] : Completed(d)

OrderInv == TypeOK /\ LoggedHasArtifact /\ SnapshotUnblocked /\ ContextComplete

LEMMA OrderInit == Init => OrderInv
  BY TypeInit, OrchestratorAssumption
     DEF Init, OrderInv, LoggedHasArtifact, SnapshotUnblocked, ContextComplete, Completed

LEMMA OrderStep == OrderInv /\ [Next]_vars => OrderInv'
<1> SUFFICES ASSUME OrderInv, [Next]_vars PROVE OrderInv'
  OBVIOUS
<1> USE OrchestratorAssumption
<1>0. TypeOK /\ TypeOK'
  BY TypeStep DEF OrderInv
\* A step that adds nothing to any snapshot and leaves log, artifacts and workers alone.
<1>1. ASSUME UNCHANGED <<logged, artifacts, worker, context>>,
             \A r \in Runs : ready'[r] \subseteq ready[r]
      PROVE  OrderInv'
  BY <1>0, <1>1 DEF OrderInv, LoggedHasArtifact, SnapshotUnblocked, ContextComplete, Completed
<1>2. ASSUME NEW r \in Runs, BeginRun(r) \/ EndPlan(r) PROVE OrderInv'
  BY <1>1, <1>2 DEF BeginRun, EndPlan, queueVars, workerVars
<1>3. ASSUME NEW r \in Runs, SubmitPlan(r) \/ PrepareOutput(r) PROVE OrderInv'
  BY <1>0, <1>1, <1>3 DEF SubmitPlan, PrepareOutput, Return, queueVars, workerVars, TypeOK
<1>4. ASSUME NEW r \in Runs, Recheck(r) \/ Synthesize(r) PROVE OrderInv'
  BY <1>0, <1>1, <1>4 DEF Recheck, Synthesize, Return, queueVars, workerVars, TypeOK
<1>5. ASSUME NEW r \in Runs, Poll(r) PROVE OrderInv'
  <2>1. \A q \in Runs : ready'[q] = ready[q] \/ ready'[q] = AllReady
    BY <1>0, <1>5 DEF Poll, TypeOK
  <2>2. UNCHANGED <<logged, artifacts, worker, context>>
    BY <1>5 DEF Poll, queueVars, workerVars
  <2>3. SnapshotUnblocked'
    BY <2>1, <2>2 DEF AllReady, IsReady, OrderInv, SnapshotUnblocked, Completed
  <2> QED BY <1>0, <2>2, <2>3 DEF OrderInv, LoggedHasArtifact, ContextComplete, Completed
<1>6. ASSUME NEW r \in Runs, NEW t \in Tasks, Dispatch(r, t) PROVE OrderInv'
  <2>1. t \in ready[r] /\ \A d \in Deps[t] : Completed(d)
    BY <1>6 DEF Dispatch, Oldest, OrderInv, SnapshotUnblocked
  <2>2. {d \in Deps[t] : artifacts[d] > 0} = Deps[t]
    BY <2>1 DEF OrderInv, LoggedHasArtifact
  <2>3. LoggedHasArtifact' /\ SnapshotUnblocked'
    BY <1>0, <1>6
       DEF Dispatch, queueVars, OrderInv, LoggedHasArtifact, SnapshotUnblocked, Completed, TypeOK
  <2>4. ContextComplete'
    <3> SUFFICES ASSUME NEW w \in Workers, worker'[w] # "none"
                 PROVE  (\A d \in Deps[w[2]] : Completed(d)') /\ context'[w] = Deps[w[2]]
      BY DEF ContextComplete
    <3>1. CASE w = <<r, t>>
      BY <1>6, <2>1, <2>2, <3>1
         DEF Dispatch, queueVars, Completed, OrderInv, TypeOK
    <3>2. CASE w # <<r, t>>
      BY <1>6, <3>2
         DEF Dispatch, queueVars, Completed, OrderInv, TypeOK, ContextComplete
    <3> QED BY <3>1, <3>2
  <2> QED BY <1>0, <2>3, <2>4 DEF OrderInv
<1>7. ASSUME NEW r \in Runs, NEW t \in Tasks, Join(r, t) PROVE OrderInv'
  BY <1>0, <1>1, <1>7 DEF Join, Return, queueVars, workerVars, TypeOK
<1>8. ASSUME NEW t \in Tasks, AddExternal(t) PROVE OrderInv'
  BY <1>1, <1>8 DEF AddExternal, driverVars, workerVars
<1>9. ASSUME NEW w \in Workers, Worker(w) PROVE OrderInv'
  <2>1. w[2] \in Tasks
    BY DEF Workers
  \* The log and the artifacts only grow, and grow together.
  <2>2. /\ \A t \in Tasks : Completed(t) => Completed(t)'
        /\ LoggedHasArtifact'
    <3>1. CASE MarkCompleted(w)
      BY <2>1, <3>1 DEF MarkCompleted, OrderInv, TypeOK, LoggedHasArtifact, Completed
    <3>2. CASE MarkNeedsReview(w)
      BY <2>1, <3>2 DEF MarkNeedsReview, OrderInv, TypeOK, LoggedHasArtifact, Completed
    <3>3. CASE UNCHANGED <<logged, artifacts>>
      BY <3>3 DEF OrderInv, LoggedHasArtifact, Completed
    <3> QED BY <1>9, <3>1, <3>2, <3>3
            DEF Worker, MarkRunning, TrackStart, MissProfile, AgentAnswers, WaitForApproval,
                TrackFinish, MarkFailed, RecordError, TrackFailure, queueVars
  \* A worker moves on, and only if its future exists.
  <2>3. /\ UNCHANGED <<ready, context>>
        /\ worker[w] # "none"
        /\ \E at \in WorkerAt : worker' = [worker EXCEPT ![w] = at]
    BY <1>9
       DEF Worker, MarkRunning, TrackStart, MissProfile, AgentAnswers, WaitForApproval,
           MarkNeedsReview, MarkCompleted, TrackFinish, MarkFailed, RecordError, TrackFailure,
           Move, driverVars, WorkerAt, Running, Ended, CutOff
  <2>4. SnapshotUnblocked'
    BY <2>2, <2>3 DEF OrderInv, TypeOK, SnapshotUnblocked
  <2>5. ContextComplete'
    BY <2>2, <2>3 DEF OrderInv, TypeOK, ContextComplete, Workers
  <2> QED BY <1>0, <2>2, <2>4, <2>5 DEF OrderInv
<1>10. CASE UNCHANGED vars
  BY <1>1, <1>10 DEF vars, queueVars, driverVars, workerVars
<1> QED BY <1>2, <1>3, <1>4, <1>5, <1>6, <1>7, <1>8, <1>9, <1>10 DEF Next, Driver

(***************************************************************************)
(* No worker ever starts before all its dependencies have completed, and   *)
(* each is given the artifacts of all of them, however runs, detached      *)
(* workers and outside additions interleave.                               *)
(***************************************************************************)
THEOREM DependencyOrder == Spec => []ContextComplete
<1>1. OrderInv => ContextComplete
  BY DEF OrderInv
<1> QED BY <1>1, OrderInit, OrderStep, PTL DEF Spec

-----------------------------------------------------------------------------
(***************************************************************************)
(* The status of a task and the workers on it.  Runs may overlap and a     *)
(* failed run leaves workers behind, so several may be on one task, and    *)
(* each writes the status when it gets there.  What remains true is that   *)
(* the status was written by one that is still where it wrote it, and that *)
(* no worker has begun on a task that is pending.                          *)
(***************************************************************************)
Behind(s) == CASE s = "running" -> Running \cup CutOff
               [] s = "failed"  -> {"counting", "clearing", "err"}
               [] OTHER         -> {"closing", "ok"}

Unbegun(t) == \A r \in Runs : worker[<<r, t>>] \in {"none", "queued"}

StatusExplained ==
  \A t \in Tasks :
    /\ status[t] \in {"absent", "pending"} => Unbegun(t)
    /\ status[t] \notin {"absent", "pending"} =>
         \E r \in Runs : worker[<<r, t>>] \in Behind(status[t])
    /\ status[t] = "absent" => \A r \in Runs : worker[<<r, t>>] = "none"

\* The plan of run r has not been submitted yet.
Ahead(r) == driver[r] \in {"new", "planning", "planned"}

\* The snapshot of Poll, and the handles, are those of the current iteration;
\* a task of the snapshot is new to this run, and its workers that it does not
\* await have ended well.
LoopInv(r) ==
  /\ driver[r] # "dispatch" => ready[r] = {}
  /\ driver[r] \notin {"dispatch", "join"} => handles[r] = {}
  /\ \A t \in ready[r] : status[t] # "absent" /\ worker[<<r, t>>] = "none"
  /\ driver[r] # "returned" =>
       \A t \in Tasks : t \in handles[r] \/ worker[<<r, t>>] \in {"none", "ok"}

\* What is known of the tasks that run r plans.
PlanInv(r) ==
  \A t \in PlannedBy(r) :
    /\ Ahead(r) <=> status[t] = "absent"
    /\ driver[r] = "synthesize" => status[t] # "pending"

RunInv == TypeOK /\ StatusExplained /\ \A r \in Runs : LoopInv(r) /\ PlanInv(r)

\* A step of a worker moves that worker only; it writes the status of its task,
\* or leaves it behind the status it wrote.
LEMMA WorkerStep ==
  ASSUME TypeOK, NEW w \in Workers, Worker(w)
  PROVE  /\ worker[w] \notin {"none"} \cup Ended
         /\ worker'[w] \notin {"none", "queued"}
         /\ worker' = [worker EXCEPT ![w] = worker'[w]]
         /\ status' = [status EXCEPT ![w[2]] = status'[w[2]]]
         /\ \/ /\ status'[w[2]] \in {"running"} \cup Terminal
               /\ worker'[w] \in Behind(status'[w[2]])
            \/ /\ status'[w[2]] = status[w[2]] /\ worker[w] # "queued"
               /\ worker[w] \in Behind(status[w[2]]) => worker'[w] \in Behind(status[w[2]])
         /\ UNCHANGED driverVars
<1>0. w[2] \in Tasks
  BY DEF Workers
<1> USE <1>0 DEF TypeOK, Move, Behind, Running, Ended, CutOff, Terminal, driverVars
<1>1. CASE MarkRunning(w) BY <1>1 DEF MarkRunning
<1>2. CASE TrackStart(w) BY <1>2 DEF TrackStart, queueVars
<1>3. CASE MissProfile(w) BY <1>3 DEF MissProfile, queueVars
<1>4. CASE AgentAnswers(w) BY <1>4 DEF AgentAnswers, queueVars
<1>5. CASE WaitForApproval(w) BY <1>5 DEF WaitForApproval, queueVars
<1>6. CASE MarkNeedsReview(w) BY <1>6 DEF MarkNeedsReview
<1>7. CASE MarkCompleted(w) BY <1>7 DEF MarkCompleted
<1>8. CASE TrackFinish(w) BY <1>8 DEF TrackFinish, queueVars
<1>9. CASE MarkFailed(w) BY <1>9 DEF MarkFailed
<1>10. CASE RecordError(w) BY <1>10 DEF RecordError, queueVars
<1>11. CASE TrackFailure(w) BY <1>11 DEF TrackFailure, queueVars
<1> QED BY <1>1, <1>2, <1>3, <1>4, <1>5, <1>6, <1>7, <1>8, <1>9, <1>10, <1>11 DEF Worker

\* A step of one driver leaves the other calls of run() as they are.
LEMMA DriverStep ==
  ASSUME TypeOK, NEW r \in Runs, BeginRun(r) \/ Driver(r)
  PROVE  \A q \in Runs \ {r} : /\ driver'[q] = driver[q] /\ ready'[q] = ready[q]
                               /\ handles'[q] = handles[q] /\ result'[q] = result[q]
<1> USE DEF TypeOK, Advance
<1>1. CASE BeginRun(r) \/ EndPlan(r) BY <1>1 DEF BeginRun, EndPlan
<1>2. CASE SubmitPlan(r) \/ PrepareOutput(r) BY <1>2 DEF SubmitPlan, PrepareOutput, Return
<1>3. CASE Poll(r) \/ Recheck(r) \/ Synthesize(r) BY <1>3 DEF Poll, Recheck, Synthesize, Return
<1>4. ASSUME NEW t \in Tasks, Dispatch(r, t) \/ Join(r, t)
      PROVE  \A q \in Runs \ {r} : /\ driver'[q] = driver[q] /\ ready'[q] = ready[q]
                                   /\ handles'[q] = handles[q] /\ result'[q] = result[q]
  BY <1>4 DEF Dispatch, Join, Return
<1> QED BY <1>1, <1>2, <1>3, <1>4 DEF Driver

LEMMA RunInit == Init => RunInv
<1> SUFFICES ASSUME Init PROVE RunInv
  OBVIOUS
<1>1. TypeOK
  BY TypeInit
<1>2. \A r \in Runs : PlannedBy(r) \subseteq Tasks
  BY OrchestratorAssumption DEF PlannedBy
<1>3. \A r \in Runs, t \in Tasks : worker[<<r, t>>] = "none" /\ status[t] = "absent"
  BY DEF Init, Workers
<1>4. StatusExplained
  <2> SUFFICES ASSUME NEW t \in Tasks
               PROVE  Unbegun(t) /\ status[t] = "absent" /\ \A r \in Runs : worker[<<r, t>>] = "none"
    BY DEF StatusExplained
  <2>1. status[t] = "absent" /\ \A r \in Runs : worker[<<r, t>>] = "none"
    BY DEF Init, Workers
  <2> QED BY <2>1 DEF Unbegun
<1>5. \A r \in Runs : LoopInv(r) /\ PlanInv(r)
  BY <1>2, <1>3 DEF Init, LoopInv, PlanInv, Ahead
<1> QED BY <1>1, <1>4, <1>5 DEF RunInv

LEMMA RunStep == RunInv /\ [Next]_vars => RunInv'
<1> SUFFICES ASSUME RunInv, [Next]_vars PROVE RunInv'
  OBVIOUS
<1> USE OrchestratorAssumption
<1>0. TypeOK /\ TypeOK'
  BY TypeStep DEF RunInv
<1>p. \A r \in Runs : PlannedBy(r) \subseteq Tasks
  BY DEF PlannedBy
<1>i. StatusExplained /\ \A r \in Runs : LoopInv(r) /\ PlanInv(r)
  BY DEF RunInv
\* A step of one driver that touches neither the queue nor the workers.
<1>q. ASSUME NEW r \in Runs, BeginRun(r) \/ Driver(r), UNCHANGED <<status, worker>>,
             LoopInv(r)', PlanInv(r)'
      PROVE  RunInv'
  <2>1. StatusExplained'
    BY <1>q, <1>i DEF StatusExplained, Unbegun
  <2>2. ASSUME NEW q \in Runs \ {r} PROVE LoopInv(q)' /\ PlanInv(q)'
    <3>1. driver'[q] = driver[q] /\ ready'[q] = ready[q] /\ handles'[q] = handles[q]
      BY <1>0, <1>q, DriverStep
    <3> QED BY <1>q, <1>i, <3>1 DEF LoopInv, PlanInv, Ahead
  <2> QED BY <1>0, <1>q, <2>1, <2>2 DEF RunInv
<1>1. ASSUME NEW r \in Runs, BeginRun(r) \/ EndPlan(r) PROVE RunInv'
  <2>1. UNCHANGED <<status, worker, ready, handles>>
        /\ driver[r] \in {"new", "planning"} /\ driver'[r] \in {"planning", "planned"}
    BY <1>0, <1>1 DEF BeginRun, EndPlan, Advance, queueVars, workerVars, TypeOK
  <2>2. LoopInv(r)' /\ PlanInv(r)'
    BY <2>1, <1>i DEF LoopInv, PlanInv, Ahead
  <2> QED BY <1>1, <1>q, <2>1, <2>2 DEF Driver
<1>3. ASSUME NEW r \in Runs, SubmitPlan(r) PROVE RunInv'
  <2>1. /\ UNCHANGED worker /\ driver[r] = "planned"
        /\ \A t \in Tasks : status'[t] = IF t \in PlannedBy(r) THEN "pending" ELSE status[t]
        /\ driver'[r] \in {"setup", "returned"}
        /\ ready'[r] \in {ready[r], {}} /\ handles'[r] \in {handles[r], {}}
    BY <1>0, <1>3 DEF SubmitPlan, Return, Advance, workerVars, TypeOK
  <2>2. ready[r] = {} /\ handles[r] = {} /\ \A t \in PlannedBy(r) : status[t] = "absent"
    BY <2>1, <1>i DEF LoopInv, PlanInv, Ahead
  <2>3. StatusExplained'
    BY <2>1, <2>2, <1>i DEF StatusExplained, Unbegun
  <2>4. LoopInv(r)' /\ PlanInv(r)'
    BY <2>1, <2>2, <1>i, <1>p DEF LoopInv, PlanInv, Ahead
  <2>5. ASSUME NEW q \in Runs \ {r} PROVE LoopInv(q)' /\ PlanInv(q)'
    <3>1. driver'[q] = driver[q] /\ ready'[q] = ready[q] /\ handles'[q] = handles[q]
      BY <1>0, <1>3, DriverStep DEF Driver
    <3>2. \A t \in PlannedBy(q) : status'[t] = status[t]
      BY <2>1, <1>p
    <3>3. \A t \in ready[q] : t \in Tasks
      BY <1>0 DEF TypeOK
    <3>4. \A t \in Tasks : status'[t] # status[t] => status'[t] = "pending"
      BY <2>1
    <3>5. LoopInv(q)'
      BY <2>1, <3>1, <3>3, <3>4, <1>i DEF LoopInv
    <3>6. PlanInv(q)'
      BY <3>1, <3>2, <1>i DEF PlanInv, Ahead
    <3> QED BY <3>5, <3>6
  <2> QED BY <1>0, <2>3, <2>4, <2>5 DEF RunInv
<1>4. ASSUME NEW r \in Runs, PrepareOutput(r) PROVE RunInv'
  <2>1. UNCHANGED <<status, worker>> /\ driver[r] = "setup" /\ driver'[r] \in {"poll", "returned"}
        /\ ready'[r] \in {ready[r], {}} /\ handles'[r] \in {handles[r], {}}
    BY <1>0, <1>4 DEF PrepareOutput, Return, Advance, queueVars, workerVars, TypeOK
  <2>2. LoopInv(r)'
    BY <2>1, <1>i DEF LoopInv
  <2>3. PlanInv(r)'
    BY <2>1, <1>i DEF PlanInv, Ahead
  <2> QED BY <1>4, <1>q, <2>1, <2>2, <2>3 DEF Driver
<1>5. ASSUME NEW r \in Runs, Poll(r) PROVE RunInv'
  <2>1. UNCHANGED <<status, worker, handles>> /\ driver[r] = "poll" /\ handles[r] = {}
        /\ \/ driver'[r] = "synthesize" /\ IsDone /\ ready'[r] = ready[r]
           \/ driver'[r] = "recheck" /\ ready'[r] = {}
           \/ driver'[r] = "dispatch" /\ ready'[r] = AllReady
    BY <1>0, <1>5, <1>i DEF Poll, Advance, queueVars, workerVars, LoopInv, TypeOK
  \* A pending task is one this run has not dispatched: it awaited all it did.
  <2>2. \A t \in AllReady : status[t] = "pending" /\ worker[<<r, t>>] = "none"
    BY <2>1, <1>i DEF AllReady, IsReady, LoopInv, StatusExplained, Unbegun
  <2>3. LoopInv(r)'
    BY <2>1, <2>2, <1>i DEF LoopInv
  <2>4. PlanInv(r)'
    BY <2>1, <1>i, <1>p DEF IsDone, InQueue, Terminal, PlanInv, Ahead
  <2> QED BY <1>5, <1>q, <2>1, <2>3, <2>4 DEF Driver
<1>6. ASSUME NEW r \in Runs, Recheck(r) PROVE RunInv'
  <2>1. UNCHANGED <<status, worker>> /\ driver[r] = "recheck"
        /\ ready'[r] \in {ready[r], {}} /\ handles'[r] \in {handles[r], {}}
        /\ \/ driver'[r] = "returned"
           \/ driver'[r] = "synthesize" /\ \A t \in Tasks : status[t] # "pending"
    BY <1>0, <1>6 DEF Recheck, Return, Advance, queueVars, workerVars, TypeOK
  <2>2. LoopInv(r)'
    BY <2>1, <1>i DEF LoopInv
  <2>3. PlanInv(r)'
    BY <2>1, <1>i, <1>p DEF PlanInv, Ahead
  <2> QED BY <1>6, <1>q, <2>1, <2>2, <2>3 DEF Driver
<1>7. ASSUME NEW r \in Runs, Synthesize(r) PROVE RunInv'
  <2>1. UNCHANGED <<status, worker>> /\ driver[r] = "synthesize" /\ driver'[r] = "returned"
        /\ ready'[r] = {} /\ handles'[r] = {}
    BY <1>0, <1>7 DEF Synthesize, Return, Advance, queueVars, workerVars, TypeOK
  <2>2. LoopInv(r)' /\ PlanInv(r)'
    BY <2>1, <1>i DEF LoopInv, PlanInv, Ahead
  <2> QED BY <1>7, <1>q, <2>1, <2>2 DEF Driver
<1>8. ASSUME NEW r \in Runs, NEW t \in Tasks, Dispatch(r, t) PROVE RunInv'
  <2>1. /\ UNCHANGED status /\ driver[r] = "dispatch" /\ t \in ready[r]
        /\ ready'[r] = ready[r] \ {t} /\ handles'[r] = handles[r] \cup {t}
        /\ driver'[r] = IF ready[r] = {t} THEN "join" ELSE "dispatch"
        /\ worker' = [worker EXCEPT ![<<r, t>>] = "queued"]
    BY <1>0, <1>8 DEF Dispatch, Oldest, Advance, queueVars, TypeOK
  <2>2. /\ worker[<<r, t>>] = "none" /\ status[t] # "absent" /\ worker'[<<r, t>>] = "queued"
        /\ \A q \in Runs, u \in Tasks :
             q # r \/ u # t => worker'[<<q, u>>] = worker[<<q, u>>]
    BY <1>0, <2>1, <1>i DEF LoopInv, TypeOK, Workers
  <2>3. StatusExplained'
    <3> SUFFICES ASSUME NEW u \in Tasks
                 PROVE  /\ status[u] \in {"absent", "pending"} => Unbegun(u)'
                        /\ status[u] \notin {"absent", "pending"} =>
                             \E q \in Runs : worker'[<<q, u>>] \in Behind(status[u])
                        /\ status[u] = "absent" => \A q \in Runs : worker'[<<q, u>>] = "none"
      BY <2>1 DEF StatusExplained, Behind
    <3>1. CASE status[u] \in {"absent", "pending"}
      <4>1. \A q \in Runs : worker'[<<q, u>>] \in {worker[<<q, u>>], "queued"}
        BY <2>2
      <4>2. status[u] = "absent" => \A q \in Runs : worker'[<<q, u>>] = worker[<<q, u>>]
        BY <2>2
      <4> QED BY <3>1, <4>1, <4>2, <1>i DEF StatusExplained, Unbegun
    <3>2. CASE status[u] \notin {"absent", "pending"}
      <4>1. PICK q \in Runs : worker[<<q, u>>] \in Behind(status[u])
        BY <3>2, <1>i DEF StatusExplained
      <4>2. q # r \/ u # t
        BY <2>2, <4>1 DEF Behind, Running, CutOff
      <4> QED BY <2>2, <3>2, <4>1, <4>2
    <3> QED BY <3>1, <3>2
  <2>4. LoopInv(r)' /\ PlanInv(r)'
    <3>1. ready[r] \subseteq Tasks
      BY <1>0 DEF TypeOK
    <3> QED BY <2>1, <2>2, <3>1, <1>i DEF LoopInv, PlanInv, Ahead
  <2>5. ASSUME NEW q \in Runs \ {r} PROVE LoopInv(q)' /\ PlanInv(q)'
    <3>1. driver'[q] = driver[q] /\ ready'[q] = ready[q] /\ handles'[q] = handles[q]
      BY <1>0, <1>8, DriverStep DEF Driver
    <3>2. ready[q] \subseteq Tasks /\ \A u \in Tasks : worker'[<<q, u>>] = worker[<<q, u>>]
      BY <1>0, <2>2 DEF TypeOK
    <3> QED BY <2>1, <3>1, <3>2, <1>i DEF LoopInv, PlanInv, Ahead
  <2> QED BY <1>0, <2>3, <2>4, <2>5 DEF RunInv
<1>9. ASSUME NEW r \in Runs, NEW t \in Tasks, Join(r, t) PROVE RunInv'
  <2>1. /\ UNCHANGED <<status, worker>> /\ driver[r] = "join" /\ ready'[r] \in {ready[r], {}}
        /\ \/ /\ worker[<<r, t>>] = "ok" /\ handles'[r] = handles[r] \ {t}
              /\ driver'[r] = IF handles[r] = {t} THEN "poll" ELSE "join"
           \/ driver'[r] = "returned" /\ handles'[r] = {}
    BY <1>0, <1>9 DEF Join, Return, Advance, queueVars, workerVars, TypeOK
  <2>2. LoopInv(r)'
    <3>1. ready'[r] = {}
      BY <2>1, <1>i DEF LoopInv
    <3>2. CASE driver'[r] = "returned"
      BY <2>1, <3>1, <3>2 DEF LoopInv
    <3>3. CASE driver'[r] # "returned"
      BY <2>1, <3>1, <3>3, <1>i DEF LoopInv
    <3> QED BY <3>2, <3>3
  <2>3. PlanInv(r)'
    BY <2>1, <1>i DEF PlanInv, Ahead
  <2> QED BY <1>9, <1>q, <2>1, <2>2, <2>3 DEF Driver
<1>10. ASSUME NEW t \in Tasks, AddExternal(t) PROVE RunInv'
  <2>1. /\ UNCHANGED <<worker, driver, ready, handles>>
        /\ t \notin UNION {PlannedBy(r) : r \in Runs} /\ status[t] = "absent"
        /\ status'[t] = "pending" /\ \A u \in Tasks \ {t} : status'[u] = status[u]
    BY <1>0, <1>10 DEF AddExternal, External, driverVars, workerVars, TypeOK
  <2>2. \A r \in Runs : t \notin PlannedBy(r)
    BY <2>1
  <2>3. StatusExplained'
    BY <2>1, <1>i DEF StatusExplained, Unbegun
  <2>4. ASSUME NEW r \in Runs PROVE LoopInv(r)' /\ PlanInv(r)'
    <3>1. ready[r] \subseteq Tasks /\ t \notin ready[r]
      BY <1>0, <2>1, <1>i DEF LoopInv, TypeOK
    <3>2. LoopInv(r)'
      <4>1. \A u \in ready[r] : status'[u] # "absent"
        <5>1. \A u \in ready[r] : u \in Tasks \ {t} /\ status[u] # "absent"
          BY <3>1, <1>i DEF LoopInv
        <5> QED BY <2>1, <5>1
      <4> QED BY <2>1, <4>1, <1>i DEF LoopInv
    <3>3. \A u \in PlannedBy(r) : status'[u] = status[u]
      BY <2>1, <2>2, <1>p
    <3>4. PlanInv(r)'
      BY <2>1, <3>3, <1>i DEF PlanInv, Ahead
    <3> QED BY <3>2, <3>4
  <2> QED BY <1>0, <2>3, <2>4 DEF RunInv
<1>11. ASSUME NEW w \in Workers, Worker(w) PROVE RunInv'
  <2> DEFINE r == w[1]
             t == w[2]
  <2>1. r \in Runs /\ t \in Tasks /\ w = <<r, t>>
    BY DEF Workers
  <2>2. /\ worker[<<r, t>>] \notin {"none"} \cup Ended
        /\ worker'[<<r, t>>] \notin {"none", "queued"}
        /\ \A q \in Runs, u \in Tasks : q # r \/ u # t => worker'[<<q, u>>] = worker[<<q, u>>]
        /\ \A u \in Tasks \ {t} : status'[u] = status[u]
        /\ \/ /\ status'[t] \in {"running"} \cup Terminal
              /\ worker'[<<r, t>>] \in Behind(status'[t])
           \/ /\ status'[t] = status[t] /\ worker[<<r, t>>] # "queued"
              /\ worker[<<r, t>>] \in Behind(status[t]) => worker'[<<r, t>>] \in Behind(status[t])
        /\ UNCHANGED <<driver, ready, handles>>
    <3>1. /\ worker[w] \notin {"none"} \cup Ended
          /\ worker'[w] \notin {"none", "queued"}
          /\ worker' = [worker EXCEPT ![w] = worker'[w]]
          /\ status' = [status EXCEPT ![t] = status'[t]]
          /\ \/ /\ status'[t] \in {"running"} \cup Terminal
                /\ worker'[w] \in Behind(status'[t])
             \/ /\ status'[t] = status[t] /\ worker[w] # "queued"
                /\ worker[w] \in Behind(status[t]) => worker'[w] \in Behind(status[t])
          /\ UNCHANGED driverVars
      BY <1>0, <1>11, WorkerStep
    <3>2. \A v \in Workers \ {w} : worker'[v] = worker[v]
      BY <1>0, <3>1 DEF TypeOK
    <3>3. \A q \in Runs, u \in Tasks : q # r \/ u # t => <<q, u>> \in Workers \ {w}
      BY <2>1 DEF Workers
    <3>4. \A u \in Tasks \ {t} : status'[u] = status[u]
      BY <1>0, <3>1 DEF TypeOK
    <3> HIDE DEF r, t
    <3> QED BY <2>1, <3>1, <3>2, <3>3, <3>4 DEF driverVars
  <2> HIDE DEF r, t
  <2>3. status[t] \notin {"absent", "pending"} \/ status'[t] \in {"running"} \cup Terminal
    BY <2>1, <2>2, <1>i DEF StatusExplained, Unbegun
  <2>4. status'[t] \notin {"absent", "pending"} /\ status[t] # "absent"
    BY <2>1, <2>2, <2>3, <1>i DEF StatusExplained, Terminal
  <2>5. StatusExplained'
    <3> SUFFICES ASSUME NEW u \in Tasks
                 PROVE  /\ status'[u] \in {"absent", "pending"} => Unbegun(u)'
                        /\ status'[u] \notin {"absent", "pending"} =>
                             \E q \in Runs : worker'[<<q, u>>] \in Behind(status'[u])
                        /\ status'[u] = "absent" => \A q \in Runs : worker'[<<q, u>>] = "none"
      BY DEF StatusExplained, Behind
    <3>1. CASE u # t
      <4>1. status'[u] = status[u] /\ \A q \in Runs : worker'[<<q, u>>] = worker[<<q, u>>]
        BY <2>2, <3>1
      <4>2. Unbegun(u)' <=> Unbegun(u)
        BY <4>1 DEF Unbegun
      <4> QED BY <4>1, <4>2, <1>i DEF StatusExplained
    <3>2. CASE u = t
      <4>1. CASE worker'[<<r, t>>] \in Behind(status'[t])
        BY <2>1, <2>4, <3>2, <4>1
      <4>2. CASE status'[t] = status[t] /\ worker[<<r, t>>] \notin Behind(status[t])
        <5>1. PICK q \in Runs : worker[<<q, t>>] \in Behind(status[t])
          BY <2>1, <2>4, <4>2, <1>i DEF StatusExplained
        <5>2. q # r
          BY <4>2, <5>1
        <5> QED BY <2>1, <2>2, <2>4, <3>2, <4>2, <5>1, <5>2
      <4> QED BY <2>2, <4>1, <4>2
    <3> QED BY <3>1, <3>2
  <2>6. ASSUME NEW q \in Runs PROVE LoopInv(q)'
    <3>1. ready[q] \subseteq Tasks
      BY <1>0 DEF TypeOK
    <3>2. \A u \in ready[q] : status'[u] # "absent" /\ worker'[<<q, u>>] = "none"
      BY <2>1, <2>2, <2>4, <3>1, <1>i DEF LoopInv
    <3>3. ASSUME driver[q] # "returned", NEW u \in Tasks
          PROVE  u \in handles[q] \/ worker'[<<q, u>>] \in {"none", "ok"}
      <4>1. u \in handles[q] \/ worker[<<q, u>>] \in {"none", "ok"}
        BY <3>3, <1>i DEF LoopInv
      <4>2. worker[<<r, t>>] \notin {"none", "ok"}
        BY <2>2 DEF Ended
      <4> QED BY <2>2, <4>1, <4>2
    <3> QED BY <2>2, <3>2, <3>3, <1>i DEF LoopInv
  <2>7. ASSUME NEW q \in Runs PROVE PlanInv(q)'
    BY <2>2, <2>4, <1>i, <1>p DEF PlanInv, Ahead
  <2> QED BY <1>0, <2>5, <2>6, <2>7 DEF RunInv
<1>12. CASE UNCHANGED vars
  <2>1. UNCHANGED <<status, worker, driver, ready, handles>>
    BY <1>12 DEF vars, queueVars, driverVars, workerVars
  <2>2. StatusExplained'
    BY <2>1, <1>i DEF StatusExplained, Unbegun
  <2>3. \A r \in Runs : LoopInv(r)' /\ PlanInv(r)'
    BY <2>1, <1>i DEF LoopInv, PlanInv, Ahead
  <2> QED BY <1>0, <2>2, <2>3 DEF RunInv
<1> QED BY <1>1, <1>3, <1>4, <1>5, <1>6, <1>7, <1>8, <1>9, <1>10, <1>11, <1>12
        DEF Next, Driver

\* Only Synthesize makes a run's result Ok.  Neither break of execute() is
\* reached while a task of the plan is pending, and the run's own workers have
\* then ended well; so a task that has neither completed nor been reviewed owes
\* its status to a worker of another run.
LEMMA OkStep ==
  RunInv /\ [Next]_vars =>
    \A r \in Runs : result[r] = "none" /\ result'[r] = "ok" =>
      \A t \in PlannedBy(r) \ report'[r] :
        \E s \in Runs \ {r} : worker[<<s, t>>] \in InHandOrFailed
<1> SUFFICES ASSUME RunInv, [Next]_vars, NEW r \in Runs, result[r] = "none", result'[r] = "ok",
                    NEW t \in PlannedBy(r) \ report'[r]
             PROVE  \E s \in Runs \ {r} : worker[<<s, t>>] \in InHandOrFailed
  OBVIOUS
<1> USE OrchestratorAssumption
<1>0. TypeOK /\ StatusExplained /\ LoopInv(r) /\ PlanInv(r) /\ t \in Tasks
  BY DEF RunInv, PlannedBy
<1>1. \E q \in Runs : BeginRun(q) \/ Driver(q)
  BY DEF Next, Worker, MarkRunning, TrackStart, MissProfile, AgentAnswers, WaitForApproval,
         MarkNeedsReview, MarkCompleted, TrackFinish, MarkFailed, RecordError, TrackFailure,
         AddExternal, driverVars, vars
<1>2. BeginRun(r) \/ Driver(r)
  BY <1>0, <1>1, DriverStep
<1>3. Synthesize(r)
  BY <1>0, <1>2 DEF Driver, BeginRun, EndPlan, SubmitPlan, PrepareOutput, Poll, Recheck, Dispatch,
                    Join, Return, TypeOK
<1>4. driver[r] = "synthesize" /\ status[t] \notin {"completed", "review"}
  BY <1>0, <1>3 DEF Synthesize, TypeOK
<1>5. status[t] \in {"running", "failed"}
  BY <1>0, <1>4 DEF PlanInv, Ahead, TypeOK, Statuses, Terminal
<1>6. PICK s \in Runs : worker[<<s, t>>] \in Behind(status[t])
  BY <1>0, <1>5 DEF StatusExplained
<1>7. worker[<<r, t>>] \in {"none", "ok"}
  BY <1>0, <1>4 DEF LoopInv
<1> QED BY <1>5, <1>6, <1>7 DEF Behind, Running, CutOff, InHandOrFailed

(***************************************************************************)
(* A run that returns Ok returns the artifact of every task it planned,    *)
(* but for those that another run has in hand or has failed, whatever      *)
(* other runs, overlapping or detached, and other holders of the queue do. *)
(***************************************************************************)
THEOREM OkIsComplete == Spec => OkRunIsComplete
<1>1. RunInv /\ [Next]_vars =>
        [\A r \in Runs : result[r] = "none" /\ result'[r] = "ok" =>
           \A t \in PlannedBy(r) \ report'[r] :
             \E s \in Runs \ {r} : worker[<<s, t>>] \in InHandOrFailed]_vars
  BY OkStep
<1> QED BY <1>1, RunInit, RunStep, PTL DEF Spec, OkRunIsComplete

-----------------------------------------------------------------------------
(***************************************************************************)
(* One dispatch.  Nothing reserves a ready task until its worker marks it  *)
(* running, but a run polls again only after its workers have ended, and a *)
(* task that any worker has begun is never pending again.                  *)
(***************************************************************************)
LEMMA DispatchStep ==
  RunInv /\ [Next]_vars =>
    \A w \in Workers : worker'[w] = "queued" => worker[w] \in {"none", "queued"}
<1> DEFINE Once == \A w \in Workers : worker'[w] = "queued" => worker[w] \in {"none", "queued"}
<1> SUFFICES ASSUME RunInv, [Next]_vars PROVE Once
  OBVIOUS
<1>0. TypeOK /\ \A r \in Runs : LoopInv(r)
  BY DEF RunInv
<1>1. CASE UNCHANGED worker
  BY <1>1
<1>2. ASSUME NEW r \in Runs, NEW t \in Tasks, Dispatch(r, t) PROVE Once
  <2>1. worker[<<r, t>>] = "none" /\ worker' = [worker EXCEPT ![<<r, t>>] = "queued"]
    BY <1>0, <1>2 DEF Dispatch, Oldest, LoopInv
  <2> QED BY <1>0, <2>1 DEF TypeOK
<1>3. ASSUME NEW w \in Workers, Worker(w) PROVE Once
  <2>1. worker'[w] # "queued" /\ worker' = [worker EXCEPT ![w] = worker'[w]]
    BY <1>0, <1>3, WorkerStep
  <2> QED BY <1>0, <2>1 DEF TypeOK
<1> QED BY <1>1, <1>2, <1>3
        DEF Next, Driver, BeginRun, EndPlan, SubmitPlan, PrepareOutput, Poll, Recheck, Join,
            Synthesize, AddExternal, vars, workerVars

(***************************************************************************)
(* No run ever has two futures for one task, for any plans, any number of  *)
(* runs, and whatever other runs, detached workers and other holders of    *)
(* the queue do.                                                           *)
(***************************************************************************)
THEOREM OneFuturePerTask == Spec => DispatchedOnce
<1>1. RunInv /\ [Next]_vars =>
        [\A w \in Workers : worker'[w] = "queued" => worker[w] \in {"none", "queued"}]_vars
  BY DispatchStep
<1> QED BY <1>1, RunInit, RunStep, PTL DEF Spec, DispatchedOnce

-----------------------------------------------------------------------------
(***************************************************************************)
(* With a single run no other worker meddles with a task, so the place of  *)
(* its worker always tells its status, and the log grows exactly when the  *)
(* status becomes completed.                                               *)
(***************************************************************************)
SingleInv == MaxRuns = 1 /\ OrderInv /\ RunInv /\ CompletedLogExact

LEMMA SinglePlace ==
  ASSUME MaxRuns = 1, TypeOK, StatusExplained, NEW w \in Workers
  PROVE  /\ w[2] \in Tasks
         /\ worker[w] = "queued" => status[w[2]] = "pending"
         /\ worker[w] \in Running => status[w[2]] = "running"
<1>1. Runs = {1}
  BY DEF Runs
<1>2. PICK t \in Tasks : w = <<1, t>>
  BY <1>1 DEF Workers
<1>3. /\ status[t] \in {"absent", "pending"} => worker[w] \in {"none", "queued"}
      /\ status[t] \notin {"absent", "pending"} => worker[w] \in Behind(status[t])
      /\ status[t] = "absent" => worker[w] = "none"
      /\ status[t] \in Statuses
  BY <1>1, <1>2 DEF StatusExplained, Unbegun, TypeOK
<1>4. w[2] = t
  BY <1>2
<1> QED BY <1>3, <1>4 DEF Behind, Running, CutOff, Statuses, Terminal

LEMMA SingleInit == MaxRuns = 1 /\ Init => SingleInv
<1>1. Init => CompletedLogExact
  BY DEF Init, CompletedLogExact
<1> QED BY <1>1, OrderInit, RunInit DEF SingleInv

LEMMA SingleStep == SingleInv /\ [Next]_vars => SingleInv'
<1> SUFFICES ASSUME SingleInv, [Next]_vars PROVE CompletedLogExact'
  BY OrderStep, RunStep DEF SingleInv
<1> USE OrchestratorAssumption
<1>0. TypeOK /\ StatusExplained /\ CompletedLogExact /\ MaxRuns = 1
  BY DEF SingleInv, RunInv
<1>1. CASE UNCHANGED <<status, logged>>
  BY <1>0, <1>1 DEF CompletedLogExact
<1>2. ASSUME NEW r \in Runs, SubmitPlan(r) PROVE CompletedLogExact'
  <2>1. \A t \in PlannedBy(r) : status[t] = "absent"
    BY <1>2 DEF SubmitPlan, SingleInv, RunInv, PlanInv, Ahead
  <2>2. \A t \in Tasks : logged'[t] = logged[t]
                         /\ status'[t] = IF t \in PlannedBy(r) THEN "pending" ELSE status[t]
    BY <1>2 DEF SubmitPlan
  <2> QED BY <1>0, <2>1, <2>2 DEF CompletedLogExact
<1>3. ASSUME NEW t \in Tasks, AddExternal(t) PROVE CompletedLogExact'
  BY <1>0, <1>3 DEF AddExternal, TypeOK, CompletedLogExact
<1>4. ASSUME NEW w \in Workers, Worker(w) PROVE CompletedLogExact'
  <2>1. /\ w[2] \in Tasks
        /\ worker[w] = "queued" => status[w[2]] = "pending"
        /\ worker[w] \in {"reviewed", "succeeded", "failing"} => status[w[2]] = "running"
    BY <1>0, SinglePlace DEF Running
  <2>2. CASE MarkRunning(w)
    BY <1>0, <2>1, <2>2 DEF MarkRunning, Move, TypeOK, CompletedLogExact
  <2>3. CASE MarkNeedsReview(w)
    BY <1>0, <2>1, <2>3 DEF MarkNeedsReview, Move, TypeOK, CompletedLogExact
  <2>4. CASE MarkCompleted(w)
    BY <1>0, <2>1, <2>4 DEF MarkCompleted, Move, TypeOK, CompletedLogExact
  <2>5. CASE MarkFailed(w)
    BY <1>0, <2>1, <2>5 DEF MarkFailed, Move, TypeOK, CompletedLogExact
  <2> QED BY <1>1, <1>4, <2>2, <2>3, <2>4, <2>5
          DEF Worker, TrackStart, MissProfile, AgentAnswers, WaitForApproval, TrackFinish,
              RecordError, TrackFailure, queueVars
<1> QED BY <1>1, <1>2, <1>3, <1>4
        DEF Next, Driver, BeginRun, EndPlan, PrepareOutput, Poll, Recheck, Dispatch, Join,
            Synthesize, vars, queueVars

(***************************************************************************)
(* With a single run, the Vec `completed` that is_ready reads and the      *)
(* statuses that is_done and synthesize read agree in every state.         *)
(***************************************************************************)
THEOREM LogExact == ASSUME MaxRuns = 1 PROVE Spec => []CompletedLogExact
<1>1. SingleInv => CompletedLogExact
  BY DEF SingleInv
<1>2. Init => SingleInv
  BY SingleInit
<1> QED BY <1>1, <1>2, SingleStep, PTL DEF Spec

-----------------------------------------------------------------------------
(***************************************************************************)
(* The refinement: a step that changes a status is a Submit, a Start or a  *)
(* Finish of the abstract task graph.                                      *)
(***************************************************************************)
LEMMA RefineStep == SingleInv /\ [Next]_vars => [TG!Next]_status
<1> SUFFICES ASSUME SingleInv, [Next]_vars, status' # status PROVE TG!Next
  OBVIOUS
<1> USE OrchestratorAssumption
<1>0. TypeOK /\ StatusExplained /\ ContextComplete /\ CompletedLogExact /\ MaxRuns = 1
  BY DEF SingleInv, RunInv, OrderInv
<1>1. ASSUME NEW r \in Runs, SubmitPlan(r) PROVE TG!Next
  <2>1. PlannedBy(r) \subseteq Tasks /\ \A t \in PlannedBy(r) : status[t] = "absent"
    BY <1>1 DEF SubmitPlan, SingleInv, RunInv, PlanInv, Ahead, PlannedBy
  <2>2. status' = [t \in Tasks |-> IF t \in PlannedBy(r) THEN "pending" ELSE status[t]]
    BY <1>1 DEF SubmitPlan
  <2>3. PlannedBy(r) # {}
    BY <1>0, <2>2 DEF TypeOK
  <2>4. PlannedBy(r) \in SUBSET {t \in Tasks : status[t] = "absent"}
    BY <2>1
  <2> QED BY <2>2, <2>3, <2>4 DEF TG!Next, TG!Submit
<1>2. ASSUME NEW t \in Tasks, AddExternal(t) PROVE TG!Next
  <2>1. status' = [u \in Tasks |-> IF u \in {t} THEN "pending" ELSE status[u]]
    BY <1>0, <1>2 DEF AddExternal, TypeOK
  <2>2. {t} \in SUBSET {u \in Tasks : status[u] = "absent"} /\ {t} # {}
    BY <1>2 DEF AddExternal
  <2> QED BY <2>1, <2>2 DEF TG!Next, TG!Submit
<1>3. ASSUME NEW w \in Workers, Worker(w) PROVE TG!Next
  <2>1. /\ w[2] \in Tasks
        /\ worker[w] = "queued" => status[w[2]] = "pending"
        /\ worker[w] \in {"reviewed", "succeeded", "failing"} => status[w[2]] = "running"
    BY <1>0, SinglePlace DEF Running
  <2>2. CASE MarkRunning(w)
    <3>1. status[w[2]] = "pending" /\ status' = [status EXCEPT ![w[2]] = "running"]
      BY <2>1, <2>2 DEF MarkRunning, Move
    <3>2. \A d \in Deps[w[2]] : status[d] = "completed"
      BY <1>0, <2>1, <2>2 DEF MarkRunning, Move, ContextComplete, Completed, CompletedLogExact
    <3> QED BY <2>1, <3>1, <3>2 DEF TG!Next, TG!Start, TG!Unblocked
  <2>3. ASSUME NEW outcome \in Terminal, worker[w] \in {"reviewed", "succeeded", "failing"},
               status' = [status EXCEPT ![w[2]] = outcome]
        PROVE  TG!Next
    BY <2>1, <2>3 DEF Terminal, TG!Next, TG!Finish, TG!Terminal
  <2>4. CASE MarkNeedsReview(w) BY <2>3, <2>4 DEF MarkNeedsReview, Move, Terminal
  <2>5. CASE MarkCompleted(w) BY <2>3, <2>5 DEF MarkCompleted, Move, Terminal
  <2>6. CASE MarkFailed(w) BY <2>3, <2>6 DEF MarkFailed, Move, Terminal
  <2> QED BY <1>3, <2>2, <2>4, <2>5, <2>6
          DEF Worker, TrackStart, MissProfile, AgentAnswers, WaitForApproval, TrackFinish,
              RecordError, TrackFailure, queueVars
<1> QED BY <1>1, <1>2, <1>3
        DEF Next, Driver, BeginRun, EndPlan, PrepareOutput, Poll, Recheck, Dispatch, Join,
            Synthesize, vars, queueVars

(***************************************************************************)
(* With a single run the queue, its driver and its workers together keep   *)
(* the promise of the abstract task graph: started once, in dependency     *)
(* order, and an outcome, once recorded, is final.                         *)
(***************************************************************************)
THEOREM Refinement == ASSUME MaxRuns = 1 PROVE Spec => ImplementsTaskGraph
<1>1. Init => SingleInv /\ TG!Init
  BY SingleInit DEF Init, TG!Init
<1> QED BY <1>1, SingleStep, RefineStep, PTL DEF Spec, ImplementsTaskGraph, TG!Spec

-----------------------------------------------------------------------------
(***************************************************************************)
(* The monitor.  From start_task on, a worker passes through finish_task   *)
(* before it ends, unless it is cut off, and a worker that is cut off      *)
(* stays what its entry names; any other worker of the role that goes on   *)
(* replaces or clears the entry.                                           *)
(***************************************************************************)
MonitorInv == RunInv /\ MonitorNeverStale

LEMMA MonitorStep == MonitorInv /\ [Next]_vars => MonitorInv'
<1> DEFINE Named == Tracked \cup CutOff
<1> SUFFICES ASSUME MonitorInv, [Next]_vars PROVE MonitorNeverStale'
  BY RunStep DEF MonitorInv
<1> USE OrchestratorAssumption
<1>0. TypeOK /\ MonitorNeverStale /\ \A r \in Runs : LoopInv(r)
  BY DEF MonitorInv, RunInv
<1>1. CASE UNCHANGED <<monitor, worker>>
  BY <1>0, <1>1 DEF MonitorNeverStale, Role
<1>2. ASSUME NEW r \in Runs, BeginRun(r) \/ EndPlan(r) PROVE MonitorNeverStale'
  <2>1. UNCHANGED worker /\ \A role \in Roles : \/ monitor'[role].task = NoTask
                                              \/ monitor'[role] = monitor[role]
    BY <1>0, <1>2 DEF BeginRun, EndPlan, StartTask, FinishTask, Track, workerVars, TypeOK
  <2> QED BY <1>0, <2>1 DEF MonitorNeverStale, Role
<1>3. ASSUME NEW r \in Runs, NEW t \in Tasks, Dispatch(r, t) PROVE MonitorNeverStale'
  <2>1. UNCHANGED monitor /\ worker' = [worker EXCEPT ![<<r, t>>] = "queued"]
        /\ worker[<<r, t>>] = "none"
    BY <1>0, <1>3 DEF Dispatch, Oldest, LoopInv
  <2>2. \A v \in Workers : worker[v] \in Named => worker'[v] = worker[v]
    BY <1>0, <2>1 DEF TypeOK, Tracked, CutOff
  <2> QED BY <1>0, <2>1, <2>2 DEF MonitorNeverStale, Role
<1>4. ASSUME NEW w \in Workers, Worker(w) PROVE MonitorNeverStale'
  <2>0. w[2] \in Tasks /\ Role(w) \in Roles
    BY DEF Workers, Role, Roles
  <2>1. \A v \in Workers \ {w} : worker'[v] = worker[v]
    BY <1>0, <1>4, WorkerStep DEF TypeOK
  <2>2. \A role \in Roles \ {Role(w)} : monitor'[role] = monitor[role]
    BY <1>0, <1>4, <2>0
       DEF Worker, MarkRunning, TrackStart, MissProfile, AgentAnswers, WaitForApproval,
           MarkNeedsReview, MarkCompleted, TrackFinish, MarkFailed, RecordError, TrackFailure,
           StartTask, FinishTask, SetStatus, Track, queueVars, TypeOK
  \* Its own entry: set, cleared, or kept by a worker that stays between the two.
  <2>3. \/ monitor'[Role(w)].task = w[2] /\ worker'[w] \in Named
        \/ monitor'[Role(w)].task = NoTask
        \/ /\ monitor'[Role(w)].task = monitor[Role(w)].task
           /\ worker[w] \in Named => worker'[w] \in Named
    BY <1>0, <1>4, <2>0
       DEF Worker, MarkRunning, TrackStart, MissProfile, AgentAnswers, WaitForApproval,
           MarkNeedsReview, MarkCompleted, TrackFinish, MarkFailed, RecordError, TrackFailure,
           StartTask, FinishTask, SetStatus, Track, Move, queueVars, TypeOK, Tracked, CutOff
  <2> HIDE DEF Named
  <2> SUFFICES ASSUME NEW role \in Roles, monitor'[role].task # NoTask
               PROVE  \E v \in Workers : /\ v[2] = monitor'[role].task
                                         /\ Role(v) = role
                                         /\ worker'[v] \in Named
    BY DEF MonitorNeverStale, Role, Named
  <2>4. CASE role # Role(w)
    <3>1. PICK v \in Workers : v[2] = monitor[role].task /\ Role(v) = role /\ worker[v] \in Named
      BY <1>0, <2>2, <2>4 DEF MonitorNeverStale, Named
    <3>2. v \in Workers \ {w}
      BY <2>4, <3>1
    <3> QED BY <2>1, <2>2, <2>4, <3>1, <3>2
  <2>5. CASE role = Role(w) /\ monitor'[role].task = w[2] /\ worker'[w] \in Named
    BY <2>5
  <2>6. CASE /\ role = Role(w) /\ monitor'[role].task = monitor[role].task
             /\ worker[w] \in Named => worker'[w] \in Named
    <3>1. PICK v \in Workers : v[2] = monitor[role].task /\ Role(v) = role /\ worker[v] \in Named
      BY <1>0, <2>6 DEF MonitorNeverStale, Named
    <3> QED BY <2>1, <2>6, <3>1
  <2> QED BY <2>3, <2>4, <2>5, <2>6
<1> QED BY <1>1, <1>2, <1>3, <1>4
        DEF Next, Driver, SubmitPlan, PrepareOutput, Poll, Recheck, Join, Synthesize,
            AddExternal, vars, workerVars

(***************************************************************************)
(* The monitor names a task for a role only while a worker of that role is *)
(* on it or was cut off on it, for any number of runs, overlapping or not, *)
(* any number of tasks per role, missing profiles and panics.              *)
(***************************************************************************)
THEOREM MonitorExact == Spec => []MonitorNeverStale
<1>1. Init => MonitorInv
  BY RunInit DEF Init, MonitorInv, MonitorNeverStale, Idle
<1>2. MonitorInv => MonitorNeverStale
  BY DEF MonitorInv
<1> QED BY <1>1, <1>2, MonitorStep, PTL DEF Spec

-----------------------------------------------------------------------------
(***************************************************************************)
(* The cycle search.  While it goes on, the ids in progress are the calls  *)
(* that have not returned, each of which was made for a dependency of the  *)
(* call before it; so a back edge closes a cycle.  Conversely a dependency *)
(* that was searched is done, unless it is the call that is still going on;*)
(* so a task is done only after all its dependencies, and no cycle can ever*)
(* have all its tasks done.                                                *)
(***************************************************************************)
SearchTyped ==
  /\ deps \in [Nodes -> SUBSET Ids]
  /\ keys \subseteq Nodes
  /\ visited \in [Ids -> 0..2]
  /\ path \in Seq(Ids)
  /\ todo \in [Ids -> SUBSET Ids]

OnPath(id) == \E i \in 1..Len(path) : path[i] = id

\* path holds the ids in progress, each once, each a dependency of the one before.
PathInProgress == \A id \in Ids : visited[id] = 1 <=> OnPath(id)
PathOnce       == \A i, j \in 1..Len(path) : path[i] = path[j] => i = j
PathChained    == \A i \in 1..Len(path) - 1 : path[i + 1] \in Dependencies(path[i])

TodoWithin == \A id \in Ids : todo[id] \subseteq Dependencies(id)

Searched ==
  \A id \in Ids : \A d \in Dependencies(id) \ todo[id] :
    \/ visited[d] = 2
    \/ \E i \in 1..Len(path) - 1 : path[i] = id /\ path[i + 1] = d

DoneBelow == \A id \in Ids : visited[id] = 2 => \A d \in Dependencies(id) : visited[d] = 2

RootsVisited == \A n \in Nodes \ keys : visited[n] # 0

Ring(S) == S \in SUBSET Nodes /\ S # {} /\ WaitForEachOther(S, deps)

NoRingDone == \A S : Ring(S) => \E n \in S : visited[n] # 2

Searching ==
  /\ PathInProgress /\ PathOnce /\ PathChained /\ TodoWithin
  /\ Searched /\ DoneBelow /\ RootsVisited /\ NoRingDone

SearchInv == SearchTyped /\ (answer = "unknown" => Searching) /\ SearchIsExact

LEMMA DependenciesAreIds == ASSUME SearchTyped, NEW id PROVE Dependencies(id) \in SUBSET Ids
  BY DEF SearchTyped, Dependencies

LEMMA SearchInitInv == SearchInit => SearchInv
<1> SUFFICES ASSUME SearchInit PROVE SearchInv
  OBVIOUS
<1>1. SearchTyped
  BY DEF SearchInit, SearchTyped, Dependencies, Ids
<1>2. Len(path) = 0 /\ \A id \in Ids : visited[id] = 0 /\ todo[id] = Dependencies(id)
  BY DEF SearchInit
<1>3. PathInProgress /\ PathOnce /\ PathChained /\ TodoWithin /\ Searched /\ DoneBelow
  BY <1>2 DEF PathInProgress, OnPath, PathOnce, PathChained, TodoWithin, Searched, DoneBelow
<1>4. RootsVisited /\ NoRingDone
  BY <1>2 DEF SearchInit, RootsVisited, NoRingDone, Ring, Ids
<1> QED BY <1>1, <1>3, <1>4 DEF SearchInv, Searching, SearchIsExact, SearchInit

\* A back edge to a call of the path closes a ring.
LEMMA BackEdge ==
  ASSUME SearchTyped, PathChained, NEW k \in 1..Len(path), path[k] \in Dependencies(Deepest)
  PROVE  CycleIn(Nodes, deps)
<1> DEFINE S == {path[i] : i \in k..Len(path)}
<1>1. Len(path) \in Nat /\ \A i \in 1..Len(path) : path[i] \in Ids
  BY DEF SearchTyped
<1>2. S # {}
  BY <1>1
<1>3. \A n \in S : Dependencies(n) \cap S # {}
  <2> TAKE n \in S
  <2>1. PICK i \in k..Len(path) : path[i] = n
    OBVIOUS
  <2>2. CASE i = Len(path)
    <3>1. path[k] \in S
      BY <1>1
    <3> QED BY <2>1, <2>2, <3>1 DEF Deepest
  <2>3. CASE i # Len(path)
    <3>1. i \in 1..Len(path) - 1 /\ i + 1 \in k..Len(path)
      BY <1>1, <2>3
    <3>2. path[i + 1] \in Dependencies(n) /\ path[i + 1] \in S
      BY <2>1, <3>1 DEF PathChained
    <3> QED BY <3>2
  <2> QED BY <2>2, <2>3
<1> HIDE DEF S
<1>4. S \in SUBSET Nodes /\ \A n \in S : deps[n] \cap S # {}
  BY <1>3 DEF Dependencies
<1> QED BY <1>2, <1>4 DEF CycleIn, WaitForEachOther

LEMMA DfsTyped ==
  ASSUME SearchTyped, NEW id \in Ids, Dfs(id)
  PROVE  visited' \in [Ids -> 0..2] /\ path' \in Seq(Ids)
<1>1. CASE visited[id] = 0
  <2>1. visited' = [visited EXCEPT ![id] = 1] /\ path' = Append(path, id)
    BY <1>1 DEF Dfs
  <2>2. visited' \in [Ids -> 0..2]
    BY <2>1 DEF SearchTyped
  <2>3. path' \in Seq(Ids)
    BY <2>1 DEF SearchTyped
  <2> QED BY <2>2, <2>3
<1>2. CASE visited[id] # 0
  BY <1>2 DEF SearchTyped, Dfs
<1> QED BY <1>1, <1>2

\* One call up to its loop, when it meets no open node: the path is the longer
\* for it, or nothing happens.
LEMMA CallStep ==
  ASSUME SearchTyped, Searching, NEW id \in Ids, Dfs(id), visited[id] # 1, UNCHANGED deps,
         path # <<>> => id \in Dependencies(Deepest),
         keys' \subseteq keys, \A n \in keys \ keys' : n = id,
         \A n \in Ids : todo'[n] = todo[n] \/ (path # <<>> /\ n = Deepest /\ todo'[n] = todo[n] \ {id})
  PROVE  Searching'
<1>0. /\ Len(path) \in Nat /\ \A i \in 1..Len(path) : path[i] \in Ids
      /\ \A n : Dependencies(n)' = Dependencies(n)
      /\ \A n : Dependencies(n) \in SUBSET Ids
      /\ path # <<>> => Len(path) > 0
  BY DependenciesAreIds DEF SearchTyped, Dependencies
<1>1. TodoWithin'
  BY <1>0 DEF Searching, TodoWithin
<1>2. CASE visited[id] = 0
  <2> DEFINE l == Len(path)
  <2>1. /\ visited' = [visited EXCEPT ![id] = 1]
        /\ path' = Append(path, id)
    BY <1>2 DEF Dfs
  <2>2. /\ visited'[id] = 1
        /\ \A n \in Ids \ {id} : visited'[n] = visited[n]
    BY <2>1 DEF SearchTyped
  <2>3. /\ l \in Nat /\ Len(path') = l + 1 /\ path'[l + 1] = id
        /\ \A i \in 1..l : path'[i] = path[i]
    BY <1>0, <2>1 DEF SearchTyped
  <2>4. ~OnPath(id)
    BY <1>2 DEF Searching, PathInProgress
  <2> HIDE DEF l
  <2>a. l = Len(path)
    BY DEF l
  <2>5. PathInProgress' /\ PathOnce'
    <3>1. \A n : OnPath(n)' <=> OnPath(n) \/ n = id
      BY <2>3, <2>a DEF OnPath
    <3>2. PathInProgress'
      BY <2>2, <3>1 DEF Searching, PathInProgress
    <3>3. PathOnce'
      BY <2>3, <2>4, <2>a DEF Searching, PathOnce, OnPath
    <3> QED BY <3>2, <3>3
  <2>6. PathChained'
    <3> SUFFICES ASSUME NEW i \in 1..l PROVE path'[i + 1] \in Dependencies(path'[i])
      BY <1>0, <2>3 DEF PathChained
    <3>1. CASE i = l
      BY <1>0, <2>3, <2>a, <3>1 DEF Deepest
    <3>2. CASE i # l
      <4>1. i \in 1..l - 1 /\ i + 1 \in 1..l
        BY <2>3, <3>2
      <4> QED BY <2>3, <2>a, <4>1 DEF Searching, PathChained
    <3> QED BY <3>1, <3>2
  <2>7. Searched'
    <3> SUFFICES ASSUME NEW n \in Ids, NEW d \in Dependencies(n) \ todo'[n]
                 PROVE  \/ visited'[d] = 2
                        \/ \E i \in 1..l : path'[i] = n /\ path'[i + 1] = d
      BY <1>0, <2>3 DEF Searched
    <3>1. CASE d \notin todo[n]
      <4>1. visited[d] = 2 \/ \E i \in 1..l - 1 : path[i] = n /\ path[i + 1] = d
        BY <2>a, <3>1 DEF Searching, Searched
      <4>2. CASE visited[d] = 2
        BY <1>0, <1>2, <2>2, <4>2
      <4>3. ASSUME NEW i \in 1..l - 1, path[i] = n /\ path[i + 1] = d
            PROVE  \E j \in 1..l : path'[j] = n /\ path'[j + 1] = d
        <5>1. i \in 1..l /\ i + 1 \in 1..l
          BY <2>3
        <5> QED BY <2>3, <4>3, <5>1
      <4> QED BY <4>1, <4>2, <4>3
    <3>2. CASE d \in todo[n]
      <4>1. path # <<>> /\ n = Deepest /\ d = id
        BY <3>2
      <4>2. l \in 1..l /\ path'[l] = n /\ path'[l + 1] = d
        BY <1>0, <2>3, <2>a, <4>1 DEF Deepest
      <4> QED BY <4>2
    <3> QED BY <3>1, <3>2
  <2>8. DoneBelow'
    BY <1>0, <1>2, <2>2 DEF Searching, DoneBelow
  <2>9. RootsVisited' /\ NoRingDone'
    <3>1. RootsVisited'
      BY <2>2 DEF Searching, RootsVisited, Ids
    <3>2. \A S : Ring(S)' <=> Ring(S)
      BY DEF Ring, WaitForEachOther
    <3>3. \A n \in Nodes : visited'[n] = 2 => visited[n] = 2
      BY <2>2 DEF Ids
    <3>4. NoRingDone'
      BY <3>2, <3>3 DEF Searching, NoRingDone, Ring
    <3> QED BY <3>1, <3>4
  <2> QED BY <1>1, <2>5, <2>6, <2>7, <2>8, <2>9 DEF Searching
<1>3. CASE visited[id] = 2
  <2>1. UNCHANGED <<visited, path>>
    BY <1>3 DEF Dfs
  <2>2. PathInProgress' /\ PathOnce' /\ PathChained' /\ DoneBelow'
    BY <1>0, <2>1 DEF Searching, PathInProgress, OnPath, PathOnce, PathChained, DoneBelow
  <2>3. Searched'
    BY <1>0, <1>3, <2>1 DEF Searching, Searched
  <2>4. RootsVisited' /\ NoRingDone'
    BY <1>3, <2>1 DEF Searching, RootsVisited, NoRingDone, Ring, WaitForEachOther
  <2> QED BY <1>1, <2>2, <2>3, <2>4 DEF Searching
<1> QED BY <1>2, <1>3 DEF SearchTyped

LEMMA AllButLast ==
  ASSUME NEW S, NEW s \in Seq(S), Len(s) \in Nat \ {0}
  PROVE  /\ SubSeq(s, 1, Len(s) - 1) \in Seq(S)
         /\ Len(SubSeq(s, 1, Len(s) - 1)) = Len(s) - 1
         /\ \A i \in 1..Len(s) - 1 : SubSeq(s, 1, Len(s) - 1)[i] = s[i]
<1> DEFINE n == Len(s) - 1
           front == SubSeq(s, 1, n)
<1>1. n \in Nat /\ \A i \in 1..n : s[i] \in S
  OBVIOUS
<1> HIDE DEF n
<1>2. /\ front \in Seq(S)
      /\ Len(front) = IF 1 <= n THEN n - 1 + 1 ELSE 0
      /\ \A i \in 1..n - 1 + 1 : front[i] = s[1 + i - 1]
  BY <1>1, SubSeqProperties
<1> HIDE DEF front
<1>3. Len(front) = n
  BY <1>1, <1>2
<1>4. \A i \in 1..n : i \in 1..n - 1 + 1 /\ 1 + i - 1 = i
  BY <1>1
<1>5. front \in Seq(S) /\ Len(front) = n /\ \A i \in 1..n : front[i] = s[i]
  BY <1>2, <1>3, <1>4
<1> QED BY <1>5 DEF front, n

\* One return: the innermost call has searched all its dependencies, so they
\* are done, and a ring that it would complete was complete without it.
LEMMA ReturnStep == ASSUME SearchTyped, Searching, DfsReturns PROVE SearchTyped' /\ Searching'
<1> DEFINE l == Len(path)
           id == Deepest
<1>0. /\ l \in Nat \ {0} /\ \A i \in 1..l : path[i] \in Ids
      /\ id = path[l] /\ id \in Ids /\ todo[id] = {}
      /\ Dependencies(id) \in SUBSET Ids
      /\ \A n : Dependencies(n)' = Dependencies(n)
  BY DependenciesAreIds DEF SearchTyped, DfsReturns, Deepest, Dependencies
<1> HIDE DEF id
<1>1. /\ visited' = [visited EXCEPT ![id] = 2]
      /\ path' = SubSeq(path, 1, l - 1)
      /\ UNCHANGED <<deps, keys, todo>>
  BY DEF DfsReturns, MarkDone, id
<1>2. /\ visited'[id] = 2 /\ \A n \in Ids \ {id} : visited'[n] = visited[n]
      /\ Len(path') = l - 1 /\ \A i \in 1..l - 1 : path'[i] = path[i]
      /\ path' \in Seq(Ids)
  <2>1. visited'[id] = 2 /\ \A n \in Ids \ {id} : visited'[n] = visited[n]
    BY <1>0, <1>1 DEF SearchTyped
  <2>2. /\ Len(path') = l - 1 /\ \A i \in 1..l - 1 : path'[i] = path[i]
        /\ path' \in Seq(Ids)
    BY <1>0, <1>1, AllButLast DEF SearchTyped
  <2> QED BY <2>1, <2>2
<1>3. SearchTyped'
  BY <1>0, <1>1, <1>2 DEF SearchTyped
<1>4. visited[id] = 1 /\ \A i \in 1..l - 1 : path[i] # id
  BY <1>0 DEF Searching, PathInProgress, PathOnce, OnPath
<1>5. \A n : OnPath(n)' <=> OnPath(n) /\ n # id
  <2> TAKE n
  <2>1. ASSUME NEW i \in 1..l, path[i] = n, n # id PROVE i \in 1..l - 1
    BY <1>0, <2>1
  <2> QED BY <1>0, <1>2, <1>4, <2>1 DEF OnPath
<1>6. PathInProgress' /\ PathOnce' /\ PathChained' /\ TodoWithin'
  <2>1. PathInProgress'
    BY <1>0, <1>2, <1>4, <1>5 DEF Searching, PathInProgress
  <2>2. PathOnce'
    BY <1>0, <1>2 DEF Searching, PathOnce
  <2>3. PathChained'
    BY <1>0, <1>2 DEF Searching, PathChained
  <2>4. TodoWithin'
    BY <1>0, <1>1 DEF Searching, TodoWithin
  <2> QED BY <2>1, <2>2, <2>3, <2>4
<1>7. \A d \in Dependencies(id) : visited[d] = 2
  BY <1>0, <1>4 DEF Searching, Searched
<1>8. Searched'
  <2> SUFFICES ASSUME NEW n \in Ids, NEW d \in Dependencies(n) \ todo[n]
               PROVE  \/ visited'[d] = 2
                      \/ \E i \in 1..(l - 1) - 1 : path'[i] = n /\ path'[i + 1] = d
    BY <1>0, <1>1, <1>2 DEF Searched
  <2>0. d \in Ids
    BY DependenciesAreIds
  <2>1. visited[d] = 2 \/ \E i \in 1..l - 1 : path[i] = n /\ path[i + 1] = d
    BY DEF Searching, Searched
  <2>2. CASE visited[d] = 2
    BY <1>2, <2>0, <2>2
  <2>3. ASSUME NEW i \in 1..l - 1, path[i] = n, path[i + 1] = d, d # id
        PROVE  \E j \in 1..(l - 1) - 1 : path'[j] = n /\ path'[j + 1] = d
    <3>1. i \in 1..(l - 1) - 1 /\ i + 1 \in 1..l - 1
      BY <1>0, <2>3
    <3> QED BY <1>2, <2>3, <3>1
  <2> QED BY <1>2, <2>1, <2>2, <2>3
<1>9. DoneBelow'
  <2> SUFFICES ASSUME NEW n \in Ids, visited'[n] = 2, NEW d \in Dependencies(n) PROVE visited'[d] = 2
    BY <1>0 DEF DoneBelow
  <2>0. d \in Ids
    BY DependenciesAreIds
  <2>1. visited[d] = 2
    BY <1>2, <1>7 DEF Searching, DoneBelow
  <2> QED BY <1>2, <2>0, <2>1
<1>10. RootsVisited'
  BY <1>1, <1>2 DEF Searching, RootsVisited, Ids
<1>11. NoRingDone'
  <2> SUFFICES ASSUME NEW S, Ring(S), \A n \in S : visited'[n] = 2 PROVE FALSE
    BY <1>1 DEF NoRingDone, Ring, WaitForEachOther
  <2>1. S \in SUBSET Ids /\ \A n \in S : Dependencies(n) = deps[n]
    BY DEF Ring, Ids, Dependencies
  <2>2. \A n \in S \ {id} : visited[n] = 2
    BY <1>2, <2>1
  <2>3. id \in S
    BY <2>2 DEF Searching, NoRingDone
  \* What a done task waits for is done, and the innermost call is not.
  <2>4. \A n \in S : id \notin deps[n]
    BY <1>4, <1>7, <2>1, <2>2 DEF Searching, DoneBelow
  <2>5. WaitForEachOther(S \ {id}, deps)
    BY <2>4 DEF Ring, WaitForEachOther
  <2>6. S \ {id} # {}
    BY <2>3, <2>4 DEF Ring, WaitForEachOther
  <2>7. Ring(S \ {id})
    BY <2>5, <2>6 DEF Ring
  <2> QED BY <2>2, <2>7 DEF Searching, NoRingDone
<1> QED BY <1>3, <1>6, <1>8, <1>9, <1>10, <1>11 DEF Searching

LEMMA SearchStep == SearchInv /\ [SearchNext]_searchVars => SearchInv'
<1> SUFFICES ASSUME SearchInv, [SearchNext]_searchVars PROVE SearchInv'
  OBVIOUS
<1>0. SearchTyped
  BY DEF SearchInv
<1>1. CASE UNCHANGED searchVars
  <2>1. SearchTyped' /\ SearchIsExact'
    <3>1. UNCHANGED <<deps, keys, visited, path, todo, answer>>
      BY <1>1 DEF searchVars
    <3>2. SearchTyped' = SearchTyped
      BY <3>1 DEF SearchTyped
    <3>3. SearchIsExact' = SearchIsExact
      BY <3>1 DEF SearchIsExact
    <3> QED BY <3>2, <3>3 DEF SearchInv
  <2>2. PathInProgress' = PathInProgress /\ PathOnce' = PathOnce /\ PathChained' = PathChained
    BY <1>1 DEF searchVars, PathInProgress, OnPath, PathOnce, PathChained, Dependencies
  <2>3. TodoWithin' = TodoWithin /\ Searched' = Searched /\ DoneBelow' = DoneBelow
    BY <1>1 DEF searchVars, TodoWithin, Searched, DoneBelow, Dependencies
  <2>4. RootsVisited' = RootsVisited /\ NoRingDone' = NoRingDone /\ answer' = answer
    BY <1>1 DEF searchVars, RootsVisited, NoRingDone, Ring, WaitForEachOther
  <2> QED BY <2>1, <2>2, <2>3, <2>4 DEF SearchInv, Searching
<1> SUFFICES ASSUME SearchNext PROVE SearchInv'
  BY <1>1
<1>2. answer = "unknown" /\ Searching
  BY DEF SearchNext, SearchInv
<1>3. ASSUME NEW n \in Nodes, SearchFrom(n) PROVE SearchInv'
  <2>1. path = <<>> /\ keys' = keys \ {n} /\ Dfs(n) /\ UNCHANGED <<deps, todo>> /\ n \in Ids
    BY <1>3 DEF SearchFrom, Ids
  <2>2. SearchTyped'
    BY <1>0, <2>1, DfsTyped DEF SearchTyped
  <2>3. visited[n] # 1
    BY <1>2, <2>1 DEF Searching, PathInProgress, OnPath
  <2>4. Searching'
    BY <1>0, <1>2, <2>1, <2>3, CallStep
  <2> QED BY <1>2, <2>1, <2>2, <2>3, <2>4 DEF SearchInv, SearchIsExact, Dfs
<1>4. ASSUME NEW d \in Ids, SearchDependency(d) PROVE SearchInv'
  <2>1. /\ path # <<>> /\ d \in todo[Deepest] /\ Dfs(d) /\ UNCHANGED <<deps, keys>>
        /\ todo' = [todo EXCEPT ![Deepest] = @ \ {d}]
    BY <1>4 DEF SearchDependency
  <2>2. Deepest \in Ids
    BY <1>0, <2>1 DEF SearchTyped, Deepest
  <2>3. SearchTyped'
    BY <1>0, <2>1, <2>2, DfsTyped DEF SearchTyped
  <2>4. d \in Dependencies(Deepest)
    BY <1>2, <2>1, <2>2 DEF Searching, TodoWithin
  <2>5. CASE visited[d] = 1
    <3>1. PICK k \in 1..Len(path) : path[k] = d
      BY <1>2, <2>5 DEF Searching, PathInProgress, OnPath
    <3>2. CycleIn(Nodes, deps)
      BY <1>0, <1>2, <2>4, <3>1, BackEdge DEF Searching
    <3>3. answer' = "cycle" /\ CycleIn(Nodes, deps)'
      BY <2>1, <2>5, <3>2 DEF Dfs, CycleIn, WaitForEachOther
    <3> QED BY <2>3, <3>3 DEF SearchInv, SearchIsExact
  <2>6. CASE visited[d] # 1
    <3>1. Searching'
      BY <1>0, <1>2, <2>1, <2>2, <2>4, <2>6, CallStep DEF SearchTyped
    <3> QED BY <1>2, <2>1, <2>3, <2>6, <3>1 DEF SearchInv, SearchIsExact, Dfs
  <2> QED BY <2>5, <2>6
<1>5. CASE DfsReturns
  <2>1. answer' = answer
    BY <1>5 DEF DfsReturns
  <2> QED BY <1>0, <1>2, <1>5, <2>1, ReturnStep DEF SearchInv, SearchIsExact
<1>6. CASE HasCycleReturns
  <2>1. path = <<>> /\ keys = {} /\ answer' = "acyclic"
        /\ UNCHANGED <<deps, keys, visited, path, todo>>
    BY <1>6 DEF HasCycleReturns
  <2>2. SearchTyped'
    BY <1>0, <2>1 DEF SearchTyped
  <2>3. \A n \in Nodes : visited[n] = 2
    BY <1>0, <1>2, <2>1 DEF Searching, PathInProgress, OnPath, RootsVisited, SearchTyped, Ids
  <2>4. ~CycleIn(Nodes, deps)
    BY <1>2, <2>3 DEF Searching, NoRingDone, Ring, CycleIn
  <2>5. ~CycleIn(Nodes, deps)'
    BY <2>1, <2>4 DEF CycleIn, WaitForEachOther
  <2>6. SearchIsExact'
    BY <2>1, <2>5 DEF SearchIsExact, CycleIn
  <2> QED BY <2>1, <2>2, <2>6 DEF SearchInv
<1> QED BY <1>3, <1>4, <1>5, <1>6 DEF SearchNext

(***************************************************************************)
(* has_cycle is right about every queue: any number of tasks, any          *)
(* dependencies, queued or not, and any order of the search.               *)
(***************************************************************************)
THEOREM CycleSearchCorrect == SearchSpec => []SearchIsExact
<1>1. SearchInv => SearchIsExact
  BY DEF SearchInv
<1> QED BY <1>1, SearchInitInv, SearchStep, PTL DEF SearchSpec
=============================================================================
