----------------------------- MODULE Orchestrator -----------------------------
(***************************************************************************)
(* The multi-agent orchestrator: the task queue, the agent monitor, the    *)
(* driver that runs plan -> execute -> synthesize (Orchestrator::run), the *)
(* worker futures it awaits or spawns (execute_task_static), and the other *)
(* holders of the shared queue, which may add a task at any time           *)
(* (Orchestrator::queue, SubAgentSpawner::spawn).                          *)
(*                                                                         *)
(* run() takes &self and excludes nobody: calls of it may overlap, on one  *)
(* queue, and a call may find the leavings of another that has returned.   *)
(*                                                                         *)
(* Every action is the code between two awaits, or one critical section of *)
(* the queue's or the monitor's lock: that is where tokio may run another  *)
(* future.  Counters, durations, events and the text of prompts, artifacts *)
(* and summaries are left out.                                             *)
(***************************************************************************)
EXTENDS Integers, Sequences, FiniteSets, Cycles

CONSTANTS
  Tasks,      \* the ids of all tasks that are ever created
  Deps,       \* Deps[t]: Task::dependencies
  RoleOf,     \* RoleOf[t]: Task::assigned_to
  Profiled,   \* the roles that have an AgentProfile
  Panicking,  \* tasks whose worker may panic in a caller-supplied backend or callback
  Reviewer,   \* AgentRole::Reviewer
  Planner,    \* AgentRole::Orchestrator
  MaxRuns,    \* bound: how often run() is called on this orchestrator
  Batch,      \* Batch[r]: the tasks that call r of run() plans, oldest first
  NoTask      \* Option::None, for AgentState::current_task

Runs         == 1..MaxRuns
PlannedBy(r) == {Batch[r][i] : i \in DOMAIN Batch[r]}
External     == Tasks \ UNION {PlannedBy(r) : r \in Runs}
Roles        == {RoleOf[t] : t \in Tasks} \cup {Planner}
Workers      == Runs \X Tasks    \* the future that run r creates for task t

ASSUME OrchestratorAssumption ==
  /\ MaxRuns \in Nat \ {0}
  /\ Deps \in [Tasks -> SUBSET Tasks]
  /\ Batch \in [Runs -> Seq(Tasks)]
  \* Task::new draws a fresh UUID, so no task is planned twice.
  /\ \A r, s \in Runs : r # s => PlannedBy(r) \cap PlannedBy(s) = {}
  /\ NoTask \notin Tasks

VARIABLES
  \* TaskQueue, under its RwLock
  status,     \* status[t]: Task::status, "absent" until the task is added
  created,    \* the tasks of the queue by created_at
  logged,     \* logged[t]: how often the Vec `completed` holds t
  artifacts,  \* artifacts[t]: how many artifacts t holds
  \* AgentMonitor, under its RwLock
  monitor,    \* monitor[role]: AgentState
  \* the drivers: run() and execute(), one future per call r
  driver,     \* driver[r]: where the future is suspended
  ready,      \* ready[r]: ready_tasks, those not dispatched yet
  handles,    \* handles[r]: the worker futures it still has to await
  result,     \* result[r]: what the call returned
  report,     \* report[r]: the tasks whose artifacts it returned
  \* the workers: execute_task_static()
  worker,     \* worker[w]: where the future is suspended
  context     \* context[w]: the dependencies whose artifacts it was given

queueVars  == <<status, created, logged, artifacts>>
driverVars == <<driver, ready, handles, result, report>>
workerVars == <<worker, context>>
vars       == <<queueVars, monitor, driverVars, workerVars>>

Terminal  == {"completed", "review", "failed"}
Statuses  == {"absent", "pending", "running"} \cup Terminal
DriverAt  == {"new", "planning", "planned", "setup", "poll", "recheck",
              "dispatch", "join", "synthesize", "returned"}
Outcomes  == {"none", "ok", "cycle", "io", "deadlock", "failed"}
CutOff    == {"missed", "panicked"}
Ended     == {"ok", "err"} \cup CutOff
Running   == {"marked", "working", "flagged", "reviewed", "succeeded", "failing"}
WorkerAt  == {"none", "queued", "closing", "counting", "clearing"} \cup Running \cup Ended
AgentStatus == {"idle", "working", "waiting", "error"}

TypeOK ==
  /\ status \in [Tasks -> Statuses]
  /\ created \in Seq(Tasks)
  /\ logged \in [Tasks -> Nat]
  /\ artifacts \in [Tasks -> Nat]
  /\ monitor \in [Roles -> [status : AgentStatus, task : Tasks \cup {NoTask}]]
  /\ driver \in [Runs -> DriverAt]
  /\ ready \in [Runs -> SUBSET Tasks]
  /\ handles \in [Runs -> SUBSET Tasks]
  /\ result \in [Runs -> Outcomes]
  /\ report \in [Runs -> SUBSET Tasks]
  /\ worker \in [Workers -> WorkerAt]
  /\ context \in [Workers -> SUBSET Tasks]

-----------------------------------------------------------------------------
(* TaskQueue: the queries *)

InQueue      == {t \in Tasks : status[t] # "absent"}
Completed(t) == logged[t] > 0

\* Slips a later change could make; each stands for the definition after it.
IsReady_NoDeps(t)    == status[t] = "pending"

\* Task::is_ready reads the Vec `completed`, not the status of the dependency.
IsReady(t) == status[t] = "pending" /\ \A d \in Deps[t] : Completed(d)
AllReady   == {t \in Tasks : IsReady(t)}

\* all_ready sorts by creation time: t is the oldest member of S.
Oldest(t, S) ==
  /\ t \in S
  /\ \A u \in S \ {t} : \E i, j \in DOMAIN created :
        i < j /\ created[i] = t /\ created[j] = u

\* Vacuously true of an empty queue.
IsDone == \A t \in InQueue : status[t] \in Terminal

\* What dfs_cycle decides: some tasks of the queue all wait for one another.
HasCycle(queue) == CycleIn(queue, Deps)

(* AgentMonitor: the updates *)

Idle == [status |-> "idle", task |-> NoTask]

Track(role, s, t)  == monitor' = [monitor EXCEPT ![role] = [status |-> s, task |-> t]]
StartTask(role, t) == Track(role, "working", t)
FinishTask(role)   == Track(role, "idle", NoTask)
SetStatus(role, s) == Track(role, s, monitor[role].task)

-----------------------------------------------------------------------------
Init ==
  /\ status    = [t \in Tasks |-> "absent"]
  /\ created   = <<>>
  /\ logged    = [t \in Tasks |-> 0]
  /\ artifacts = [t \in Tasks |-> 0]
  /\ monitor   = [role \in Roles |-> Idle]
  /\ driver  = [r \in Runs |-> "new"]
  /\ ready   = [r \in Runs |-> {}]
  /\ handles = [r \in Runs |-> {}]
  /\ result  = [r \in Runs |-> "none"]
  /\ report  = [r \in Runs |-> {}]
  /\ worker  = [w \in Workers |-> "none"]
  /\ context = [w \in Workers |-> {}]

\* Another holder of the queue adds a task; SubAgentSpawner::spawn is one.
AddExternal(t) ==
  /\ t \in External
  /\ status[t] = "absent"
  /\ status' = [status EXCEPT ![t] = "pending"]
  /\ created' = Append(created, t)
  /\ UNCHANGED <<logged, artifacts, monitor, driverVars, workerVars>>

-----------------------------------------------------------------------------
(* The drivers; r is one call of run() *)

Advance(r, to) == driver' = [driver EXCEPT ![r] = to]

\* run() returns; dropping the join handles leaves their workers running.
Return(r, outcome) ==
  /\ Advance(r, "returned")
  /\ result' = [result EXCEPT ![r] = outcome]
  /\ ready' = [ready EXCEPT ![r] = {}]
  /\ handles' = [handles EXCEPT ![r] = {}]

\* plan(): the planner's monitor entry is set to Working, with an id that is
\* no task of the queue, and later back to Idle.  Nothing keeps a call from
\* beginning while another is under way.
BeginRun(r) ==
  /\ driver[r] = "new"
  /\ Advance(r, "planning")
  /\ StartTask(Planner, NoTask)
  /\ UNCHANGED <<queueVars, ready, handles, result, report, workerVars>>

EndPlan(r) ==
  /\ driver[r] = "planning"
  /\ Advance(r, "planned")
  /\ FinishTask(Planner)
  /\ UNCHANGED <<queueVars, ready, handles, result, report, workerVars>>

\* Adds the plan and checks for cycles under one write lock.  A rejected
\* plan stays in the queue.
SubmitPlan(r) ==
  /\ driver[r] = "planned"
  /\ status' = [t \in Tasks |-> IF t \in PlannedBy(r) THEN "pending" ELSE status[t]]
  /\ created' = created \o Batch[r]
  /\ IF HasCycle(InQueue \cup PlannedBy(r))
     THEN Return(r, "cycle")
     ELSE Advance(r, "setup") /\ UNCHANGED <<ready, handles, result>>
  /\ UNCHANGED <<logged, artifacts, monitor, report, workerVars>>

\* create_dir_all, which may fail; no output directory is the case that succeeds.
PrepareOutput(r) ==
  /\ driver[r] = "setup"
  /\ \/ Advance(r, "poll") /\ UNCHANGED <<ready, handles, result>>
     \/ Return(r, "io")
  /\ UNCHANGED <<queueVars, monitor, report, workerVars>>

\* First read lock of an iteration of execute().
Poll(r) ==
  /\ driver[r] = "poll"
  /\ IF IsDone
     THEN Advance(r, "synthesize") /\ UNCHANGED ready
     ELSE /\ ready' = [ready EXCEPT ![r] = AllReady]
          /\ Advance(r, IF AllReady = {} THEN "recheck" ELSE "dispatch")
  /\ UNCHANGED <<queueVars, monitor, handles, result, report, workerVars>>

\* Slip: waiting for more work where the code gives up.
Recheck_Waits(r) ==
  /\ driver[r] = "recheck"
  /\ Advance(r, IF \E t \in Tasks : status[t] = "pending" THEN "poll" ELSE "synthesize")
  /\ UNCHANGED <<queueVars, monitor, ready, handles, result, report, workerVars>>

\* Second read lock, taken only when the first one saw nothing ready.  A task
\* that another run has in hand is Running, and does not keep this one waiting.
Recheck(r) ==
  /\ driver[r] = "recheck"
  /\ IF \E t \in Tasks : status[t] = "pending"
     THEN Return(r, "deadlock")
     ELSE Advance(r, "synthesize") /\ UNCHANGED <<ready, handles, result>>
  /\ UNCHANGED <<queueVars, monitor, report, workerVars>>

\* gather_dependency_context under a read lock, then the worker's future is
\* created: awaited at once if it is the only one, spawned if there are more.
Dispatch(r, t) ==
  /\ driver[r] = "dispatch"
  /\ Oldest(t, ready[r])
  /\ context' = [context EXCEPT ![<<r, t>>] = {d \in Deps[t] : artifacts[d] > 0}]
  /\ worker' = [worker EXCEPT ![<<r, t>>] = "queued"]
  /\ ready' = [ready EXCEPT ![r] = @ \ {t}]
  /\ handles' = [handles EXCEPT ![r] = @ \cup {t}]
  /\ Advance(r, IF ready[r] = {t} THEN "join" ELSE "dispatch")
  /\ UNCHANGED <<queueVars, monitor, result, report>>

\* Slip: an error of a worker is logged and otherwise ignored.
Join_IgnoresErrors(r, t) ==
  /\ driver[r] = "join"
  /\ Oldest(t, handles[r])
  /\ worker[<<r, t>>] \in Ended
  /\ handles' = [handles EXCEPT ![r] = @ \ {t}]
  /\ Advance(r, IF handles[r] = {t} THEN "poll" ELSE "join")
  /\ UNCHANGED <<queueVars, monitor, ready, result, report, workerVars>>

\* The handles are awaited oldest first; the first error or panic is returned
\* without awaiting the others.
Join(r, t) ==
  /\ driver[r] = "join"
  /\ Oldest(t, handles[r])
  /\ worker[<<r, t>>] \in Ended
  /\ IF worker[<<r, t>>] = "ok"
     THEN /\ handles' = [handles EXCEPT ![r] = @ \ {t}]
          /\ Advance(r, IF handles[r] = {t} THEN "poll" ELSE "join")
          /\ UNCHANGED <<ready, result>>
     ELSE Return(r, "failed")
  /\ UNCHANGED <<queueVars, monitor, report, workerVars>>

\* Collects the artifacts of completed and of reviewed tasks.
Synthesize(r) ==
  /\ driver[r] = "synthesize"
  /\ report' = [report EXCEPT ![r] = {t \in Tasks : status[t] \in {"completed", "review"}}]
  /\ Return(r, "ok")
  /\ UNCHANGED <<queueVars, monitor, workerVars>>

Driver(r) ==
  \/ EndPlan(r) \/ SubmitPlan(r) \/ PrepareOutput(r) \/ Poll(r) \/ Recheck(r) \/ Synthesize(r)
  \/ \E t \in Tasks : Dispatch(r, t) \/ Join(r, t)

-----------------------------------------------------------------------------
(* The workers; w = <<r, t>> works on task t for run r *)

Role(w) == RoleOf[w[2]]

Move(w, from, to) == worker[w] = from /\ worker' = [worker EXCEPT ![w] = to]

MarkRunning(w) ==
  /\ Move(w, "queued", "marked")
  /\ status' = [status EXCEPT ![w[2]] = "running"]
  /\ UNCHANGED <<created, logged, artifacts, monitor, driverVars, context>>

TrackStart(w) ==
  /\ Move(w, "marked", "working")
  /\ StartTask(Role(w), w[2])
  /\ UNCHANGED <<queueVars, driverVars, context>>

\* No profile: an early return that tells neither the queue nor the monitor.
MissProfile(w) ==
  /\ Role(w) \notin Profiled
  /\ Move(w, "working", "missed")
  /\ UNCHANGED <<queueVars, monitor, driverVars, context>>

\* AgentRunner::run returns, or panics; only a reviewer's answer is searched
\* for the markers that ask for a human.
AgentAnswers(w) ==
  /\ Role(w) \in Profiled
  /\ \/ Move(w, "working", "succeeded")
     \/ Role(w) = Reviewer /\ Move(w, "working", "flagged")
     \/ Move(w, "working", "failing")
     \/ w[2] \in Panicking /\ Move(w, "working", "panicked")
  /\ UNCHANGED <<queueVars, monitor, driverVars, context>>

WaitForApproval(w) ==
  /\ Move(w, "flagged", "reviewed")
  /\ SetStatus(Role(w), "waiting")
  /\ UNCHANGED <<queueVars, driverVars, context>>

\* Slip: a reviewed task unblocks its dependents.
MarkNeedsReview_Logs(w) ==
  /\ Move(w, "reviewed", "closing")
  /\ artifacts' = [artifacts EXCEPT ![w[2]] = @ + 1]
  /\ status' = [status EXCEPT ![w[2]] = "review"]
  /\ logged' = [logged EXCEPT ![w[2]] = @ + 1]
  /\ UNCHANGED <<created, monitor, driverVars, context>>

\* add_artifact and mark_needs_review under one lock.
MarkNeedsReview(w) ==
  /\ Move(w, "reviewed", "closing")
  /\ artifacts' = [artifacts EXCEPT ![w[2]] = @ + 1]
  /\ status' = [status EXCEPT ![w[2]] = "review"]
  /\ UNCHANGED <<created, logged, monitor, driverVars, context>>

\* Slip: the artifact is stored by a later lock, or not at all.
MarkCompleted_NoArtifact(w) ==
  /\ Move(w, "succeeded", "closing")
  /\ status' = [status EXCEPT ![w[2]] = "completed"]
  /\ logged' = [logged EXCEPT ![w[2]] = @ + 1]
  /\ UNCHANGED <<created, artifacts, monitor, driverVars, context>>

\* add_artifact and mark_completed under one lock.
MarkCompleted(w) ==
  /\ Move(w, "succeeded", "closing")
  /\ artifacts' = [artifacts EXCEPT ![w[2]] = @ + 1]
  /\ status' = [status EXCEPT ![w[2]] = "completed"]
  /\ logged' = [logged EXCEPT ![w[2]] = @ + 1]
  /\ UNCHANGED <<created, monitor, driverVars, context>>

TrackFinish(w) ==
  /\ Move(w, "closing", "ok")
  /\ FinishTask(Role(w))
  /\ UNCHANGED <<queueVars, driverVars, context>>

\* Slip: a failed task is put back for another attempt.
MarkFailed_Requeues(w) ==
  /\ Move(w, "failing", "counting")
  /\ status' = [status EXCEPT ![w[2]] = "pending"]
  /\ UNCHANGED <<created, logged, artifacts, monitor, driverVars, context>>

MarkFailed(w) ==
  /\ Move(w, "failing", "counting")
  /\ status' = [status EXCEPT ![w[2]] = "failed"]
  /\ UNCHANGED <<created, logged, artifacts, monitor, driverVars, context>>

RecordError(w) ==
  /\ Move(w, "counting", "clearing")
  /\ SetStatus(Role(w), "error")
  /\ UNCHANGED <<queueVars, driverVars, context>>

\* Slip: the error status is kept, and with it the current task.
TrackFailure_KeepsTask(w) ==
  /\ Move(w, "clearing", "err")
  /\ UNCHANGED <<queueVars, monitor, driverVars, context>>

TrackFailure(w) ==
  /\ Move(w, "clearing", "err")
  /\ FinishTask(Role(w))
  /\ UNCHANGED <<queueVars, driverVars, context>>

Worker(w) ==
  \/ MarkRunning(w) \/ TrackStart(w) \/ MissProfile(w) \/ AgentAnswers(w)
  \/ WaitForApproval(w) \/ MarkNeedsReview(w) \/ MarkCompleted(w) \/ TrackFinish(w)
  \/ MarkFailed(w) \/ RecordError(w) \/ TrackFailure(w)

-----------------------------------------------------------------------------
Next == \/ \E r \in Runs : BeginRun(r) \/ Driver(r)
        \/ \E t \in Tasks : AddExternal(t)
        \/ \E w \in Workers : Worker(w)

\* tokio polls every future that is woken, and its RwLock is first come first
\* served; the little assumed here is that the drivers are not all neglected
\* for ever, nor the workers.  That every agent call returns is an assumption
\* about the provider: the agent loop is bounded by max_turns, but the HTTP
\* clients set no timeout.
Fairness == /\ WF_vars(\E r \in Runs : Driver(r))
            /\ WF_vars(\E w \in Workers : Worker(w))

Spec     == Init /\ [][Next]_vars
FairSpec == Spec /\ Fairness

-----------------------------------------------------------------------------
(* Properties *)

(***************************************************************************)
(* A worker's future exists only once every dependency of its task has     *)
(* completed, and the context gathered for it holds the output of every    *)
(* one of them: execute() promises dependency order,                       *)
(* gather_dependency_context promises the flow Spec -> Coder -> Tester.    *)
(***************************************************************************)
ContextComplete ==
  \A w \in Workers : worker[w] # "none" =>
    /\ \A d \in Deps[w[2]] : Completed(d)
    /\ context[w] = Deps[w[2]]

(***************************************************************************)
(* The Vec `completed` lists each completed task once, and no other task:  *)
(* completed_count() and the dependency test of is_ready read the Vec,     *)
(* is_done() and synthesize() read the statuses.                           *)
(***************************************************************************)
CompletedLogExact ==
  \A t \in Tasks : logged[t] = IF status[t] = "completed" THEN 1 ELSE 0

(***************************************************************************)
(* A run that returns Ok returns the artifact of every task it planned,    *)
(* but for those that another run has in hand or has failed: execute() may *)
(* leave its loop by two breaks, and neither looks at failures or waits    *)
(* for what other runs are at.                                             *)
(***************************************************************************)
InHandOrFailed == Running \cup CutOff \cup {"counting", "clearing", "err"}

OkRunIsComplete ==
  [][\A r \in Runs : result[r] = "none" /\ result'[r] = "ok" =>
       \A t \in PlannedBy(r) \ report'[r] :
         \E s \in Runs \ {r} : worker[<<s, t>>] \in InHandOrFailed]_vars

(***************************************************************************)
(* A run creates at most one future for a task: between the lock under     *)
(* which a task is found ready and the lock under which its worker marks   *)
(* it running nothing reserves it, and other runs may be at work on it.    *)
(***************************************************************************)
DispatchedOnce ==
  [][\A w \in Workers : worker'[w] = "queued" => worker[w] \in {"none", "queued"}]_vars

(***************************************************************************)
(* The monitor names a task for a role only while a worker of that role is *)
(* between start_task and finish_task for that very task, or was cut off   *)
(* there: by a missing profile, whose early return skips finish_task, or   *)
(* by a panic.                                                             *)
(***************************************************************************)
Tracked == {"working", "flagged", "reviewed", "succeeded", "closing",
            "failing", "counting", "clearing"}

MonitorNeverStale ==
  \A role \in Roles : monitor[role].task # NoTask =>
    \E w \in Workers : /\ w[2] = monitor[role].task
                       /\ Role(w) = role
                       /\ worker[w] \in Tracked \cup CutOff

(***************************************************************************)
(* Every call of run() returns: the loop of execute() always makes         *)
(* progress, no join waits for a worker that will not end, and overlapping *)
(* calls do not keep one another going.                                    *)
(***************************************************************************)
UnderWay(r) == driver[r] \notin {"new", "returned"}

RunReturns == (\E r \in Runs : UnderWay(r)) ~> \A r \in Runs : ~UnderWay(r)

\* With a single run the queue behaves as the abstract task graph.
TG == INSTANCE TaskGraph WITH status <- status
ImplementsTaskGraph == TG!Spec
=============================================================================
