# A verification development for Argentor

TLA+ modules for the parts of Argentor whose correctness rests on the order in
which things happen: the task queue and the multi-agent orchestrator, the
sub-agent spawner, the provider circuit breaker, the A2A task server, the MCP
proxy orchestrator, the agent loop with its approval gate, the connections to
MCP servers, and the workflow engine. Each component has

- a module (`X.tla`): its state, one action per operation or per stretch of code
  between two awaits or locks, its fairness and its properties;
- an instance (`MCX.tla`, `*.cfg`) that TLC checks;
- where it has theorems, `X_proofs.tla`, checked by TLAPS.

Run from this directory: `tlc -workers 2 -config X.cfg MCX.tla`, `tlapm X_proofs.tla`.
`PROJECT.json` lists the components, runs, findings, hazards and theorems, says
which source lines each definition stands for, and names for every property a
slip of the code (an operator whose name ends in `_...`, defined just before the
right one) that makes the run fail.

Paths below are under `src/crates/`; `engine.rs`, `task_queue.rs`, `monitor.rs`,
`spawner.rs`, `workflow.rs`, `message_bus.rs` are in `argentor-orchestrator/src`,
`circuit_breaker.rs`, `runner.rs`, `token_budget.rs` and `backends/gemini.rs` in
`argentor-agent/src`, `server.rs` and `protocol.rs` in `argentor-a2a/src`,
`router.rs`, `ws_approval.rs` and `xcapitsff.rs` in `argentor-gateway/src`,
`client.rs`, `manager.rs`, `skill.rs`, `proxy_orchestrator.rs` and
`token_pool.rs` in `argentor-mcp/src`.

# 1. The system

Argentor is a tokio program. Requests reach an `AgentRunner`, through the
gateway, the CLI, the A2A server or the orchestrator; the runner calls a model
provider, and runs the tools the model asks for, built-in or behind MCP. Shared
state sits behind an `Arc<RwLock<..>>` per component: operations are atomic one
by one, and what can go wrong lies between them.

| Component | State | Operations | Talks to | What is hard |
|---|---|---|---|---|
| Task queue (`task_queue.rs`) | tasks by id, the Vec of completed ids | add, all_ready, mark_*, is_done, has_cycle | shared by the engine, the spawner and every holder of `Orchestrator::queue()` | no `mark_` function looks at the old status; status and Vec must agree |
| Orchestrator engine (`engine.rs`) | none between runs | run = plan, execute, synthesize | queue and monitor locks, spawned workers, an `AgentRunner` per worker | several locks per step, detached workers, overlapping runs |
| Agent monitor (`monitor.rs`) | one `AgentState` per role | start_task, finish_task, record_error, waiting_for_approval | written by every worker | one entry per role, not per worker |
| Sub-agent spawner (`spawner.rs`) | none of its own | spawn | reads the queue, then writes it | limits are checked before the task is added |
| Circuit breaker (`circuit_breaker.rs`) | state, two counters, opened_at | allow_request, record_*, force_state, reset, register | asked and told by every runner | outcomes arrive in a later state than they were admitted in |
| Message router (`router.rs`) | the session store | handle_message: load, run, save | the shared `AgentRunner`, connections | messages of one session overlap, the session is saved as a whole |
| Agent runner (`runner.rs`) | a copy of the session, token budget | run, run_streaming, execute_tool | breaker, cache, guardrails, skills, approval | early returns in a long loop; one budget and one approval map for all messages |
| A2A server (`server.rs`) | tasks by id | send, sendSubscribe, cancel, get, list | a `TaskHandler` | works on a clone for as long as the handler takes |
| MCP proxy orchestrator (`proxy_orchestrator.rs`) | proxies, rules, strategy, counter | route, execute, record_*, administration | the proxies | three locks per call; proxies come and go |
| MCP client and manager (`client.rs`, `manager.rs`, `skill.rs`) | a child process, a map of pending requests, servers by command | connect, request, health_check, reconnect, execute | the child, the skill registry | late answers, a child that hangs or dies, a lock held across I/O |
| MCP token pool (`token_pool.rs`) | tokens, provider index | select, record_usage, add, remove | proxies' callers | nothing is reserved; two maps, two locks |
| Workflow engine (`workflow.rs`) | definitions, runs | start, advance, run_to_completion, pause, resume | agent roles | `advance` writes a whole run back |
| Message bus, handoff, budget | mailboxes, chains, counters | send, receive, request, record | agents | broadcasts, checks before use |
| Approval (`ws_approval.rs`) | a oneshot sender per task id | request, answer, timeout | WebSocket clients | late and duplicate answers |
| Graceful shutdown (`argentor-gateway/src/graceful_shutdown.rs`) | phase, hooks | register, shutdown | everything | a second caller, timeouts |
| Quotas (`argentor-cloud/src/quotas.rs`) | counters per tenant | check, record, open/close session | the runtime | check and use are separate |
| Sessions, memory, security, skills, built-ins, channels, compliance, cloud, CLI, bindings | tables and files | mostly one write per call | — | I/O, text, floating point |

What makes them correct, in the order of importance this development gave them:

1. **Queue and engine.** A task is worked on once, after all its dependencies,
   with their output; an outcome is final; `run` returns, and `Ok` means that
   every planned task has its artifact, but for those that another run has in hand or has failed.
2. **Spawner.** Recursion is bounded in depth and width.
3. **Breaker.** A circuit is open when and only when it should be; it always
   recovers from a provider that does, and stays shut off from one that does not.
4. **A2A server.** Every stored task has had a legal life; nothing that was
   accepted is lost; no task works for ever.
5. **Proxy orchestrator.** As the breaker, per proxy, plus: a working proxy is found.
6. **Agent loop and approval.** A guarded tool runs only after a yes to that very call;
   every message ends; budget, approval map and stored history are accounted for.
7. **MCP connections.** A request gets its own answer or an error; a server that
   stopped working is replaced.
8. **Workflow engine.** A run is a path through its definition; retries and loops end;
   only a stale write undoes what an operator or a result decided.
9. **The rest** (section 7): token pool, shutdown, message bus, quotas, failover.

# 2. Modules

`Orchestrator` composes the queue, the monitor, the driver and the workers:
their interaction is the subject, and the queue without its users has no
behaviour. `TaskGraph` is the abstract specification that `Orchestrator`
implements. `AgentLoop` composes the router, the runner, the token budget and
the approval channel, and implements `HumanGate`, the abstract gate; what the
circuit breaker answers is a choice there, for `CircuitBreaker` has it in
detail. `CycleCheck` is the search that `Orchestrator` makes in
one step, in detail; both take what a cycle is from `Cycles`. The other modules stand alone,
for their components share no state in the code; the spawner's task appears in
`Orchestrator` as an outside addition (`AddExternal`).

## TaskGraph (abstract)

What the queue promises: a task is submitted once, starts at most once, when all
its dependencies have completed, and its outcome is final. Status per task, and
actions `Submit`, `Start`, `Finish`.

## Orchestrator

| Variables | Code |
|---|---|
| `status`, `created`, `logged`, `artifacts` | the tasks of `TaskQueue` by status, creation order, the Vec `completed` as a bag, number of artifacts |
| `monitor` | `AgentMonitor::states` (status and current task) |
| `driver`, `ready`, `handles`, `result`, `report` | per call of `run()`: where its future is suspended, and its locals |
| `worker`, `context` | per call and task: where the future of `execute_task_static` is suspended; the context it was given |

`run(&self)` (engine.rs:189) excludes nobody: any number of its calls overlap or follow each other on
one queue, and `BeginRun` asks for nothing but that this call has not begun.
An action is what runs between two awaits, or one critical section. `BeginRun`,
`EndPlan`, `SubmitPlan`, `PrepareOutput` are `run` up to `execute`; `Poll`,
`Recheck`, `Dispatch`, `Join` are the loop of `execute` (the two separate reads
of engine.rs:282-306, context gathering and spawning, awaiting the handles in
order and returning at the first error); `Synthesize` ends it. A worker passes
`MarkRunning`, `TrackStart`, `MissProfile` or `AgentAnswers`, and then one of the
three endings, each a write to the queue and one or two to the monitor. A worker
whose driver returned keeps running: a tokio `JoinHandle` that is dropped
detaches its task. `AddExternal` is any other holder of the queue.

Left out: texts, prompts, files per artifact, progress callbacks, the event bus,
turn and token counters.

## CycleCheck

`has_cycle` and `dfs_cycle` as they are: colours 0, 1, 2, roots in any order the
HashMap may yield, colours kept between the roots. The recursion is a call stack
(`path`, and per call what its loop has still `todo`), so that a step is a call up to its loop
(`SearchFrom`, `SearchDependency`), or a return (`DfsReturns`, `HasCycleReturns`).
`SearchIsExact` compares the answer with `CycleIn` of `Cycles`, which says without any
search that some tasks all wait for one another, and which `Orchestrator` uses
where `run` calls `has_cycle`.

## SubAgentSpawner

`spawn` is `Check` (the read lock and the comparisons) and `Insert` (the write
lock). `MaxInFlight` bounds how many calls are between the two.

## CircuitBreaker

Each operation of the breaker is one formula on `state`, `failures`, `successes`,
`elapsed`; a runner's turn is `Admit` or `Reject`, then a cached answer, a
blocked turn, or a call and its outcome. `provider` is what the provider does
from some moment on. `Tick` is time, `Administer` is force_state, reset, register.
The counters stop at their threshold: no comparison tells larger values apart.

## A2AServer

`Receive` and `Create` take a clone, `Store` writes it back as Working, `Finish`
writes back what the handler returned, `Drop` is the end of a handler that returns nothing: on
`tasks/send` its client hangs up or it panics; `tasks/sendSubscribe` spawns it, so that only a
panic ends it. `Cancel` works on the stored task under one lock. The message
of a request is the request itself. Completed, Failed and Canceled tasks accept
nothing, so that histories stay short.

## ProxyOrchestrator

A call is `Route` (or `RouteLate`, `Refuse`), `Identify` (the second lock, which
looks for the id of the proxy it was given) and `Answer`, `Fail` or `Leave` (the
third, which records under that id). `add_proxy` compares ids only: one proxy may be
registered under several, and `Identify` then finds the first of them. The administrative operations are one
action each, below `Administer`. `wait` counts down to circuit_open_until.
The round-robin counter is kept modulo
`Period`, a multiple of every possible number of candidates.

## HumanGate (abstract)

What the approval gate promises, on two sets: `approved`, the calls a reviewer
said yes to, and `ran`, the guarded calls that were executed. `Approve` may
happen any time; `Run` once per call and, unless the gate was left open from the
start (`open`), after its approval.

## AgentLoop

| Variables | Code |
|---|---|
| `stored`, `overlaps` | the session store, as the set of messages a session's history holds; `overlaps` (a history variable) notes sessions that two messages were handled for at once |
| `at`, `copy`, `mode`, `turn`, `todo`, `index`, `final` | where the future of each message is suspended, and its locals |
| `used`, `spent` | the `TokenBudget`, in responses; the messages it ended |
| `pending`, `inbox`, `shown` | the map of `WsApprovalChannel`, the oneshot receivers, what reviewers have on their screens |
| `proxy` | whether `AgentRunner::proxy` is configured: chosen at the start, for `with_proxy` sets it once |
| `approved`, `ran` | what `HumanGate` speaks of: history variables |

`Load`, `Reject`, `Save`, `SaveFails` are `handle_message`. A turn is `CallLlm`,
`LlmAnswers`, `CheckBudget`, then `Conclude` or the calls, each with its gate:
`Skip` (refused or answered without execution), `Pass` (a tool that is not guarded or,
with a proxy, any tool: runner.rs:1297),
`Ask`, `Announce`, `Receive`, `GiveUp`, `Cleanup` (the approval channel),
`Rebuff`, `Execute`, `Finish`. `run_streaming` is the same loop with the parts
left out that the code leaves out there. `Review` is a reviewer who
answers a request seen, now or much later, once or more. `Vanish` drops
the handler's future at an await. Ids of calls are what `TaskId` makes of
them: unique for OpenAI and Anthropic, a position in the response for Gemini.

Open choices: what the guardrails, hooks, the permission evaluator, the model
and the tools answer. Left out: texts, compaction, critique, checkpoints, audit.

## McpManager

| Variables | Code |
|---|---|
| `command`, `tool`, `servers` | the configuration, the client each registered `McpSkill` holds, `McpServerManager::servers` |
| `process`, `troubles` | the child behind each client; how often one hung or died |
| `pending`, `stdin`, `torn`, `pipe` | `McpClient`: the map of senders, the lock of stdin, half a line left behind, what the child has not read |
| `at`, `client`, `id`, `reply`, `spoilt` | each request: a tool call, or the manager's health check |
| `rest`, `key`, `tries`, `fresh` | the locals of `health_check`, `reconnect` and `reconnect_with_backoff` |

A request is `Enqueue` (id and sender), `LockStdin`, `Write` or `WriteFails`, and
then `Answer` or `TimeOut`; `Vanish` drops a tool call's future, in the middle of a
write too. The child reads and answers in order, and `Trouble` hangs or
kills it. The health loop is `StartRound`, `Check`, `Healthy`, `Unhealthy` (no answer, or
one that is an error or no list of tools),
`Reconnect` or `AttemptFails`, `Swap`, `EndRound`. A client that nothing refers
to is free to be named again, as dropping its last `Arc` ends it; an id is used
again when nothing carries it any more, since `next_id` itself is unbounded.

## Workflow

`run` is the entry of `runs`; each caller of `advance` or `run_to_completion` is
`Read` (the clone, or the end), `Write` (evaluate the condition, execute the
step, decide, put the whole run back), `GetRun` (what `run_to_completion` returns). `Pause`
and `Resume` are the operator's, each under one lock. `revived` is a history variable: a run that
had ended was overwritten by one that had not. `execute_step` never fails in the
code as it is, for it stands in for a dispatch that is still to come; failures are allowed
here because `advance` handles them.

# 3. Runs

| Run | What it shows |
|---|---|
| `orchestrator_single` | One call of `run` with the real plan of `plan()` (spec, code, test, review and their dependencies), next to three outside tasks: one whose worker may panic, one whose role has no profile, one that depends on itself. Log exact, the queue implements `TaskGraph` (tasks start in order and once, outcomes are final), `run` returns. |
| `orchestrator_rerun` | Two calls of `run` on one orchestrator, overlapping or one after the other, with detached workers, a role without a profile and a worker that may panic: contexts, the monitor and termination survive that, an `Ok` lacks only tasks that the other run has in hand or has failed, and no run makes two futures for one task, though two runs may. |
| `cycle_check` | `has_cycle` is right for every graph of 3 queued tasks with dependencies on each other, themselves and a task that is not queued, and every order of the roots. |
| `spawner` | Depth is never exceeded; the number of children exceeds the limit by at most the overlapping calls less one. |
| `breaker` | Closed means healthy, open means it can recover, a provider that recovers gets its circuit closed for good, one that dies has its circuit no longer closed for good (without a cache). |
| `a2a` | Histories are legal; what is lost is lost by a stale write; a task that is Working has a handler that runs, and work ends, unless a handler was dropped. |
| `proxy` | Counts, flags and deadlines stay consistent under overlapping calls and one administrative call; under round robin a working proxy is found again. |
| `agent_loop` | With ids that are unique: guarded tools run once and, unless a proxy is configured, after a yes to that call (invariant and refinement of `HumanGate`), a waiting request keeps its sender, the approval map has no stray entries, the budget is overdrawn by one response per message it ends, the history is exact where messages do not overlap, every step of a message takes it forward, every message ends. |
| `approval_ids` | Finding: with ids that are positions, a call runs on the approval of another. |
| `mcp` | Requests get their own answers; one that waits can be answered; calls end, a round of health checks goes forward only, and the health loop heals, except at a pipe that is full. |
| `mcp_tools` | Finding: after a reconnect the registered tools stay with the dead child. |
| `workflow` | Results are a path, retries and iterations bounded, `Ok` means ended, pauses and ends are undone by stale writes only, calls return. |

## Bounds, and why they are enough

- **Orchestrator.** The plan is the only plan the code makes; `MaxRuns` is 1 for
  the properties that hold of one run, 2 where runs meet. These two have shortened
  plans, spec and code, and spec again: two workers of one role, a dependency, a failure that
  detaches a worker, a role without a profile (Coder), a panic and a task that two runs
  dispatch all occur with them. One outside task per kind of trouble in the single run, none with two
  runs. A run after a plan that was rejected for its cycle is covered by the theorems only.
- **CycleCheck.** Three nodes have self-loops, two- and three-cycles, diamonds
  through the missing node and nodes that are reached twice.
- **SubAgentSpawner.** Five calls, depth 2, width 2, two at a time: the limit is
  met, refused and overshot on both levels.
- **CircuitBreaker.** Three requests and thresholds of 2, so that a late outcome
  can arrive in each state, with a timeout of 2 ticks and one administrative call.
- **A2AServer.** Three requests on two tasks: two stale writers and one fresh one.
- **ProxyOrchestrator.** Two calls on two proxies, threshold 2, cooldown of one
  tick, no rule or one of two, each strategy, none to two proxies at first, one
  administrative call (the theorems have no bound on these).
- **AgentLoop.** Two messages of one session, each plain or streamed, with and without a proxy, two turns,
  a response with a plain and a guarded call, a budget of 2: messages follow each
  other or overlap, an approval of the first turn can be answered in the
  second, and both messages can overdraw the budget. The safety theorems have no bound.
- **McpManager.** One server, one tool call and the health check on one client, a
  pipe of one message, two troubles, two attempts, three clients: a child that hangs twice, or hangs
  and is replaced by one that dies, with requests before and after.
- **Workflow.** A definition shaped like lead_qualification and one that retries,
  jumps back and loops; one `run_to_completion` of 6 iterations, one `advance`, and
  an operator without limit. `MaxResults` (12) exceeds what the two can add (8),
  so that it cuts nothing off.

`CHECK_DEADLOCK FALSE` stands where the system ends: runs used up, requests served.

## Fairness

- tokio polls each woken future and its `RwLock` is first come, first served:
  weak fairness of `Store` and of `Identify`, and of the orchestrator's drivers together and its workers
  together, which is less than the code gives: they are not all neglected for ever.
- That a provider or handler *answers* is an assumption: `max_turns` bounds the
  agent loop, but the HTTP clients set no timeout. `RunReturns`, `WorkEnds` and `MessagesEnd`
  are to be read under it.
- The breaker and the proxies also need requests: weak fairness of admitting
  them, and strong fairness of calling and of an outcome, since a request may be
  blocked, cached or dropped again and again but not, by assumption, for ever.
  Time passes (`Tick`).
- In `AgentLoop` each message's own next step is weakly fair. At an approval that
  step is the timeout if nothing else comes: reviewers owe nothing.
- In `McpManager` timers fire and writes end when they can (weak), stdin's lock is
  first come, first served (strong), a child that is up reads on (weak), and
  of the restarts that are tried for ever some succeed (strong). Nothing makes
  a call happen, and nothing mends a child.
- In `Workflow` each call is polled on (weak); the operator owes nothing.
- No fairness on administration, outside additions, cancels or `BeginRun`.

# 4. Proofs

| Theorem | Module | Inductive invariant |
|---|---|---|
| `TypeCorrect` : `[]TypeOK` (0) | `Orchestrator_proofs` | `TypeOK` |
| `DependencyOrder` : `[]ContextComplete` | `Orchestrator_proofs` | `OrderInv` |
| `OkIsComplete` : `OkRunIsComplete` | `Orchestrator_proofs` | `RunInv` |
| `LogExact` : `[]CompletedLogExact` (1) | `Orchestrator_proofs` | `SingleInv` |
| `Refinement` : `ImplementsTaskGraph` (1) | `Orchestrator_proofs` | `SingleInv` |
| `MonitorExact` : `[]MonitorNeverStale` | `Orchestrator_proofs` | `MonitorInv` |
| `OneFuturePerTask` : `DispatchedOnce` | `Orchestrator_proofs` | `RunInv` |
| `CycleSearchCorrect` : `[]SearchIsExact` | `Orchestrator_proofs` | `SearchInv` |
| `DepthIsBounded` : `[]BoundedForest` | `SubAgentSpawner_proofs` | `SpawnerInv` |
| `OvershootIsBounded` : `[]FanOutOvershoot` | `SubAgentSpawner_proofs` | `SpawnerInv` |
| `ClosedStaysHealthy` : `[]ClosedIsHealthy` | `CircuitBreaker_proofs` | `BreakerInv` |
| `OpenAlwaysRecovers` : `[]OpenCanRecover` | `CircuitBreaker_proofs` | `BreakerInv` |
| `HistoriesLegal` : `[]HistoryLegal` | `A2AServer_proofs` | `HistoryInv` |
| `OnlyStaleLose` : `OnlyStaleWritesLose` | `A2AServer_proofs` | `HistoryInv` |
| `WorkHasHandler` : `[]WorkingIsHandled` | `A2AServer_proofs` | `HistoryInv` and itself |
| `BelowThreshold` : `[]ClosedBelowThreshold` | `ProxyOrchestrator_proofs` | `CircuitsSound` |
| `DeadlineIfOpen` : `[]OpenHasDeadline` | `ProxyOrchestrator_proofs` | `CircuitsSound` |
| `TypeCorrect` : `[]TypeOK` (0) | `AgentLoop_proofs` | `PlaceInv` |
| `NoSenderDropped` : `[]SenderKept` (*) | `AgentLoop_proofs` | `ChannelInv` |
| `NoStrayEntry` : `[]PendingAccounted` (*) | `AgentLoop_proofs` | `ChannelInv` |
| `OnlyApprovedCallsRun` : `[]OnlyApprovedRun` (*) | `AgentLoop_proofs` | `GateInv` |
| `LoopImplementsGate` : `ImplementsGate` (*) | `AgentLoop_proofs` | `GateInv` |
| `HistoryExact` : `[]SequentialHistory` | `AgentLoop_proofs` | `StoreInv` |
| `BudgetEndsMessages` : `[]OverdrawnOnce` | `AgentLoop_proofs` | `BudgetInv` |
| `MessagesAdvance` : `OnlyForward` | `AgentLoop_proofs` | `PlaceInv` |
| `TypeCorrect` : `[]TypeOK` (0) | `McpManager_proofs` | `PlaceInv` |
| `NoForeignAnswer` : `[]OwnAnswer` | `McpManager_proofs` | `AnswerInv` |
| `WaitsForAnswer` : `[]AnswerOnTheWay` | `McpManager_proofs` | `AnswerInv` |
| `RoundsAdvance` : `RoundAdvances` | `McpManager_proofs` | `AnswerInv` |
| `TypeCorrect` : `[]TypeOK` (0) | `Workflow_proofs` | `RunInv` |
| `ResultsArePath` : `[]PathLegal` | `Workflow_proofs` | `RunInv` |
| `OkMeansEnded` : `[]OkHasEnded` | `Workflow_proofs` | `RunInv` |
| `UndoneByStale` : `OnlyStaleUndo` | `Workflow_proofs` | `RunInv` |
| `RetriesAreBounded` : `[]RetriesBounded` | `Workflow_proofs` | `RetryInv` |

(0) no run checks it: it only carries the other proofs of its module.

(*) under the hypothesis `DistinctIds`, that no two calls share an id.
`approval_ids` shows that it is needed: without it the theorem is false. Both values of `proxy` are
covered: where there is one, `OnlyApprovedCallsRun` says nothing and `LoopImplementsGate` that each guarded
call runs at most once.

(1) under the hypothesis `MaxRuns = 1`: with a second run, two workers may complete
one task (section 6), and both statements are false.

They hold for every value of the constants that satisfies the module's ASSUME
(positive thresholds, finite sets of calls, plans that are sequences of tasks
and have no task in common).

- **OrderInv.** `ContextComplete` alone is not inductive: `Dispatch` needs to know
  that what was ready at `Poll` is still unblocked, and that whatever is in the Vec
  has an artifact. `LoggedHasArtifact` says the latter: `MarkCompleted` does both
  under one lock. `SnapshotUnblocked` says the former: nothing leaves the Vec.
  It holds for any number of runs, detached workers included.
- **RunInv** (`Orchestrator_proofs`). Runs overlap and failed ones leave workers behind, so several
  workers may be on one task and write its status in any order. What stays true is `StatusExplained`:
  a status was written by a worker that is still where it wrote it (`Behind`), and nobody
  has begun on a task that is pending. `LoopInv(r)` describes the loop of `execute` in run r: what is `ready`
  has no worker of this run, and its workers that it does not await have returned Ok.
  `PlanInv(r)`: the tasks of a plan are absent until it is submitted, for plans draw fresh ids (an
  assumption), and none is pending when `synthesize` is reached. A task of the plan that is
  not in the report of an Ok is then running or failed; some worker explains that, and it is not
  the run's own, which ended well (`OkStep`).
  `OneFuturePerTask` follows as well, though statuses are read long before they are written: `Poll` saw what is ready pending, so no worker has begun on it, and a worker
  of this run that has not begun is one that it awaits before it polls again.
- **SingleInv** adds `MaxRuns = 1`, under which the place of a task's worker tells its status
  (`SinglePlace`). Then
  `MarkCompleted` finds its task Running, so the Vec grows exactly with the status;
  and `MarkRunning` finds it Pending with its dependencies in the Vec, which
  is the guard of `TaskGraph!Start`. Every other step that changes a status is a
  `Submit` or a `Finish`; the rest stutter.
- **MonitorInv** is `MonitorNeverStale` and `RunInv`, from which comes that `Dispatch` never
  replaces a worker that has not ended.
- **SearchInv.** While the search goes on, the ids in progress are the calls that have not
  returned, each made for a dependency of the call before (`PathInProgress`), so a back edge closes a cycle.
  Conversely a dependency that was searched is done unless it is the call that goes on
  (`Searched`), so a done task has only done dependencies (`DoneBelow`), and of tasks
  that wait for one another one is never done (`NoRingDone`): the first of them to be done would
  have had a dependency that was not. The cycle is found in the call stack, so no induction over paths is needed.
- **SpawnerInv.** Fan-out needs the calls in flight counted: `Headroom` bounds, for each
  parent, the children there are plus the calls that were promised a place.
  `PromiseKept` keeps what a call found at its check true until its insert.
- **BreakerInv** is types plus the two invariants, and is proved operation by
  operation, for any `pc` of any request: no overlap matters because the
  operations are total.
- **HistoryInv** adds to `HistoryLegal` that the clone each request holds has a
  legal, non-terminal history (`CopiesLegal`); that is why a stale write, which may
  undo a cancel, still leaves a history a task could have had. `OnlyStaleLose` compares
  each write with the stored task: a clone that equals it only extends it.
  `WorkHasHandler` needs the invariant for the places and targets of the requests only: Working is written
  where a handler starts, and that handler's own end replaces it or is recorded in `dropped`.
- **CircuitsSound** says that each entry is sound by itself, so that it does not
  matter which proxy an outcome is recorded for, or whether its id has been
  given to another one.

- **PlaceInv** (`AgentLoop_proofs`) adds to the types that a message before its calls has none left over and
  that a message inside a call is at one of them (`Placed`).
- **ChannelInv** says of the approval map: an entry is filed under its own call's id
  (`Own`), and what was sent to a receiver left the map (`SentOnce`). With
  `DistinctIds` the sender a clean-up or an answer removes is then the caller's own.
- **GateInv** adds that a yes in an inbox was meant for the call its receiver waits for
  (`YesMeant`), that a cleared guarded call was approved, or there is a proxy (`ClearedApproved`), and that what ran
  is behind the message (`RanBefore`), so that no call runs twice.
  `LoopImplementsGate` maps `Review` to `Approve`, `Execute` to `Run`, and all else to a stutter.
- **StoreInv** needs no ids: in a session without overlap at most one message is
  active, and its copy is what is stored (`OneAtATime`).
- **BudgetInv** counts: what was used is below the budget plus one response of each message
  that the budget ended (`spent`) and of each that has recorded and not yet looked (`recorded`).
  A message that looks while the sum is below the budget leaves `recorded`; one that does not enters `spent`.
  A budget of 0 behaves like one of 1, for the comparison comes after the response.
- **OnlyForward** needs no invariant but the places: the position of a message is compared
  component by component, and each action raises one and keeps those before it. With the limits of
  `turn` and `index` in `TypeOK` no message can go on for ever.
- **AnswerInv** ties the map of senders to the requests: an entry belongs to the request
  that holds its client and id (`Filed`), a request keeps its entry (`Kept`), a
  message whose id still has a sender was written by that sender (`Meant`), and what
  a waiting request wrote is still in the pipe of a living child (`Unread`). The id of a
  new request is fresh by counting: a pipe holds at most `Room` messages, so there
  is always one that nothing carries (`FreshIdExists`). New clients take a name that nothing holds;
  where there are too few `Clients`, no connection is made. `RoundsAdvance` needs it for one step: an answer
  can reach the manager only while it is in a request.
- **RunInv** says of the stored run and of every clone that it is in place (an index within
  the definition unless it has ended) and a legal path. A whole run that is
  written back, however stale, is then legal too: `PathLegal` does not depend on who
  overwrites whom. `OnlyStaleUndo` follows by comparing the clone with the stored run.

- **RetryInv** says of the stored run and of every clone that each retried step failed at most
  `max` times, or once more and the run has failed. The attempts are counted over all results
  (workflow.rs:428), so neither a loop of the workflow nor a stale write allows more. The results
  are a sequence, so the set of failures grows by one index at most (`FailuresGrow`).

Every safety property that a passing run checks is a theorem. Only model-checked is
liveness (`RunReturns`, `Recovers`, `CutsOff`, `WorkEnds`, `RoundRobinFinds`,
`MessagesEnd`, `CallsEnd`, `Heals`, `CallsReturn`), for the prover does neither fairness
nor ENABLED. For five of these the part that needs no fairness is proved:
`OnlyForward` (a message cannot go round in circles), `DispatchedOnce` (a run cannot
dispatch for ever), `RoundAdvances` (no server keeps the health loop from the others),
`WorkingIsHandled` (somebody is there to end the work) and
`OpenCanRecover` (an open circuit knows since when). What remains to TLC is that the steps
which are then possible are taken.

# 5. Findings

| Run | Where | What |
|---|---|---|
| `approval_ids` | runner.rs:1321, gemini.rs:267 | approvals are filed under ids that two messages may share: a guarded call runs on another call's approval |
| `mcp_tools` | manager.rs:223 | reconnection replaces the manager's client, not the one the registered tools call |

# 6. Other differences between the code and what it says of itself

The models do what the code does here, unless an entry says that something is left out; none has a run of its own.

Orchestrator and spawner:

- Overlapping runs share the queue (engine.rs:189 takes `&self`). One that sees nothing ready and nothing
  pending, because another has its last tasks in hand, leaves its loop and returns Ok without their artifacts
  (engine.rs:299-307); so it does if the other has failed them. `OkRunIsComplete` says that no more than that is missing.
- Nothing reserves a ready task: two runs, overlapping or one after a failure that detached the other's workers
  (engine.rs:337), may dispatch the same one; both workers complete it and
  `completed_count` counts it twice (task_queue.rs:118).
- A task added between the two reads of engine.rs:282-306 makes `execute` report a
  deadlock although a task is ready.
- The fan-out limit (spawner.rs:58-61) is exceeded when calls overlap (93), by as much as `FanOutOvershoot` says.
- A worker without a profile returns before it writes to queue or monitor
  (engine.rs:463): its task stays Running, which a later run counts neither as
  ready nor as pending. So does the task of a worker that panics, and its monitor entry.
- Two workers of one role share a monitor entry: the first that ends sets it to Idle.
- NeedsHumanReview does not pause a run, as ARCHITECTURE.md:87 says; dependents stay
  blocked and the run ends with a deadlock error.

Breaker, A2A server, proxies:

- A half-open breaker admits every request, not one (circuit_breaker.rs:30 and 43
  against 139); a cached answer counts as a success and may close the circuit of
  a provider that is down (runner.rs:800), which is why `CutsOff` excludes a cache.
- A canceled task becomes Completed or Failed when its handler returns (server.rs:587). One whose handler
  was dropped stays Working for ever (583).
- The outcome of a call is recorded under an id (proxy_orchestrator.rs:484): if the proxy was removed meanwhile it is
  lost, and if another has its id, or the proxy has a second one, it is counted there.
- `TaskHandler` is documented to receive a Submitted task (server.rs:69); it gets a Working one.
- `half_open_max_calls` (proxy_orchestrator.rs:88-90) is never read: after the cooldown a failing
  proxy gets any number of calls (364).
- Without rules a tool is routed to the group that is called `*`, not to all
  proxies (proxy_orchestrator.rs:331, 418-420 against 427); LeastLoaded compares
  total calls, not active ones (36).
- The half-open fallback of `route` (372-391) is reached only when a cooldown ends
  between its two looks at the clock: `RouteLate`.

Agent loop:

- The approval gate is skipped when an MCP proxy is configured (runner.rs:1297), and the
  orchestrator always configures one (engine.rs:520): a guarded call then runs with nobody asked (`Pass`).
- The token budget is called session-level (token_budget.rs:2) but is one counter per
  runner, shared by all sessions; that it is used up is returned as Ok with the text so far, not as the
  error that token_budget.rs:17 draws.
- `run_streaming` has no budget, provider breaker, cache, hooks or input guardrails.
- Overlapping messages of one session each save the whole session: the first one's
  turns are lost (router.rs:106-109).
- The skill `human_approval` (argentor-builtins/src/human_approval.rs:84-165) is itself a tool the model can call,
  unguarded, and asks through the same map under a task id that the model writes (by default
  "unknown"). The model leaves it out: its ids are outside `DistinctIds`, and the theorems with (*) do not
  speak of runs that use it.
- A handler that is dropped while it waits leaves its entry in the approval map; an answer
  sent to an id goes to whichever call waits under it then.
- The model's HTTP clients set no timeout: a silent provider holds a message for ever.

MCP connections:

- `status()` says `connected: true` whatever happened (manager.rs:263).
- Servers are kept by command (manager.rs:136): of two that are both started with `npx`,
  as in argentor.toml:133-140, the first is no longer checked or reconnected.
- The health check holds the write lock of all servers while it writes to a child, and
  writing has no timeout (manager.rs:178, client.rs:144-156): a child that stops
  reading stops health checks, reconnection and `status()` for ever.
- A caller that is dropped in the middle of a write leaves half a line, which makes the
  next request unreadable (client.rs:145); that one times out.
- A child that hangs is replaced but not killed (client.rs sets no `kill_on_drop`): it, and the reader task
  that waits for its output, stay until it ends by itself.
- Requests that time out stay in the map of pending requests (client.rs:159), and a
  reader task that ends drops no senders, so callers of a dead child wait out their 30 s.

Workflow engine:

- A paused run is advanced all the same (workflow.rs:345 lists terminal states only), and a
  pause or an end is undone by a call that had read the run before.
- The branch of a Condition step is taken even if the step's own condition skipped it.
- The built-in definitions have no step that jumps over an alternative: after the hot branch of
  lead_qualification comes the warm one (workflow.rs:820-830), after
  send_response of support_ticket comes assign_human (917-938).
- The gateway only starts runs (xcapitsff.rs:1195); nothing in it advances them.
  `timeout_seconds` and `TimedOut` are never used.

Message bus: a broadcast is drained by the first role that receives (message_bus.rs:205).

# 7. Plan

Done: queue, engine with its refinement of `TaskGraph`, monitor, spawner, cycle search, breaker, A2A server, proxy
orchestrator, agent loop with router, budget and approval, MCP connections,
workflow engine, with all their safety properties as theorems. Next, in this order:

- In the proofs: that a call of `advance` or `run_to_completion`, and a run of the orchestrator, go forward
  step by step as well, as `OnlyForward` and `RoundAdvances` say of messages and health checks.
- In the models:

1. `TokenPool`: selection against quota and window without reservation; index and map.
2. `GracefulShutdown`: phases, hooks, timeouts, a second caller.
3. `MessageBus`, handoff and budget; quotas per tenant; the fallbacks of `failover.rs`.

# 8. Not modelled

Session, memory and vector stores, skills, built-in tools, channels, compliance
reports, the cloud runtime's tables, the CLI, the Python bindings and the enclave
code do I/O, formatting or lookups one call at a time. Guardrails, compaction,
planning and review are functions on text. Rate limiters use floating point. The
gateway routes HTTP and WebSocket messages to the components above. `PROJECT.json`
gives the reason for each. The tool `human_approval`, called by the model on its own
account, is left out of `AgentLoop` (section 6).
