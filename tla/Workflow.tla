------------------------------ MODULE Workflow ------------------------------
(***************************************************************************)
(* WorkflowEngine: one run of a workflow, the callers that advance it, one *)
(* step (advance) or to its end (run_to_completion), and an operator who   *)
(* pauses and resumes it.  advance() clones the run under a read lock and  *)
(* later puts the whole clone back under a write lock.                     *)
(*                                                                         *)
(* What an expression evaluates to is left open.  So is whether a step     *)
(* fails: execute_step() stands in for a dispatch and never fails as it is,*)
(* but advance() handles failures.                                         *)
(***************************************************************************)
EXTENDS Integers, Sequences, FiniteSets

CONSTANTS
  Workflows,    \* the definitions that may be registered
  Loops,        \* the callers of run_to_completion()
  Singles,      \* the callers of advance()
  MaxIterations,
  MaxResults    \* bound on step_results, above what the callers can reach

Callers == Loops \cup Singles

\* A place in the definition; 0 stands for an id that is not found.
Position == Nat

Step == [type : {"task", "branch"}, ifTrue : Position, ifFalse : Position,
         condition : {"always", "ifPreviousSucceeded", "expression"},
         onFailure : {"abort", "skip", "retry", "goto"}, max : Nat, target : Position]

ASSUME WorkflowAssumption ==
  /\ \A w \in Workflows :
       /\ w \in Seq(Step) /\ w # <<>>
       /\ \A i \in DOMAIN w : {w[i].ifTrue, w[i].ifFalse, w[i].target} \subseteq 0..Len(w)
  /\ Loops \cap Singles = {}
  /\ MaxIterations \in Nat /\ MaxResults \in Nat

VARIABLES
  workflow,    \* the definition of the run
  run,         \* runs[run_id]
  at,          \* where each caller is suspended
  copy,        \* its clone of the run
  iterations,
  outcome,     \* the status in the run that run_to_completion returned
  revived      \* a run that had ended was overwritten by one that had not

vars == <<workflow, run, at, copy, iterations, outcome, revived>>

Terminal == {"Completed", "Failed"}  \* nothing sets TimedOut
Status   == {"Pending", "Running", "Paused"} \cup Terminal
Result   == [step : Nat \ {0}, status : {"Completed", "Failed", "Skipped"}]
Run      == [status : Status, index : Nat \ {0}, results : Seq(Result)]

TypeOK ==
  /\ workflow \in Workflows
  /\ run \in Run
  /\ at \in [Callers -> {"call", "read", "write", "get", "end"}]
  /\ copy \in [Callers -> Run]
  /\ iterations \in [Callers -> 0..MaxIterations + 1]
  /\ outcome \in [Callers -> Status \cup {"none", "error"}]
  /\ revived \in BOOLEAN

Goto(c, from, to) == at[c] = from /\ at' = [at EXCEPT ![c] = to]

\* start()
NewRun == [status |-> "Pending", index |-> 1, results |-> <<>>]

Init ==
  /\ workflow \in Workflows
  /\ run = NewRun
  /\ at = [c \in Callers |-> "call"]
  /\ copy = [c \in Callers |-> NewRun]
  /\ iterations = [c \in Callers |-> 0]
  /\ outcome = [c \in Callers |-> "none"]
  /\ revived = FALSE

-----------------------------------------------------------------------------
(* The outcome of a step, as functions of the clone *)

Failures(r) ==
  Cardinality({n \in DOMAIN r.results : r.results[n] = [step |-> r.index, status |-> "Failed"]})

\* evaluate_condition()
May(r, condition) ==
  CASE condition = "always" -> {TRUE}
    [] condition = "ifPreviousSucceeded" ->
         {r.results = <<>> \/ r.results[Len(r.results)].status = "Completed"}
    [] condition = "expression" -> BOOLEAN

\* execute_step(), or a skipped step
Outcomes(r) ==
  UNION {IF b THEN {"Completed", "Failed"} ELSE {"Skipped"} :
           b \in May(r, workflow[r.index].condition)}

\* The branch is taken even if the step was skipped or failed.
NextIndex(r, status, holds) ==
  LET s == workflow[r.index]
      branch == IF holds THEN s.ifTrue ELSE s.ifFalse
  IN  CASE status = "Failed" /\ s.onFailure = "goto" /\ s.target # 0 -> s.target
        [] s.type = "branch" /\ branch # 0 -> branch
        [] OTHER -> r.index + 1

\* Slip: one attempt too many.
Retry_OneMore(r) == Failures(r) <= workflow[r.index].max

Retry(r) == Failures(r) < workflow[r.index].max

\* Slip: whatever is advanced is running.
Begun_Always(r) == "Running"

Begun(r) == IF r.status = "Pending" THEN "Running" ELSE r.status

\* The run that advance() puts back after the step.
Advanced(r, status, holds) ==
  LET s == workflow[r.index]
      next == NextIndex(r, status, holds)
      results == Append(r.results, [step |-> r.index, status |-> status])
      Stay(st) == [status |-> st, index |-> r.index, results |-> results]
  IN  CASE status = "Failed" /\ s.onFailure = "abort" -> Stay("Failed")
        [] status = "Failed" /\ s.onFailure = "retry" ->
             Stay(IF Retry(r) THEN Begun(r) ELSE "Failed")
        [] OTHER -> [status |-> IF next > Len(workflow) THEN "Completed" ELSE Begun(r),
                     index |-> next, results |-> results]

-----------------------------------------------------------------------------
(* advance() *)

\* Slip: a paused run is not advanced, as if it had ended.
Read_Paused(c) ==
  /\ at[c] \in {"call", "read"}
  /\ at' = [at EXCEPT ![c] = IF run.status \notin Terminal \cup {"Paused"} THEN "write"
                             ELSE IF c \in Loops THEN "get" ELSE "end"]
  /\ copy' = [copy EXCEPT ![c] = run]
  /\ UNCHANGED <<workflow, run, iterations, outcome, revived>>

\* The run is cloned; Ok(false) if it has ended.  A paused run has not.
Read(c) ==
  /\ at[c] \in {"call", "read"}
  /\ at' = [at EXCEPT ![c] = IF run.status \notin Terminal THEN "write"
                             ELSE IF c \in Loops THEN "get" ELSE "end"]
  /\ copy' = [copy EXCEPT ![c] = run]
  /\ UNCHANGED <<workflow, run, iterations, outcome, revived>>

\* Slip: the result is added to the run that is stored by now.
Store_Merged(c, r) ==
  /\ run' = [r EXCEPT !.results = IF r.results = <<>> THEN run.results
                                  ELSE Append(run.results, r.results[Len(r.results)])]
  /\ revived' = (revived \/ (run.status \in Terminal /\ r.status \notin Terminal))

Store(c, r) ==
  /\ run' = r
  /\ revived' = (revived \/ (run.status \in Terminal /\ r.status \notin Terminal))

\* Slip: the safety limit does not count.
Again_Forever(c) ==
  /\ at' = [at EXCEPT ![c] = IF c \in Loops THEN "read" ELSE "end"]
  /\ UNCHANGED <<iterations, outcome>>

\* advance() returned true: run_to_completion calls it again, up to its limit.
Again(c) ==
  /\ iterations' = [iterations EXCEPT ![c] = @ + 1]
  /\ IF c \in Loops /\ iterations[c] < MaxIterations
       THEN at' = [at EXCEPT ![c] = "read"] /\ UNCHANGED outcome
       ELSE /\ at' = [at EXCEPT ![c] = "end"]
            /\ outcome' = IF c \in Loops THEN [outcome EXCEPT ![c] = "error"] ELSE outcome

Write(c) ==
  /\ at[c] = "write" /\ Len(run.results) < MaxResults
  /\ \E status \in Outcomes(copy[c]), holds \in BOOLEAN :
       Store(c, Advanced(copy[c], status, holds))
  /\ Again(c)
  /\ UNCHANGED <<workflow, copy>>

\* run_to_completion(): get_run(), whatever is stored by now.
GetRun(c) ==
  /\ Goto(c, "get", "end")
  /\ outcome' = [outcome EXCEPT ![c] = run.status]
  /\ UNCHANGED <<workflow, run, copy, iterations, revived>>

(* The operator *)

Pause ==
  /\ run.status = "Running"
  /\ run' = [run EXCEPT !.status = "Paused"]
  /\ UNCHANGED <<workflow, at, copy, iterations, outcome, revived>>

Resume ==
  /\ run.status = "Paused"
  /\ run' = [run EXCEPT !.status = "Running"]
  /\ UNCHANGED <<workflow, at, copy, iterations, outcome, revived>>

-----------------------------------------------------------------------------
Call(c) == Read(c) \/ Write(c) \/ GetRun(c)

Next == Pause \/ Resume \/ \E c \in Callers : Call(c)

Spec == Init /\ [][Next]_vars

\* Each call is polled on.
FairSpec == Spec /\ \A c \in Callers : WF_vars(Call(c))

-----------------------------------------------------------------------------
(* Properties *)

\* What may come after a result, by the definition alone.
Successors(res) ==
  LET s == workflow[res.step]
  IN  {res.step + 1}
        \cup (IF s.type = "branch" THEN {s.ifTrue, s.ifFalse} ELSE {})
        \cup (IF res.status # "Failed" THEN {}
              ELSE CASE s.onFailure = "goto"  -> {s.target}
                     [] s.onFailure = "retry" -> {res.step}
                     [] OTHER -> {})

\* The results of r are a path from the first step to the next one.
Legal(r) ==
  LET path == r.results
  IN  /\ path # <<>> => path[1].step = 1
      /\ \A n \in DOMAIN path : n < Len(path) => path[n + 1].step \in Successors(path[n])
      /\ path # <<>> /\ r.status # "Failed" => r.index \in Successors(path[Len(path)])

(***************************************************************************)
(* The results of a run are a path through its definition, from the first  *)
(* step to the one that is next, whichever calls overlapped: a run that is *)
(* put back as a whole loses results but never mixes two histories.        *)
(***************************************************************************)
PathLegal == Legal(run)

(***************************************************************************)
(* "Retry the step up to max times": a step fails at most max times and    *)
(* once more, and then the run has failed; however often a loop of the     *)
(* workflow comes back to it.                                              *)
(***************************************************************************)
RetriesBounded ==
  \A i \in DOMAIN workflow :
    LET failed == {n \in DOMAIN run.results : run.results[n] = [step |-> i, status |-> "Failed"]}
    IN  workflow[i].onFailure = "retry" =>
          /\ Cardinality(failed) <= workflow[i].max + 1
          /\ Cardinality(failed) = workflow[i].max + 1 => run.status = "Failed"

(***************************************************************************)
(* A pause lasts until it is resumed or the run ends, and an end is final, *)
(* unless a call that had read the run before writes it back.              *)
(***************************************************************************)
Undone ==
  \/ run.status = "Paused" /\ run'.status = "Running" /\ run'.results # run.results
  \/ run.status \in Terminal /\ run' # run
OnlyStaleUndo ==
  [][Undone => \E c \in Callers : at[c] = "write" /\ at'[c] # "write" /\ copy[c] # run]_vars

(***************************************************************************)
(* When run_to_completion() returns Ok, the run it returns has ended,      *)
(* unless a stale write revived the run.                                   *)
(***************************************************************************)
OkHasEnded ==
  revived \/ \A c \in Callers : outcome[c] \in Terminal \cup {"none", "error"}

(***************************************************************************)
(* Every call returns, whatever loops the workflow has (workflow.rs:       *)
(* "internal safety limit").                                               *)
(***************************************************************************)
CallsReturn == \A c \in Callers : <>(at[c] = "end")
=============================================================================
