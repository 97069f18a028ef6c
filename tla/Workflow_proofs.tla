--------------------------- MODULE Workflow_proofs ---------------------------
(***************************************************************************)
(* Theorems about Workflow, for any definitions, callers and limits.       *)
(***************************************************************************)
EXTENDS Workflow, SequenceTheorems, FiniteSetTheorems, TLAPS

\* A run that may go on is at a step of its definition, and a run that has
\* no result yet is at the first one.
InPlace(r) == /\ r.status \notin Terminal => r.index \in 1..Len(workflow)
              /\ r.results = <<>> => r.index = 1

\* What holds of a stored run holds of every clone.
Good(r) == r \in Run /\ InPlace(r) /\ Legal(r)

\* A clone that is being advanced had not ended, and the loop is within its limit.
Suspension ==
  \A c \in Callers : /\ at[c] = "write" => copy[c].status \notin Terminal
                     /\ at[c] # "end" => iterations[c] <= MaxIterations
                     /\ at[c] = "get" => revived \/ run.status \in Terminal

RunInv ==
  TypeOK /\ Good(run) /\ (\A c \in Callers : Good(copy[c])) /\ Suspension /\ OkHasEnded

-----------------------------------------------------------------------------
LEMMA Steps ==
  ASSUME TypeOK, NEW i \in 1..Len(workflow)
  PROVE  /\ workflow[i] \in Step
         /\ {workflow[i].ifTrue, workflow[i].ifFalse, workflow[i].target} \subseteq 0..Len(workflow)
  BY WorkflowAssumption DEF TypeOK

LEMMA Fresh == ASSUME TypeOK PROVE Good(NewRun)
<1>1. Len(workflow) \in Nat \ {0}
  BY WorkflowAssumption DEF TypeOK
<1>2. NewRun \in Run
  BY DEF NewRun, Run, Status
<1> QED BY <1>1, <1>2 DEF Good, InPlace, Legal, NewRun

\* The step that is next is one the definition allows after this result.
LEMMA NextAllowed ==
  ASSUME TypeOK, NEW r \in Run, r.index \in 1..Len(workflow),
         NEW status \in {"Completed", "Failed", "Skipped"}, NEW holds \in BOOLEAN
  PROVE  /\ NextIndex(r, status, holds) \in Nat \ {0}
         /\ NextIndex(r, status, holds) \in Successors([step |-> r.index, status |-> status])
<1>1. workflow[r.index] \in Step
  BY Steps
<1> QED BY <1>1 DEF NextIndex, Successors, Step, Position

\* Appending a result that the path allows.
LEMMA PathGrows ==
  ASSUME NEW r, Good(r), r.status \notin Terminal, NEW res \in Result, res.step = r.index,
         NEW q, q.results = Append(r.results, res),
         q.status # "Failed" => q.index \in Successors(res)
  PROVE  Legal(q)
<1> DEFINE old == r.results
           new == q.results
<1>1. old \in Seq(Result) /\ Len(old) \in Nat /\ DOMAIN old = 1..Len(old)
  BY DEF Good, Run
<1>2. /\ Len(new) = Len(old) + 1 /\ new[Len(old) + 1] = res
      /\ \A n \in 1..Len(old) : new[n] = old[n]
      /\ DOMAIN new = 1..Len(old) + 1
  BY <1>1
<1>3. new[1].step = 1
  <2>1. CASE old = <<>>
    BY <1>2, <2>1 DEF Good, InPlace
  <2>2. CASE old # <<>>
    BY <1>1, <1>2, <2>2 DEF Good, Legal
  <2> QED BY <2>1, <2>2
<1>4. \A n \in DOMAIN new : n < Len(new) => new[n + 1].step \in Successors(new[n])
  <2> SUFFICES ASSUME NEW n \in 1..Len(old) PROVE new[n + 1].step \in Successors(new[n])
    BY <1>1, <1>2
  <2>1. CASE n < Len(old)
    BY <1>1, <1>2, <2>1 DEF Good, Legal
  <2>2. CASE n = Len(old)
    BY <1>1, <1>2, <2>2 DEF Good, Legal, Terminal
  <2> QED BY <1>1, <2>1, <2>2
<1> QED BY <1>1, <1>2, <1>3, <1>4 DEF Legal

\* advance() keeps a run that may go on in order.
LEMMA AdvanceGood ==
  ASSUME TypeOK, NEW r, Good(r), r.status \notin Terminal,
         NEW status \in {"Completed", "Failed", "Skipped"}, NEW holds \in BOOLEAN
  PROVE  /\ Good(Advanced(r, status, holds))
         /\ Advanced(r, status, holds).status \in Terminal \cup {Begun(r)}
<1> DEFINE res == [step |-> r.index, status |-> status]
           q == Advanced(r, status, holds)
           next == NextIndex(r, status, holds)
<1>1. r \in Run /\ r.index \in 1..Len(workflow) /\ r.index \in Nat \ {0} /\ res \in Result
  BY DEF Good, InPlace, Result, Run
<1>2. next \in Nat \ {0} /\ next \in Successors(res)
  BY <1>1, NextAllowed
<1>3. Begun(r) \in Status \ Terminal
  BY <1>1 DEF Begun, Status, Terminal, Run
<1>4. Append(r.results, res) \in Seq(Result) /\ Append(r.results, res) # <<>>
  BY <1>1 DEF Run
<1>5. workflow[r.index] \in Step /\ Len(workflow) \in Nat
  BY <1>1, Steps, WorkflowAssumption DEF TypeOK
<1> HIDE DEF next
<1>6. /\ q.results = Append(r.results, res)
      /\ \/ q = [status |-> "Failed", index |-> r.index, results |-> q.results]
         \/ /\ q = [status |-> Begun(r), index |-> r.index, results |-> q.results]
            /\ workflow[r.index].onFailure = "retry" /\ status = "Failed"
         \/ q = [status |-> IF next > Len(workflow) THEN "Completed" ELSE Begun(r),
                 index |-> next, results |-> q.results]
  BY DEF Advanced, next
<1>7. q \in Run
  <2>1. ASSUME NEW st \in Status, NEW i \in Nat \ {0}, NEW rs \in Seq(Result)
        PROVE  [status |-> st, index |-> i, results |-> rs] \in Run
    BY DEF Run
  <2>2. q.results \in Seq(Result) /\ {"Failed", "Completed"} \subseteq Status
    BY <1>4, <1>6 DEF Status, Terminal
  <2> HIDE DEF q
  <2> QED BY <1>1, <1>2, <1>3, <1>6, <2>1, <2>2
<1>8. InPlace(q)
  BY <1>1, <1>2, <1>3, <1>4, <1>5, <1>6 DEF InPlace, Terminal
<1>9. q.status # "Failed" => q.index \in Successors(res)
  BY <1>2, <1>6 DEF Successors
<1>10. Legal(q)
  BY <1>1, <1>6, <1>9, PathGrows
<1>11. q.status \in Terminal \cup {Begun(r)}
  BY <1>6 DEF Terminal
<1> QED BY <1>7, <1>8, <1>10, <1>11 DEF Good

-----------------------------------------------------------------------------
LEMMA RunInit == Init => RunInv
<1> SUFFICES ASSUME Init PROVE RunInv
  OBVIOUS
<1>1. NewRun \in Run
  BY DEF NewRun, Run, Status
<1>2. TypeOK
  <2>1. /\ workflow \in Workflows /\ run \in Run /\ copy \in [Callers -> Run]
        /\ revived \in BOOLEAN
    BY <1>1 DEF Init
  <2>2. 0 \in 0..MaxIterations + 1
    BY WorkflowAssumption
  <2> QED BY <2>1, <2>2 DEF Init, TypeOK
<1> QED BY <1>2, Fresh, WorkflowAssumption DEF Init, RunInv, Suspension, OkHasEnded

\* advance() writes back what it made of its clone.
LEMMA WriteStep ==
  ASSUME RunInv, NEW c \in Callers, Write(c)
  PROVE  /\ Good(run') /\ run'.status \in Terminal \cup {Begun(copy[c])}
         /\ revived' = (revived \/ (run.status \in Terminal /\ run'.status \notin Terminal))
<1>1. Good(copy[c]) /\ copy[c].status \notin Terminal /\ TypeOK
  BY DEF RunInv, Suspension, Write
<1>2. PICK status \in Outcomes(copy[c]), holds \in BOOLEAN :
        Store(c, Advanced(copy[c], status, holds))
  BY DEF Write
<1>3. status \in {"Completed", "Failed", "Skipped"}
  BY <1>2 DEF Outcomes
<1>4. run' = Advanced(copy[c], status, holds)
  BY <1>2 DEF Store
<1>5. Good(Advanced(copy[c], status, holds))
      /\ Advanced(copy[c], status, holds).status \in Terminal \cup {Begun(copy[c])}
  BY <1>1, <1>3, AdvanceGood
<1>6. UNCHANGED workflow
  BY DEF Write
<1>7. Good(run')
  BY <1>4, <1>5, <1>6
<1> QED BY <1>2, <1>4, <1>5, <1>7 DEF Store

LEMMA RunStep == RunInv /\ [Next]_vars => RunInv'
<1> SUFFICES ASSUME RunInv, [Next]_vars PROVE RunInv'
  OBVIOUS
<1>0. TypeOK /\ MaxIterations \in Nat
  BY WorkflowAssumption DEF RunInv
<1>g. ASSUME UNCHANGED workflow
      PROVE  /\ Good(run') => Good(run)'
             /\ \A c \in Callers : Good(copy'[c]) => Good(copy[c])'
  <2>1. Good(run') => Good(run)'
    <3>1. run' \in Run /\ InPlace(run') => (run' \in Run /\ InPlace(run)')
      BY <1>g DEF InPlace
    <3>2. Legal(run') => Legal(run)'
      BY <1>g DEF Legal, Successors
    <3> QED BY <3>1, <3>2 DEF Good, Run, Result
  <2>2. ASSUME NEW c \in Callers PROVE Good(copy'[c]) => Good(copy[c])'
    <3>1. InPlace(copy'[c]) => InPlace(copy[c])'
      BY <1>g DEF InPlace
    <3>2. Legal(copy'[c]) => Legal(copy[c])'
      BY <1>g DEF Legal, Successors
    <3> QED BY <3>1, <3>2 DEF Good
  <2> QED BY <2>1, <2>2
<1>1. ASSUME NEW c \in Callers, Read(c) PROVE RunInv'
  <2>1. /\ copy' = [copy EXCEPT ![c] = run] /\ UNCHANGED <<workflow, run, iterations, outcome, revived>>
        /\ at[c] \in {"call", "read"}
        /\ \/ at' = [at EXCEPT ![c] = "write"] /\ run.status \notin Terminal
           \/ at' = [at EXCEPT ![c] = "get"] /\ run.status \in Terminal
           \/ at' = [at EXCEPT ![c] = "end"]
    BY <1>1 DEF Read
  <2>2. TypeOK'
    BY <1>0, <2>1 DEF TypeOK
  <2>3. Good(run)' /\ \A d \in Callers : Good(copy[d])'
    BY <1>0, <1>g, <2>1 DEF TypeOK, RunInv
  <2>4. Suspension' /\ OkHasEnded'
    BY <1>0, <2>1 DEF RunInv, Suspension, OkHasEnded, TypeOK
  <2> QED BY <2>2, <2>3, <2>4 DEF RunInv
<1>2. ASSUME NEW c \in Callers, Write(c) PROVE RunInv'
  <2>1. /\ at[c] = "write" /\ UNCHANGED <<workflow, copy>>
        /\ iterations' = [iterations EXCEPT ![c] = @ + 1] /\ iterations[c] \in 0..MaxIterations
        /\ \/ /\ at' = [at EXCEPT ![c] = "read"] /\ UNCHANGED outcome
              /\ iterations[c] < MaxIterations
           \/ /\ at' = [at EXCEPT ![c] = "end"]
              /\ outcome' \in {outcome, [outcome EXCEPT ![c] = "error"]}
    BY <1>0, <1>2 DEF Write, Again, RunInv, Suspension, TypeOK
  <2>2. Good(run')
        /\ revived' = (revived \/ (run.status \in Terminal /\ run'.status \notin Terminal))
    BY <1>2, WriteStep
  <2>3. TypeOK'
    BY <1>0, <2>1, <2>2 DEF TypeOK, Good
  <2>4. Good(run)' /\ \A d \in Callers : Good(copy[d])'
    BY <1>g, <2>1, <2>2 DEF RunInv
  <2>5. Suspension'
    <3>1. \A d \in Callers \ {c} : at'[d] = at[d] /\ iterations'[d] = iterations[d]
      BY <1>0, <2>1 DEF TypeOK
    <3>2. /\ at'[c] \in {"read", "end"}
          /\ at'[c] # "end" => iterations'[c] = iterations[c] + 1 /\ iterations[c] < MaxIterations
      BY <1>0, <2>1 DEF TypeOK
    <3>3. run.status \in Terminal => revived' \/ run'.status \in Terminal
      BY <2>2
    <3>4. \A d \in Callers : at'[d] # "end" => iterations'[d] <= MaxIterations
      BY <1>0, <2>1, <3>1, <3>2 DEF RunInv, Suspension
    <3>5. \A d \in Callers : at'[d] = "write" => copy'[d].status \notin Terminal
      BY <2>1, <3>1, <3>2 DEF RunInv, Suspension
    <3>6. \A d \in Callers : at'[d] = "get" => revived' \/ run'.status \in Terminal
      BY <2>2, <3>1, <3>2, <3>3 DEF RunInv, Suspension
    <3> QED BY <3>4, <3>5, <3>6 DEF Suspension
  <2>6. OkHasEnded'
    BY <1>0, <2>1, <2>2 DEF RunInv, OkHasEnded, TypeOK
  <2> QED BY <2>3, <2>4, <2>5, <2>6 DEF RunInv
<1>3. ASSUME NEW c \in Callers, GetRun(c) PROVE RunInv'
  <2>1. /\ at[c] = "get" /\ at' = [at EXCEPT ![c] = "end"]
        /\ outcome' = [outcome EXCEPT ![c] = run.status]
        /\ UNCHANGED <<workflow, run, copy, iterations, revived>>
    BY <1>3 DEF GetRun, Goto
  <2>2. TypeOK'
    BY <1>0, <2>1 DEF TypeOK, Run
  <2>3. Suspension' /\ OkHasEnded'
    BY <1>0, <2>1 DEF RunInv, Suspension, OkHasEnded, TypeOK
  <2> QED BY <1>g, <2>1, <2>2, <2>3 DEF RunInv
<1>4. CASE Pause \/ Resume
  <2>1. /\ UNCHANGED <<workflow, at, copy, iterations, outcome, revived>>
        /\ \E st \in {"Running", "Paused"} : run' = [run EXCEPT !.status = st]
        /\ run.status \in {"Running", "Paused"}
    BY <1>4 DEF Pause, Resume
  <2>2. run' \in Run /\ run'.index = run.index /\ run'.results = run.results
        /\ run'.status \in {"Running", "Paused"}
    BY <1>0, <2>1 DEF TypeOK, Run, Status
  <2>3. Good(run')
    BY <2>1, <2>2 DEF RunInv, Good, InPlace, Legal, Terminal
  <2>4. TypeOK'
    BY <1>0, <2>1, <2>2 DEF TypeOK
  <2>5. Suspension' /\ OkHasEnded'
    BY <2>1 DEF RunInv, Suspension, OkHasEnded, Terminal
  <2> QED BY <1>g, <2>1, <2>3, <2>4, <2>5 DEF RunInv
<1>5. CASE UNCHANGED vars
  BY <1>5, <1>g DEF vars, RunInv, TypeOK, Suspension, OkHasEnded
<1> QED BY <1>1, <1>2, <1>3, <1>4, <1>5 DEF Next, Call

-----------------------------------------------------------------------------
(* Every variable keeps its type; a loop stops within its limit. *)
THEOREM TypeCorrect == Spec => []TypeOK
<1>1. RunInv => TypeOK
  BY DEF RunInv
<1> QED BY <1>1, RunInit, RunStep, PTL DEF Spec

(***************************************************************************)
(* The results of a run are a path through its definition, whichever calls *)
(* overlap and whatever the operator does.                                 *)
(***************************************************************************)
THEOREM ResultsArePath == Spec => []PathLegal
<1>1. RunInv => PathLegal
  BY DEF RunInv, Good, PathLegal
<1> QED BY <1>1, RunInit, RunStep, PTL DEF Spec

(***************************************************************************)
(* run_to_completion() returns Ok only with a run that has ended, unless a *)
(* stale write revived it.                                                 *)
(***************************************************************************)
THEOREM OkMeansEnded == Spec => []OkHasEnded
<1>1. RunInv => OkHasEnded
  BY DEF RunInv
<1> QED BY <1>1, RunInit, RunStep, PTL DEF Spec

(***************************************************************************)
(* Only a call that had read the run before undoes a pause or an end.      *)
(***************************************************************************)
THEOREM UndoneByStale == Spec => OnlyStaleUndo
<1> DEFINE Stale == Undone => \E c \in Callers : at[c] = "write" /\ at'[c] # "write" /\ copy[c] # run
<1>1. RunInv /\ [Next]_vars => [Stale]_vars
  <2> SUFFICES ASSUME RunInv, Next, Undone
               PROVE  \E c \in Callers : at[c] = "write" /\ at'[c] # "write" /\ copy[c] # run
    OBVIOUS
  <2>0. run \in Run /\ TypeOK
    BY DEF RunInv, TypeOK
  <2>1. \E c \in Callers : Write(c)
    <3>1. ~Pause
      BY DEF Pause, Undone, Terminal
    <3>2. ~Resume
      BY <2>0 DEF Resume, Undone, Terminal, Run
    <3>3. \A c \in Callers : ~Read(c) /\ ~GetRun(c)
      BY DEF Read, GetRun, Undone
    <3> QED BY <3>1, <3>2, <3>3 DEF Next, Call
  <2>2. PICK c \in Callers : Write(c)
    BY <2>1
  <2>3. at[c] = "write" /\ at'[c] # "write"
    BY <2>0, <2>2 DEF Write, Again, TypeOK
  <2>4. copy[c].status \notin Terminal /\ run'.status \in Terminal \cup {Begun(copy[c])}
    BY <2>2, <2>3, WriteStep DEF RunInv, Suspension
  <2>5. copy[c] # run
    BY <2>4 DEF Undone, Begun, Terminal
  <2> QED BY <2>3, <2>5
<1>2. Spec => [][Stale]_vars
  BY <1>1, RunInit, RunStep, PTL DEF Spec
<1> QED BY <1>2 DEF OnlyStaleUndo

-----------------------------------------------------------------------------
(***************************************************************************)
(* Retries.  advance() counts the failures of a step in its clone, so the  *)
(* bound must hold of every clone; and a run that may go on has not used   *)
(* up its attempts, which is what makes room for one more failure.         *)
(***************************************************************************)
FailedAt(r, i) == {n \in DOMAIN r.results : r.results[n] = [step |-> i, status |-> "Failed"]}

WithinMax(r) ==
  \A i \in DOMAIN workflow : workflow[i].onFailure = "retry" =>
    /\ Cardinality(FailedAt(r, i)) <= workflow[i].max + 1
    /\ Cardinality(FailedAt(r, i)) = workflow[i].max + 1 => r.status = "Failed"

RetryInv == RunInv /\ WithinMax(run) /\ \A c \in Callers : WithinMax(copy[c])

LEMMA FailuresFinite ==
  ASSUME NEW r \in Run, NEW i
  PROVE  IsFiniteSet(FailedAt(r, i)) /\ Cardinality(FailedAt(r, i)) \in Nat
<1>1. Len(r.results) \in Nat /\ DOMAIN r.results = 1..Len(r.results)
  BY DEF Run
<1>2. IsFiniteSet(1..Len(r.results))
  BY <1>1, FS_Interval
<1>3. FailedAt(r, i) \in SUBSET (1..Len(r.results))
  BY <1>1 DEF FailedAt
<1>4. IsFiniteSet(FailedAt(r, i))
  BY <1>2, <1>3, FS_Subset
<1> QED BY <1>4, FS_CardinalityType

\* One more result is one more failure of its own step, if it is one.
LEMMA FailuresGrow ==
  ASSUME NEW r \in Run, NEW res \in Result, NEW q, q.results = Append(r.results, res), NEW i
  PROVE  Cardinality(FailedAt(q, i)) =
           Cardinality(FailedAt(r, i)) + (IF res = [step |-> i, status |-> "Failed"] THEN 1 ELSE 0)
<1> DEFINE n == Len(r.results) + 1
           F == [step |-> i, status |-> "Failed"]
<1>1. /\ r.results \in Seq(Result) /\ Len(r.results) \in Nat
      /\ DOMAIN r.results = 1..Len(r.results)
  BY DEF Run
<1>2. /\ DOMAIN q.results = (DOMAIN r.results) \cup {n} /\ n \notin DOMAIN r.results
      /\ q.results[n] = res
      /\ \A m \in DOMAIN r.results : q.results[m] = r.results[m]
  BY <1>1
<1>3. n \notin FailedAt(r, i) /\ IsFiniteSet(FailedAt(r, i)) /\ Cardinality(FailedAt(r, i)) \in Nat
  BY <1>2, FailuresFinite DEF FailedAt
<1> HIDE DEF n, F
<1>4. CASE res = F
  <2>1. FailedAt(q, i) = FailedAt(r, i) \cup {n}
    BY <1>2, <1>4 DEF FailedAt, F
  <2> QED BY <1>3, <1>4, <2>1, FS_AddElement DEF F
<1>5. CASE res # F
  <2>1. FailedAt(q, i) = FailedAt(r, i)
    BY <1>2, <1>5 DEF FailedAt, F
  <2> QED BY <1>3, <1>5, <2>1 DEF F
<1> QED BY <1>4, <1>5

LEMMA MaxIsNat == ASSUME TypeOK, NEW i \in DOMAIN workflow PROVE workflow[i].max \in Nat
<1>1. DOMAIN workflow = 1..Len(workflow)
  BY WorkflowAssumption DEF TypeOK
<1>2. workflow[i] \in Step
  BY <1>1, Steps
<1> QED BY <1>2 DEF Step

\* advance() never lets a step fail once more after its last attempt.
LEMMA AdvanceWithinMax ==
  ASSUME TypeOK, NEW r, Good(r), r.status \notin Terminal, WithinMax(r),
         NEW status \in {"Completed", "Failed", "Skipped"}, NEW holds \in BOOLEAN
  PROVE  WithinMax(Advanced(r, status, holds))
<1> DEFINE res == [step |-> r.index, status |-> status]
           q == Advanced(r, status, holds)
<1>1. r \in Run /\ r.index \in 1..Len(workflow) /\ res \in Result
  BY DEF Good, InPlace, Result, Run
<1>2. q.results = Append(r.results, res)
  BY DEF Advanced
<1>3. status = "Failed" /\ workflow[r.index].onFailure = "retry" /\ ~Retry(r) => q.status = "Failed"
  BY DEF Advanced
<1> SUFFICES ASSUME NEW i \in DOMAIN workflow, workflow[i].onFailure = "retry"
             PROVE  /\ Cardinality(FailedAt(q, i)) <= workflow[i].max + 1
                    /\ Cardinality(FailedAt(q, i)) = workflow[i].max + 1 => q.status = "Failed"
  BY DEF WithinMax
<1> HIDE DEF q
<1>4. workflow[i].max \in Nat
  BY MaxIsNat
<1>5. Cardinality(FailedAt(r, i)) \in Nat /\ Cardinality(FailedAt(r, i)) <= workflow[i].max
  BY <1>1, <1>4, FailuresFinite DEF WithinMax, Terminal
<1>6. Cardinality(FailedAt(q, i)) =
        Cardinality(FailedAt(r, i)) + (IF res = [step |-> i, status |-> "Failed"] THEN 1 ELSE 0)
  BY <1>1, <1>2, FailuresGrow
<1>7. CASE res = [step |-> i, status |-> "Failed"]
  <2>1. i = r.index /\ status = "Failed" /\ Failures(r) = Cardinality(FailedAt(r, i))
    BY <1>7 DEF Failures, FailedAt
  <2>2. Retry(r) <=> Cardinality(FailedAt(r, i)) < workflow[i].max
    BY <2>1 DEF Retry
  <2> QED BY <1>3, <1>4, <1>5, <1>6, <1>7, <2>1, <2>2
<1>8. CASE res # [step |-> i, status |-> "Failed"]
  BY <1>4, <1>5, <1>6, <1>8
<1> QED BY <1>7, <1>8

LEMMA RetryInit == Init => RetryInv
<1> SUFFICES ASSUME Init PROVE RetryInv
  OBVIOUS
<1>1. RunInv
  BY RunInit
<1>2. \A i : Cardinality(FailedAt(NewRun, i)) = 0
  <2>1. \A i : FailedAt(NewRun, i) = {}
    BY DEF FailedAt, NewRun
  <2> QED BY <2>1, FS_EmptySet
<1>3. \A i \in DOMAIN workflow : workflow[i].max \in Nat
  BY <1>1, MaxIsNat DEF RunInv
<1>4. WithinMax(NewRun)
  BY <1>2, <1>3 DEF WithinMax
<1> QED BY <1>1, <1>4 DEF Init, RetryInv

LEMMA RetryStep == RetryInv /\ [Next]_vars => RetryInv'
<1> SUFFICES ASSUME RetryInv, [Next]_vars PROVE RetryInv'
  OBVIOUS
<1>0. RunInv /\ RunInv' /\ TypeOK /\ UNCHANGED workflow
  BY RunStep DEF RetryInv, RunInv, Next, Call, Read, Write, GetRun, Pause, Resume, vars
<1>1. SUFFICES WithinMax(run') /\ \A c \in Callers : WithinMax(copy'[c])
  <2>1. WithinMax(run') => WithinMax(run)'
    BY <1>0 DEF WithinMax, FailedAt
  <2>2. ASSUME NEW c \in Callers PROVE WithinMax(copy'[c]) => WithinMax(copy[c])'
    BY <1>0 DEF WithinMax, FailedAt
  <2> QED BY <1>0, <2>1, <2>2 DEF RetryInv
<1>2. ASSUME NEW c \in Callers, Read(c) PROVE WithinMax(run') /\ \A d \in Callers : WithinMax(copy'[d])
  BY <1>0, <1>2 DEF Read, RetryInv, TypeOK
<1>3. ASSUME NEW c \in Callers, Write(c) PROVE WithinMax(run') /\ \A d \in Callers : WithinMax(copy'[d])
  <2>1. PICK status \in Outcomes(copy[c]), holds \in BOOLEAN :
          Store(c, Advanced(copy[c], status, holds))
    BY <1>3 DEF Write
  <2>2. status \in {"Completed", "Failed", "Skipped"}
    BY <2>1 DEF Outcomes
  <2>3. Good(copy[c]) /\ copy[c].status \notin Terminal /\ WithinMax(copy[c])
    BY <1>0, <1>3 DEF RunInv, Suspension, Write, RetryInv
  <2>4. WithinMax(Advanced(copy[c], status, holds))
    BY <1>0, <2>2, <2>3, AdvanceWithinMax
  <2>5. run' = Advanced(copy[c], status, holds) /\ copy' = copy
    BY <1>3, <2>1 DEF Store, Write
  <2> QED BY <2>4, <2>5 DEF RetryInv
<1>4. ASSUME NEW c \in Callers, GetRun(c) PROVE WithinMax(run') /\ \A d \in Callers : WithinMax(copy'[d])
  BY <1>4 DEF GetRun, RetryInv
\* A pause or a resume keeps the results, and the run is not one that failed.
<1>5. CASE Pause \/ Resume
  <2>1. run'.results = run.results /\ run.status # "Failed" /\ copy' = copy
    BY <1>0, <1>5 DEF Pause, Resume, TypeOK, Run
  <2>2. \A i : FailedAt(run', i) = FailedAt(run, i)
    BY <2>1 DEF FailedAt
  <2>3. WithinMax(run')
    BY <2>1, <2>2 DEF RetryInv, WithinMax
  <2> QED BY <2>1, <2>3 DEF RetryInv
<1>6. CASE UNCHANGED vars
  BY <1>6 DEF vars, RetryInv
<1> QED BY <1>2, <1>3, <1>4, <1>5, <1>6 DEF Next, Call

(***************************************************************************)
(* A step that is retried fails at most max times and once more, after     *)
(* which the run has failed: whatever calls overlap, however often a loop  *)
(* of the definition comes back to the step, and for any max.              *)
(***************************************************************************)
THEOREM RetriesAreBounded == Spec => []RetriesBounded
<1>1. RetryInv => RetriesBounded
  BY DEF RetryInv, WithinMax, FailedAt, RetriesBounded
<1> QED BY <1>1, RetryInit, RetryStep, PTL DEF Spec
=============================================================================
