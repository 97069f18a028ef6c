--------------------------- MODULE MCOrchestrator ---------------------------
(***************************************************************************)
(* Instances of Orchestrator: the plan of plan(), as it is and shortened   *)
(* to its first two tasks, and tasks added by other holders of the queue.  *)
(***************************************************************************)
EXTENDS Orchestrator

CONSTANTS spec, code, test, review,   \* the plan of a run
          spec2,                      \* the first task of a second plan
          extra, twin, loop, other    \* tasks added from outside

Chain == <<spec, code, test, review>>
Short == <<spec, code>>

DepsOf == [t \in Tasks |->
  CASE t = code    -> {spec}
    [] t = test    -> {code}
    [] t = review  -> {code, test}
    [] t = loop    -> {loop}
    [] OTHER       -> {}]

RoleNames == [t \in Tasks |->
  CASE t \in {spec, spec2}       -> "Spec"
    [] t = code                  -> "Coder"
    [] t = test                  -> "Tester"
    [] t = review                -> "Reviewer"
    [] t \in {extra, twin, loop} -> "DevOps"
    [] OTHER                     -> "Custom"]

AllRoles == {"Spec", "Coder", "Tester", "Reviewer", "DevOps", "Custom"}
WithoutCustom == AllRoles \ {"Custom"}
WithoutCoder  == AllRoles \ {"Coder"}

OneRun   == <<Chain>>
TwoShort == <<Short, <<spec2>>>>
=============================================================================
