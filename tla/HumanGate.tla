------------------------------ MODULE HumanGate ------------------------------
(***************************************************************************)
(* What the human approval gate promises: a guarded tool call runs at most *)
(* once and, unless the gate was left open from the start, only after a    *)
(* reviewer said yes to that very call.                                    *)
(***************************************************************************)
CONSTANT Calls

VARIABLES
  open,      \* nobody is asked
  approved,  \* the calls a reviewer said yes to
  ran        \* the guarded calls that were executed

vars == <<open, approved, ran>>

Init == open \in BOOLEAN /\ approved = {} /\ ran = {}

Approve(c) == approved' = approved \cup {c} /\ UNCHANGED <<open, ran>>

Run(c) == /\ c \notin ran /\ (open \/ c \in approved)
          /\ ran' = ran \cup {c}
          /\ UNCHANGED <<open, approved>>

Next == \E c \in Calls : Approve(c) \/ Run(c)

Spec == Init /\ [][Next]_vars
=============================================================================
