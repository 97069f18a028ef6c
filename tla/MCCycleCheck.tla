----------------------------- MODULE MCCycleCheck -----------------------------
(* All queues of three tasks with one dependency that is not queued. *)
EXTENDS CycleCheck
CONSTANTS a, b, c, gone
=============================================================================
