------------------------------ MODULE MCA2AServer ------------------------------
(* Three requests on two tasks: enough for two stale copies of one task. *)
EXTENDS A2AServer
CONSTANTS r1, r2, r3, t1, t2
=============================================================================
