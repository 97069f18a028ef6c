-------------------------- MODULE MCSubAgentSpawner --------------------------
(* One root task and up to five spawn requests, any of which may name the  *)
(* root or the task of another request as its parent.                      *)
EXTENDS SubAgentSpawner, TLC
CONSTANTS root, s1, s2, s3, s4, s5
CallSymmetry == Permutations(Calls)
=============================================================================
