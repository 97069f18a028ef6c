---------------------------- MODULE MCMcpManager ----------------------------
(* One or two servers, and calls of their tools. *)
EXTENDS McpManager
=============================================================================
