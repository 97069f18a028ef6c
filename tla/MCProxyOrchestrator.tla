------------------------- MODULE MCProxyOrchestrator -------------------------
(***************************************************************************)
(* Two proxies of one group, and two rules of which the one of higher      *)
(* priority leads to a group without proxies.                              *)
(***************************************************************************)
EXTENDS ProxyOrchestrator
CONSTANTS c1, c2, i1, i2, p1, p2

MCSetup == <<[id |-> i1, proxy |-> p1], [id |-> i2, proxy |-> p2]>>
MCGroup == [id \in {i1, i2} |-> "github"]
MCRules ==
  [all  |-> [tools |-> {"list", "push"}, target |-> "github", priority |-> 1],
   push |-> [tools |-> {"push"}, target |-> "release", priority |-> 2]]
=============================================================================
