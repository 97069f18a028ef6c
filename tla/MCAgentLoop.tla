----------------------------- MODULE MCAgentLoop -----------------------------
(* Two messages of one session; the two ways back ends number tool calls. *)
EXTENDS AgentLoop
CONSTANTS r1, r2, s1, plain, docker
OneSession  == [r \in Runs |-> s1]
UseGuarded  == {<<docker>>}
UseBoth     == {<<plain, docker>>}
\* OpenAI and Anthropic: the provider's id, unique.
OwnId       == [c \in Calls |-> c]
\* Gemini: the position among the calls of the response.
PositionId  == [c \in Calls |-> c[3]]
Positions   == 1..MaxCalls
=============================================================================
