---------------------------- MODULE AgentTaskMC ----------------------------
(***************************************************************************)
(* A task of the A2A server on small instances: c1, c2, ... are tool calls *)
(* and m1, m2, ... messages of the client.                                 *)
(***************************************************************************)
EXTENDS AgentTask

CONSTANTS c1, c2, m1, m2, m3

TwoOrOne == {<<c1>>, <<c2>>, <<c1, c2>>}
JustTwo == {<<c1, c2>>}

=============================================================================
