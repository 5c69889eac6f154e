---------------------------- MODULE SchedulerMC ----------------------------
(***************************************************************************)
(* The scheduler on small instances.  c1, c2, ... are tool calls, b1, b2,  *)
(* ... batches; each definition gives a constant of Scheduler the value    *)
(* that a scenario of a .cfg file substitutes for it.                      *)
(***************************************************************************)
EXTENDS Scheduler

CONSTANTS c1, c2, c3, b1, b2

TwoThenOne == b1 :> <<c1, c2>> @@ b2 :> <<c3>>
OneThenOne == b1 :> <<c1>> @@ b2 :> <<c2>>
JustThree  == b1 :> <<c1, c2, c3>>
JustTwo    == b1 :> <<c1, c2>>

AnyDecision     == [c \in Call |-> Decision]
AlwaysAllowed   == [c \in Call |-> {"allow"}]
TopicAllowed    == [c \in Call |-> IF c = c3 THEN {"allow"} ELSE Decision]
AlwaysAsked     == [c \in Call |-> {"ask"}]
AllowedOrAsked  == [c \in Call |-> {"allow", "ask"}]

=============================================================================
