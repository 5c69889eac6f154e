-------------------------- MODULE ExecutionPromise --------------------------
(***************************************************************************)
(* What the lifecycle service promises of an execution: its promise is     *)
(* settled once, with its end or with its move to the background, and the  *)
(* end of one in the background is notified once, unless it is silent or   *)
(* was killed.                                                             *)
(***************************************************************************)
EXTENDS Integers

CONSTANTS
    Run,        \* executions
    Silent      \* those whose completion is not notified

VARIABLES
    phase,      \* "new", "running", "background" or "over"
    result,     \* what the promise was settled with
    notices     \* notices of the end

vars == <<phase, result, notices>>

Init ==
    /\ phase = [r \in Run |-> "new"]
    /\ result = [r \in Run |-> "pending"]
    /\ notices = [r \in Run |-> 0]

Begin(r) ==
    /\ phase[r] = "new"
    /\ phase' = [phase EXCEPT ![r] = "running"]
    /\ UNCHANGED <<result, notices>>

End(r, how) ==
    /\ phase[r] = "running"
    /\ phase' = [phase EXCEPT ![r] = "over"]
    /\ result' = [result EXCEPT ![r] = how]
    /\ UNCHANGED notices

GoToBackground(r) ==
    /\ phase[r] = "running"
    /\ phase' = [phase EXCEPT ![r] = "background"]
    /\ result' = [result EXCEPT ![r] = "background"]
    /\ UNCHANGED notices

Complete(r) ==
    /\ phase[r] = "background"
    /\ phase' = [phase EXCEPT ![r] = "over"]
    /\ notices' = IF r \in Silent THEN notices
                  ELSE [notices EXCEPT ![r] = 1]
    /\ UNCHANGED result

Killed(r) ==
    /\ phase[r] = "background"
    /\ phase' = [phase EXCEPT ![r] = "over"]
    /\ UNCHANGED <<result, notices>>

Next == \E r \in Run :
    \/ Begin(r)
    \/ End(r, "exit") \/ End(r, "aborted")
    \/ GoToBackground(r)
    \/ Complete(r)
    \/ Killed(r)

Spec == Init /\ [][Next]_vars

=============================================================================
