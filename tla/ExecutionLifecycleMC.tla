------------------------ MODULE ExecutionLifecycleMC ------------------------
(***************************************************************************)
(* Shell commands on small instances.                                      *)
(***************************************************************************)
EXTENDS ExecutionLifecycle

CONSTANTS r1, r2

=============================================================================
