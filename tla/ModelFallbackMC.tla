-------------------------- MODULE ModelFallbackMC --------------------------
(***************************************************************************)
(* A chain of two models, free and pro, as the settings may define it; the *)
(* user stays with free while a request wants best, which is outside the   *)
(* chain.  freeId, proId and bestId are the internal ids; as in the        *)
(* source, resolveModel takes an internal id for the default, free.        *)
(***************************************************************************)
EXTENDS ModelFallback, TLC

CONSTANTS free, best, freeId, proId, bestId, r1, r2

Ids == [m \in Model |-> IF m = best THEN bestId ELSE freeId]
FreeThenPro == <<freeId, proId>>
FreeAndBest == r1 :> free @@ r2 :> best
BusyIsSticky == {freeId, proId} \X {"transient", "unknown"}
MissingIsSilent == {<<proId, "not_found">>}

=============================================================================
