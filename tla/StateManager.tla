--------------------------- MODULE StateManager ---------------------------
(***************************************************************************)
(* SchedulerStateManager (scheduler/state-manager.ts): the bookkeeping of  *)
(* the calls of one batch.  Its state is one record                        *)
(*                                                                         *)
(*   queue      the calls not yet taken up, in order                       *)
(*   wave       the calls taken up by the last dequeues: the insertion     *)
(*              order of the activeCalls map                               *)
(*   active     the keys of the activeCalls map                            *)
(*   completed  how many times each call occurs in _completedBatch         *)
(*   status     the status of each call, wherever it is                    *)
(*                                                                         *)
(* Each operator is one method: it takes the record before the call and    *)
(* gives the record after it.  A call is identified by its callId; the     *)
(* payload of a status (response, confirmation details, live output) and   *)
(* the TOOL_CALLS_UPDATE snapshots are left out, and so is the order       *)
(* inside _completedBatch, whose entries carry their callId.               *)
(***************************************************************************)
EXTENDS SequencesExt

CONSTANT Call       \* the callIds

Status == {"validating", "scheduled", "awaiting_approval", "executing",
           "success", "error", "cancelled"}

Terminal == {"success", "error", "cancelled"}

StateType == [queue     : Seq(Call),
              wave      : Seq(Call),
              active    : SUBSET Call,
              completed : [Call -> Nat],
              status    : [Call -> Status]]

Fresh == [queue     |-> << >>,
          wave      |-> << >>,
          active    |-> {},
          completed |-> [c \in Call |-> 0],
          status    |-> [c \in Call |-> "validating"]]

-----------------------------------------------------------------------------
(* Here and in Scheduler, an operator whose name starts with Bug is how     *)
(* the definition after it would read with a plausible mistake in the code; *)
(* the specification does not use it.                                       *)

\* updateStatus on each call of C.  A call that is not active is left alone.
\* An errored call has lost its invocation, so every transition but the one
\* to error throws before anything is assigned.
UpdateAll(sm, C, s) ==
    [sm EXCEPT !.status = [c \in Call |->
        IF c \in C \cap sm.active /\ (sm.status[c] = "error" => s = "error")
        THEN s
        ELSE sm.status[c]]]

UpdateStatus(sm, c, s) == UpdateAll(sm, {c}, s)

\* The active calls that are, or are not, in a terminal status.
Ended(sm) == {c \in sm.active : sm.status[c] \in Terminal}

Pending(sm) == sm.active \ Ended(sm)

\* enqueue of the newly created calls, the invalid ones born as errors.
Enqueue(sm, calls, invalid) ==
    [sm EXCEPT !.queue  = @ \o calls,
               !.status = [c \in Call |->
                   IF c \notin ToSet(calls) THEN @[c]
                   ELSE IF c \in invalid THEN "error" ELSE "validating"]]

\* n consecutive dequeues into an empty activeCalls map.
Dequeue(sm, n) ==
    [sm EXCEPT !.wave   = SubSeq(sm.queue, 1, n),
               !.active = ToSet(SubSeq(sm.queue, 1, n)),
               !.queue  = SubSeq(sm.queue, n + 1, Len(sm.queue))]

\* finalizeCall on every active call that has ended.
FinalizeEnded(sm) ==
    [sm EXCEPT !.completed = [c \in Call |->
                   IF c \in Ended(sm) THEN @[c] + 1 ELSE @[c]],
               !.active    = Pending(sm)]

\* The queue dropped without a report.
BugCancelAllQueued(sm) == [sm EXCEPT !.queue = << >>]

\* cancelAllQueued: errored calls keep their error, all are reported.
CancelAllQueued(sm) ==
    [sm EXCEPT !.completed = [c \in Call |->
                   IF c \in ToSet(sm.queue) THEN @[c] + 1 ELSE @[c]],
               !.status    = [c \in Call |->
                   IF c \in ToSet(sm.queue) /\ @[c] # "error"
                   THEN "cancelled" ELSE @[c]],
               !.queue     = << >>]

\* replaceActiveCallWithTailCall: the tail call takes over the callId of the
\* call it replaces and goes to the front of the queue, unfinalized.
ReplaceWithTail(sm, c, s) ==
    IF c \in sm.active
    THEN [sm EXCEPT !.active = @ \ {c},
                    !.queue  = Cons(c, @),
                    !.status = [@ EXCEPT ![c] = s]]
    ELSE sm

ClearBatch(sm) == [sm EXCEPT !.completed = [c \in Call |-> 0]]

\* updateArgs leaves an absent or an errored call alone.
CanUpdateArgs(sm, c) == c \in sm.active /\ sm.status[c] # "error"

\* firstActiveCall: the first key of the map that is still there.
IsFirstActive(sm, c) ==
    \E i \in DOMAIN sm.wave :
        /\ sm.wave[i] = c
        /\ c \in sm.active
        /\ \A j \in 1..(i - 1) : sm.wave[j] \notin sm.active

=============================================================================
