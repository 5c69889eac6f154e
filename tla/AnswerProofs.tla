---------------------------- MODULE AnswerProofs ----------------------------
(***************************************************************************)
(* What questions, answers and cancellations guarantee, for any calls and  *)
(* batches.  The runs edit_crossed and denial_stops show that it is not    *)
(* much where two calls of a wave are edited or asked about, and the run   *)
(* cancel_without_abort that cancelAll alone stops no call.  Here it is    *)
(* shown that these are the only ways to fail: the promises hold wherever  *)
(* the calls in question take their turns alone, and wherever cancelAll    *)
(* comes with an abort.                                                    *)
(***************************************************************************)
EXTENDS WaveProofs

\* The awaits of the confirmation loop.
Confirmation == {"details", "answer", "editor", "inline", "outcome"}

\* The calls that the user may be asked about.
Asked == {c \in Call : "ask" \in PolicyAnswers(c)} \cup HookAsks \cup Sandboxed

\* A call that has its turn alone: it waits for the previous ones, and if a
\* tail call, which need not wait, can take it over, it is the last.
Solo(c) ==
    /\ c \in Waits
    /\ c \in Tailing =>
          \A b \in Batch : c \in BatchSet(b) =>
              \A d \in BatchSet(b) \ {c} : Precedes(b, d, c)

\* Why the user is asked about c, and what c was asked to wait for.
AskInv(c) ==
    /\ c \in Waits \ Tailing => call[c].waits
    /\ call[c].result = "expansion" => c \in Sandboxed
    /\ call[c].pc \in Confirmation => c \in Asked

\* A refused call stays so: it returns, and its status is final.  If the
\* question outlived a cancelAll, the queue is already empty, and whatever
\* was refused is the last of its batch to be active.
DenialInv(c) ==
    /\ call[c].answer = "cancel" =>
          /\ call[c].pc \in {"outcome", "idle"} /\ ~ call[c].noisy
          /\ At(c, "idle") /\ c \in sm.active =>
                sm.status[c] \in {"cancelled", "error"}
    /\ c \in Asked /\ ~ At(c, "idle") /\ sm.status[c] = "cancelled" =>
          sm.queue = << >>
    /\ /\ cur # None /\ c \in BatchSet(cur)
       /\ call[c].answer = "cancel" /\ sm.status[c] = "cancelled"
       => /\ sm.active \subseteq {c}
          /\ sm.queue = << >> \/ cur \in aborted

\* Arguments are those of their own call, and an edit that has been applied
\* stays until the call is asked about again.
EditInv(c) ==
    /\ call[c].args.of = c /\ call[c].input.of = c
    /\ call[c].pc \in {"inline", "editor"} => c \in Modifiable
    /\ call[c].pc \in {"hook", "policy"} => call[c].answer = "none"
    /\ /\ call[c].answer = "edited"
       /\ \/ call[c].pc \in {"outcome", "tool", "result"}
          \/ sm.status[c] = "scheduled"
       => call[c].args.by = "user"

\* A call that cancelAll struck belongs to no batch that could still run it.
StruckInv ==
    \A c \in struck, b \in Batch : c \in BatchSet(b) =>
        ~ InLine(b) /\ (cur = b => b \in aborted)
-----------------------------------------------------------------------------
(* What a step that is no handler's does to the calls.                     *)

\* The loop and its callers, as opposed to the handlers.
LoopStep ==
    \/ Loop
    \/ \E b \in Batch : Schedule(b) \/ Abort(b)
    \/ CancelAll \/ Done \/ UNCHANGED vars

LEMMA LoopOrHandler ==
    [Next]_vars <=> LoopStep \/ \E c \in Call : HandlerAction(c)
  BY DEF Next, LoopStep, HandlerAction

\* A call is left alone, taken up from the queue, or started.
TakenUp(c) ==
    /\ call'[c] = [call[c] EXCEPT !.pc = "hook"]
    /\ sm'.status[c] = "validating"
    /\ Untouched(c)

Started(c) ==
    /\ call'[c] = [call[c] EXCEPT !.pc = "tool"]
    /\ sm'.status[c] = "executing"
    /\ At(c, "idle") /\ c \in sm.active /\ sm.status[c] = "scheduled"
    /\ cur \notin aborted /\ JoinValidation

LEMMA UntouchedCall ==
    ASSUME NEW c, Untouched(c)
    PROVE  /\ At(c, "idle") /\ ~ call[c].noisy /\ ~ call[c].expands
           /\ call[c].result = "none" /\ call[c].answer = "none"
           /\ call[c].args.of = c /\ call[c].input.of = c
  BY DEF Untouched, NewCall, At

\* An iteration takes up queued calls only: of those still active, none is to
\* be validated.
LEMMA IterateTakesUp ==
    ASSUME NEW s \in StateType, Lined(s), call \in [Call -> CallType],
           \A c \in ToSet(s.queue) : Untouched(c),
           \A c \in s.active : s.status[c] # "validating",
           NEW stop, Iterate(s, stop), NEW c \in Call
    PROVE  /\ call'[c] = call[c] \/ TakenUp(c)
           /\ c \notin ToSet(s.queue) =>
                 /\ c \in sm'.active => c \in s.active
                 /\ sm'.status[c] = s.status[c]
  <1> DEFINE Goal == /\ call'[c] = call[c] \/ TakenUp(c)
                     /\ c \notin ToSet(s.queue) =>
                           /\ c \in sm'.active => c \in s.active
                           /\ sm'.status[c] = s.status[c]
             more == s.queue # << >> \/ s.active # {}
  <1>1. CASE sm' = s /\ UNCHANGED call
    BY <1>1
  <1>2. CASE sm' = CancelAllQueued(s) /\ UNCHANGED call
    BY <1>2 DEF CancelAllQueued, StateType
  <1>3. CASE s.active # {} /\ Validate(s)
    BY <1>3 DEF Validate
  <1>4. CASE /\ s.queue # << >> /\ s.active = {}
             /\ sm' = FinalizeEnded(Dequeue(s, 1))
             /\ UNCHANGED call
    <2> DEFINE r == Dequeue(s, 1)
    <2>1. 1 \in 1..Len(s.queue)
      BY <1>4 DEF StateType
    <2>2. /\ r \in StateType
          /\ r.status = s.status
          /\ r.active \subseteq ToSet(s.queue)
      BY <1>4, <2>1, DequeueLined, ZenonT(30)
    <2>3. sm' = FinalizeEnded(r)
      BY <1>4
    <2> HIDE DEF r
    <2>4. sm'.active \subseteq r.active /\ sm'.status = r.status
      BY <2>2, <2>3 DEF FinalizeEnded, Pending, StateType
    <2> QED
      BY <1>4, <2>2, <2>4
  <1>5. ASSUME NEW n \in 1..Len(s.queue), s.active = {},
               Validate(Dequeue(s, n))
        PROVE  Goal
    <2> DEFINE t == Dequeue(s, n)
    <2>1. /\ t.status = s.status
          /\ t.active \subseteq ToSet(s.queue)
      BY <1>5, DequeueLined, ZenonT(30)
    <2>2. Validate(t)
      BY <1>5
    <2> HIDE DEF t
    <2>3. /\ sm' = t
          /\ call'[c] = IF c \in t.active /\ t.status[c] = "validating"
                        THEN [call[c] EXCEPT !.pc = "hook"] ELSE call[c]
      BY <2>2 DEF Validate
    <2>4. c \in t.active => Untouched(c)
      BY <2>1
    <2> QED
      BY <2>1, <2>3, <2>4 DEF TakenUp
  <1> QED
    BY <1>1, <1>2, <1>3, <1>4, <1>5 DEF Iterate, LeaveLoop

\* The first iteration of a batch.
LEMMA StartBatchTakesUp ==
    ASSUME WaveInv, phase \in {"idle", "finishing"}, sm.active = {},
           NEW b \in Batch, InLine(b), NEW before, StartBatch(b, before),
           NEW c \in Call
    PROVE  /\ call'[c] = call[c] \/ TakenUp(c)
           /\ c \notin BatchSet(b) => /\ c \notin sm'.active
                                      /\ sm'.status[c] = sm.status[c]
  <1> DEFINE q == TopicFirst(BatchCalls[b])
             s == Enqueue(ClearBatch(sm), q, Invalid)
  <1>1. /\ sm \in StateType /\ OwnInv /\ sm.queue = << >>
        /\ call \in [Call -> CallType]
    BY DEF WaveInv, Waves, RoundInv, TypeOK
  <1>2. /\ s \in StateType /\ Lined(s) /\ s.active = {}
        /\ ToSet(s.queue) = BatchSet(b) /\ s.queue = q
    BY <1>1, EnqueueLined
  <1>3. c \notin ToSet(q) => s.status[c] = sm.status[c]
    BY <1>1 DEF Enqueue, ClearBatch, StateType
  <1>4. Iterate(s, b \in aborted)
    BY DEF StartBatch
  <1>5. \A d \in BatchSet(b) : Untouched(d)
    BY <1>1, BatchSetType, AsAsked DEF OwnInv
  <1> HIDE DEF s, q
  <1>6. /\ call'[c] = call[c] \/ TakenUp(c)
        /\ c \notin ToSet(s.queue) =>
              /\ c \in sm'.active => c \in s.active
              /\ sm'.status[c] = s.status[c]
    BY <1>1, <1>2, <1>4, <1>5, IterateTakesUp
  <1> QED
    BY <1>2, <1>3, <1>6

\* Of the steps of the loop, all but those that start tools, and cancelAll,
\* leave alone what is neither queued nor of a batch in line.
LEMMA LoopMoves ==
    ASSUME WaveInv, LoopStep, NEW c \in Call
    PROVE  /\ call'[c] = call[c] \/ TakenUp(c) \/ Started(c)
           /\ /\ c \notin ToSet(sm.queue)
              /\ c \in sm.active => sm.status[c] # "scheduled"
              /\ \A b \in Batch : c \in BatchSet(b) => ~ InLine(b)
              => /\ c \in sm'.active => c \in sm.active
                 /\ \/ sm'.status[c] = sm.status[c]
                    \/ /\ CancelAll /\ c \in Pending(sm)
                       /\ sm'.status[c] = "cancelled"
  <1> DEFINE Goal ==
        /\ call'[c] = call[c] \/ TakenUp(c) \/ Started(c)
        /\ /\ c \notin ToSet(sm.queue)
           /\ c \in sm.active => sm.status[c] # "scheduled"
           /\ \A b \in Batch : c \in BatchSet(b) => ~ InLine(b)
           => /\ c \in sm'.active => c \in sm.active
              /\ \/ sm'.status[c] = sm.status[c]
                 \/ /\ CancelAll /\ c \in Pending(sm)
                    /\ sm'.status[c] = "cancelled"
  <1>ty. /\ sm \in StateType /\ call \in [Call -> CallType]
         /\ requestQueue \in Seq(Batch)
         /\ Lined(sm) /\ OwnInv /\ RoundInv /\ QueueInv
    BY DEF WaveInv, Waves, TypeOK
  <1>un. CASE UNCHANGED <<sm, call>>
    BY <1>un
  <1>st. ASSUME NEW b \in Batch, NEW before, StartBatch(b, before), InLine(b),
                phase \in {"idle", "finishing"}, sm.active = {}
         PROVE  Goal
    BY <1>st, StartBatchTakesUp
  <1>1. CASE LoopTop
    <2>1. Iterate(sm, cur \in aborted \/ cancelling)
      BY <1>1 DEF LoopTop
    <2>2. \A d \in sm.active : sm.status[d] # "validating"
      <3>1. \A d \in Call : Resting(sm, d)
        BY <1>1, AllResting DEF LoopTop
      <3> QED
        BY <1>ty, <3>1 DEF Resting, Terminal, StateType
    <2>3. \A d \in ToSet(sm.queue) : Untouched(d)
      BY <1>ty DEF OwnInv
    <2> QED
      BY <1>ty, <2>1, <2>2, <2>3, IterateTakesUp
  <1>2. CASE JoinValidation \/ JoinExecution
    <2>1. CASE EndIteration
      BY <1>ty, <2>1 DEF EndIteration, FinalizeEnded, Pending, StateType
    <2>2. ASSUME NEW ready, Execute(ready), JoinValidation,
                 ready = {d \in sm.active : sm.status[d] = "scheduled"}
          PROVE  Goal
      <3>1. /\ sm'.active = sm.active
            /\ c \notin ready => sm'.status[c] = sm.status[c]
        BY <1>ty, <2>2 DEF Execute, Start, UpdateAll, StateType
      <3>2. CASE cur \in aborted \/ c \notin ready
        BY <2>2, <3>1, <3>2 DEF Execute, Start
      <3>3. CASE cur \notin aborted /\ c \in ready
        <4>1. /\ call'[c] = [call[c] EXCEPT !.pc = "tool"]
              /\ sm'.status[c] = "executing"
          BY <1>ty, <2>2, <3>3 DEF Execute, Start, UpdateAll, StateType
        <4>2. At(c, "idle")
          BY <2>2 DEF JoinValidation, AllIdle, At
        <4> QED
          BY <2>2, <3>1, <3>3, <4>1, <4>2 DEF Started
      <3> QED
        BY <3>2, <3>3
    <2> QED
      BY <1>2, <2>1, <2>2 DEF JoinValidation, JoinExecution
  <1>3. CASE Finish
    <2> DEFINE settled == [request EXCEPT ![cur] = "resolved"]
    <2>1. phase = "finishing" /\ NextInRequestQueue(settled)
      BY <1>3 DEF Finish
    <2> HIDE DEF settled
    <2>2. CASE requestQueue # << >> /\ sm.active = {}
      <3>1. /\ Head(requestQueue) \in Batch
            /\ Head(requestQueue) \in ToSet(requestQueue)
        BY <1>ty, <2>2 DEF ToSet
      <3>2. InLine(Head(requestQueue))
        BY <1>ty, <3>1 DEF QueueInv, InLine
      <3>3. StartBatch(Head(requestQueue), settled)
        BY <2>1, <2>2 DEF NextInRequestQueue
      <3> QED
        BY <1>st, <2>1, <2>2, <3>1, <3>2, <3>3
    <2>3. CASE ~ (requestQueue # << >> /\ sm.active = {})
      <3>1. sm' = ClearBatch(sm) /\ UNCHANGED call
        BY <2>1, <2>3 DEF NextInRequestQueue
      <3> QED
        BY <1>ty, <3>1 DEF ClearBatch, StateType
    <2> QED
      BY <2>2, <2>3
  <1>4. ASSUME NEW b \in Batch, Schedule(b)
        PROVE  Goal
    <2>1. CASE cur = None /\ sm.active = {}
      <3>1. StartBatch(b, request) /\ InLine(b) /\ phase = "idle"
        BY <1>4, <1>ty, <2>1 DEF Schedule, InLine, RoundInv
      <3> QED
        BY <1>st, <2>1, <3>1
    <2>2. CASE ~ (cur = None /\ sm.active = {})
      BY <1>4, <1>un, <2>2 DEF Schedule
    <2> QED
      BY <2>1, <2>2
  <1>5. CASE CancelAll
    <2> DEFINE s == UpdateAll(sm, Pending(sm), "cancelled")
    <2>1. s \in StateType
      BY <1>ty, UpdateAllType DEF Status
    <2>2. /\ s.active = sm.active /\ s.queue = sm.queue
          /\ s.status[c] = IF c \in Pending(sm) THEN "cancelled"
                           ELSE sm.status[c]
      BY <1>ty DEF UpdateAll, Pending, Ended, Terminal, StateType
    <2>3. sm' = CancelAllQueued(s) /\ UNCHANGED call
      BY <1>5 DEF CancelAll
    <2> HIDE DEF s
    <2>4. /\ sm'.active = s.active
          /\ c \notin ToSet(s.queue) => sm'.status[c] = s.status[c]
      BY <2>1, <2>3 DEF CancelAllQueued, StateType
    <2> QED
      BY <1>5, <2>2, <2>3, <2>4
  <1> QED
    BY <1>un, <1>1, <1>2, <1>3, <1>4, <1>5
    DEF LoopStep, Loop, Abort, Done, vars
-----------------------------------------------------------------------------
(* Who is asked about.                                                     *)

\* Only the handler of a call changes what it knows.
LEMMA HandlerMoves ==
    ASSUME WaveInv, NEW c \in Call, HandlerAction(c)
    PROVE  /\ \A d \in Call \ {c} : call'[d] = call[d]
           /\ \A d \in Call \ {c} : d \notin ToSet(sm.queue) =>
                  sm'.status[d] = sm.status[d]
           /\ \A d \in Call : d \in sm'.active => d \in sm.active
           /\ UNCHANGED <<phase, cur, request, aborted>>
           /\ ~ At(c, "idle") => c \in sm.active
           /\ At(c, "idle") => /\ call[c].noisy /\ UNCHANGED <<call, waiting>>
                               /\ UNCHANGED <<sm.active, sm.queue>>
           /\ c \notin sm.active => UNCHANGED sm
  <1>1. /\ HandlerEffect(c)
        /\ At(c, "idle") => call[c].noisy /\ Output(c)
        /\ CallUnchanged
        /\ \A d \in Call \ {c} : call'[d] = call[d]
    BY HandlerHasEffect DEF WaveInv
  <1>2. /\ sm \in StateType /\ call \in [Call -> CallType]
        /\ ~ At(c, "idle") => c \in sm.active
    BY DEF WaveInv, Waves, TypeOK, TurnInv
  <1>3. ASSUME NEW v
        PROVE  LET t == UpdateStatus(sm, c, v)
               IN  /\ t.active = sm.active /\ t.queue = sm.queue
                   /\ \A d \in Call \ {c} : t.status[d] = sm.status[d]
                   /\ c \notin sm.active => t = sm
    BY <1>2 DEF UpdateStatus, UpdateAll, StateType
  <1>4. ASSUME NEW v \in Status
        PROVE  LET t == CancelAllQueued(UpdateStatus(sm, c, v))
               IN  /\ t.active = sm.active
                   /\ \A d \in Call \ {c} : d \notin ToSet(sm.queue) =>
                          t.status[d] = sm.status[d]
    <2> DEFINE u == UpdateStatus(sm, c, v)
    <2>1. /\ u \in StateType /\ u.active = sm.active /\ u.queue = sm.queue
          /\ \A d \in Call \ {c} : u.status[d] = sm.status[d]
      BY <1>2, <1>3, UpdateAllType DEF UpdateStatus
    <2> HIDE DEF u
    <2>2. LET t == CancelAllQueued(u)
          IN  /\ t.active = u.active
              /\ \A d \in Call \ {c} : d \notin ToSet(u.queue) =>
                     t.status[d] = u.status[d]
      BY <2>1 DEF CancelAllQueued, StateType
    <2> QED
      BY <2>1, <2>2 DEF u
  <1>5. \A v \in {"validating", "error"} :
           LET t == ReplaceWithTail(sm, c, v)
           IN  /\ t.active \subseteq sm.active
               /\ \A d \in Call \ {c} : t.status[d] = sm.status[d]
    BY <1>2 DEF ReplaceWithTail, StateType
  <1>6. "cancelled" \in Status
    BY DEF Status
  <1>7. /\ \A d \in Call \ {c} : d \notin ToSet(sm.queue) =>
              sm'.status[d] = sm.status[d]
        /\ \A d \in Call : d \in sm'.active => d \in sm.active
    BY <1>1, <1>3, <1>4, <1>5, <1>6 DEF HandlerEffect
  <1>8. At(c, "idle") => sm' = UpdateStatus(sm, c, "executing")
                         /\ UNCHANGED <<call, waiting>>
    BY <1>1 DEF Output
  <1>9. c \notin sm.active => sm' = sm
    BY <1>2, <1>3, <1>8
  <1> QED
    BY <1>1, <1>2, <1>3, <1>7, <1>8, <1>9 DEF CallUnchanged

\* A call is asked about because of the policy engine, a hook or its sandbox.
LEMMA AskHandler ==
    ASSUME WaveInv, SafeInv, NEW c \in Call, AskInv(c), HandlerAction(c)
    PROVE  AskInv(c)'
  <1> USE DEF At
  <1>ty. /\ call \in [Call -> CallType] /\ call[c] \in CallType
         /\ call[c].hookAsks => c \in HookAsks
         /\ call[c].result = "tail" => c \in Tailing
    BY DEF WaveInv, Waves, TurnInv, SafeInv, SafeCall, DeniedCall, TypeOK
  \* It goes on within the confirmation loop, or leaves it.
  <1>in. ASSUME call'[c].waits = call[c].waits,
                call'[c].result = call[c].result,
                call'[c].pc \in Confirmation =>
                    call[c].pc \in Confirmation \/ c \in Asked
         PROVE  AskInv(c)'
    BY <1>in DEF AskInv
  <1>en. ASSUME NEW v, End(c, v) PROVE AskInv(c)'
    <2>1. /\ call'[c].waits = call[c].waits /\ call'[c].pc = "idle"
          /\ call'[c].result = call[c].result
      BY <1>ty, <1>en DEF End, CallType
    <2> QED
      BY <1>in, <2>1 DEF Confirmation
  <1>1. CASE HookDone(c)
    <2>1. CASE End(c, "error")
      BY <1>en, <2>1
    <2>2. CASE ~ End(c, "error")
      <3> PICK asks \in BOOLEAN, by \in {call[c].input.by, "hook"} :
              call' = [call EXCEPT ![c].pc = "policy",
                                   ![c].hookAsks = asks,
                                   ![c].input.by = by,
                                   ![c].args.by = IF Replaced(c)
                                                  THEN call[c].args.by ELSE by]
        BY <1>1, <2>2 DEF HookDone
      <3>1. /\ call'[c].waits = call[c].waits /\ call'[c].pc = "policy"
            /\ call'[c].result = call[c].result
        BY <1>ty DEF CallType
      <3> QED
        BY <1>in, <3>1 DEF Confirmation
    <2> QED
      BY <2>1, <2>2
  <1>2. CASE PolicyDone(c)
    <2> PICK d \in PolicyAnswers(c) :
          LET decided == [call EXCEPT ![c].decision = d]
          IN  \/ call' = [decided EXCEPT ![c].pc = "idle"]
              \/ call' = [decided EXCEPT ![c].pc = "idle",
                                         ![c].vetted = {call[c].input}]
              \/ /\ Verdict(c, d) = "ask"
                 /\ call' = [decided EXCEPT ![c].pc = "details"]
      BY <1>2 DEF PolicyDone
    <2>1. /\ call'[c].waits = call[c].waits
          /\ call'[c].result = call[c].result
          /\ \/ call'[c].pc = "idle"
             \/ call'[c].pc = "details" /\ Verdict(c, d) = "ask"
      BY <1>ty DEF CallType
    <2>2. Verdict(c, d) = "ask" => c \in Asked
      BY <1>ty DEF Verdict, Asked
    <2> QED
      BY <1>in, <2>1, <2>2 DEF Confirmation
  <1>3. CASE \/ Unneeded(c) \/ AskUser(c) \/ EditorDone(c) \/ InlineDone(c)
             \/ Conclude(c) \/ \E r \in Responses : Respond(c, r)
    <2>1. /\ call'[c].waits = call[c].waits
          /\ call'[c].result = call[c].result
          /\ call[c].pc \in Confirmation
      <3>1. CASE Unneeded(c)
        BY <1>ty, <3>1 DEF Unneeded, CallType, Confirmation
      <3>2. CASE AskUser(c)
        BY <1>ty, <3>2 DEF AskUser, CallType, Confirmation
      <3>3. CASE EditorDone(c)
        BY <1>ty, <3>3 DEF EditorDone, CallType, Confirmation
      <3>4. CASE InlineDone(c)
        BY <1>ty, <3>4 DEF InlineDone, CallType, Confirmation
      <3>5. CASE Conclude(c)
        BY <1>ty, <3>5 DEF Conclude, CallType, Confirmation
      <3>6. ASSUME NEW r \in Responses, Respond(c, r)
            PROVE  /\ call'[c].waits = call[c].waits
                   /\ call'[c].result = call[c].result
                   /\ call[c].pc \in Confirmation
        BY <1>ty, <3>6 DEF Respond, CallType, Confirmation
      <3> QED
        BY <1>3, <3>1, <3>2, <3>3, <3>4, <3>5, <3>6
    <2> QED
      BY <1>in, <2>1
  <1>4. CASE Throw(c) \/ Recorded(c)
    BY <1>4, <1>en DEF Throw, Recorded
  <1>5. CASE \E r \in Result \ {"none"} : ToolDone(c, r)
    <2> PICK r \in Result \ {"none"} : ToolDone(c, r)
      BY <1>5
    <2>1. /\ call'[c].waits = call[c].waits /\ call'[c].pc = "result"
          /\ call'[c].result = r /\ (r = "expansion" => c \in Sandboxed)
      BY <1>ty DEF ToolDone, CallType
    <2> QED
      BY <2>1 DEF AskInv, Confirmation
  <1>6. CASE TailCalled(c)
    <2>1. PICK w \in BOOLEAN : call' = [call EXCEPT ![c] = NewCall(c, "tail", w)]
      BY <1>6 DEF TailCalled
    <2>2. call'[c] = NewCall(c, "tail", w) /\ c \in Tailing
      BY <1>6, <1>ty, <2>1 DEF TailCalled
    <2>3. call'[c].pc = "idle" /\ call'[c].result = "none"
      BY <2>2 DEF NewCall
    <2> QED
      BY <2>2, <2>3 DEF AskInv, Confirmation
  <1>7. CASE ExpansionAsked(c)
    <2>1. CASE cur \in aborted
      BY <1>7, <1>en, <2>1 DEF ExpansionAsked
    <2>2. CASE cur \notin aborted
      <3>1. /\ call'[c].waits = call[c].waits
            /\ call'[c].result = call[c].result
            /\ call[c].result = "expansion"
        BY <1>ty, <1>7, <2>2 DEF ExpansionAsked, CallType
      <3> QED
        BY <1>in, <3>1 DEF AskInv, Asked
    <2> QED
      BY <2>1, <2>2
  <1>8. CASE ExpansionAnswered(c)
    <2>1. CASE call[c].answer = "cancel" \/ cur \in aborted
      BY <1>8, <1>en, <2>1 DEF ExpansionAnswered
    <2>2. CASE ~ (call[c].answer = "cancel" \/ cur \in aborted)
      <3>1. /\ call'[c].waits = call[c].waits
            /\ call'[c].result = call[c].result
            /\ call'[c].pc = "tool"
        BY <1>ty, <1>8, <2>2 DEF ExpansionAnswered, CallType
      <3> QED
        BY <1>in, <3>1 DEF Confirmation
    <2> QED
      BY <2>1, <2>2
  <1>9. CASE Output(c)
    BY <1>9, <1>in DEF Output
  <1> QED
    BY <1>1, <1>2, <1>3, <1>4, <1>5, <1>6, <1>7, <1>8, <1>9
    DEF HandlerAction, CallStep

AnswerInv == WaveInv /\ SafeInv /\ \A c \in Call : AskInv(c)

LEMMA AnswerNext == AnswerInv /\ [Next]_vars => AnswerInv'
  <1> SUFFICES ASSUME AnswerInv, [Next]_vars PROVE AnswerInv'
    OBVIOUS
  <1>1. /\ WaveInv /\ SafeInv /\ call \in [Call -> CallType]
        /\ \A c \in Call : AskInv(c)
    BY DEF AnswerInv, SafeInv, TypeOK
  <1>2. WaveInv' /\ SafeInv'
    BY <1>1, WaveNext, SafeNext
  <1>3. ASSUME NEW c \in Call PROVE AskInv(c)'
    <2>1. CASE call'[c] = call[c]
      BY <1>1, <2>1 DEF AskInv
    <2>2. CASE HandlerAction(c)
      BY <1>1, <2>2, AskHandler
    <2>3. CASE TakenUp(c) \/ Started(c)
      <3>1. /\ call'[c].pc \in {"hook", "tool"}
            /\ call'[c].waits = call[c].waits
            /\ call'[c].result = call[c].result
        BY <1>1, <2>3 DEF TakenUp, Started, CallType
      <3> QED
        BY <1>1, <3>1 DEF AskInv, Confirmation
    <2>4. ASSUME NEW d \in Call \ {c}, HandlerAction(d)
          PROVE  call'[c] = call[c]
      BY <1>1, <2>4, HandlerMoves
    <2> QED
      BY <1>1, <2>1, <2>2, <2>3, <2>4, LoopOrHandler, LoopMoves
  <1> QED
    BY <1>2, <1>3 DEF AnswerInv

LEMMA AnswerSafety == Spec => []AnswerInv
  <1>1. ASSUME Init, NEW c \in Call PROVE AskInv(c)
    <2>1. /\ call[c].waits = (c \in Waits) /\ call[c].result = "none"
          /\ call[c].pc = "idle"
      BY <1>1 DEF Init, NewCall
    <2> QED
      BY <2>1 DEF AskInv, Confirmation
  <1>2. Init => AnswerInv
    BY <1>1, WaveInit, SafeInit DEF AnswerInv
  <1> QED
    BY <1>2, AnswerNext, PTL DEF Spec

\* Without hooks that ask and sandboxes to be left, nobody is asked where there
\* is no user.  The run headless_hook_asks shows that hooks do ask; a sandbox
\* expansion does so in the same way.
THEOREM HeadlessWithoutHooks ==
    ASSUME HookAsks = {}, Sandboxed = {}
    PROVE  Spec => []HeadlessAsksNobody
  <1>1. ASSUME AnswerInv PROVE HeadlessAsksNobody
    <2> SUFFICES ASSUME ~ Interactive, NEW c \in Call, At(c, "answer")
                 PROVE  FALSE
      BY DEF HeadlessAsksNobody
    <2>1. c \in Asked
      BY <1>1 DEF AnswerInv, AskInv, Confirmation, At
    <2> QED
      BY <2>1 DEF Asked, PolicyAnswers
  <1> QED
    BY <1>1, AnswerSafety, PTL

\* A call that has its turn alone is alone while its handler is suspended.
LEMMA SoloAlone ==
    ASSUME AnswerInv, NEW c \in Call, Solo(c), c \in sm.active, cur # None
    PROVE  sm.active = {c}
  <1>1. /\ TurnInv(c) /\ OwnInv /\ OrderInv(c) /\ AskInv(c)
        /\ cur \in Batch
    BY DEF AnswerInv, WaveInv, Waves, TypeOK
  <1>2. CASE c \notin Tailing
    BY <1>1, <1>2 DEF TurnInv, AskInv, Solo
  <1>3. CASE c \in Tailing
    <2>1. Held(sm) \subseteq BatchSet(cur) /\ sm.active \subseteq Held(sm)
      BY <1>1 DEF OwnInv, Held
    <2>2. \A d \in Held(sm) : ~ Precedes(cur, d, c)
      BY <1>1 DEF Solo, OrderInv, Ordered
    <2>3. \A d \in BatchSet(cur) \ {c} : Precedes(cur, d, c)
      BY <1>1, <1>3, <2>1 DEF Solo
    <2> QED
      BY <2>1, <2>2, <2>3
  <1> QED
    BY <1>2, <1>3

LEMMA SuspendedAlone ==
    ASSUME AnswerInv, NEW c \in Call, Solo(c), ~ At(c, "idle")
    PROVE  sm.active = {c} /\ cur # None /\ cur \in Batch
  <1>1. /\ c \in sm.active /\ cur # None /\ cur \in Batch
    BY DEF AnswerInv, WaveInv, Waves, RoundInv, TurnInv, TypeOK
  <1> QED
    BY <1>1, SoloAlone

-----------------------------------------------------------------------------
(* The signal that somebody waits.                                         *)

\* Only one step asks, and only one starts a tool again.
LEMMA HandlersAskAndStart ==
    ASSUME call \in [Call -> CallType], NEW c \in Call, HandlerAction(c),
           call'[c].pc \in {"answer", "tool"}
    PROVE  \/ Output(c)
           \/ AskUser(c) /\ At(c, "answer")'
           \/ ExpansionAnswered(c) /\ cur \notin aborted /\ At(c, "tool")'
  <1> USE DEF At
  <1>ty. call[c] \in CallType
    OBVIOUS
  <1>en. ASSUME NEW v PROVE ~ End(c, v)
    BY <1>ty DEF End, CallType
  <1>1. AskUser(c) => At(c, "answer")'
    BY <1>ty DEF AskUser, CallType
  <1>2. ASSUME HookDone(c) PROVE FALSE
    <2> PICK asks \in BOOLEAN, by \in {call[c].input.by, "hook"} :
            call' = [call EXCEPT ![c].pc = "policy",
                                 ![c].hookAsks = asks,
                                 ![c].input.by = by,
                                 ![c].args.by = IF Replaced(c)
                                                THEN call[c].args.by ELSE by]
      BY <1>2, <1>en DEF HookDone
    <2> QED
      BY <1>ty DEF CallType
  <1>3. ~ PolicyDone(c)
    <2> SUFFICES ASSUME NEW d \in PolicyAnswers(c),
                        LET decided == [call EXCEPT ![c].decision = d]
                        IN  \/ call' = [decided EXCEPT ![c].pc = "idle"]
                            \/ call' = [decided EXCEPT
                                  ![c].pc = "idle",
                                  ![c].vetted = {call[c].input}]
                            \/ call' = [decided EXCEPT ![c].pc = "details"]
                 PROVE  FALSE
      BY DEF PolicyDone
    <2> QED
      BY <1>ty DEF CallType
  <1>4. ~ Throw(c) /\ ~ Recorded(c)
    BY <1>en DEF Throw, Recorded
  <1>5. ASSUME NEW r PROVE ~ ToolDone(c, r) /\ ~ Respond(c, r)
    BY <1>ty DEF ToolDone, Respond, CallType
  <1>6. ~ TailCalled(c)
    BY <1>ty DEF TailCalled, NewCall
  <1>7. ~ ExpansionAsked(c)
    BY <1>ty, <1>en DEF ExpansionAsked, CallType
  <1>8. ~ Unneeded(c) /\ ~ Conclude(c)
    BY <1>ty DEF Unneeded, Conclude, CallType
  <1>9. ASSUME EditorDone(c) PROVE FALSE
    <2> PICK f \in Call, used \in BOOLEAN :
            call' = [call EXCEPT ![c].pc = "details",
                       ![c].input = IF used THEN Modified(c, f, @) ELSE @,
                       ![c].args = IF used THEN Modified(c, f, @) ELSE @]
      BY <1>9 DEF EditorDone
    <2> QED
      BY <1>ty DEF CallType
  <1>10. ASSUME InlineDone(c) PROVE FALSE
    <2> PICK f \in Call :
            call' = [call EXCEPT ![c].pc = "outcome",
                                 ![c].answer = "edited",
                                 ![c].input = Modified(c, f, @),
                                 ![c].args = Modified(c, f, @),
                                 ![c].vetted = {Modified(c, f, call[c].args)}]
      BY <1>10 DEF InlineDone
    <2> QED
      BY <1>ty DEF CallType
  <1>11. ExpansionAnswered(c) => cur \notin aborted /\ At(c, "tool")'
    BY <1>ty, <1>en DEF ExpansionAnswered, CallType
  <1> QED
    BY <1>1, <1>2, <1>3, <1>4, <1>5, <1>6, <1>7, <1>8, <1>9, <1>10, <1>11
    DEF HandlerAction, CallStep

\* Where whoever is asked about is alone, the owner of the scheduler has been
\* told to wait whenever a question is open: no answer to one question can
\* take back the signal of another.
THEOREM QuestionsAreSignalled ==
    ASSUME \A c \in Asked : Solo(c)
    PROVE  Spec => []WaitingIsSignalled
  <1>1. Init => WaitingIsSignalled
    BY DEF Init, NewCall, WaitingIsSignalled, At
  <1>2. ASSUME AnswerInv, WaitingIsSignalled, [Next]_vars
        PROVE  WaitingIsSignalled'
    <2> SUFFICES ASSUME NEW c \in Call, At(c, "answer")' PROVE waiting'
      BY DEF WaitingIsSignalled
    <2>1. WaveInv /\ call \in [Call -> CallType]
      BY <1>2 DEF AnswerInv, WaveInv, TypeOK
    <2>2. CASE At(c, "answer") /\ UNCHANGED waiting
      BY <1>2, <2>2 DEF WaitingIsSignalled
    <2>3. CASE LoopStep
      <3>1. At(c, "answer")
        <4>1. call'[c] = call[c] \/ TakenUp(c) \/ Started(c)
          BY <2>1, <2>3, LoopMoves
        <4> QED
          BY <2>1, <4>1 DEF TakenUp, Started, At, CallType
      <3>2. UNCHANGED waiting
        BY <2>3 DEF LoopStep, Loop, LoopTop, JoinValidation, JoinExecution,
                    Finish, Schedule, Abort, CancelAll, Done, vars
      <3> QED
        BY <2>2, <3>1, <3>2
    <2>4. CASE HandlerAction(c)
      <3>1. AskUser(c) \/ Output(c)
        BY <2>1, <2>4, HandlersAskAndStart DEF At
      <3>2. CASE AskUser(c)
        BY <3>2 DEF AskUser
      <3>3. CASE Output(c)
        BY <2>2, <3>3 DEF Output, At
      <3> QED
        BY <3>1, <3>2, <3>3
    <2>5. ASSUME NEW d \in Call \ {c}, HandlerAction(d)
          PROVE  At(c, "answer") /\ UNCHANGED waiting
      <3>1. At(c, "answer")
        BY <2>1, <2>5, HandlerMoves DEF At
      <3>2. c \in Asked
        BY <1>2, <3>1 DEF AnswerInv, AskInv, Confirmation, At
      <3>3. sm.active = {c}
        BY <1>2, <3>1, <3>2, SuspendedAlone DEF At
      <3>4. UNCHANGED waiting
        BY <2>1, <2>5, <3>3, HandlerMoves
      <3> QED
        BY <3>1, <3>4
    <2> QED
      BY <1>2, <2>2, <2>3, <2>4, <2>5, LoopOrHandler
  <1> QED
    BY <1>1, <1>2, AnswerSafety, PTL DEF Spec

-----------------------------------------------------------------------------
(* The user's edits.                                                       *)

\* updateStatus on an active call that is not already errored.
LEMMA StatusSet ==
    ASSUME sm \in StateType, NEW c \in Call, NEW v \in Status,
           sm' = UpdateStatus(sm, c, v)
    PROVE  /\ c \in sm.active => sm'.status[c] \in {v, "error"}
           /\ c \notin sm.active => sm'.status[c] = sm.status[c]
           /\ UNCHANGED <<sm.active, sm.queue>>
  BY DEF UpdateStatus, UpdateAll, StateType

\* A call that has its turn alone is the one whose tool modifies it.
LEMMA ModifiesItself ==
    ASSUME NEW c \in Call, sm.active = {c}, NEW f \in Call,
           IsFirstActive(sm, f)
    PROVE  f = c
  BY DEF IsFirstActive

\* The handler of c keeps its arguments its own, and records an edit only
\* after it has been applied.
LEMMA EditHandler ==
    ASSUME AnswerInv, NEW c \in Call, HandlerAction(c), EditInv(c),
           c \in Modifiable => Solo(c)
    PROVE  EditInv(c)'
  <1> USE DEF At
  <1>ty. /\ sm \in StateType /\ call \in [Call -> CallType]
         /\ call[c] \in CallType
         /\ ~ At(c, "idle") => c \in sm.active
    BY DEF AnswerInv, WaveInv, Waves, TurnInv, TypeOK
  <1>st. {"scheduled", "awaiting_approval", "executing", "success",
          "error", "cancelled"} \cup Terminal \subseteq Status
    BY DEF Status, Terminal
  \* The edit, if any, is already in the arguments or no longer matters.
  <1>k. ASSUME call'[c].args.of = c, call'[c].input.of = c,
               call'[c].pc \in {"inline", "editor"} => c \in Modifiable,
               call'[c].pc \notin {"hook", "policy"} \/ call'[c].answer = "none",
               call'[c].answer = "edited" =>
                  \/ call'[c].args.by = "user"
                  \/ /\ call'[c].pc \notin {"outcome", "tool", "result"}
                     /\ sm'.status[c] # "scheduled"
        PROVE  EditInv(c)'
    BY <1>k DEF EditInv
  <1>en. ASSUME NEW v \in Status \ {"scheduled"}, End(c, v), ~ At(c, "idle")
         PROVE  EditInv(c)'
    <2>1. /\ call'[c].pc = "idle" /\ call'[c].args = call[c].args
          /\ call'[c].answer = call[c].answer /\ call'[c].input = call[c].input
      BY <1>ty, <1>en DEF End, CallType
    <2>2. sm'.status[c] # "scheduled"
      BY <1>ty, <1>en, StatusSet DEF End
    <2> QED
      BY <1>k, <2>1, <2>2 DEF EditInv
  <1>1. CASE HookDone(c)
    <2>1. CASE End(c, "error")
      BY <1>1, <1>en, <1>st, <2>1 DEF HookDone
    <2>2. CASE ~ End(c, "error")
      <3> PICK asks \in BOOLEAN, by \in {call[c].input.by, "hook"} :
              call' = [call EXCEPT ![c].pc = "policy",
                                   ![c].hookAsks = asks,
                                   ![c].input.by = by,
                                   ![c].args.by = IF Replaced(c)
                                                  THEN call[c].args.by ELSE by]
        BY <1>1, <2>2 DEF HookDone
      <3>1. /\ call'[c].pc = "policy" /\ call'[c].args.of = call[c].args.of
            /\ call'[c].answer = call[c].answer
            /\ call'[c].input.of = call[c].input.of
        BY <1>ty DEF CallType, Arguments
      <3> QED
        BY <1>1, <1>k, <3>1 DEF EditInv, HookDone
    <2> QED
      BY <2>1, <2>2
  <1>2. CASE PolicyDone(c)
    <2> PICK d \in PolicyAnswers(c) :
          LET decided == [call EXCEPT ![c].decision = d]
          IN  \/ call' = [decided EXCEPT ![c].pc = "idle"]
              \/ call' = [decided EXCEPT ![c].pc = "idle",
                                         ![c].vetted = {call[c].input}]
              \/ call' = [decided EXCEPT ![c].pc = "details"]
      BY <1>2 DEF PolicyDone
    <2>1. /\ call'[c].pc \in {"idle", "details"}
          /\ call'[c].args = call[c].args /\ call'[c].answer = call[c].answer
          /\ call'[c].input = call[c].input
      BY <1>ty DEF CallType
    <2> QED
      BY <1>2, <1>k, <2>1 DEF EditInv, PolicyDone
  <1>3. CASE Unneeded(c)
    <2>1. /\ call'[c].pc = "outcome" /\ call'[c].args = call[c].args
          /\ call'[c].input = call[c].input
          /\ call'[c].answer = "unneeded"
      BY <1>ty, <1>3 DEF Unneeded, CallType
    <2> QED
      BY <1>k, <2>1 DEF EditInv
  <1>4. CASE AskUser(c)
    <2>1. /\ call'[c].pc = "answer" /\ call'[c].args = call[c].args
          /\ call'[c].input = call[c].input
          /\ call'[c].answer = call[c].answer
      BY <1>ty, <1>4 DEF AskUser, CallType
    <2>2. sm'.status[c] # "scheduled"
      BY <1>ty, <1>st, <1>4, StatusSet DEF AskUser
    <2> QED
      BY <1>k, <2>1, <2>2 DEF EditInv
  <1>5. CASE EditorDone(c)
    <2>1. PICK f \in Call, used \in BOOLEAN :
            /\ IsFirstActive(sm, f)
            /\ call' = [call EXCEPT ![c].pc = "details",
                   ![c].input = IF used THEN Modified(c, f, @) ELSE @,
                   ![c].args = IF used THEN Modified(c, f, @) ELSE @]
            /\ sm' = sm /\ At(c, "editor")
      BY <1>5 DEF EditorDone
    <2>2. f = c
      BY <2>1, ModifiesItself, SuspendedAlone DEF EditInv
    <2>3. /\ call'[c].pc = "details" /\ call'[c].answer = call[c].answer
          /\ call'[c].args \in {call[c].args, Modified(c, f, call[c].args)}
          /\ call'[c].input \in
                {call[c].input, Modified(c, f, call[c].input)}
      BY <1>ty, <2>1 DEF CallType
    <2>4. /\ \/ call'[c].args = call[c].args
             \/ /\ call'[c].args.of = call[c].input.of
                /\ call'[c].args.by = "user"
          /\ call'[c].input.of = call[c].input.of
      BY <2>2, <2>3 DEF Modified
    <2> QED
      BY <1>k, <2>1, <2>3, <2>4 DEF EditInv
  <1>6. CASE InlineDone(c)
    <2>1. PICK f \in Call :
            /\ IsFirstActive(sm, f)
            /\ sm.status[f] = "awaiting_approval"
            /\ call' = [call EXCEPT ![c].pc = "outcome",
                                    ![c].answer = "edited",
                                    ![c].input = Modified(c, f, @),
                                    ![c].args = Modified(c, f, @),
                                    ![c].vetted = {Modified(c, f, call[c].args)}]
            /\ At(c, "inline")
      BY <1>6 DEF InlineDone
    <2>2. f = c /\ c \in Modifiable
      BY <2>1, ModifiesItself, SuspendedAlone DEF EditInv
    <2>3. /\ call'[c].pc = "outcome"
          /\ call'[c].args = Modified(c, f, call[c].args)
          /\ call'[c].input = Modified(c, f, call[c].input)
      BY <1>ty, <2>1 DEF CallType
    <2>4. /\ call'[c].args.of = call[c].input.of /\ call'[c].args.by = "user"
          /\ call'[c].input.of = call[c].input.of
      BY <1>ty, <2>1, <2>2, <2>3 DEF Modified, CanUpdateArgs
    <2> QED
      BY <1>k, <2>3, <2>4 DEF EditInv
  <1>7. CASE Conclude(c)
    <2>1. /\ call'[c].pc = "idle" /\ call'[c].args = call[c].args
          /\ call'[c].answer = call[c].answer /\ At(c, "outcome")
          /\ call'[c].input = call[c].input
      BY <1>ty, <1>7 DEF Conclude, CallType
    <2> QED
      BY <1>k, <2>1 DEF EditInv
  <1>8. CASE Throw(c)
    BY <1>8, <1>en, <1>st DEF Throw, Validation
  <1>9. CASE Recorded(c)
    BY <1>9, <1>en, <1>st DEF Recorded, Terminal
  <1>10. ASSUME NEW r \in Result \ {"none"}, ToolDone(c, r)
         PROVE  EditInv(c)'
    <2>1. /\ call'[c].pc = "result" /\ call'[c].args = call[c].args
          /\ call'[c].input = call[c].input
          /\ call'[c].answer = call[c].answer /\ At(c, "tool")
      BY <1>ty, <1>10 DEF ToolDone, CallType
    <2> QED
      BY <1>k, <2>1 DEF EditInv
  <1>11. CASE TailCalled(c)
    <2>1. PICK w \in BOOLEAN : call' = [call EXCEPT ![c] = NewCall(c, "tail", w)]
      BY <1>11 DEF TailCalled
    <2>2. call'[c] = NewCall(c, "tail", w)
      BY <1>ty, <2>1
    <2>3. /\ call'[c].pc = "idle" /\ call'[c].args.of = c
          /\ call'[c].answer = "none" /\ call'[c].input.of = c
      BY <2>2 DEF NewCall
    <2> QED
      BY <1>k, <2>3
  <1>12. CASE ExpansionAsked(c)
    <2>1. CASE cur \in aborted
      BY <1>12, <1>en, <1>st, <2>1 DEF ExpansionAsked
    <2>2. CASE cur \notin aborted
      <3>1. /\ call'[c].pc = "details" /\ call'[c].args.of = call[c].input.of
            /\ call'[c].answer = call[c].answer
            /\ call'[c].input.of = call[c].input.of
        BY <1>ty, <1>12, <2>2
        DEF ExpansionAsked, WithPermissions, CallType, Arguments
      <3>2. sm'.status[c] # "scheduled"
        BY <1>ty, <1>st, <1>12, <2>2, StatusSet DEF ExpansionAsked
      <3> QED
        BY <1>k, <3>1, <3>2 DEF EditInv
    <2> QED
      BY <2>1, <2>2
  <1>13. CASE ExpansionAnswered(c)
    <2>1. CASE call[c].answer = "cancel" \/ cur \in aborted
      BY <1>13, <1>en, <1>st, <2>1 DEF ExpansionAnswered
    <2>2. CASE ~ (call[c].answer = "cancel" \/ cur \in aborted)
      <3>1. /\ call'[c].pc = "tool" /\ call'[c].args = call[c].args
            /\ call'[c].input = call[c].input
            /\ call'[c].answer = call[c].answer /\ At(c, "outcome")
        BY <1>ty, <1>13, <2>2 DEF ExpansionAnswered, CallType
      <3> QED
        BY <1>k, <3>1 DEF EditInv
    <2> QED
      BY <2>1, <2>2
  <1>14. CASE Output(c)
    <2>1. UNCHANGED call /\ sm'.status[c] \in {"executing", "error", sm.status[c]}
      BY <1>ty, <1>st, <1>14, StatusSet DEF Output
    <2> QED
      BY <2>1 DEF EditInv
  <1>15. ASSUME NEW r \in Responses, Respond(c, r)
         PROVE  EditInv(c)'
    <2>1. /\ call'[c].pc \in {"outcome", "inline", "editor"}
          /\ call'[c].pc \in {"inline", "editor"} =>
                c \in Modifiable /\ call'[c].answer = call[c].answer
          /\ call'[c].pc = "outcome" => call'[c].answer \in {"proceed", "cancel"}
          /\ call'[c].args = call[c].args /\ sm' = sm
          /\ call'[c].input = call[c].input
      BY <1>ty, <1>15 DEF Respond, CallType
    <2> QED
      BY <1>k, <2>1 DEF EditInv
  <1> QED
    BY <1>1, <1>2, <1>3, <1>4, <1>5, <1>6, <1>7, <1>8, <1>9, <1>10, <1>11,
       <1>12, <1>13, <1>14, <1>15
    DEF HandlerAction, CallStep

\* A step that is no handler's starts or leaves alone what it does not take
\* up from the queue, and that has not been edited.
LEMMA EditLoop ==
    ASSUME WaveInv, NEW c \in Call, LoopStep, EditInv(c)
    PROVE  EditInv(c)'
  <1>ty. call[c] \in CallType /\ OwnInv
    BY DEF WaveInv, Waves, TypeOK
  <1>1. call'[c] = call[c] \/ TakenUp(c) \/ Started(c)
    BY LoopMoves
  <1>2. /\ call'[c].args = call[c].args /\ call'[c].answer = call[c].answer
        /\ call'[c].input = call[c].input
        /\ \/ call'[c].pc = call[c].pc
           \/ call'[c].pc = "hook" /\ Untouched(c)
           \/ call'[c].pc = "tool" /\ sm.status[c] = "scheduled"
    BY <1>ty, <1>1 DEF TakenUp, Started, CallType
  <1>3. CASE Untouched(c)
    BY <1>2, <1>3, UntouchedCall DEF EditInv, At
  <1>4. CASE ~ Untouched(c)
    <2>1. c \notin ToSet(sm.queue)
      BY <1>ty, <1>4 DEF OwnInv
    <2>2. \A b \in Batch : c \in BatchSet(b) => ~ InLine(b)
      BY <1>ty, <1>4, AsAsked DEF OwnInv
    <2>3. sm'.status[c] = "scheduled" => sm.status[c] = "scheduled"
      BY <2>1, <2>2, LoopMoves
    <2> QED
      BY <1>2, <1>4, <2>3 DEF EditInv
  <1> QED
    BY <1>3, <1>4

\* Where whatever the user can edit is alone, an edit reaches the call it was
\* made for, and a call runs with its own arguments only.
THEOREM EditsReachTheirCall ==
    ASSUME \A c \in Modifiable \cap Call : Solo(c)
    PROVE  Spec => []EditsStayWithTheirCall
  <1> DEFINE Edits == \A c \in Call : EditInv(c)
  <1>1. Init => Edits
    <2> SUFFICES ASSUME Init, NEW c \in Call PROVE EditInv(c)
      OBVIOUS
    <2>1. /\ call[c].args.of = c /\ call[c].pc = "idle"
          /\ call[c].input.of = c
          /\ call[c].answer = "none"
      BY DEF Init, NewCall
    <2> QED
      BY <2>1 DEF EditInv
  <1>2. ASSUME AnswerInv, Edits, [Next]_vars
        PROVE  Edits'
    <2> SUFFICES ASSUME NEW c \in Call PROVE EditInv(c)'
      OBVIOUS
    <2>1. WaveInv /\ EditInv(c)
      BY <1>2 DEF AnswerInv
    <2>2. CASE LoopStep
      BY <2>1, <2>2, EditLoop
    <2>3. CASE HandlerAction(c)
      BY <1>2, <2>1, <2>3, EditHandler
    <2>4. ASSUME NEW d \in Call \ {c}, HandlerAction(d)
          PROVE  EditInv(c)'
      <3>1. call'[c] = call[c]
        BY <2>1, <2>4, HandlerMoves
      <3>2. sm'.status[c] = "scheduled" =>
                sm.status[c] = "scheduled" \/ c \in ToSet(sm.queue)
        BY <2>1, <2>4, HandlerMoves
      <3>3. c \in ToSet(sm.queue) => call[c].answer = "none"
        BY <2>1, UntouchedCall DEF WaveInv, Waves, OwnInv
      <3> QED
        BY <2>1, <3>1, <3>2, <3>3 DEF EditInv
    <2> QED
      BY <1>2, <2>2, <2>3, <2>4, LoopOrHandler
  <1>3. AnswerInv /\ Edits => EditsStayWithTheirCall
    BY DEF EditInv, EditsStayWithTheirCall, At
  <1> HIDE DEF Edits
  <1> QED
    BY <1>1, <1>2, <1>3, AnswerSafety, PTL DEF Spec

-----------------------------------------------------------------------------
(* Cancellation.                                                           *)

\* The line only shortens, a batch gets its turn from it, and an aborted
\* batch stays so.
LEMMA LineShortens ==
    ASSUME WaveInv, LoopStep \/ \E c \in Call : HandlerAction(c)
    PROVE  /\ \A b \in Batch : InLine(b)' => InLine(b)
           /\ \A b \in Batch : cur' = b => cur = b \/ InLine(b)
           /\ aborted \subseteq aborted'
           /\ ~ CancelAll => UNCHANGED struck
  <1>ty. /\ TypeOK /\ QueueInv /\ cur \in Batch \cup {None}
         /\ request \in [Batch -> {"new", "queued", "running", "resolved",
                                   "rejected"}]
         /\ requestQueue \in Seq(Batch)
    BY DEF WaveInv, TypeOK
  <1>1. CASE LoopTop \/ JoinValidation \/ JoinExecution \/ Done
             \/ UNCHANGED vars
    BY <1>1 DEF LoopTop, JoinValidation, JoinExecution, Done, vars, InLine
  <1>2. CASE Finish
    <2> DEFINE settled == [request EXCEPT ![cur] = "resolved"]
    <2>1. /\ NextInRequestQueue(settled) /\ UNCHANGED <<aborted, struck>>
          /\ ~ CancelAll \/ UNCHANGED struck
      BY <1>2 DEF Finish
    <2>2. \A b \in Batch : settled[b] \in {"new", "queued"} => InLine(b)
      BY <1>ty DEF InLine
    <2>3. settled \in [Batch -> {"new", "queued", "running", "resolved",
                                 "rejected"}]
      BY <1>ty
    <2> HIDE DEF settled
    <2>4. CASE requestQueue # << >> /\ sm.active = {}
      <3> DEFINE h == Head(requestQueue)
      <3>1. h \in Batch /\ h \in ToSet(requestQueue)
        BY <1>ty, <2>4 DEF ToSet
      <3>2. InLine(h)
        BY <1>ty, <3>1 DEF QueueInv, InLine
      <3>3. cur' = h /\ request' = [settled EXCEPT ![h] = "running"]
        BY <2>1, <2>4 DEF NextInRequestQueue, StartBatch
      <3> HIDE DEF h
      <3>4. \A b \in Batch : InLine(b)' => InLine(b)
        BY <2>2, <2>3, <3>1, <3>3 DEF InLine
      <3> QED
        BY <2>1, <3>2, <3>3, <3>4
    <2>5. CASE ~ (requestQueue # << >> /\ sm.active = {})
      <3>1. cur' = None /\ request' = settled
        BY <2>1, <2>5 DEF NextInRequestQueue
      <3> QED
        BY <2>1, <2>2, <3>1, BatchAssumption DEF InLine
    <2> QED
      BY <2>4, <2>5
  <1>3. ASSUME NEW b \in Batch, Schedule(b)
        PROVE  /\ \A a \in Batch : InLine(a)' => InLine(a)
               /\ \A a \in Batch : cur' = a => cur = a \/ InLine(a)
               /\ UNCHANGED <<aborted, struck>>
    BY <1>ty, <1>3 DEF Schedule, StartBatch, InLine
  <1>4. ASSUME NEW b \in Batch, Abort(b)
        PROVE  /\ \A a \in Batch : InLine(a)' => InLine(a)
               /\ UNCHANGED <<cur, struck>> /\ aborted \subseteq aborted'
    BY <1>ty, <1>4 DEF Abort, InLine
  <1>5. CASE CancelAll
    BY <1>ty, <1>5 DEF CancelAll, InLine
  <1>6. ASSUME NEW c \in Call, HandlerAction(c)
        PROVE  UNCHANGED <<request, cur, aborted, struck>>
    BY <1>ty, <1>6, HandlerHasEffect DEF CallUnchanged
  <1> QED
    BY <1>1, <1>2, <1>3, <1>4, <1>5, <1>6 DEF LoopStep, Loop, InLine

\* cancelAll strikes calls of the current batch, or that print on when there
\* is none.
LEMMA StruckNext ==
    ASSUME CancelFiresAbort, WaveInv, StruckInv, [Next]_vars
    PROVE  StruckInv'
  <1> SUFFICES ASSUME NEW c \in struck', NEW b \in Batch, c \in BatchSet(b)
               PROVE  ~ InLine(b)' /\ (cur' = b => b \in aborted')
    BY DEF StruckInv, BatchSet
  <1>1. /\ InLine(b)' => InLine(b)
        /\ cur' = b => cur = b \/ InLine(b)
        /\ aborted \subseteq aborted'
        /\ ~ CancelAll => UNCHANGED struck
    BY LineShortens, LoopOrHandler
  <1>2. CASE c \in struck
    BY <1>1, <1>2 DEF StruckInv
  <1>3. CASE c \notin struck
    <2>1. CancelAll
      BY <1>1, <1>3
    <2>2. c \in Held(sm) /\ UNCHANGED cur
      BY <1>3, <2>1 DEF CancelAll, Held, Pending
    <2>3. OwnInv
      BY DEF WaveInv, Waves
    <2>4. ~ InLine(b)
      BY <2>2, <2>3 DEF OwnInv
    <2>5. cur = b => cur # None
      BY BatchAssumption
    <2>6. cur = b => b \in aborted'
      BY <2>1, <2>5 DEF CancelAll
    <2> QED
      BY <1>1, <2>2, <2>4, <2>6
  <1> QED
    BY <1>2, <1>3

\* Where whoever cancels everything also aborts the batch in progress, no
\* tool starts, or starts again, once its call was cancelled.
THEOREM CancelledCallsStayStopped ==
    ASSUME CancelFiresAbort
    PROVE  Spec => NoStartAfterCancel
  <1> DEFINE Step == \A c \in Call : ~ At(c, "tool") /\ At(c, "tool")' =>
                        cur \notin aborted /\ c \notin struck
  <1>1. Init => StruckInv
    BY DEF Init, StruckInv
  <1>2. WaveInv /\ StruckInv /\ [Next]_vars => StruckInv'
    BY StruckNext
  <1>3. ASSUME WaveInv, StruckInv, [Next]_vars
        PROVE  Step
    <2> SUFFICES ASSUME NEW c \in Call, ~ At(c, "tool"), At(c, "tool")'
                 PROVE  cur \notin aborted /\ c \notin struck
      OBVIOUS
    <2>ty. /\ call \in [Call -> CallType] /\ cur \in Batch \cup {None}
           /\ OwnInv /\ RoundInv /\ TurnInv(c)
      BY <1>3 DEF WaveInv, Waves, TypeOK
    <2>1. /\ cur \notin aborted /\ c \in sm.active
          /\ phase \in {"validating", "executing"}
      <3>1. CASE LoopStep
        <4>1. Started(c)
          BY <1>3, <2>ty, <3>1, LoopMoves DEF TakenUp, At, CallType
        <4> QED
          BY <4>1 DEF Started, JoinValidation
      <3>2. ASSUME NEW d \in Call \ {c}, HandlerAction(d)
            PROVE  FALSE
        BY <1>3, <3>2, HandlerMoves DEF At
      <3>3. CASE HandlerAction(c)
        <4>1. ExpansionAnswered(c) /\ cur \notin aborted
          BY <2>ty, <3>3, HandlersAskAndStart DEF At, Output
        <4>2. ~ At(c, "idle")
          BY <4>1 DEF ExpansionAnswered, At
        <4> QED
          BY <2>ty, <4>1, <4>2 DEF TurnInv
      <3> QED
        BY <1>3, <3>1, <3>2, <3>3, LoopOrHandler
    <2>2. cur # None /\ cur \in Batch /\ c \in BatchSet(cur)
      BY <2>ty, <2>1 DEF RoundInv, OwnInv, Held
    <2> QED
      BY <1>3, <2>1, <2>2 DEF StruckInv
  <1>4. [][Step]_vars => NoStartAfterCancel
    BY PTL DEF NoStartAfterCancel
  <1> HIDE DEF Step
  <1> QED
    BY <1>1, <1>2, <1>3, <1>4, WaveSafety, PTL DEF Spec

\* While the tool of a call runs, what it was given stays as it is.
LEMMA RunningKeepsArguments ==
    ASSUME WaveInv, [Next]_vars, NEW c \in Call, At(c, "tool"), At(c, "tool")'
    PROVE  call'[c] = call[c]
  <1>ty. call \in [Call -> CallType]
    BY DEF WaveInv, Waves, TypeOK
  <1>1. CASE LoopStep
    <2>1. call'[c] = call[c] \/ TakenUp(c) \/ Started(c)
      BY <1>1, LoopMoves
    <2> QED
      BY <1>ty, <2>1 DEF TakenUp, Started, At, CallType
  <1>2. ASSUME NEW d \in Call \ {c}, HandlerAction(d)
        PROVE  call'[c] = call[c]
    BY <1>2, HandlerMoves
  <1>3. CASE HandlerAction(c)
    BY <1>ty, <1>3, HandlersAskAndStart
    DEF At, Output, AskUser, ExpansionAnswered
  <1> QED
    BY <1>1, <1>2, <1>3, LoopOrHandler

\* Where whoever cancels everything also aborts the batch in progress, a tool
\* runs only with arguments that the policy engine allowed, the tool exempted,
\* or the user saw or wrote, whatever the hooks, the editor, the sandbox and
\* the tools that tail-call do.  Without the abort the policy engine may see
\* the arguments of a hook and the tool run those that the hook replaced.
THEOREM VettedArguments ==
    ASSUME CancelFiresAbort
    PROVE  Spec => []RunsVettedArguments
  <1> DEFINE Step == \A c \in Call : ~ At(c, "tool") /\ At(c, "tool")' =>
                        cur \notin aborted /\ c \notin struck
  <1>1. Init => RunsVettedArguments
    BY DEF Init, NewCall, RunsVettedArguments, At
  <1>2. ASSUME WaveInv, SafeInv', RunsVettedArguments, [Next]_vars, [Step]_vars
        PROVE  RunsVettedArguments'
    <2> SUFFICES ASSUME NEW c \in Call, At(c, "tool")'
                 PROVE  call'[c].args \in call'[c].vetted
      BY DEF RunsVettedArguments, At
    <2>1. CASE At(c, "tool")
      BY <1>2, <2>1, RunningKeepsArguments DEF RunsVettedArguments
    <2>2. CASE ~ At(c, "tool")
      <3>1. c \notin struck
        BY <1>2, <2>2 DEF vars, At
      <3>2. ~ CancelAll
        BY <2>2 DEF CancelAll, At
      <3>3. struck' = struck
        BY <1>2, <3>2, LineShortens, LoopOrHandler
      <3>4. VettedCall(c)' /\ Trusted(c)'
        BY <1>2 DEF SafeInv, SafeCall, Trusted
      <3> QED
        BY <3>1, <3>3, <3>4 DEF VettedCall
    <2> QED
      BY <2>1, <2>2
  <1>3. NoStartAfterCancel => [][Step]_vars
    BY PTL DEF NoStartAfterCancel
  <1> HIDE DEF Step
  <1> QED
    BY <1>1, <1>2, <1>3, CancelledCallsStayStopped, WaveSafety, Safety, PTL
    DEF Spec

-----------------------------------------------------------------------------
(* Refusals.                                                               *)

\* While a handler is suspended the loop waits for it.
LEMMA LoopWaits ==
    ASSUME WaveInv, LoopStep, NEW c \in Call, ~ At(c, "idle")
    PROVE  /\ \/ UNCHANGED sm
              \/ sm'.queue = << >> /\ sm'.active = sm.active
           /\ UNCHANGED cur /\ aborted \subseteq aborted'
  <1>1. /\ phase \in {"validating", "executing"} /\ cur # None
        /\ sm \in StateType
    BY DEF WaveInv, Waves, TurnInv, RoundInv, TypeOK
  <1>2. ~ AllIdle
    BY DEF AllIdle, At
  <1>3. ~ Loop
    BY <1>1, <1>2 DEF Loop, LoopTop, JoinValidation, JoinExecution, Finish
  <1>4. CASE CancelAll
    <2> DEFINE s == UpdateAll(sm, Pending(sm), "cancelled")
    <2>1. s \in StateType /\ s.active = sm.active
      BY <1>1, UpdateAllType DEF UpdateAll, StateType, Status
    <2>2. sm' = CancelAllQueued(s)
      BY <1>4 DEF CancelAll
    <2> HIDE DEF s
    <2>3. sm'.queue = << >> /\ sm'.active = sm.active
      BY <2>1, <2>2 DEF CancelAllQueued, StateType
    <2> QED
      BY <1>4, <2>3 DEF CancelAll
  <1>5. ASSUME NEW b \in Batch, Schedule(b)
        PROVE  UNCHANGED <<sm, cur, aborted>>
    BY <1>1, <1>5 DEF Schedule
  <1>6. ASSUME NEW b \in Batch, Abort(b)
        PROVE  UNCHANGED <<sm, cur>> /\ aborted \subseteq aborted'
    BY <1>6 DEF Abort
  <1> QED
    BY <1>3, <1>4, <1>5, <1>6 DEF LoopStep, Done, vars

\* Once the queue is dropped, or will be, no call becomes active.
LEMMA LoopTakesUpNone ==
    ASSUME WaveInv, LoopStep, cur' = cur, cur # None,
           sm.queue = << >> \/ cur \in aborted
    PROVE  /\ sm'.active \subseteq sm.active
           /\ sm.queue = << >> => sm'.queue = << >>
  <1>ty. /\ sm \in StateType /\ Lined(sm) /\ QueueInv
         /\ cur \in Batch /\ requestQueue \in Seq(Batch)
    BY DEF WaveInv, Waves, TypeOK
  <1> DEFINE Goal == /\ sm'.active \subseteq sm.active
                     /\ sm.queue = << >> => sm'.queue = << >>
  <1>l. ASSUME NEW t, Lessened(sm, t), sm' = t PROVE Goal
    BY <1>l DEF Lessened
  <1>1. CASE LoopTop
    <2>1. Iterate(sm, cur \in aborted \/ cancelling)
      BY <1>1 DEF LoopTop
    <2>2. CASE sm' = sm
      BY <2>2
    <2>3. CASE sm' = CancelAllQueued(sm)
      BY <1>ty, <1>l, <2>3, OperatorsLessen
    <2> QED
      BY <2>1, <2>2, <2>3 DEF Iterate, LeaveLoop, Validate
  <1>2. CASE JoinValidation \/ JoinExecution
    <2>1. \/ sm' = FinalizeEnded(sm)
          \/ \E C, v : sm' = UpdateAll(sm, C, v)
      BY <1>2 DEF JoinValidation, JoinExecution, EndIteration, Execute, Start
    <2> QED
      BY <1>ty, <1>l, <2>1, OperatorsLessen
  <1>3. CASE Finish
    <2>1. ~ InLine(cur)
      BY <1>ty DEF QueueInv, InLine
    <2>2. NextInRequestQueue([request EXCEPT ![cur] = "resolved"])
      BY <1>3 DEF Finish
    <2>3. requestQueue # << >> /\ cur' = Head(requestQueue)
      BY <2>2 DEF NextInRequestQueue, StartBatch
    <2>4. Head(requestQueue) \in ToSet(requestQueue)
      BY <1>ty, <2>3 DEF ToSet
    <2> QED
      BY <1>ty, <2>1, <2>3, <2>4 DEF QueueInv, InLine
  <1>4. ASSUME NEW b \in Batch, Schedule(b) PROVE UNCHANGED sm
    BY <1>4 DEF Schedule
  <1>5. CASE CancelAll
    <2> DEFINE s == UpdateAll(sm, Pending(sm), "cancelled")
    <2>1. s \in StateType /\ s.active = sm.active
      BY <1>ty, UpdateAllType DEF UpdateAll, StateType, Status
    <2>2. sm' = CancelAllQueued(s)
      BY <1>5 DEF CancelAll
    <2> HIDE DEF s
    <2> QED
      BY <2>1, <2>2 DEF CancelAllQueued, StateType
  <1> QED
    BY <1>1, <1>2, <1>3, <1>4, <1>5 DEF LoopStep, Loop, Abort, Done, vars

LEMMA DenialLoop ==
    ASSUME AnswerInv, NEW c \in Call, LoopStep, DenialInv(c),
           c \in Asked => Solo(c)
    PROVE  DenialInv(c)'
  <1> USE DEF At
  <1>ty. /\ WaveInv /\ OwnInv /\ TurnInv(c) /\ AskInv(c)
         /\ call[c] \in CallType
         /\ cur \in Batch \cup {None}
    BY DEF AnswerInv, WaveInv, Waves, TypeOK
  <1>1. call'[c] = call[c] \/ TakenUp(c) \/ Started(c)
    BY <1>ty, LoopMoves
  \* A refused call is no longer queued, nor of a batch in line.
  <1>2. ASSUME call'[c].answer = "cancel"
        PROVE  /\ call'[c] = call[c]
               /\ \A b \in Batch : c \in BatchSet(b) => ~ InLine(b)
               /\ c \in sm'.active => c \in sm.active
               /\ \/ sm'.status[c] = sm.status[c]
                  \/ /\ CancelAll /\ c \in Pending(sm)
                     /\ sm'.status[c] = "cancelled"
    <2>1. call[c].answer = "cancel"
      BY <1>ty, <1>1, <1>2 DEF TakenUp, Started, CallType
    <2>2. ~ Untouched(c)
      BY <2>1, UntouchedCall
    <2>3. c \notin ToSet(sm.queue)
      BY <1>ty, <2>2 DEF OwnInv
    <2>4. \A b \in Batch : c \in BatchSet(b) => ~ InLine(b)
      BY <1>ty, <2>2, AsAsked DEF OwnInv
    <2>5. c \in sm.active => sm.status[c] # "scheduled"
      <3>1. ~ At(c, "idle") => sm.status[c] # "scheduled"
        BY DEF AnswerInv, SafeInv, SafeCall, VettedCall
      <3> QED
        BY <2>1, <3>1 DEF DenialInv
    <2>6. call'[c] = call[c]
      BY <1>1, <2>2, <2>5 DEF TakenUp, Started
    <2> QED
      BY <1>ty, <2>3, <2>4, <2>5, <2>6, LoopMoves
  <1>3. call'[c].answer = "cancel" =>
          /\ call'[c].pc \in {"outcome", "idle"} /\ ~ call'[c].noisy
          /\ At(c, "idle")' /\ c \in sm'.active =>
                sm'.status[c] \in {"cancelled", "error"}
    BY <1>2 DEF DenialInv
  <1>4. ASSUME c \in Asked, ~ At(c, "idle")', sm'.status[c] = "cancelled"
        PROVE  sm'.queue = << >>
    <2>1. ~ At(c, "idle")
      BY <1>1, <1>4 DEF TakenUp, Started
    <2> QED
      BY <1>4, <1>ty, <2>1, LoopWaits DEF DenialInv
  <1>5. ASSUME cur' # None, c \in BatchSet(cur'),
               call'[c].answer = "cancel", sm'.status[c] = "cancelled"
        PROVE  /\ sm'.active \subseteq {c}
               /\ sm'.queue = << >> \/ cur' \in aborted'
    <2>1. cur' = cur /\ cur # None /\ aborted \subseteq aborted'
      <3>1. cur' \in Batch
        BY <1>5, <1>ty, WaveNext, LoopOrHandler DEF WaveInv, TypeOK
      <3> QED
        BY <1>2, <1>5, <1>ty, <3>1, LineShortens
    <2>2. CASE sm.status[c] = "cancelled"
      <3>1. /\ sm.active \subseteq {c}
            /\ sm.queue = << >> \/ cur \in aborted
        BY <1>2, <1>5, <2>1, <2>2 DEF DenialInv
      <3> QED
        BY <1>ty, <2>1, <3>1, LoopTakesUpNone
    <2>3. CASE sm.status[c] # "cancelled"
      <3>1. CancelAll /\ c \in Pending(sm)
        BY <1>2, <1>5, <2>3
      <3>2. c \in sm.active /\ sm.status[c] \notin Terminal
        BY <3>1 DEF Pending, Ended
      <3>3. call[c].pc = "outcome"
        BY <1>2, <1>5, <3>2 DEF DenialInv, Terminal
      <3>4. sm.active = {c}
        BY <1>ty, <3>3, SuspendedAlone DEF AskInv, Confirmation
      <3>5. sm'.queue = << >>
        BY <3>1 DEF CancelAll, CancelAllQueued, UpdateAll
      <3>6. sm'.active = sm.active
        BY <1>ty, <3>3, LoopWaits
      <3> QED
        BY <3>4, <3>5, <3>6
    <2> QED
      BY <2>2, <2>3
  <1>6. BatchSet(cur)' = BatchSet(cur')
    BY DEF BatchSet
  <1>7. Asked' = Asked
    BY DEF Asked, PolicyAnswers
  <1> QED
    BY <1>3, <1>4, <1>5, <1>6, <1>7 DEF DenialInv

LEMMA DenialHandler ==
    ASSUME AnswerInv, NEW c \in Call, HandlerAction(c), DenialInv(c),
           c \in Asked => Solo(c)
    PROVE  DenialInv(c)'
  <1> USE DEF At
  <1>ty. /\ sm \in StateType /\ call \in [Call -> CallType]
         /\ call[c] \in CallType /\ Lined(sm)
         /\ ~ At(c, "idle") => c \in sm.active
         /\ call[c].noisy => call[c].pc \in {"idle", "result"}
         /\ UNCHANGED <<cur, aborted>>
    BY HandlerMoves DEF AnswerInv, WaveInv, Waves, TurnInv, TypeOK
  <1>st. {"scheduled", "awaiting_approval", "executing", "success",
          "error", "cancelled"} \cup Terminal \subseteq Status
    BY DEF Status, Terminal
  <1>al. call[c].pc \in Confirmation => c \in Asked /\ sm.active = {c}
    BY SuspendedAlone DEF AnswerInv, AskInv, Confirmation
  <1>eq. BatchSet(cur)' = BatchSet(cur) /\ Asked' = Asked
    BY <1>ty DEF BatchSet, Asked, PolicyAnswers
  \* It has not been refused, and a status that cancelAll has set stays
  \* or the handler returns.
  <1>k. ASSUME call'[c].answer # "cancel",
               \/ At(c, "idle")'
               \/ UNCHANGED sm /\ ~ At(c, "idle")
               \/ sm'.status[c] # "cancelled"
        PROVE  DenialInv(c)'
    BY <1>k, <1>eq DEF DenialInv
  <1>no. call[c].pc \notin {"outcome", "idle"} => call[c].answer # "cancel"
    BY DEF DenialInv
  <1>en. ASSUME NEW v \in Status, End(c, v), ~ At(c, "idle")
         PROVE  /\ call'[c].pc = "idle" /\ call'[c].answer = call[c].answer
                /\ call'[c].noisy = call[c].noisy
                /\ sm'.status[c] \in {v, "error"}
                /\ UNCHANGED <<sm.active, sm.queue>>
    BY <1>ty, <1>en, StatusSet DEF End, CallType
  <1>1. CASE HookDone(c)
    <2>1. CASE End(c, "error")
      BY <1>1, <1>en, <1>st, <1>k, <1>no, <2>1 DEF HookDone
    <2>2. CASE ~ End(c, "error")
      <3> PICK asks \in BOOLEAN, by \in {call[c].input.by, "hook"} :
              call' = [call EXCEPT ![c].pc = "policy",
                                   ![c].hookAsks = asks,
                                   ![c].input.by = by,
                                   ![c].args.by = IF Replaced(c)
                                                  THEN call[c].args.by ELSE by]
        BY <1>1, <2>2 DEF HookDone
      <3>1. call'[c].answer = call[c].answer
        BY <1>ty DEF CallType
      <3> QED
        BY <1>1, <1>k, <1>no, <2>2, <3>1 DEF HookDone
    <2> QED
      BY <2>1, <2>2
  <1>2. CASE PolicyDone(c)
    <2> PICK d \in PolicyAnswers(c) :
          LET decided == [call EXCEPT ![c].decision = d]
          IN  \/ call' = [decided EXCEPT ![c].pc = "idle"]
              \/ call' = [decided EXCEPT ![c].pc = "idle",
                                         ![c].vetted = {call[c].input}]
              \/ call' = [decided EXCEPT ![c].pc = "details"] /\ UNCHANGED sm
      BY <1>2 DEF PolicyDone
    <2>1. /\ call'[c].answer = call[c].answer
          /\ call'[c].pc = "idle" \/ UNCHANGED sm
      BY <1>ty DEF CallType
    <2> QED
      BY <1>2, <1>k, <1>no, <2>1 DEF PolicyDone
  <1>3. CASE Unneeded(c)
    <2>1. call'[c].answer = "unneeded" /\ UNCHANGED sm /\ ~ At(c, "idle")
      BY <1>ty, <1>3 DEF Unneeded, CallType
    <2> QED
      BY <1>k, <2>1
  <1>4. CASE AskUser(c)
    <2>1. call'[c].answer = call[c].answer /\ At(c, "details")
      BY <1>ty, <1>4 DEF AskUser, CallType
    <2>2. sm'.status[c] # "cancelled"
      BY <1>ty, <1>st, <1>4, StatusSet DEF AskUser
    <2> QED
      BY <1>k, <1>no, <2>1, <2>2
  <1>5. CASE EditorDone(c)
    <2> PICK f \in Call, used \in BOOLEAN :
            call' = [call EXCEPT ![c].pc = "details",
                       ![c].input = IF used THEN Modified(c, f, @) ELSE @,
                       ![c].args = IF used THEN Modified(c, f, @) ELSE @]
      BY <1>5 DEF EditorDone
    <2>1. call'[c].answer = call[c].answer
      BY <1>ty DEF CallType
    <2> QED
      BY <1>5, <1>k, <1>no, <2>1 DEF EditorDone
  <1>6. CASE InlineDone(c)
    <2> PICK f \in Call :
            call' = [call EXCEPT ![c].pc = "outcome",
                                 ![c].answer = "edited",
                                 ![c].input = Modified(c, f, @),
                                 ![c].args = Modified(c, f, @),
                                 ![c].vetted = {Modified(c, f, call[c].args)}]
      BY <1>6 DEF InlineDone
    <2>1. call'[c].answer = "edited"
      BY <1>ty DEF CallType
    <2> QED
      BY <1>6, <1>k, <2>1 DEF InlineDone
  <1>7. CASE Conclude(c)
    <2>1. /\ call'[c].pc = "idle" /\ call'[c].answer = call[c].answer
          /\ call'[c].noisy = call[c].noisy
          /\ At(c, "outcome")
      BY <1>ty, <1>7 DEF Conclude, CallType
    <2>2. CASE call[c].answer # "cancel"
      BY <1>k, <2>1, <2>2
    <2>3. CASE call[c].answer = "cancel"
      <3> DEFINE s == UpdateStatus(sm, c, "cancelled")
      <3>1. /\ s \in StateType
            /\ s.active = sm.active /\ s.queue = sm.queue
            /\ s.status[c] \in {"cancelled", "error"}
        BY <1>ty, <1>st, <2>1, UpdateAllType
        DEF UpdateStatus, UpdateAll, StateType
      <3>2. sm' = CancelAllQueued(s)
        BY <1>7, <2>3 DEF Conclude
      <3> HIDE DEF s
      <3>3. /\ sm'.active = sm.active /\ sm'.queue = << >>
            /\ sm'.status[c] \in {"cancelled", "error"}
        BY <3>1, <3>2 DEF CancelAllQueued, StateType
      <3>4. ~ call[c].noisy /\ sm.active = {c}
        BY <1>ty, <1>al, <2>1 DEF Confirmation
      <3> QED
        BY <2>1, <3>3, <3>4 DEF DenialInv
    <2> QED
      BY <2>2, <2>3
  <1>8. CASE Throw(c)
    <2>1. PICK v \in {"error", "cancelled"} :
            /\ End(c, v) /\ ~ At(c, "idle")
            /\ v = "cancelled" /\ At(c, "outcome") => cur \in aborted
      BY <1>8 DEF Throw, Validation
    <2>2. /\ call'[c].pc = "idle" /\ call'[c].answer = call[c].answer
          /\ call'[c].noisy = call[c].noisy
          /\ sm'.status[c] \in {v, "error"}
          /\ UNCHANGED <<sm.active, sm.queue>>
      BY <1>en, <1>st, <2>1
    <2>3. CASE call[c].answer # "cancel"
      BY <1>k, <2>2, <2>3
    <2>4. CASE call[c].answer = "cancel"
      <3>1. At(c, "outcome")
        BY <1>no, <2>1, <2>4
      <3>2. ~ call[c].noisy /\ sm.active = {c}
        BY <1>ty, <1>al, <3>1 DEF Confirmation
      <3>3. sm'.status[c] = "cancelled" => cur \in aborted
        BY <2>1, <2>2, <3>1
      <3> QED
        BY <1>ty, <2>1, <2>2, <3>2, <3>3 DEF DenialInv
    <2> QED
      BY <2>3, <2>4
  <1>9. CASE Recorded(c)
    BY <1>9, <1>en, <1>st, <1>k, <1>no DEF Recorded
  <1>10. ASSUME NEW r \in Result \ {"none"}, ToolDone(c, r)
         PROVE  DenialInv(c)'
    <2>1. call'[c].answer = call[c].answer /\ UNCHANGED sm /\ At(c, "tool")
      BY <1>ty, <1>10 DEF ToolDone, CallType
    <2> QED
      BY <1>k, <1>no, <2>1
  <1>11. CASE TailCalled(c)
    <2>1. PICK w \in BOOLEAN : call' = [call EXCEPT ![c] = NewCall(c, "tail", w)]
      BY <1>11 DEF TailCalled
    <2>2. call'[c] = NewCall(c, "tail", w)
      BY <1>ty, <2>1
    <2>3. call'[c].pc = "idle" /\ call'[c].answer = "none"
      BY <2>2 DEF NewCall
    <2> QED
      BY <1>k, <2>3
  <1>12. CASE ExpansionAsked(c)
    <2>1. CASE cur \in aborted
      BY <1>12, <1>en, <1>st, <1>k, <1>no, <2>1 DEF ExpansionAsked
    <2>2. CASE cur \notin aborted
      <3>1. call'[c].answer = call[c].answer /\ At(c, "result")
        BY <1>ty, <1>12, <2>2 DEF ExpansionAsked, CallType
      <3>2. sm'.status[c] # "cancelled"
        BY <1>ty, <1>st, <1>12, <2>2, StatusSet DEF ExpansionAsked
      <3> QED
        BY <1>k, <1>no, <3>1, <3>2
    <2> QED
      BY <2>1, <2>2
  <1>13. CASE ExpansionAnswered(c)
    <2>1. At(c, "outcome") /\ ~ call[c].noisy
      BY <1>ty, <1>13 DEF ExpansionAnswered
    <2>2. CASE call[c].answer = "cancel"
      <3>1. End(c, "error")
        BY <1>13, <2>2 DEF ExpansionAnswered
      <3>2. /\ call'[c].pc = "idle" /\ call'[c].noisy = call[c].noisy
            /\ sm'.status[c] = "error"
        BY <1>en, <1>st, <2>1, <3>1
      <3> QED
        BY <2>1, <3>2 DEF DenialInv
    <2>3. CASE call[c].answer # "cancel" /\ cur \in aborted
      BY <1>13, <1>en, <1>st, <1>k, <2>1, <2>3 DEF ExpansionAnswered
    <2>4. CASE call[c].answer # "cancel" /\ cur \notin aborted
      <3>1. call'[c].answer = call[c].answer
        BY <1>ty, <1>13, <2>4 DEF ExpansionAnswered, CallType
      <3>2. sm'.status[c] # "cancelled"
        BY <1>ty, <1>st, <1>13, <2>1, <2>4, StatusSet DEF ExpansionAnswered
      <3> QED
        BY <1>k, <2>4, <3>1, <3>2
    <2> QED
      BY <2>2, <2>3, <2>4
  <1>14. CASE Output(c)
    <2>1. call' = call /\ call[c].answer # "cancel"
      BY <1>14, <1>no DEF Output, DenialInv
    <2>2. CASE c \in sm.active
      <3>1. sm'.status[c] # "cancelled"
        BY <1>ty, <1>st, <1>14, <2>2, StatusSet DEF Output
      <3> QED
        BY <1>k, <2>1, <3>1
    <2>3. CASE c \notin sm.active
      BY <1>k, <1>ty, <2>1, <2>3
    <2> QED
      BY <2>2, <2>3
  <1>15. ASSUME NEW r \in Responses, Respond(c, r)
         PROVE  DenialInv(c)'
    <2>1. /\ UNCHANGED sm /\ At(c, "answer")
          /\ call'[c].noisy = call[c].noisy
          /\ \/ call'[c].answer \in {"proceed", call[c].answer}
             \/ call'[c].answer = "cancel" /\ call'[c].pc = "outcome"
      BY <1>ty, <1>15 DEF Respond, CallType
    <2>2. CASE call'[c].answer # "cancel"
      BY <1>k, <2>1, <2>2
    <2>3. CASE call'[c].answer = "cancel"
      <3>1. call'[c].pc = "outcome" /\ ~ call'[c].noisy
        BY <1>no, <1>ty, <2>1, <2>3
      <3>2. c \in Asked /\ sm.active = {c}
        BY <1>al, <2>1 DEF Confirmation
      <3>3. sm.status[c] = "cancelled" => sm.queue = << >>
        BY <2>1, <3>2 DEF DenialInv
      <3> QED
        BY <2>1, <3>1, <3>2, <3>3 DEF DenialInv
    <2> QED
      BY <2>2, <2>3
  <1> QED
    BY <1>1, <1>2, <1>3, <1>4, <1>5, <1>6, <1>7, <1>8, <1>9, <1>10, <1>11,
       <1>12, <1>13, <1>14, <1>15
    DEF HandlerAction, CallStep

\* Where whoever is asked about is alone, a refusal stops the whole batch.
THEOREM RefusalsCascade ==
    ASSUME \A c \in Asked : Solo(c)
    PROVE  Spec => []DenialCascades
  <1> DEFINE Refusals == \A c \in Call : DenialInv(c)
  <1>1. Init => Refusals
    <2> SUFFICES ASSUME Init, NEW c \in Call PROVE DenialInv(c)
      OBVIOUS
    <2>1. call[c].pc = "idle" /\ call[c].answer = "none"
      BY DEF Init, NewCall
    <2> QED
      BY <2>1 DEF DenialInv, At
  <1>2. ASSUME AnswerInv, Refusals, [Next]_vars
        PROVE  Refusals'
    <2> SUFFICES ASSUME NEW c \in Call PROVE DenialInv(c)'
      OBVIOUS
    <2>1. WaveInv /\ DenialInv(c)
      BY <1>2 DEF AnswerInv
    <2>2. CASE LoopStep
      BY <1>2, <2>1, <2>2, DenialLoop
    <2>3. CASE HandlerAction(c)
      BY <1>2, <2>1, <2>3, DenialHandler
    <2>4. ASSUME NEW d \in Call \ {c}, HandlerAction(d)
          PROVE  DenialInv(c)'
      <3>1. /\ call'[c] = call[c] /\ UNCHANGED <<cur, aborted>>
            /\ c \notin ToSet(sm.queue) => sm'.status[c] = sm.status[c]
            /\ c \in sm'.active => c \in sm.active
            /\ d \notin sm.active => UNCHANGED sm
        BY <2>1, <2>4, HandlerMoves
      <3>2. ASSUME call[c].answer = "cancel"
            PROVE  sm'.status[c] = sm.status[c]
        BY <2>1, <3>1, <3>2, UntouchedCall DEF WaveInv, Waves, OwnInv
      <3>3. c \in Asked /\ ~ At(c, "idle") => UNCHANGED sm
        BY <1>2, <3>1, SuspendedAlone
      <3>4. BatchSet(cur)' = BatchSet(cur) /\ Asked' = Asked
        BY <3>1 DEF BatchSet, Asked, PolicyAnswers
      <3>5. ASSUME cur # None, c \in BatchSet(cur),
                   call[c].answer = "cancel", sm.status[c] = "cancelled"
            PROVE  UNCHANGED sm
        BY <2>1, <3>1, <3>5 DEF DenialInv
      <3> QED
        BY <2>1, <3>1, <3>2, <3>3, <3>4, <3>5 DEF DenialInv, At
    <2> QED
      BY <1>2, <2>2, <2>3, <2>4, LoopOrHandler
  <1>3. ASSUME AnswerInv, Refusals PROVE DenialCascades
    <2> SUFFICES ASSUME NEW c \in Call, cur # None, c \in BatchSet(cur),
                        call[c].answer = "cancel", sm.status[c] = "cancelled",
                        NEW d \in Call, At(d, "tool")
                 PROVE  FALSE
      BY DEF DenialCascades
    <2>1. d \in sm.active
      BY <1>3 DEF AnswerInv, WaveInv, Waves, TurnInv, At
    <2>2. d = c
      BY <1>3, <2>1 DEF DenialInv
    <2> QED
      BY <1>3, <2>2 DEF DenialInv, At
  <1> HIDE DEF Refusals
  <1> QED
    BY <1>1, <1>2, <1>3, AnswerSafety, PTL DEF Spec

=============================================================================
