-------------------------- MODULE SchedulerProofs --------------------------
(***************************************************************************)
(* What is proved of Scheduler for any number of calls and batches and any *)
(* behaviour of the policy engine, the hooks, the tools and the user.      *)
(***************************************************************************)
EXTENDS Scheduler, TLAPS, SequenceTheorems

-----------------------------------------------------------------------------
(* The operators of the state manager keep the type of its state.          *)

LEMMA SeqElement ==
    ASSUME NEW S, NEW q \in Seq(S), NEW i \in 1..Len(q)
    PROVE  q[i] \in S
  OBVIOUS

LEMMA ToSetType ==
    ASSUME NEW S, NEW q \in Seq(S)
    PROVE  ToSet(q) \subseteq S
  BY DEF ToSet

LEMMA UpdateAllType ==
    ASSUME NEW s \in StateType, NEW C, NEW v \in Status
    PROVE  UpdateAll(s, C, v) \in StateType
  BY DEF UpdateAll, StateType

LEMMA EnqueueType ==
    ASSUME NEW s \in StateType, NEW q \in Seq(Call), NEW I
    PROVE  Enqueue(s, q, I) \in StateType
  <1>1. s.queue \o q \in Seq(Call)
    BY DEF StateType
  <1>2. "error" \in Status /\ "validating" \in Status
    BY DEF Status
  <1> QED
    BY <1>1, <1>2 DEF Enqueue, StateType

LEMMA DequeueType ==
    ASSUME NEW s \in StateType, NEW n \in 1..Len(s.queue)
    PROVE  Dequeue(s, n) \in StateType
  <1>1. s.queue \in Seq(Call)
    BY DEF StateType
  <1>2. SubSeq(s.queue, 1, n) \in Seq(Call)
    BY <1>1, SubSeqProperties
  <1>3. SubSeq(s.queue, n + 1, Len(s.queue)) \in Seq(Call)
    BY <1>1, SubSeqProperties
  <1>4. ToSet(SubSeq(s.queue, 1, n)) \subseteq Call
    BY <1>2, ToSetType
  <1> QED
    BY <1>2, <1>3, <1>4 DEF Dequeue, StateType

LEMMA FinalizeEndedType ==
    ASSUME NEW s \in StateType
    PROVE  FinalizeEnded(s) \in StateType
  <1>1. [c \in Call |-> IF c \in Ended(s) THEN s.completed[c] + 1
                       ELSE s.completed[c]] \in [Call -> Nat]
    BY DEF StateType
  <1>2. Pending(s) \subseteq Call
    BY DEF Pending, StateType
  <1> QED
    BY <1>1, <1>2 DEF FinalizeEnded, StateType

LEMMA CancelAllQueuedType ==
    ASSUME NEW s \in StateType
    PROVE  CancelAllQueued(s) \in StateType
  <1> DEFINE Q == ToSet(s.queue)
  <1>1. [c \in Call |-> IF c \in Q THEN s.completed[c] + 1
                       ELSE s.completed[c]] \in [Call -> Nat]
    BY DEF StateType
  <1>2. [c \in Call |-> IF c \in Q /\ s.status[c] # "error"
                       THEN "cancelled" ELSE s.status[c]] \in [Call -> Status]
    BY DEF StateType, Status
  <1>3. << >> \in Seq(Call)
    OBVIOUS
  <1> QED
    BY <1>1, <1>2, <1>3 DEF CancelAllQueued, StateType

LEMMA ReplaceWithTailType ==
    ASSUME NEW s \in StateType, NEW c \in Call, NEW v \in Status
    PROVE  ReplaceWithTail(s, c, v) \in StateType
  <1>1. Cons(c, s.queue) \in Seq(Call)
    BY DEF Cons, StateType
  <1> QED
    BY <1>1 DEF ReplaceWithTail, StateType

LEMMA ClearBatchType ==
    ASSUME NEW s \in StateType
    PROVE  ClearBatch(s) \in StateType
  BY DEF ClearBatch, StateType

LEMMA RemoveAtType ==
    ASSUME NEW S, NEW q \in Seq(S), NEW i \in 1..Len(q)
    PROVE  RemoveAt(q, i) \in Seq(S)
  <1>1. SubSeq(q, 1, i - 1) \in Seq(S)
    BY SubSeqProperties
  <1>2. SubSeq(q, i + 1, Len(q)) \in Seq(S)
    BY SubSeqProperties
  <1> QED
    BY <1>1, <1>2 DEF RemoveAt

LEMMA TopicFirstType ==
    ASSUME NEW q \in Seq(Call)
    PROVE  TopicFirst(q) \in Seq(Call)
  <1>1. CASE \E i \in DOMAIN q : q[i] \in Topic
    <2> DEFINE i == CHOOSE i \in DOMAIN q : q[i] \in Topic
    <2>1. i \in 1..Len(q)
      BY <1>1
    <2>2. RemoveAt(q, i) \in Seq(Call)
      BY <2>1, RemoveAtType
    <2>3. q[i] \in Call
      BY <2>1, SeqElement
    <2> HIDE DEF i
    <2>4. Cons(q[i], RemoveAt(q, i)) \in Seq(Call)
      BY <2>2, <2>3 DEF Cons
    <2> QED
      BY <1>1, <2>4 DEF TopicFirst, i
  <1>2. CASE ~ \E i \in DOMAIN q : q[i] \in Topic
    BY <1>2 DEF TopicFirst
  <1> QED
    BY <1>1, <1>2

-----------------------------------------------------------------------------
(* Type correctness.                                                       *)

LEMMA CallTypeKept ==
    ASSUME NEW r \in CallType
    PROVE  /\ \A pc \in Await : [r EXCEPT !.pc = pc] \in CallType
           /\ \A v \in SUBSET Arguments : [r EXCEPT !.vetted = v] \in CallType
           /\ \A a \in Arguments : [r EXCEPT !.args = a] \in CallType
           /\ \A a \in Answer : [r EXCEPT !.answer = a] \in CallType
           /\ \A d \in Decision : [r EXCEPT !.decision = d] \in CallType
           /\ r.args \in Arguments
  BY DEF CallType

LEMMA ValidateType ==
    ASSUME TypeOK, NEW s \in StateType, Validate(s)
    PROVE  /\ sm' \in StateType
           /\ phase' \in Phase
           /\ spawned' \in BOOLEAN
           /\ call' \in [Call -> CallType]
  <1>1. "hook" \in Await
    BY DEF Await, Validation
  <1>2. \A c \in Call : [call[c] EXCEPT !.pc = "hook"] \in CallType
    BY <1>1, CallTypeKept DEF TypeOK
  <1> QED
    BY <1>2 DEF Validate, TypeOK, Phase

LEMMA IterateType ==
    ASSUME TypeOK, NEW s \in StateType, NEW stop, Iterate(s, stop)
    PROVE  /\ sm' \in StateType
           /\ phase' \in Phase
           /\ spawned' \in BOOLEAN
           /\ call' \in [Call -> CallType]
  <1> DEFINE more == s.queue # << >> \/ s.active # {}
  <1>1. CASE ~ more /\ LeaveLoop(s)
    BY <1>1 DEF LeaveLoop, TypeOK, Phase
  <1>2. CASE more /\ stop /\ LeaveLoop(CancelAllQueued(s))
    BY <1>2, CancelAllQueuedType DEF LeaveLoop, TypeOK, Phase
  <1>3. CASE s.active # {} /\ Validate(s)
    BY <1>3, ValidateType
  <1>4. CASE /\ s.queue # << >>
             /\ sm' = FinalizeEnded(Dequeue(s, 1))
             /\ phase' = "top"
             /\ UNCHANGED <<spawned, call>>
    <2>1. 1 \in 1..Len(s.queue)
      BY <1>4 DEF StateType
    <2>2. sm' \in StateType
      BY <1>4, <2>1, DequeueType, FinalizeEndedType
    <2> QED
      BY <1>4, <2>2 DEF TypeOK, Phase
  <1>5. CASE \E n \in 1..Len(s.queue) : Validate(Dequeue(s, n))
    BY <1>5, DequeueType, ValidateType
  <1> QED
    BY <1>1, <1>2, <1>3, <1>4, <1>5 DEF Iterate

LEMMA StartBatchType ==
    ASSUME TypeOK, NEW b \in Batch,
           NEW before \in [Batch -> {"new", "queued", "running", "resolved",
                                     "rejected"}],
           StartBatch(b, before)
    PROVE  /\ sm' \in StateType
           /\ phase' \in Phase
           /\ cur' \in Batch
           /\ cancelling' \in BOOLEAN
           /\ request' \in [Batch -> {"new", "queued", "running", "resolved",
                                      "rejected"}]
           /\ spawned' \in BOOLEAN
           /\ call' \in [Call -> CallType]
  <1> DEFINE s == Enqueue(ClearBatch(sm), TopicFirst(BatchCalls[b]), Invalid)
  <1>1. TopicFirst(BatchCalls[b]) \in Seq(Call)
    BY BatchAssumption, TopicFirstType
  <1>2. ClearBatch(sm) \in StateType
    BY ClearBatchType DEF TypeOK
  <1>3. s \in StateType
    BY <1>1, <1>2, EnqueueType
  <1>4. Iterate(s, b \in aborted)
    BY DEF StartBatch
  <1>5. /\ sm' \in StateType
        /\ phase' \in Phase
        /\ spawned' \in BOOLEAN
        /\ call' \in [Call -> CallType]
    <2> HIDE DEF s
    <2> QED
      BY <1>3, <1>4, IterateType
  <1>6. /\ cur' \in Batch
        /\ cancelling' \in BOOLEAN
        /\ request' \in [Batch -> {"new", "queued", "running", "resolved",
                                   "rejected"}]
    BY DEF StartBatch
  <1> QED
    BY <1>5, <1>6

LEMMA EndIterationType ==
    ASSUME TypeOK, EndIteration
    PROVE  /\ sm' \in StateType
           /\ phase' \in Phase
           /\ call' \in [Call -> CallType]
  BY FinalizeEndedType DEF EndIteration, TypeOK, Phase

LEMMA ExecuteType ==
    ASSUME TypeOK, NEW C, Execute(C)
    PROVE  /\ sm' \in StateType
           /\ call' \in [Call -> CallType]
  <1>1. {"executing", "cancelled"} \subseteq Status
    BY DEF Status
  <1>2. sm' \in StateType
    BY <1>1, UpdateAllType DEF Execute, Start, TypeOK
  <1>3. "tool" \in Await
    BY DEF Await
  <1>4. \A c \in Call : [call[c] EXCEPT !.pc = "tool"] \in CallType
    BY <1>3, CallTypeKept DEF TypeOK
  <1>5. call' \in [Call -> CallType]
    BY <1>4 DEF Execute, Start, TypeOK
  <1> QED
    BY <1>2, <1>5

LEMMA EndType ==
    ASSUME TypeOK, NEW c \in Call, NEW v \in Status, End(c, v)
    PROVE  /\ sm' \in StateType
           /\ call' \in [Call -> CallType]
  <1>1. "idle" \in Await
    BY DEF Await
  <1> DEFINE r == [call[c] EXCEPT !.pc = "idle", !.expands = FALSE]
  <1>r. r \in CallType
    BY <1>1 DEF TypeOK, CallType
  <1>2. call' \in [Call -> CallType]
    <2>1. call' = [call EXCEPT ![c] = r]
      BY DEF End, TypeOK
    <2> HIDE DEF r
    <2> QED
      BY <1>r, <2>1 DEF TypeOK
  <1>3. sm' \in StateType
    BY UpdateAllType DEF End, UpdateStatus, TypeOK
  <1> QED
    BY <1>2, <1>3

\* The handler of one call changes the batch, its record, and two flags.
HandlerTypeOK ==
    /\ sm \in StateType
    /\ call \in [Call -> CallType]
    /\ spawned \in BOOLEAN
    /\ waiting \in BOOLEAN

LEMMA ModifiedType ==
    ASSUME TypeOK, NEW c \in Call, NEW f \in Call
    PROVE  \A old \in Arguments : Modified(c, f, old) \in Arguments
  BY DEF Modified, TypeOK, CallType, Arguments

LEMMA HandlerType ==
    ASSUME TypeOK, NEW c \in Call,
           CallStep(c) \/ Output(c) \/ \E r \in Responses : Respond(c, r)
    PROVE  HandlerTypeOK' /\ CallUnchanged
  <1> USE DEF HandlerTypeOK
  <1>st. {"validating", "scheduled", "awaiting_approval", "executing",
          "success", "error", "cancelled"} \subseteq Status
    BY DEF Status
  <1>aw. {"idle", "hook", "policy", "details", "answer", "editor", "inline",
          "outcome", "tool", "result"} \subseteq Await
    BY DEF Await, Validation
  <1>sm. \A d \in Call, v \in Status : UpdateStatus(sm, d, v) \in StateType
    BY UpdateAllType DEF UpdateStatus, TypeOK
  <1>ca. /\ call[c] \in CallType
         /\ call[c].args \in Arguments /\ call[c].input \in Arguments
    BY DEF TypeOK, CallType
  <1>1. CASE HookDone(c)
    <2>1. CASE End(c, "error")
      BY <1>1, <2>1, <1>st, EndType DEF HookDone, TypeOK
    <2>2. ASSUME NEW asks \in BOOLEAN, NEW by \in {call[c].input.by, "hook"},
                 call' = [call EXCEPT ![c].pc = "policy",
                                      ![c].hookAsks = asks,
                                      ![c].input.by = by,
                                      ![c].args.by = IF Replaced(c)
                                                     THEN call[c].args.by
                                                     ELSE by],
                 UNCHANGED sm
          PROVE  HandlerTypeOK'
      <3> DEFINE ran == IF Replaced(c) THEN call[c].args.by ELSE by
      <3>1. [call[c].input EXCEPT !.by = by] \in Arguments
        BY <1>ca DEF Arguments
      <3>2. [call[c].args EXCEPT !.by = ran] \in Arguments
        BY <1>ca DEF Arguments
      <3>3. call' = [call EXCEPT ![c].pc = "policy", ![c].hookAsks = asks,
                                 ![c].input.by = by, ![c].args.by = ran]
        BY <2>2
      <3> HIDE DEF ran
      <3>4. [call[c] EXCEPT !.pc = "policy", !.hookAsks = asks,
                            !.input.by = by, !.args.by = ran] \in CallType
        BY <1>ca, <1>aw, <3>1, <3>2 DEF CallType
      <3>5. call' \in [Call -> CallType]
        BY <3>3, <3>4 DEF TypeOK
      <3> QED
        BY <1>1, <2>2, <3>5 DEF HookDone, TypeOK
    <2> QED
      BY <1>1, <2>1, <2>2 DEF HookDone
  <1>2. CASE PolicyDone(c)
    <2> PICK d \in PolicyAnswers(c) :
          LET decided == [call EXCEPT ![c].decision = d]
          IN  \/ /\ Verdict(c, d) = "deny"
                 /\ sm' = UpdateStatus(sm, c, "error")
                 /\ call' = [decided EXCEPT ![c].pc = "idle"]
              \/ /\ Verdict(c, d) = "allow"
                 /\ sm' = UpdateStatus(sm, c, "scheduled")
                 /\ call' = [decided EXCEPT ![c].pc = "idle",
                                            ![c].vetted = {call[c].input}]
              \/ /\ Verdict(c, d) = "ask"
                 /\ cur \notin aborted
                 /\ call' = [decided EXCEPT ![c].pc = "details"]
                 /\ UNCHANGED sm
      BY <1>2 DEF PolicyDone
    <2>1. d \in Decision
      BY EnvironmentAssumption DEF PolicyAnswers
    <2>2. call' \in [Call -> CallType]
      BY <1>aw, <1>ca, <2>1 DEF TypeOK, CallType
    <2>3. sm' \in StateType
      BY <1>st, <1>sm DEF TypeOK
    <2> QED
      BY <1>2, <2>2, <2>3 DEF PolicyDone, TypeOK
  <1>3. CASE Unneeded(c)
    BY <1>3, <1>aw, <1>ca DEF Unneeded, TypeOK, CallType, Answer
  <1>4. CASE AskUser(c)
    BY <1>4, <1>aw, <1>ca, <1>sm, <1>st DEF AskUser, TypeOK, CallType
  <1>5. CASE EditorDone(c)
    <2> PICK f \in Call, used \in BOOLEAN :
          call' = [call EXCEPT ![c].pc = "details",
                     ![c].input = IF used THEN Modified(c, f, @) ELSE @,
                     ![c].args = IF used THEN Modified(c, f, @) ELSE @]
      BY <1>5 DEF EditorDone
    <2> DEFINE new(old) == IF used THEN Modified(c, f, old) ELSE old
    <2>1. new(call[c].args) \in Arguments /\ new(call[c].input) \in Arguments
      BY ModifiedType, <1>ca
    <2>2. call' = [call EXCEPT ![c].pc = "details",
                               ![c].input = new(call[c].input),
                               ![c].args = new(call[c].args)]
      BY DEF TypeOK
    <2> HIDE DEF new
    <2>3. [call[c] EXCEPT !.pc = "details", !.input = new(call[c].input),
                          !.args = new(call[c].args)] \in CallType
      BY <2>1, <1>aw, <1>ca DEF CallType
    <2>4. call' \in [Call -> CallType]
      BY <2>2, <2>3 DEF TypeOK
    <2> QED
      BY <1>5, <2>4 DEF EditorDone, TypeOK
  <1>6. CASE InlineDone(c)
    <2> PICK f \in Call :
          call' = [call EXCEPT ![c].pc = "outcome",
                     ![c].answer = "edited",
                     ![c].input = Modified(c, f, @),
                     ![c].args = Modified(c, f, @),
                     ![c].vetted = {Modified(c, f, call[c].args)}]
      BY <1>6 DEF InlineDone
    <2>1. /\ Modified(c, f, call[c].args) \in Arguments
          /\ Modified(c, f, call[c].input) \in Arguments
      BY ModifiedType, <1>ca
    <2> HIDE DEF HandlerTypeOK
    <2>2. ASSUME NEW args \in Arguments, NEW input \in Arguments
          PROVE  [call[c] EXCEPT !.pc = "outcome", !.answer = "edited",
                                 !.input = input, !.args = args,
                                 !.vetted = {args}] \in CallType
      BY <1>aw, <1>ca DEF CallType, Answer
    <2>3. [call[c] EXCEPT !.pc = "outcome", !.answer = "edited",
                          !.input = Modified(c, f, call[c].input),
                          !.args = Modified(c, f, call[c].args),
                          !.vetted = {Modified(c, f, call[c].args)}]
            \in CallType
      BY <2>1, <2>2
    <2>4. call' \in [Call -> CallType]
      BY <2>3 DEF TypeOK
    <2> QED
      BY <1>6, <2>4 DEF InlineDone, TypeOK, HandlerTypeOK
  <1>7. CASE Conclude(c)
    <2>1. sm' \in StateType
      BY <1>7, <1>sm, <1>st, CancelAllQueuedType DEF Conclude
    <2>2. call' \in [Call -> CallType]
      BY <1>7, <1>aw, <1>ca DEF Conclude, TypeOK, CallType
    <2> QED
      BY <1>7, <2>1, <2>2 DEF Conclude, TypeOK
  <1>8. CASE Throw(c)
    <2>1. End(c, "error") \/ End(c, "cancelled")
      BY <1>8 DEF Throw
    <2> QED
      BY <1>8, <2>1, <1>st, EndType DEF Throw, TypeOK
  <1>9. CASE \E r \in Result \ {"none"} : ToolDone(c, r)
    <2> PICK r \in Result \ {"none"} : ToolDone(c, r)
      BY <1>9
    <2> DEFINE noisy == r = "success" /\ c \in Background
    <2>1. noisy \in BOOLEAN
      OBVIOUS
    <2>2. call' = [call EXCEPT ![c].pc = "result", ![c].result = r,
                               ![c].noisy = noisy]
      BY DEF ToolDone
    <2> HIDE DEF noisy
    <2>3. call' \in [Call -> CallType]
      BY <2>1, <2>2, <1>aw, <1>ca DEF TypeOK, CallType
    <2> QED
      BY <2>3 DEF ToolDone, TypeOK
  <1>10. CASE Recorded(c)
    <2>1. call[c].result \in Status
      BY <1>10 DEF Recorded, Terminal, Status
    <2> QED
      BY <1>10, <2>1, EndType DEF Recorded, TypeOK
  <1>11. CASE TailCalled(c)
    <2> PICK v \in {"validating", "error"}, w \in BOOLEAN :
          /\ sm' = ReplaceWithTail(sm, c, v)
          /\ call' = [call EXCEPT ![c] = NewCall(c, "tail", w)]
      BY <1>11 DEF TailCalled
    <2>1. sm' \in StateType
      BY <1>st, ReplaceWithTailType DEF TypeOK
    <2>2. NewCall(c, "tail", w) \in CallType
      BY <1>aw DEF NewCall, CallType, Arguments, Result, Answer
    <2> QED
      BY <1>11, <2>1, <2>2 DEF TailCalled, TypeOK
  <1>12. CASE ExpansionAsked(c)
    <2>1. CASE cur \in aborted
      BY <1>12, <2>1, <1>st, EndType DEF ExpansionAsked, TypeOK
    <2>2. CASE cur \notin aborted
      <3>1. WithPermissions(c) \in Arguments
        BY <1>ca DEF WithPermissions, Arguments
      <3>2. \A args \in Arguments :
              [call[c] EXCEPT !.pc = "details", !.expands = TRUE,
                              !.input = args, !.args = args] \in CallType
        BY <1>aw, <1>ca DEF CallType
      <3>3. call' \in [Call -> CallType]
        BY <1>12, <2>2, <3>1, <3>2 DEF ExpansionAsked, TypeOK
      <3> QED
        BY <1>12, <2>2, <3>3, <1>sm, <1>st DEF ExpansionAsked, TypeOK
    <2> QED
      BY <2>1, <2>2
  <1>13. CASE ExpansionAnswered(c)
    <2>1. CASE End(c, "error") \/ End(c, "cancelled")
      BY <1>13, <2>1, <1>st, EndType DEF ExpansionAnswered, TypeOK
    <2>2. CASE /\ sm' = UpdateStatus(sm, c, "executing")
               /\ call' = [call EXCEPT ![c].pc = "tool",
                                       ![c].expands = FALSE]
      BY <1>13, <2>2, <1>sm, <1>st, <1>aw, <1>ca
      DEF ExpansionAnswered, TypeOK, CallType
    <2> QED
      BY <1>13, <2>1, <2>2 DEF ExpansionAnswered
  <1>14. CASE Output(c)
    BY <1>14, <1>sm, <1>st DEF Output, TypeOK
  <1>15. ASSUME NEW r \in Responses, Respond(c, r)
         PROVE  HandlerTypeOK'
    <2>1. call' \in [Call -> CallType]
      <3>1. CASE call' = [call EXCEPT ![c].pc = "outcome",
                                      ![c].answer = "proceed",
                                      ![c].vetted = {call[c].args}]
        <4>1. {call[c].args} \in SUBSET Arguments
          BY <1>ca
        <4>2. [call[c] EXCEPT !.pc = "outcome", !.answer = "proceed",
                              !.vetted = {call[c].args}] \in CallType
          BY <4>1, <1>aw, <1>ca DEF CallType, Answer
        <4> QED
          BY <3>1, <4>2 DEF TypeOK
      <3>2. CASE call' = [call EXCEPT ![c].pc = "outcome",
                                      ![c].answer = "cancel"]
        BY <3>2, <1>aw, <1>ca DEF TypeOK, CallType, Answer
      <3>3. CASE \/ call' = [call EXCEPT ![c].pc = "inline"]
                 \/ call' = [call EXCEPT ![c].pc = "editor"]
        BY <3>3, <1>aw, <1>ca, CallTypeKept DEF TypeOK
      <3>4. \/ call' = [call EXCEPT ![c].pc = "outcome",
                                    ![c].answer = "proceed",
                                    ![c].vetted = {call[c].args}]
            \/ call' = [call EXCEPT ![c].pc = "outcome",
                                    ![c].answer = "cancel"]
            \/ call' = [call EXCEPT ![c].pc = "inline"]
            \/ call' = [call EXCEPT ![c].pc = "editor"]
        BY <1>15, Zenon DEF Respond
      <3> QED
        BY <3>1, <3>2, <3>3, <3>4
    <2> QED
      BY <1>15, <2>1 DEF Respond, TypeOK
  <1>16. HandlerTypeOK'
    BY <1>1, <1>2, <1>3, <1>4, <1>5, <1>6, <1>7, <1>8, <1>9, <1>10, <1>11,
       <1>12, <1>13, <1>14, <1>15 DEF CallStep
  <1>17. CallUnchanged
    BY DEF CallStep, HookDone, PolicyDone, Unneeded, AskUser, EditorDone,
       InlineDone, Conclude, Throw, ToolDone, Recorded, TailCalled,
       ExpansionAsked, ExpansionAnswered, Output, Respond
  <1> QED
    BY <1>16, <1>17

-----------------------------------------------------------------------------

LEMMA TypeInit == Init => TypeOK
  <1> SUFFICES ASSUME Init PROVE TypeOK
    OBVIOUS
  <1>1. Fresh \in StateType
    BY DEF Fresh, StateType, Status
  <1>2. call \in [Call -> CallType]
    <2> DEFINE waits(c) == c \in Waits
    <2>1. \A c \in Call : waits(c) \in BOOLEAN
      OBVIOUS
    <2>2. call = [c \in Call |-> NewCall(c, "model", waits(c))]
      BY DEF Init
    <2> HIDE DEF waits
    <2>3. \A c \in Call : NewCall(c, "model", waits(c)) \in CallType
      BY <2>1
      DEF NewCall, CallType, Await, Arguments, Result, Answer
    <2> QED
      BY <2>2, <2>3
  <1>3. requestQueue \in Seq(Batch)
    BY DEF Init
  <1>4. request \in [Batch -> {"new", "queued", "running", "resolved",
                              "rejected"}]
    BY DEF Init
  <1>5. sm \in StateType
    BY <1>1 DEF Init
  <1>6. /\ phase \in Phase /\ cur \in Batch \cup {None}
        /\ cancelling \in BOOLEAN /\ aborted \subseteq Batch
        /\ spawned \in BOOLEAN /\ waiting \in BOOLEAN /\ struck \subseteq Call
    BY DEF Init, Phase
  <1> QED
    BY <1>2, <1>3, <1>4, <1>5, <1>6 DEF TypeOK

LEMMA TypeNext == TypeOK /\ [Next]_vars => TypeOK'
  <1> SUFFICES ASSUME TypeOK, [Next]_vars PROVE TypeOK'
    OBVIOUS
  <1>1. CASE LoopTop
    BY <1>1, IterateType DEF LoopTop, TypeOK
  <1>2. CASE JoinValidation
    BY <1>2, EndIterationType, ExecuteType DEF JoinValidation, TypeOK, Phase
  <1>3. CASE JoinExecution
    BY <1>3, EndIterationType DEF JoinExecution, TypeOK
  <1>4. CASE Finish
    <2> DEFINE settled == [request EXCEPT ![cur] = "resolved"]
    <2>1. settled \in [Batch -> {"new", "queued", "running", "resolved",
                                 "rejected"}]
      BY DEF TypeOK
    <2>2. CASE requestQueue # << >> /\ sm.active = {}
      <3>1. Head(requestQueue) \in Batch /\ Tail(requestQueue) \in Seq(Batch)
        BY <2>2, HeadTailProperties DEF TypeOK
      <3>2. StartBatch(Head(requestQueue), settled)
        BY <1>4, <2>2 DEF Finish, NextInRequestQueue
      <3>3. requestQueue' = Tail(requestQueue)
        BY <1>4, <2>2 DEF Finish, NextInRequestQueue
      <3> HIDE DEF settled
      <3> QED
        BY <1>4, <2>1, <3>1, <3>2, <3>3, StartBatchType DEF Finish, NextInRequestQueue, TypeOK
    <2>3. CASE ~ (requestQueue # << >> /\ sm.active = {})
      <3>1. requestQueue' \in Seq(Batch)
        <4>1. CASE requestQueue = << >>
          BY <1>4, <2>3, <4>1 DEF Finish, NextInRequestQueue
        <4>2. CASE requestQueue # << >>
          BY <1>4, <2>3, <4>2, HeadTailProperties, AppendProperties, SMTT(20)
          DEF Finish, NextInRequestQueue, TypeOK
        <4> QED
          BY <4>1, <4>2
      <3>2. sm' \in StateType
        BY <1>4, <2>3, ClearBatchType DEF Finish, NextInRequestQueue, TypeOK
      <3> QED
        BY <1>4, <2>1, <2>3, <3>1, <3>2 DEF Finish, NextInRequestQueue, TypeOK, Phase
    <2> QED
      BY <2>2, <2>3
  <1>5. ASSUME NEW c \in Call,
               CallStep(c) \/ Output(c) \/ \E r \in Responses : Respond(c, r)
        PROVE  TypeOK'
    BY <1>5, HandlerType DEF HandlerTypeOK, CallUnchanged, TypeOK
  <1>6. ASSUME NEW b \in Batch, Schedule(b)
        PROVE  TypeOK'
    <2>1. CASE cur = None /\ sm.active = {}
      <3>1. StartBatch(b, request) /\ UNCHANGED requestQueue
        BY <1>6, <2>1 DEF Schedule
      <3> QED
        BY <1>6, <3>1, StartBatchType DEF Schedule, TypeOK
    <2>2. CASE ~ (cur = None /\ sm.active = {})
      BY <1>6, <2>2, AppendProperties, SMTT(20) DEF Schedule, TypeOK
    <2> QED
      BY <2>1, <2>2
  <1>7. ASSUME NEW b \in Batch, Abort(b)
        PROVE  TypeOK'
    <2>1. requestQueue' \in Seq(Batch)
      <3>1. CASE UNCHANGED requestQueue
        BY <3>1 DEF TypeOK
      <3>2. CASE \E i \in DOMAIN requestQueue :
                   requestQueue' = RemoveAt(requestQueue, i)
        BY <3>2, RemoveAtType DEF TypeOK
      <3> QED
        BY <1>7, <3>1, <3>2 DEF Abort
    <2> QED
      BY <1>7, <2>1 DEF Abort, TypeOK
  <1>8. CASE CancelAll
    <2>1. UpdateAll(sm, Pending(sm), "cancelled") \in StateType
      BY UpdateAllType DEF TypeOK, Status
    <2>2. sm' \in StateType
      BY <1>8, <2>1, CancelAllQueuedType DEF CancelAll
    <2>3. struck' \subseteq Call
      BY <1>8, ToSetType DEF CancelAll, TypeOK, StateType, Pending
    <2>4. aborted' \subseteq Batch
      BY <1>8 DEF CancelAll, TypeOK
    <2>5. request' \in [Batch -> {"new", "queued", "running", "resolved",
                                  "rejected"}]
      BY <1>8 DEF CancelAll, TypeOK
    <2> QED
      BY <1>8, <2>2, <2>3, <2>4, <2>5 DEF CancelAll, TypeOK
  <1>9. CASE Done \/ UNCHANGED vars
    BY <1>9 DEF Done, vars, TypeOK
  <1> QED
    BY <1>1, <1>2, <1>3, <1>4, <1>5, <1>6, <1>7, <1>8, <1>9 DEF Next, Loop

\* In every state of every behaviour the variables have the types that the
\* declarations of the source give them.
THEOREM TypeCorrect == Spec => []TypeOK
  BY TypeInit, TypeNext, PTL DEF Spec

-----------------------------------------------------------------------------
(* Vetted arguments and denials.                                           *)

\* A call is trusted from the moment something lets its arguments through:
\* the policy engine (it is scheduled), the tool's exemption or the user (its
\* outcome is being recorded), up to the moment it runs.
Trusted(c) ==
    \/ sm.status[c] = "scheduled"
    \/ At(c, "tool")
    \/ At(c, "outcome") /\ call[c].answer # "cancel"

\* The handler got past the policy engine and not yet to its end.
PastPolicy(c) ==
    \/ sm.status[c] = "scheduled"
    \/ call[c].pc \in {"details", "answer", "editor", "inline", "outcome",
                       "tool", "result"}

\* What a trusted call carries has been let through as it is, unless a
\* cancelAll struck it: only that parts the invocation from its request.  And
\* only a suspended handler can change what a call carries.
VettedCall(c) ==
    /\ c \notin struck => call[c].args = call[c].input
    /\ Trusted(c) => call[c].args \in call[c].vetted \/ c \in struck
    /\ sm.status[c] = "scheduled" => At(c, "idle")

\* Past the policy engine a denied call is one for which a hook asked, and
\* hooks ask only for the calls of HookAsks.
DeniedCall(c) ==
    /\ call[c].hookAsks => c \in HookAsks
    /\ PastPolicy(c) /\ call[c].decision = "deny" => call[c].hookAsks

\* The inductive invariant.
SafeCall(c) == VettedCall(c) /\ DeniedCall(c)

SafeInv == TypeOK /\ \A c \in Call : SafeCall(c)

\* No call is scheduled in t that is not scheduled in s.
NoneScheduled(s, t) ==
    \A c \in Call : t.status[c] = "scheduled" => s.status[c] = "scheduled"

LEMMA OperatorsScheduleNone ==
    ASSUME NEW s \in StateType
    PROVE  /\ \A C, v \in Status \ {"scheduled"} :
                  NoneScheduled(s, UpdateAll(s, C, v))
           /\ \A q, I : NoneScheduled(s, Enqueue(s, q, I))
           /\ \A n : NoneScheduled(s, Dequeue(s, n))
           /\ NoneScheduled(s, FinalizeEnded(s))
           /\ NoneScheduled(s, CancelAllQueued(s))
           /\ \A c \in Call, v \in Status \ {"scheduled"} :
                  NoneScheduled(s, ReplaceWithTail(s, c, v))
           /\ NoneScheduled(s, ClearBatch(s))
  <1>1. \A C, v \in Status \ {"scheduled"} :
            NoneScheduled(s, UpdateAll(s, C, v))
    BY DEF UpdateAll, NoneScheduled, StateType
  <1>2. \A q, I : NoneScheduled(s, Enqueue(s, q, I))
    BY DEF Enqueue, NoneScheduled, StateType
  <1>3. \A n : NoneScheduled(s, Dequeue(s, n))
    BY DEF Dequeue, NoneScheduled, StateType
  <1>4. NoneScheduled(s, FinalizeEnded(s))
    BY DEF FinalizeEnded, NoneScheduled, StateType
  <1>5. NoneScheduled(s, CancelAllQueued(s))
    BY DEF CancelAllQueued, NoneScheduled, StateType
  <1>6. \A c \in Call, v \in Status \ {"scheduled"} :
            NoneScheduled(s, ReplaceWithTail(s, c, v))
    BY DEF ReplaceWithTail, NoneScheduled, StateType
  <1>7. NoneScheduled(s, ClearBatch(s))
    BY DEF ClearBatch, NoneScheduled, StateType
  <1> QED
    BY <1>1, <1>2, <1>3, <1>4, <1>5, <1>6, <1>7

\* A call whose handler does not move stays safe unless it is scheduled.
LEMMA Undisturbed ==
    ASSUME NEW c \in Call, SafeCall(c), call'[c] = call[c],
           struck \subseteq struck',
           sm'.status[c] = "scheduled" => sm.status[c] = "scheduled"
    PROVE  SafeCall(c)'
  BY DEF SafeCall, VettedCall, DeniedCall, Trusted, PastPolicy, At

LEMMA IterateSafe ==
    ASSUME SafeInv, NEW s \in StateType, NoneScheduled(sm, s),
           NEW stop, Iterate(s, stop), struck' = struck
    PROVE  \A c \in Call : SafeCall(c)'
  <1>1. ASSUME NEW t \in StateType, NoneScheduled(sm, t), Validate(t)
        PROVE  \A c \in Call : SafeCall(c)'
    <2> SUFFICES ASSUME NEW c \in Call PROVE SafeCall(c)'
      OBVIOUS
    <2>1. CASE c \in t.active /\ t.status[c] = "validating"
      <3>1. /\ call'[c] = [call[c] EXCEPT !.pc = "hook"]
            /\ sm'.status[c] = "validating"
        BY <1>1, <2>1 DEF Validate
      <3>2. call[c] \in CallType
        BY DEF SafeInv, TypeOK
      <3>3. /\ call'[c].pc = "hook"
            /\ call'[c].hookAsks = call[c].hookAsks
            /\ call'[c].args = call[c].args
            /\ call'[c].input = call[c].input
        BY <3>1, <3>2 DEF CallType
      <3>4. call[c].hookAsks => c \in HookAsks
        BY DEF SafeInv, SafeCall, DeniedCall
      <3>5. c \notin struck' => call[c].args = call[c].input
        BY DEF SafeInv, SafeCall, VettedCall
      <3> QED
        BY <3>1, <3>3, <3>4, <3>5
        DEF SafeCall, VettedCall, DeniedCall, Trusted, PastPolicy, At
    <2>2. CASE ~ (c \in t.active /\ t.status[c] = "validating")
      BY <1>1, <2>2, Undisturbed DEF Validate, SafeInv, NoneScheduled
    <2> QED
      BY <2>1, <2>2
  <1>2. ASSUME NEW t, NoneScheduled(sm, t), sm' = t, UNCHANGED call
        PROVE  \A c \in Call : SafeCall(c)'
    BY <1>2, Undisturbed DEF SafeInv, NoneScheduled
  <1> DEFINE more == s.queue # << >> \/ s.active # {}
  <1>3. CASE ~ more /\ LeaveLoop(s)
    BY <1>2, <1>3 DEF LeaveLoop
  <1>4. CASE more /\ stop /\ LeaveLoop(CancelAllQueued(s))
    <2>1. NoneScheduled(sm, CancelAllQueued(s))
      BY OperatorsScheduleNone DEF NoneScheduled
    <2> QED
      BY <1>2, <1>4, <2>1 DEF LeaveLoop
  <1>5. CASE s.active # {} /\ Validate(s)
    BY <1>1, <1>5
  <1>6. CASE /\ s.queue # << >>
             /\ sm' = FinalizeEnded(Dequeue(s, 1))
             /\ UNCHANGED call
    <2>1. 1 \in 1..Len(s.queue)
      BY <1>6 DEF StateType
    <2>2. Dequeue(s, 1) \in StateType
      BY <2>1, DequeueType
    <2>3. NoneScheduled(sm, FinalizeEnded(Dequeue(s, 1)))
      BY <2>2, OperatorsScheduleNone DEF NoneScheduled
    <2> QED
      BY <1>2, <1>6, <2>3
  <1>7. CASE \E n \in 1..Len(s.queue) : Validate(Dequeue(s, n))
    <2> PICK n \in 1..Len(s.queue) : Validate(Dequeue(s, n))
      BY <1>7
    <2>1. Dequeue(s, n) \in StateType
      BY DequeueType
    <2>2. NoneScheduled(sm, Dequeue(s, n))
      BY OperatorsScheduleNone DEF NoneScheduled
    <2> QED
      BY <1>1, <2>1, <2>2
  <1> QED
    BY <1>3, <1>4, <1>5, <1>6, <1>7 DEF Iterate

LEMMA StartBatchSafe ==
    ASSUME SafeInv, NEW b \in Batch, NEW before, StartBatch(b, before),
           struck' = struck
    PROVE  \A c \in Call : SafeCall(c)'
  <1> DEFINE s == Enqueue(ClearBatch(sm), TopicFirst(BatchCalls[b]), Invalid)
  <1>1. TopicFirst(BatchCalls[b]) \in Seq(Call)
    BY BatchAssumption, TopicFirstType
  <1>2. sm \in StateType /\ ClearBatch(sm) \in StateType
    BY ClearBatchType DEF SafeInv, TypeOK
  <1>3. s \in StateType
    BY <1>1, <1>2, EnqueueType
  <1>4. NoneScheduled(sm, s)
    BY <1>2, OperatorsScheduleNone DEF NoneScheduled
  <1>5. Iterate(s, b \in aborted)
    BY DEF StartBatch
  <1> HIDE DEF s
  <1> QED
    BY <1>3, <1>4, <1>5, IterateSafe

LEMMA EndIterationSafe ==
    ASSUME SafeInv, EndIteration, struck' = struck
    PROVE  \A c \in Call : SafeCall(c)'
  <1>1. NoneScheduled(sm, FinalizeEnded(sm))
    BY OperatorsScheduleNone DEF SafeInv, TypeOK
  <1> QED
    BY <1>1, Undisturbed DEF EndIteration, SafeInv, NoneScheduled

LEMMA ExecuteSafe ==
    ASSUME SafeInv,
           NEW C, C = {c \in sm.active : sm.status[c] = "scheduled"},
           Execute(C), struck' = struck
    PROVE  \A c \in Call : SafeCall(c)'
  <1> SUFFICES ASSUME NEW c \in Call PROVE SafeCall(c)'
    OBVIOUS
  <1>1. sm \in StateType /\ call[c] \in CallType
    BY DEF SafeInv, TypeOK
  <1>2. sm'.status[c] = "scheduled" => sm.status[c] = "scheduled"
    BY <1>1 DEF Execute, Start, UpdateAll, StateType
  <1>3. CASE cur \in aborted \/ c \notin C
    BY <1>2, <1>3, Undisturbed DEF Execute, Start, SafeInv
  <1>4. CASE cur \notin aborted /\ c \in C
    <2>1. /\ call'[c] = [call[c] EXCEPT !.pc = "tool"]
          /\ sm'.status[c] = "executing"
      BY <1>1, <1>4 DEF Execute, Start, UpdateAll, StateType
    <2>2. /\ call'[c].pc = "tool"
          /\ call'[c].args = call[c].args
          /\ call'[c].input = call[c].input
          /\ call'[c].vetted = call[c].vetted
          /\ call'[c].decision = call[c].decision
          /\ call'[c].hookAsks = call[c].hookAsks
      BY <1>1, <2>1 DEF CallType
    <2>3. SafeCall(c) /\ sm.status[c] = "scheduled"
      BY <1>4 DEF SafeInv
    <2> QED
      BY <2>1, <2>2, <2>3
      DEF SafeCall, VettedCall, DeniedCall, Trusted, PastPolicy, At
  <1> QED
    BY <1>3, <1>4

\* The handler of c moves, and schedules no call but perhaps its own: what
\* has to be shown is about c alone.
LEMMA HandlerOnlyMovesItsCall ==
    ASSUME SafeInv, NEW c \in Call,
           CallStep(c) \/ Output(c) \/ \E r \in Responses : Respond(c, r)
    PROVE  \A d \in Call \ {c} : SafeCall(d)'
  <1> SUFFICES ASSUME NEW d \in Call \ {c} PROVE SafeCall(d)'
    OBVIOUS
  <1>1. sm \in StateType
    BY DEF SafeInv, TypeOK
  <1>2. \A v \in Status :
            UpdateStatus(sm, c, v).status[d] = sm.status[d]
    BY <1>1 DEF UpdateStatus, UpdateAll, StateType
  <1>3. \A v \in Status :
            CancelAllQueued(UpdateStatus(sm, c, v)).status[d] = "scheduled"
                => sm.status[d] = "scheduled"
    <2> TAKE v \in Status
    <2>1. UpdateStatus(sm, c, v) \in StateType
      BY <1>1, UpdateAllType DEF UpdateStatus
    <2> QED
      BY <1>2, <2>1, OperatorsScheduleNone DEF NoneScheduled
  <1>4. \A v \in {"validating", "error"} :
            ReplaceWithTail(sm, c, v).status[d] = sm.status[d]
    BY <1>1 DEF ReplaceWithTail, StateType
  <1>5. /\ {"scheduled", "awaiting_approval", "executing", "success",
            "error", "cancelled"} \subseteq Status
        /\ Terminal \subseteq Status
    BY DEF Status, Terminal
  <1>sk. struck' = struck
    BY HandlerType DEF SafeInv, CallUnchanged
  <1>6. call'[d] = call[d]
    BY DEF SafeInv, TypeOK, CallStep, HookDone, PolicyDone, Unneeded,
       AskUser, EditorDone, InlineDone, Conclude, Throw, ToolDone, Recorded,
       TailCalled, ExpansionAsked, ExpansionAnswered, Output, Respond, End
  <1>7. sm'.status[d] = "scheduled" => sm.status[d] = "scheduled"
    BY <1>2, <1>3, <1>4, <1>5
    DEF CallStep, HookDone, PolicyDone, Unneeded,
        AskUser, EditorDone, InlineDone, Conclude, Throw, ToolDone, Recorded,
        TailCalled, ExpansionAsked, ExpansionAnswered, Output, Respond, End
  <1> QED
    BY <1>sk, <1>6, <1>7, Undisturbed DEF SafeInv

\* A handler that returns, its call not scheduled, leaves nothing trusted.
LEMMA EndSafe ==
    ASSUME SafeInv, NEW c \in Call, NEW v \in Status \ {"scheduled"},
           ~ At(c, "idle"), End(c, v), struck' = struck
    PROVE  SafeCall(c)'
  <1>1. sm \in StateType /\ call[c] \in CallType
    BY DEF SafeInv, TypeOK
  <1>2. SafeCall(c) /\ sm.status[c] # "scheduled"
    BY DEF SafeInv, SafeCall, VettedCall
  <1>3. sm'.status[c] # "scheduled"
    BY <1>1, <1>2 DEF End, UpdateStatus, UpdateAll, StateType
  <1>4. /\ call'[c].pc = "idle"
        /\ call'[c].hookAsks = call[c].hookAsks
        /\ call'[c].args = call[c].args /\ call'[c].input = call[c].input
    BY <1>1 DEF End, CallType, SafeInv, TypeOK
  <1> QED
    BY <1>2, <1>3, <1>4
    DEF SafeCall, VettedCall, DeniedCall, Trusted, PastPolicy, At

LEMMA HandlerSafe ==
    ASSUME SafeInv, NEW c \in Call,
           CallStep(c) \/ Output(c) \/ \E r \in Responses : Respond(c, r)
    PROVE  SafeCall(c)'
  <1> USE DEF At
  <1>ty. /\ sm \in StateType
         /\ call \in [Call -> CallType]
         /\ call[c] \in CallType
    BY DEF SafeInv, TypeOK
  <1>sc. SafeCall(c)
    BY DEF SafeInv
  <1>sk. struck' = struck
    BY HandlerType DEF SafeInv, CallUnchanged
  <1>in. c \notin struck => call[c].args = call[c].input
    BY <1>sc DEF SafeCall, VettedCall
  <1>ns. call[c].pc # "idle" => sm.status[c] # "scheduled"
    BY <1>sc DEF SafeCall, VettedCall
  <1>us. \A v \in Status \ {"scheduled"} :
            UpdateStatus(sm, c, v).status[c] = "scheduled"
                => sm.status[c] = "scheduled"
    BY <1>ty DEF UpdateStatus, UpdateAll, StateType
  <1>st. {"awaiting_approval", "executing", "success", "error", "cancelled"}
            \subseteq Status \ {"scheduled"}
    BY DEF Status
  \* Stopping at an await before the tool, with what was decided unchanged.
  <1>qu. ASSUME call[c].pc \in {"details", "answer", "editor", "inline",
                                "outcome", "tool", "result"},
                call'[c].decision = call[c].decision,
                call'[c].hookAsks = call[c].hookAsks,
                call'[c].pc \in {"details", "answer", "editor", "inline",
                                 "result"},
                sm'.status[c] # "scheduled",
                c \notin struck => call'[c].args = call'[c].input
         PROVE  SafeCall(c)'
    BY <1>sc, <1>sk, <1>qu
    DEF SafeCall, VettedCall, DeniedCall, Trusted, PastPolicy
  <1>1. CASE HookDone(c)
    <2>1. CASE End(c, "error")
      BY <1>1, <2>1, <1>st, <1>sk, EndSafe DEF HookDone
    <2>2. ASSUME NEW asks \in BOOLEAN, NEW by \in {call[c].input.by, "hook"},
                 asks => c \in HookAsks,
                 call' = [call EXCEPT ![c].pc = "policy",
                                      ![c].hookAsks = asks,
                                      ![c].input.by = by,
                                      ![c].args.by = IF Replaced(c)
                                                     THEN call[c].args.by
                                                     ELSE by],
                 UNCHANGED sm
          PROVE  SafeCall(c)'
      <3>1. /\ call'[c].pc = "policy" /\ call'[c].hookAsks = asks
            /\ c \notin struck => call'[c].args = call'[c].input
        BY <2>2, <1>ty, <1>in DEF CallType, Replaced
      <3>2. sm'.status[c] # "scheduled"
        BY <1>1, <2>2, <1>ns DEF HookDone
      <3> QED
        BY <2>2, <3>1, <3>2, <1>sk
        DEF SafeCall, VettedCall, DeniedCall, Trusted, PastPolicy
    <2> QED
      BY <1>1, <2>1, <2>2 DEF HookDone
  <1>2. CASE PolicyDone(c)
    <2> PICK d \in PolicyAnswers(c) :
          LET decided == [call EXCEPT ![c].decision = d]
          IN  \/ /\ Verdict(c, d) = "deny"
                 /\ sm' = UpdateStatus(sm, c, "error")
                 /\ call' = [decided EXCEPT ![c].pc = "idle"]
              \/ /\ Verdict(c, d) = "allow"
                 /\ sm' = UpdateStatus(sm, c, "scheduled")
                 /\ call' = [decided EXCEPT ![c].pc = "idle",
                                            ![c].vetted = {call[c].input}]
              \/ /\ Verdict(c, d) = "ask"
                 /\ cur \notin aborted
                 /\ call' = [decided EXCEPT ![c].pc = "details"]
                 /\ UNCHANGED sm
      BY <1>2 DEF PolicyDone
    <2>1. call'[c].hookAsks = call[c].hookAsks /\ call'[c].decision = d
          /\ call'[c].args = call[c].args
          /\ call'[c].input = call[c].input
      BY <1>ty DEF CallType
    <2>2. sm.status[c] # "scheduled"
      BY <1>2, <1>ns DEF PolicyDone
    <2>3. CASE Verdict(c, d) = "deny"
      <3>1. sm'.status[c] # "scheduled" /\ call'[c].pc = "idle"
        BY <2>2, <2>3, <1>st, <1>us, <1>ty DEF CallType
      <3> QED
        BY <2>1, <3>1, <1>sc, <1>sk
        DEF SafeCall, VettedCall, DeniedCall, Trusted, PastPolicy
    <2>4. CASE Verdict(c, d) = "allow"
      <3>1. d = "allow"
        BY <2>4 DEF Verdict
      <3>2. call'[c].pc = "idle" /\ call'[c].vetted = {call[c].input}
        BY <2>4, <1>ty DEF CallType
      <3> QED
        BY <2>1, <3>1, <3>2, <1>sc, <1>sk
        DEF SafeCall, VettedCall, DeniedCall, Trusted, PastPolicy
    <2>5. CASE Verdict(c, d) = "ask"
      <3>1. call[c].hookAsks \/ d = "ask"
        BY <2>5 DEF Verdict
      <3>2. sm'.status[c] # "scheduled" /\ call'[c].pc = "details"
        BY <2>2, <2>5, <1>ty DEF CallType
      <3> QED
        BY <2>1, <3>1, <3>2, <1>sc, <1>sk
        DEF SafeCall, VettedCall, DeniedCall, Trusted, PastPolicy
    <2> QED
      BY <2>3, <2>4, <2>5
  <1>3. CASE Unneeded(c)
    <2>1. /\ call'[c].args = call[c].args
          /\ call'[c].input = call[c].input
          /\ call'[c].vetted = {call[c].args}
          /\ call'[c].decision = call[c].decision
          /\ call'[c].hookAsks = call[c].hookAsks
          /\ call'[c].pc = "outcome"
          /\ sm'.status[c] # "scheduled"
      BY <1>3, <1>ns, <1>ty DEF Unneeded, CallType
    <2> QED
      BY <1>3, <2>1, <1>sc, <1>sk
      DEF Unneeded, SafeCall, VettedCall, DeniedCall, Trusted, PastPolicy
  <1>4. CASE AskUser(c)
    <2>1. /\ call'[c].decision = call[c].decision
          /\ call'[c].hookAsks = call[c].hookAsks
          /\ call'[c].pc = "answer"
          /\ c \notin struck => call'[c].args = call'[c].input
      BY <1>in, <1>4, <1>ty DEF AskUser, CallType
    <2>2. call[c].pc = "details" /\ sm'.status[c] # "scheduled"
      BY <1>4, <1>ns, <1>us, <1>st DEF AskUser
    <2> QED
      BY <2>1, <2>2, <1>qu
  <1>5. CASE EditorDone(c)
    <2>1. /\ call'[c].decision = call[c].decision
          /\ call'[c].hookAsks = call[c].hookAsks
          /\ call'[c].pc = "details"
          /\ c \notin struck => call'[c].args = call'[c].input
      BY <1>in, <1>5, <1>ty DEF EditorDone, CallType
    <2>2. call[c].pc = "editor" /\ sm'.status[c] # "scheduled"
      BY <1>5, <1>ns DEF EditorDone
    <2> QED
      BY <2>1, <2>2, <1>qu
  <1>6. CASE InlineDone(c)
    <2>1. /\ call'[c].args \in call'[c].vetted
          /\ c \notin struck => call'[c].args = call'[c].input
          /\ call'[c].decision = call[c].decision
          /\ call'[c].hookAsks = call[c].hookAsks
          /\ call'[c].pc = "outcome"
      BY <1>in, <1>6, <1>ty DEF InlineDone, CallType
    <2>2. call[c].pc = "inline" /\ sm'.status[c] # "scheduled"
      BY <1>6, <1>ns DEF InlineDone
    <2> QED
      BY <2>1, <2>2, <1>sc, <1>sk
      DEF SafeCall, VettedCall, DeniedCall, Trusted, PastPolicy
  <1>7. CASE Conclude(c)
    <2>1. /\ call'[c].args = call[c].args
          /\ call'[c].input = call[c].input
          /\ call'[c].vetted = call[c].vetted
          /\ call'[c].decision = call[c].decision
          /\ call'[c].hookAsks = call[c].hookAsks
          /\ call'[c].pc = "idle"
      BY <1>7, <1>ty DEF Conclude, CallType
    <2>2. CASE call[c].answer = "cancel"
      <3>1. UpdateStatus(sm, c, "cancelled") \in StateType
        BY <1>ty, <1>st, UpdateAllType DEF UpdateStatus
      <3>2. sm'.status[c] # "scheduled"
        BY <1>7, <2>2, <3>1, <1>ns, <1>us, <1>st, OperatorsScheduleNone
        DEF Conclude, NoneScheduled
      <3> QED
        BY <2>1, <3>2, <1>sc, <1>sk
        DEF SafeCall, VettedCall, DeniedCall, Trusted, PastPolicy
    <2>3. CASE call[c].answer # "cancel"
      BY <1>7, <2>1, <2>3, <1>sc, <1>sk
      DEF Conclude, SafeCall, VettedCall, DeniedCall, Trusted, PastPolicy
    <2> QED
      BY <2>2, <2>3
  <1>8. CASE Throw(c)
    <2>1. call[c].pc # "idle"
      BY <1>8 DEF Throw, Validation
    <2>2. End(c, "error") \/ End(c, "cancelled")
      BY <1>8 DEF Throw
    <2> QED
      BY <2>1, <2>2, <1>st, <1>sk, EndSafe
  <1>9. CASE \E r \in Result \ {"none"} : ToolDone(c, r)
    <2>1. /\ call'[c].decision = call[c].decision
          /\ call'[c].hookAsks = call[c].hookAsks
          /\ call'[c].pc = "result"
          /\ c \notin struck => call'[c].args = call'[c].input
      BY <1>in, <1>9, <1>ty DEF ToolDone, CallType
    <2>2. call[c].pc = "tool" /\ sm'.status[c] # "scheduled"
      BY <1>9, <1>ns DEF ToolDone
    <2> QED
      BY <2>1, <2>2, <1>qu
  <1>10. CASE Recorded(c)
    BY <1>10, <1>st, <1>sk, EndSafe DEF Recorded, Terminal
  <1>11. CASE TailCalled(c)
    <2>1. /\ call'[c].pc = "idle"
          /\ call'[c].hookAsks = FALSE
          /\ call'[c].args = call'[c].input
      BY <1>11, <1>ty DEF TailCalled, NewCall
    <2>2. sm'.status[c] # "scheduled"
      BY <1>11, <1>ns, <1>ty, OperatorsScheduleNone
      DEF TailCalled, NoneScheduled, Status
    <2> QED
      BY <2>1, <2>2, <1>sk
      DEF SafeCall, VettedCall, DeniedCall, Trusted, PastPolicy
  <1>12. CASE ExpansionAsked(c)
    <2>1. CASE cur \in aborted
      BY <1>12, <2>1, <1>st, <1>sk, EndSafe DEF ExpansionAsked
    <2>2. CASE cur \notin aborted
      <3>1. /\ call'[c].decision = call[c].decision
            /\ call'[c].hookAsks = call[c].hookAsks
            /\ call'[c].pc = "details"
            /\ call'[c].args = call'[c].input
        BY <1>12, <2>2, <1>ty DEF ExpansionAsked, CallType
      <3>2. call[c].pc = "result" /\ sm'.status[c] # "scheduled"
        BY <1>12, <2>2, <1>ns, <1>us, <1>st DEF ExpansionAsked
      <3> QED
        BY <3>1, <3>2, <1>qu
    <2> QED
      BY <2>1, <2>2
  <1>13. CASE ExpansionAnswered(c)
    <2>1. CASE End(c, "error") \/ End(c, "cancelled")
      BY <1>13, <2>1, <1>st, <1>sk, EndSafe DEF ExpansionAnswered
    <2>2. CASE /\ call[c].answer # "cancel"
               /\ sm' = UpdateStatus(sm, c, "executing")
               /\ call' = [call EXCEPT ![c].pc = "tool",
                                       ![c].expands = FALSE]
      <3>1. /\ call'[c].args = call[c].args
            /\ call'[c].input = call[c].input
            /\ call'[c].vetted = call[c].vetted
            /\ call'[c].decision = call[c].decision
            /\ call'[c].hookAsks = call[c].hookAsks
        BY <2>2, <1>ty DEF CallType
      <3>2. sm'.status[c] # "scheduled"
        BY <1>13, <2>2, <1>ns, <1>us, <1>st DEF ExpansionAnswered
      <3> QED
        BY <1>13, <2>2, <3>1, <3>2, <1>sc, <1>sk
        DEF ExpansionAnswered, SafeCall, VettedCall, DeniedCall, Trusted,
            PastPolicy
    <2> QED
      BY <1>13, <2>1, <2>2 DEF ExpansionAnswered
  <1>14. CASE Output(c)
    BY <1>14, <1>sc, <1>sk, <1>us, <1>st, Undisturbed DEF Output
  <1>15. ASSUME NEW r \in Responses, Respond(c, r)
         PROVE  SafeCall(c)'
    <2>1. /\ call[c].pc = "answer"
          /\ sm'.status[c] # "scheduled"
      BY <1>15, <1>ns DEF Respond
    <2>2. /\ call'[c].decision = call[c].decision
          /\ call'[c].hookAsks = call[c].hookAsks
          /\ call'[c].args = call[c].args
          /\ call'[c].input = call[c].input
          /\ \/ call'[c].pc \in {"inline", "editor"}
             \/ /\ call'[c].pc = "outcome"
                /\ \/ call'[c].answer = "cancel"
                   \/ call'[c].args \in call'[c].vetted
      BY <1>15, <1>ty DEF Respond, CallType
    <2> QED
      BY <2>1, <2>2, <1>sc, <1>sk
      DEF SafeCall, VettedCall, DeniedCall, Trusted, PastPolicy
  <1> QED
    BY <1>1, <1>2, <1>3, <1>4, <1>5, <1>6, <1>7, <1>8, <1>9, <1>10, <1>11,
       <1>12, <1>13, <1>14, <1>15 DEF CallStep

LEMMA SafeInit == Init => SafeInv
  <1> SUFFICES ASSUME Init PROVE SafeInv
    OBVIOUS
  <1>1. \A c \in Call : SafeCall(c)
    <2> SUFFICES ASSUME NEW c \in Call PROVE SafeCall(c)
      OBVIOUS
    <2>1. sm.status[c] = "validating"
      BY DEF Init, Fresh
    <2>2. /\ call[c].pc = "idle" /\ call[c].hookAsks = FALSE
          /\ call[c].args = call[c].input
      BY DEF Init, NewCall
    <2> QED
      BY <2>1, <2>2
      DEF SafeCall, VettedCall, DeniedCall, Trusted, PastPolicy, At
  <1> QED
    BY <1>1, TypeInit DEF SafeInv

LEMMA SafeNext == SafeInv /\ [Next]_vars => SafeInv'
  <1> SUFFICES ASSUME SafeInv, [Next]_vars PROVE SafeInv'
    OBVIOUS
  <1>ty. sm \in StateType
    BY DEF SafeInv, TypeOK
  \* Steps that leave the handlers alone and schedule nothing.
  <1>un. ASSUME UNCHANGED call, NoneScheduled(sm, sm'),
                struck \subseteq struck'
         PROVE  \A c \in Call : SafeCall(c)'
    BY <1>un, Undisturbed DEF SafeInv, NoneScheduled
  <1>1. CASE LoopTop
    <2>1. NoneScheduled(sm, sm)
      BY DEF NoneScheduled
    <2> QED
      BY <1>1, <1>ty, <2>1, TypeNext, IterateSafe DEF LoopTop, SafeInv
  <1>2. CASE JoinValidation
    BY <1>2, TypeNext, EndIterationSafe, ExecuteSafe
    DEF JoinValidation, SafeInv
  <1>3. CASE JoinExecution
    BY <1>3, TypeNext, EndIterationSafe DEF JoinExecution, SafeInv
  <1>4. CASE Finish
    <2>1. CASE requestQueue # << >> /\ sm.active = {}
      <3>1. /\ StartBatch(Head(requestQueue),
                          [request EXCEPT ![cur] = "resolved"])
            /\ Head(requestQueue) \in Batch
        BY <1>4, <2>1, HeadTailProperties DEF Finish, NextInRequestQueue, SafeInv, TypeOK
      <3>2. struck' = struck
        BY <1>4 DEF Finish
      <3> QED
        BY <3>1, <3>2, TypeNext, StartBatchSafe DEF SafeInv
    <2>2. CASE ~ (requestQueue # << >> /\ sm.active = {})
      BY <1>4, <2>2, <1>ty, <1>un, TypeNext, OperatorsScheduleNone
      DEF Finish, NextInRequestQueue, SafeInv
    <2> QED
      BY <2>1, <2>2
  <1>5. ASSUME NEW c \in Call,
               CallStep(c) \/ Output(c) \/ \E r \in Responses : Respond(c, r)
        PROVE  SafeInv'
    BY <1>5, TypeNext, HandlerSafe, HandlerOnlyMovesItsCall DEF SafeInv
  <1>6. ASSUME NEW b \in Batch, Schedule(b)
        PROVE  SafeInv'
    <2>1. CASE StartBatch(b, request)
      BY <1>6, <2>1, TypeNext, StartBatchSafe DEF Schedule, SafeInv
    <2>2. CASE UNCHANGED <<sm, call>>
      BY <1>6, <2>2, <1>un, TypeNext DEF Schedule, NoneScheduled, SafeInv
    <2> QED
      BY <1>6, <2>1, <2>2 DEF Schedule
  <1>7. ASSUME NEW b \in Batch, Abort(b)
        PROVE  SafeInv'
    BY <1>7, <1>un, TypeNext DEF Abort, NoneScheduled, SafeInv
  <1>8. CASE CancelAll
    <2>1. UpdateAll(sm, Pending(sm), "cancelled") \in StateType
      BY <1>ty, UpdateAllType DEF Status
    <2>2. NoneScheduled(sm, UpdateAll(sm, Pending(sm), "cancelled"))
      BY <1>ty DEF UpdateAll, NoneScheduled, StateType
    <2>3. NoneScheduled(sm, sm')
      BY <1>8, <2>1, <2>2, OperatorsScheduleNone DEF CancelAll, NoneScheduled
    <2> QED
      BY <1>8, <1>un, <2>3, TypeNext DEF CancelAll, SafeInv
  <1>9. CASE Done \/ UNCHANGED vars
    BY <1>9, <1>un, TypeNext DEF Done, vars, NoneScheduled, SafeInv
  <1> QED
    BY <1>1, <1>2, <1>3, <1>4, <1>5, <1>6, <1>7, <1>8, <1>9 DEF Next, Loop

LEMMA Safety == Spec => []SafeInv
  BY SafeInit, SafeNext, PTL DEF Spec

\* Only the 'ask' of a hook can turn the policy engine's denial into a call
\* that runs: where no hook asks, the denial holds.
THEOREM DenialHoldsWithoutHooks ==
    HookAsks = {} => (Spec => []PolicyDenialHolds)
  <1>1. ASSUME HookAsks = {}
        PROVE  SafeInv => PolicyDenialHolds
    BY <1>1
    DEF SafeInv, SafeCall, DeniedCall, PastPolicy, PolicyDenialHolds, At
  <1>2. ASSUME HookAsks = {}
        PROVE  Spec => []PolicyDenialHolds
    BY <1>1, <1>2, Safety, PTL
  <1> QED
    BY <1>2

=============================================================================
