-------------------------- MODULE AgentTaskProofs --------------------------
(***************************************************************************)
(* Theorems about AgentTask: every variable keeps its type, and the safety *)
(* properties that make a turn of the task come to its end hold whatever   *)
(* messages come, whatever the client cancels and however the scheduler    *)
(* groups the calls into waves.                                            *)
(***************************************************************************)
EXTENDS AgentTask, SequenceTheorems, TLAPS

USE DEF TaskState, Status, Outcome, Promise, Point

-----------------------------------------------------------------------------
(* Type correctness.                                                       *)

\* The calls of a batch are calls.
LEMMA BatchCalls ==
    ASSUME NEW s \in Batches \cup {<< >>}
    PROVE  ToSet(s) \subseteq Call
BY TaskAssumption DEF ToSet

\* An event leaves the variables of the task in their types.
LEMMA ObserveType ==
    ASSUME TaskTypeOK, NEW calls \in SUBSET Call, NEW before \in SUBSET Call,
           NEW state \in TaskState, NEW promise \in Promise,
           Observe(calls, before, state, promise)
    PROVE  TaskTypeOK'
<1>1. Effect(calls, before, state) \in {"resolved", "open", "none"}
  BY DEF Effect
<1>2. Ending(calls) \subseteq Call /\ Going(calls) \subseteq Call
  BY DEF Ending, Going
<1> QED
  BY <1>1, <1>2 DEF Observe, TaskTypeOK

LEMMA TaskSeesType ==
    ASSUME TaskTypeOK, held \in Promise \cup {"none", "rejected", "lost"},
           NEW calls \in SUBSET Call, TaskSees(calls)
    PROVE  /\ TaskTypeOK'
           /\ held' \in Promise \cup {"none", "rejected", "lost"}
<1>1. CASE evicted
  BY <1>1 DEF TaskSees, taskVars, TaskTypeOK
<1>2. CASE ~evicted
  <2>1. TaskTypeOK'
    BY <1>2, ObserveType DEF TaskSees, TaskTypeOK
  <2>2. Effect(calls, pendingToolCalls, taskState)
          \in {"resolved", "open", "none"}
    BY DEF Effect
  <2>3. held' \in Promise \cup {"none", "rejected", "lost"}
    BY <1>2, <2>2 DEF TaskSees, Settles, Replaces
  <2> QED BY <2>1, <2>3
<1> QED BY <1>1, <1>2

\* A step of the scheduler keeps the types.
LEMMA MovesType ==
    ASSUME TypeOK, NEW status \in [Call -> Status], Moves(status),
           answer' \in [Call -> Outcome \cup {"none"}]
    PROVE  TypeOK'
<1>1. Members \in SUBSET Call
  BY BatchCalls DEF Members, TypeOK, SchedulerTypeOK
<1>2. TaskTypeOK' /\ held' \in Promise \cup {"none", "rejected", "lost"}
  BY <1>1, TaskSeesType DEF Moves, TypeOK, ExecutorTypeOK
<1>3. ExecutorTypeOK'
  BY <1>2 DEF Moves, TypeOK, ExecutorTypeOK
<1>4. SchedulerTypeOK'
  BY DEF Moves, TypeOK, SchedulerTypeOK
<1> QED BY <1>2, <1>3, <1>4 DEF TypeOK, Moves

\* Cancelling keeps the types of what it changes.
LEMMA CancelType ==
    ASSUME TypeOK, CancelPendingTools, taskState' \in TaskState
    PROVE  TaskTypeOK' /\ SchedulerTypeOK' /\ down' \in BOOLEAN
<1>1. /\ Members \subseteq Call
      /\ Ending(Members) \subseteq Call
      /\ Reasked \subseteq Call
  BY BatchCalls
     DEF Members, TypeOK, SchedulerTypeOK, Ending, Reasked, Active
<1>2. TaskTypeOK'
  BY <1>1 DEF CancelPendingTools, TypeOK, TaskTypeOK, Forgotten
<1>3. at' \in [Call -> Status] /\ struck' \subseteq Call
  BY <1>1 DEF CancelPendingTools, CancelAll, TypeOK, SchedulerTypeOK
<1>4. << >> \in Seq([calls : Batches, owner : Message])
  OBVIOUS
<1>5. SchedulerTypeOK'
  BY <1>3, <1>4 DEF CancelPendingTools, CancelAll, TypeOK, SchedulerTypeOK
<1>6. down' \in BOOLEAN
  BY Zenon DEF CancelPendingTools, TypeOK, Unhandled
<1> QED BY <1>2, <1>5, <1>6

LEMMA CatchType ==
    ASSUME TypeOK, NEW m \in Message, Catch(m)
    PROVE  TypeOK'
<1>1. taskState' \in TaskState
  BY DEF Catch, TypeOK, TaskTypeOK
<1>2. TaskTypeOK' /\ SchedulerTypeOK' /\ down' \in BOOLEAN
  BY <1>1, CancelType DEF Catch
<1>3. ExecutorTypeOK'
  BY DEF Catch, EndExecution, TypeOK, ExecutorTypeOK
<1> QED BY <1>2, <1>3 DEF TypeOK

\* The start of a batch keeps the types of what it changes.
LEMMA StartType ==
    ASSUME NEW calls \in Batches, NEW m \in Message, at \in [Call -> Status],
           Start(calls, m, at)
    PROVE  /\ at' \in [Call -> Status]
           /\ batch' \in Batches
           /\ owner' \in Message
           /\ cancelling' \in BOOLEAN
BY DEF Start

LEMMA ExecutionType ==
    ASSUME TypeOK, NEW m \in Message,
           \/ Ignore(m) \/ ReceiveText(m)
           \/ \E c \in Call, outcome \in Outcome : ReceiveAnswer(m, c, outcome)
           \/ \E c \in Call : DropAnswer(m, c)
           \/ SecondaryEnds(m) \/ StreamEnds(m) \/ SocketEnds(m)
    PROVE  TypeOK'
<1> USE DEF TypeOK, TaskTypeOK, ExecutorTypeOK, SchedulerTypeOK, taskVars,
            executorVars, schedulerVars
<1>1. CASE Ignore(m)
  BY <1>1 DEF Ignore
<1>2. CASE ReceiveText(m)
  BY <1>2 DEF ReceiveText, BecomesPrimary
<1>3. CASE \E c \in Call, outcome \in Outcome : ReceiveAnswer(m, c, outcome)
  <2> PICK c \in Call, outcome \in Outcome : ReceiveAnswer(m, c, outcome)
    BY <1>3
  <2>1. TaskTypeOK'
    BY DEF ReceiveAnswer, Reset
  <2>2. ExecutorTypeOK'
    BY DEF ReceiveAnswer, BecomesPrimary, WaitsOn, Replaces, Reset
  <2>3. SchedulerTypeOK' /\ down' \in BOOLEAN
    BY DEF ReceiveAnswer
  <2> QED BY <2>1, <2>2, <2>3
<1>4. CASE \E c \in Call : DropAnswer(m, c)
  <2> PICK c \in Call : DropAnswer(m, c)
    BY <1>4
  <2>1. TaskTypeOK'
    BY DEF DropAnswer
  <2>2. ExecutorTypeOK'
    BY DEF DropAnswer, BecomesPrimary, WaitsOn
  <2>3. SchedulerTypeOK' /\ down' \in BOOLEAN
    BY DEF DropAnswer
  <2> QED BY <2>1, <2>2, <2>3
<1>5. CASE SecondaryEnds(m)
  BY <1>5 DEF SecondaryEnds
<1>6. CASE StreamEnds(m)
  BY <1>6 DEF StreamEnds, WaitsOn
<1>7. CASE SocketEnds(m)
  BY <1>7 DEF SocketEnds
<1> QED BY <1>1, <1>2, <1>3, <1>4, <1>5, <1>6, <1>7

LEMMA ScheduleToolCallsType ==
    ASSUME TypeOK, NEW m \in Message, ScheduleToolCalls(m), requests # << >>
    PROVE  TypeOK'
<1> DEFINE registered == pendingToolCalls \cup ToSet(requests)
           promise    == IF pendingToolCalls = {} THEN "open" ELSE completion
           calls      == IF evicted \/ batch # << >> THEN {}
                         ELSE ToSet(requests)
<1>1. requests \in Batches /\ ToSet(requests) \subseteq Call
  BY BatchCalls DEF TypeOK, ExecutorTypeOK
<1>2. Observe(calls, registered, "working", promise)
  BY DEF ScheduleToolCalls
<1>3. calls \in SUBSET Call /\ registered \in SUBSET Call /\ promise \in Promise
  BY <1>1 DEF TypeOK, TaskTypeOK
<1>4. TaskTypeOK'
  <2> HIDE DEF calls, registered, promise
  <2> QED BY <1>2, <1>3, ObserveType DEF TypeOK
<1>5. ExecutorTypeOK'
  BY <1>4 DEF ScheduleToolCalls, TypeOK, ExecutorTypeOK, TaskTypeOK, WaitsOn
<1>6. SchedulerTypeOK' /\ down' \in BOOLEAN
  <2>1. CASE batch = << >>
    BY <1>1, <2>1, StartType
       DEF ScheduleToolCalls, TypeOK, SchedulerTypeOK
  <2>2. CASE batch # << >>
    <3> DEFINE entry   == [calls |-> requests, owner |-> m]
               Entries == [calls : Batches, owner : Message]
    <3>1. entry \in Entries
      BY <1>1
    <3>2. line \in Seq(Entries) /\ line' = Append(line, entry)
      BY <2>2 DEF ScheduleToolCalls, TypeOK, SchedulerTypeOK
    <3>3. line' \in Seq(Entries)
      <4> HIDE DEF entry, Entries
      <4> QED BY <3>1, <3>2, AppendProperties
    <3> QED BY <2>2, <3>3 DEF ScheduleToolCalls, TypeOK, SchedulerTypeOK
  <2> QED BY <2>1, <2>2
<1> QED BY <1>4, <1>5, <1>6 DEF TypeOK

LEMMA TurnType ==
    ASSUME TypeOK, NEW m \in Message,
           StreamReports(m) \/ StreamThrows(m) \/ SendResults(m) \/ EndTurn(m)
             \/ WaitFails(m)
    PROVE  TypeOK'
<1>1. CASE StreamReports(m)
  <2>1. taskState' \in TaskState
    BY <1>1 DEF StreamReports, TypeOK, TaskTypeOK
  <2> QED
    BY <1>1, <2>1, CancelType
       DEF StreamReports, executorVars, TypeOK, ExecutorTypeOK
<1>2. CASE StreamThrows(m) \/ WaitFails(m)
  BY <1>2, CatchType DEF StreamThrows, WaitFails
<1>3. CASE SendResults(m)
  BY <1>3 DEF SendResults, TakeResults, schedulerVars, TypeOK, TaskTypeOK,
              ExecutorTypeOK, SchedulerTypeOK
<1>4. CASE EndTurn(m)
  BY <1>4 DEF EndTurn, TakeResults, EndExecution, schedulerVars, TypeOK,
              TaskTypeOK, ExecutorTypeOK, SchedulerTypeOK
<1> QED BY <1>1, <1>2, <1>3, <1>4

LEMMA ClientCancelType ==
    ASSUME TypeOK, CancelTask \/ CancelSaved
    PROVE  TypeOK'
<1>1. CASE CancelTask
  <2>1. TaskTypeOK' /\ SchedulerTypeOK' /\ down' \in BOOLEAN
    BY <1>1, CancelType DEF CancelTask
  <2>2. ExecutorTypeOK'
    BY <1>1 DEF CancelTask, TypeOK, ExecutorTypeOK, Settles
  <2> QED BY <2>1, <2>2 DEF TypeOK
<1>2. CASE CancelSaved
  <2>1. TaskTypeOK'
    BY <1>2 DEF CancelSaved, taskVars, TypeOK, TaskTypeOK
  <2>2. ExecutorTypeOK'
    BY <1>2 DEF CancelSaved, TypeOK, ExecutorTypeOK
  <2>3. SchedulerTypeOK' /\ down' \in BOOLEAN
    BY <1>2 DEF CancelSaved, schedulerVars, TypeOK, SchedulerTypeOK
  <2> QED BY <2>1, <2>2, <2>3 DEF TypeOK
<1> QED BY <1>1, <1>2

LEMMA SchedulerStepType ==
    ASSUME TypeOK,
           \/ \E c \in Call : Validated(c) \/ TakeAnswer(c) \/ Finish(c)
                              \/ AbortCall(c)
           \/ RunWave \/ CancelQueued \/ NextWave
    PROVE  TypeOK'
<1> USE DEF TypeOK, SchedulerTypeOK
<1>1. ASSUME NEW c \in Call, Validated(c)
      PROVE  TypeOK'
  BY <1>1, MovesType DEF Validated
<1>2. ASSUME NEW c \in Call, TakeAnswer(c)
      PROVE  TypeOK'
  BY <1>2, MovesType DEF TakeAnswer
<1>3. ASSUME NEW c \in Call, Finish(c)
      PROVE  TypeOK'
  BY <1>3, MovesType DEF Finish
<1>4. ASSUME NEW c \in Call, AbortCall(c)
      PROVE  TypeOK'
  BY <1>4, MovesType DEF AbortCall
<1>5. CASE RunWave
  BY <1>5, MovesType DEF RunWave
<1>6. CASE NextWave
  BY <1>6, MovesType DEF NextWave
<1>7. CASE CancelQueued
  BY <1>7, MovesType DEF CancelQueued
<1> QED BY <1>1, <1>2, <1>3, <1>4, <1>5, <1>6, <1>7

LEMMA EndBatchType ==
    ASSUME TypeOK, EndBatch
    PROVE  TypeOK'
<1>1. /\ at' \in [Call -> Status]
      /\ batch' \in Batches \cup {<< >>}
      /\ owner' \in Message \cup {None}
      /\ cancelling' \in BOOLEAN
      /\ line' \in Seq([calls : Batches, owner : Message])
  <2>1. CASE line = << >>
    BY <2>1 DEF EndBatch, TypeOK, SchedulerTypeOK
  <2>2. CASE line # << >>
    <3>1. Head(line) \in [calls : Batches, owner : Message]
      BY <2>2, HeadTailProperties DEF TypeOK, SchedulerTypeOK
    <3>2. line' \in Seq([calls : Batches, owner : Message])
      BY <2>2 DEF EndBatch, TypeOK, SchedulerTypeOK
    <3> QED
      BY <2>2, <3>1, <3>2, StartType DEF EndBatch, TypeOK, SchedulerTypeOK
  <2> QED BY <2>1, <2>2
<1>2. ToSet(batch') \in SUBSET Call
  BY <1>1, BatchCalls
<1>3. TaskTypeOK' /\ held' \in Promise \cup {"none", "rejected", "lost"}
  BY <1>2, TaskSeesType DEF EndBatch, TypeOK, ExecutorTypeOK
<1> QED
  BY <1>1, <1>3 DEF EndBatch, TypeOK, ExecutorTypeOK, SchedulerTypeOK

-----------------------------------------------------------------------------
(* The inductive invariant.                                                *)

\* Who schedules or waits is the primary, and has calls to schedule.
OnlyPrimaryWaits ==
    \A m \in Message :
        /\ pc[m] \in {"scheduling", "waiting"} => primary = m
        /\ pc[m] = "scheduling" => requests # << >>

HeldByPrimary ==
    held # "none" => primary \in Message /\ pc[primary] = "waiting"

RequestsAreNew == \A c \in ToSet(requests) : at[c] = "new"

\* The calls whose result the task has.
Results == completedToolCalls \cup processedToolCallIds

PendingUnknown == pendingToolCalls \cap Results = {}

KnownIsOver == \A c \in Results : Over(c, at, struck)

EnteredIsNotNew == \A c \in Members \cup struck : at[c] # "new"

LineWaits ==
    /\ \A i \in DOMAIN line : \A c \in ToSet(line[i].calls) : at[c] = "line"
    /\ \A i, j \in DOMAIN line :
          i # j => ToSet(line[i].calls) \cap ToSet(line[j].calls) = {}

CancellingLeavesNone == cancelling => \A c \in Members : Over(c, at, struck)

\* The executor's part, the scheduler's, and that of the calls the task
\* follows.
ExecutorInv == OnlyPrimaryWaits /\ HeldByPrimary /\ WaitIsFounded
SchedulerInv == /\ RequestsAreNew
                /\ EnteredIsNotNew
                /\ LineWaits
                /\ CancellingLeavesNone
CallsInv == /\ HandedOverOnce
            /\ PendingUnknown
            /\ KnownIsOver
            /\ SchedulerHasPending
            /\ ResultsArrive
            /\ AskedCanBeAnswered

IInv == TypeOK /\ ExecutorInv /\ SchedulerInv /\ CallsInv

-----------------------------------------------------------------------------
(* The part of the executor: one lemma for each way a step treats the      *)
(* promise.                                                                *)

\* An event never leaves a waiter on another promise than the one in force, nor
\* without a pending call.
LEMMA TaskSeesWakes ==
    ASSUME TypeOK, WaitIsFounded, NEW calls, TaskSees(calls)
    PROVE  WaitIsFounded'
<1>1. CASE evicted
  BY <1>1 DEF TaskSees, taskVars, WaitIsFounded
<1>2. CASE ~evicted
  <2> SUFFICES ASSUME held' = "open"
               PROVE  completion' = "open" /\ pendingToolCalls' # {}
    BY DEF WaitIsFounded
  <2> DEFINE effect == Effect(calls, pendingToolCalls, taskState)
  <2>1. effect \in {"resolved", "open", "none"}
    BY DEF Effect
  <2>2. held = "open" /\ effect = "none"
    BY <1>2, <2>1 DEF TaskSees, Settles, Replaces
  <2>3. completion' = "open"
    BY <1>2, <2>2 DEF TaskSees, Observe, WaitIsFounded
  <2>4. pendingToolCalls \ Ending(calls) # {}
    BY <2>2 DEF Effect, WaitIsFounded
  <2> QED BY <1>2, <2>3, <2>4 DEF TaskSees, Observe
<1> QED BY <1>1, <1>2

\* An event gives no promise to who waits on none.
LEMMA TaskSeesHeld ==
    ASSUME NEW calls, TaskSees(calls), held = "none"
    PROVE  held' = "none"
BY DEF TaskSees, Settles, Replaces

LEMMA MovesExecutor ==
    ASSUME TypeOK, ExecutorInv, NEW status, Moves(status)
    PROVE  ExecutorInv'
BY TaskSeesWakes, TaskSeesHeld
   DEF Moves, ExecutorInv, OnlyPrimaryWaits, HeldByPrimary

LEMMA EndBatchExecutor ==
    ASSUME TypeOK, ExecutorInv, EndBatch
    PROVE  ExecutorInv'
BY TaskSeesWakes, TaskSeesHeld
   DEF EndBatch, ExecutorInv, OnlyPrimaryWaits, HeldByPrimary

LEMMA ExecutionExecutor ==
    ASSUME TypeOK, ExecutorInv, NEW m \in Message,
           \/ Ignore(m) \/ ReceiveText(m)
           \/ \E c \in Call, outcome \in Outcome : ReceiveAnswer(m, c, outcome)
           \/ \E c \in Call : DropAnswer(m, c)
           \/ SecondaryEnds(m) \/ StreamEnds(m) \/ SocketEnds(m)
    PROVE  ExecutorInv'
<1> USE DEF ExecutorInv, OnlyPrimaryWaits, HeldByPrimary, WaitIsFounded,
            TypeOK, ExecutorTypeOK, TaskTypeOK, Receives, Streams, taskVars
<1>1. CASE Ignore(m)
  BY <1>1 DEF Ignore
<1>2. CASE ReceiveText(m)
  BY <1>2, TaskAssumption DEF ReceiveText, BecomesPrimary
<1>3. CASE \E c \in Call, outcome \in Outcome : ReceiveAnswer(m, c, outcome)
  <2> PICK c \in Call, outcome \in Outcome : ReceiveAnswer(m, c, outcome)
    BY <1>3
  <2>1. CASE primary = None
    BY <2>1, TaskAssumption
       DEF ReceiveAnswer, BecomesPrimary, WaitsOn, Replaces, Reset
  <2>2. CASE primary # None
    BY <2>2, TaskAssumption
       DEF ReceiveAnswer, BecomesPrimary, WaitsOn, Replaces, Reset
  <2> QED BY <2>1, <2>2
<1>4. CASE \E c \in Call : DropAnswer(m, c)
  <2> PICK c \in Call : DropAnswer(m, c)
    BY <1>4
  <2> QED BY TaskAssumption DEF DropAnswer, BecomesPrimary, WaitsOn
<1>5. CASE SecondaryEnds(m)
  BY <1>5 DEF SecondaryEnds
<1>6. CASE StreamEnds(m)
  BY <1>6 DEF StreamEnds, WaitsOn
<1>7. CASE SocketEnds(m)
  BY <1>7 DEF SocketEnds
<1> QED BY <1>1, <1>2, <1>3, <1>4, <1>5, <1>6, <1>7

LEMMA EndExecutionExecutor ==
    ASSUME TypeOK, OnlyPrimaryWaits, NEW m \in Message, primary = m,
           EndExecution(m)
    PROVE  ExecutorInv'
BY TaskAssumption
   DEF EndExecution, ExecutorInv, OnlyPrimaryWaits, HeldByPrimary,
       WaitIsFounded, TypeOK, ExecutorTypeOK

LEMMA TurnExecutor ==
    ASSUME TypeOK, ExecutorInv, NEW m \in Message,
           \/ StreamReports(m) \/ StreamThrows(m) \/ ScheduleToolCalls(m)
           \/ SendResults(m) \/ EndTurn(m) \/ WaitFails(m)
    PROVE  ExecutorInv'
<1> USE DEF ExecutorInv, OnlyPrimaryWaits, HeldByPrimary, WaitIsFounded,
            TypeOK, ExecutorTypeOK, Streams, Wakes
<1>1. CASE StreamReports(m)
  BY <1>1 DEF StreamReports, executorVars
<1>2. CASE StreamThrows(m)
  BY <1>2, EndExecutionExecutor DEF StreamThrows, Catch
<1>3. CASE ScheduleToolCalls(m)
  BY <1>3 DEF ScheduleToolCalls, WaitsOn
<1>4. CASE SendResults(m)
  BY <1>4 DEF SendResults
<1>5. CASE EndTurn(m)
  BY <1>5, EndExecutionExecutor DEF EndTurn
<1>6. CASE WaitFails(m)
  BY <1>6, EndExecutionExecutor DEF WaitFails, Catch
<1> QED BY <1>1, <1>2, <1>3, <1>4, <1>5, <1>6

LEMMA ClientCancelExecutor ==
    ASSUME TypeOK, ExecutorInv, CancelTask \/ CancelSaved
    PROVE  ExecutorInv'
BY DEF CancelTask, CancelSaved, taskVars, Settles, ExecutorInv,
       OnlyPrimaryWaits, HeldByPrimary, WaitIsFounded

-----------------------------------------------------------------------------
(* The parts of the scheduler and of the calls, for its own steps.         *)

\* What a step of the batch in progress makes of the status of its calls.
Advances(status) ==
    \A c \in Call :
        \/ status[c] = at[c]
        \/ /\ c \in Members
           /\ at[c] \notin {"new", "line", "finished", "cancelled"}
           /\ status[c] \notin {"new", "line"}

\* Every step of the batch advances it.
LEMMA StepsAdvance ==
    ASSUME TypeOK,
           \/ \E c \in Call : Validated(c) \/ TakeAnswer(c) \/ Finish(c)
                              \/ AbortCall(c)
           \/ RunWave \/ CancelQueued \/ NextWave
    PROVE  \E status \in [Call -> Status] : Moves(status) /\ Advances(status)
<1> USE DEF TypeOK, SchedulerTypeOK, In, Unstarted
<1>1. ASSUME NEW c \in Call, Validated(c)
      PROVE  \E status \in [Call -> Status] : Moves(status) /\ Advances(status)
  <2> PICK s \in {"scheduled", "finished", "awaiting_approval"} :
             Moves([at EXCEPT ![c] = s])
    BY <1>1 DEF Validated
  <2> WITNESS [at EXCEPT ![c] = s] \in [Call -> Status]
  <2> QED BY <1>1 DEF Validated, Advances
<1>2. ASSUME NEW c \in Call, TakeAnswer(c)
      PROVE  \E status \in [Call -> Status] : Moves(status) /\ Advances(status)
  <2> DEFINE refused == [d \in Call |-> IF d = c \/ d \in Unstarted
                                        THEN "cancelled" ELSE at[d]]
  <2>1. CASE Moves([at EXCEPT ![c] = "scheduled"])
    <3> WITNESS [at EXCEPT ![c] = "scheduled"] \in [Call -> Status]
    <3> QED BY <1>2, <2>1 DEF TakeAnswer, Advances
  <2>2. CASE Moves(at)
    <3> WITNESS at \in [Call -> Status]
    <3> QED BY <2>2 DEF Advances
  <2>3. CASE Moves(refused)
    <3> WITNESS refused \in [Call -> Status]
    <3> QED BY <1>2, <2>3 DEF TakeAnswer, Advances
  <2> QED BY <1>2, <2>1, <2>2, <2>3 DEF TakeAnswer
<1>3. ASSUME NEW c \in Call, Finish(c)
      PROVE  \E status \in [Call -> Status] : Moves(status) /\ Advances(status)
  <2> WITNESS [at EXCEPT ![c] = "finished"] \in [Call -> Status]
  <2> QED BY <1>3 DEF Finish, Advances
<1>4. ASSUME NEW c \in Call, AbortCall(c)
      PROVE  \E status \in [Call -> Status] : Moves(status) /\ Advances(status)
  <2> WITNESS [at EXCEPT ![c] = "cancelled"] \in [Call -> Status]
  <2> QED BY <1>4 DEF AbortCall, Advances
<1>5. CASE RunWave
  <2> WITNESS [c \in Call |-> IF In("scheduled", c) THEN "executing"
                              ELSE at[c]] \in [Call -> Status]
  <2> QED BY <1>5 DEF RunWave, Advances
<1>6. CASE NextWave
  <2> DEFINE wave(n)   == {c \in Unstarted : c \in ToSet(SubSeq(batch, 1, n))}
             status(n) == [c \in Call |-> IF c \in wave(n) THEN "validating"
                                         ELSE at[c]]
  <2>1. PICK n \in 1..Len(batch) : Moves(status(n))
    BY <1>6 DEF NextWave
  <2>2. status(n) \in [Call -> Status]
    OBVIOUS
  <2>3. Advances(status(n))
    BY DEF Advances
  <2> HIDE DEF status
  <2> QED BY <2>1, <2>2, <2>3
<1>7. CASE CancelQueued
  <2> WITNESS [c \in Call |-> IF c \in Unstarted THEN "cancelled" ELSE at[c]]
                \in [Call -> Status]
  <2> QED BY <1>7 DEF CancelQueued, Advances
<1> QED BY <1>1, <1>2, <1>3, <1>4, <1>5, <1>6, <1>7

\* The batches in line are batches.
LEMMA LineCalls ==
    ASSUME SchedulerTypeOK, NEW i \in DOMAIN line
    PROVE  line[i].calls \in Batches /\ ToSet(line[i].calls) \subseteq Call
<1> DEFINE Entries == [calls : Batches, owner : Message]
<1>1. line \in Seq(Entries)
  BY DEF SchedulerTypeOK
<1>2. line[i] \in Entries
  <2> HIDE DEF Entries
  <2> QED BY <1>1
<1> QED BY <1>2, BatchCalls

\* A batch advances over calls that have entered the scheduler, and those in
\* line stay there.
LEMMA MovesScheduler ==
    ASSUME TypeOK, SchedulerInv, NEW status \in [Call -> Status],
           Moves(status), Advances(status)
    PROVE  SchedulerInv'
<1> USE DEF SchedulerInv, TypeOK, SchedulerTypeOK, ExecutorTypeOK, Members
<1>1. /\ at' = status
      /\ UNCHANGED <<requests, struck, batch, line, cancelling>>
  BY DEF Moves
<1>2. ToSet(batch) \subseteq Call /\ ToSet(requests) \subseteq Call
  BY BatchCalls
<1>3. RequestsAreNew'
  BY <1>1, <1>2 DEF RequestsAreNew, Advances
<1>4. EnteredIsNotNew'
  BY <1>1, <1>2 DEF EnteredIsNotNew, Advances
<1>5. \A i \in DOMAIN line : ToSet(line[i].calls) \subseteq Call
  BY LineCalls
<1>6. LineWaits'
  BY <1>1, <1>5 DEF LineWaits, Advances
<1>7. CancellingLeavesNone'
  BY <1>1, <1>2 DEF CancellingLeavesNone, Over, Advances
<1> QED BY <1>3, <1>4, <1>6, <1>7

\* What an event does to the calls that the task knows of.
LEMMA ObserveCalls ==
    ASSUME NEW calls \in SUBSET Call, NEW before \in SUBSET Call,
           NEW state, NEW promise,
           Observe(calls, before, state, promise),
           HandedOverOnce, before \cap Results = {}
    PROVE  /\ HandedOverOnce'
           /\ PendingUnknown'
           /\ Results \subseteq Results'
           /\ \A c \in calls : Over(c, at', struck') => c \in Results'
           /\ \A c \in Results' : c \in Results \/ Over(c, at', struck')
           /\ \A c \in pendingToolCalls' :
                \/ c \in before /\ c \notin calls
                \/ c \in calls /\ ~Over(c, at', struck')
           /\ correlationIds \subseteq correlationIds'
           /\ \A c \in calls \ Results :
                at'[c] = "awaiting_approval" /\ ~Over(c, at', struck')
                  => c \in correlationIds'
<1> USE DEF Results, Known
<1>1. /\ pendingToolCalls' = (before \ Ending(calls)) \cup Going(calls)
      /\ completedToolCalls' = completedToolCalls \cup Ending(calls)
      /\ processedToolCallIds' = processedToolCallIds
      /\ correlationIds' = correlationIds \cup
           {c \in Going(calls) : at'[c] = "awaiting_approval"}
  BY DEF Observe
<1>2. /\ \A c \in Ending(calls) :
            c \in calls /\ c \notin Results /\ Over(c, at', struck')
      /\ \A c \in Going(calls) :
            c \in calls /\ c \notin Results /\ ~Over(c, at', struck')
      /\ \A c \in calls : c \in Results \cup Ending(calls) \cup Going(calls)
  BY DEF Ending, Going
<1>3. Results' = Results \cup Ending(calls)
  BY <1>1
<1>4. HandedOverOnce'
  BY <1>1, <1>2 DEF HandedOverOnce
<1>5. PendingUnknown'
  BY <1>1, <1>2, <1>3 DEF PendingUnknown
<1> HIDE DEF Results, Known
<1>6. \A c \in calls : Over(c, at', struck') => c \in Results'
  BY <1>2, <1>3
<1>7. \A c \in Results' : c \in Results \/ Over(c, at', struck')
  BY <1>2, <1>3
<1>8. \A c \in pendingToolCalls' :
        \/ c \in before /\ c \notin calls
        \/ c \in calls /\ ~Over(c, at', struck')
  BY <1>1, <1>2
<1>9. \A c \in calls \ Results :
        at'[c] = "awaiting_approval" /\ ~Over(c, at', struck')
          => c \in correlationIds'
  BY <1>1, <1>2
<1> QED BY <1>1, <1>3, <1>4, <1>5, <1>6, <1>7, <1>8, <1>9

\* The calls of an event are followed, if what is over stays over and only
\* calls of the event change.
LEMMA TaskFollows ==
    ASSUME TypeOK, CallsInv, NEW calls \in SUBSET Call,
           Members' = calls, TaskSees(calls),
           struck' = struck, evicted' = evicted, down' = down,
           \A c \in Call : Over(c, at, struck) => Over(c, at', struck'),
           \A c \in Call \ calls : at'[c] = at[c],
           \A c \in calls : at'[c] # "new",
           \A c \in Call \ calls : Owed(c) /\ InHand(c) => InHand(c)'
    PROVE  CallsInv'
<1>1. Results \subseteq Call /\ pendingToolCalls \in SUBSET Call
  BY DEF TypeOK, TaskTypeOK, Results
<1>2. CASE evicted
  <2>1. UNCHANGED taskVars
    BY <1>2 DEF TaskSees
  <2>2. HandedOverOnce' /\ PendingUnknown' /\ Results' = Results
    BY <2>1 DEF taskVars, CallsInv, HandedOverOnce, PendingUnknown, Results
  <2>3. KnownIsOver'
    BY <2>2, <1>1 DEF CallsInv, KnownIsOver
  <2> QED
    BY <1>2, <2>2, <2>3
       DEF CallsInv, SchedulerHasPending, ResultsArrive, AskedCanBeAnswered
<1>3. CASE ~evicted
  <2>1. Observe(calls, pendingToolCalls, taskState, completion)
    BY <1>3 DEF TaskSees
  <2>2. HandedOverOnce /\ pendingToolCalls \cap Results = {}
    BY DEF CallsInv, PendingUnknown
  <2>3. /\ HandedOverOnce'
        /\ PendingUnknown'
        /\ Results \subseteq Results'
        /\ \A c \in calls : Over(c, at', struck') => c \in Results'
        /\ \A c \in Results' : c \in Results \/ Over(c, at', struck')
        /\ \A c \in pendingToolCalls' :
             \/ c \in pendingToolCalls /\ c \notin calls
             \/ c \in calls /\ ~Over(c, at', struck')
        /\ \A c \in calls \ Results :
             at'[c] = "awaiting_approval" /\ ~Over(c, at', struck')
               => c \in correlationIds'
    BY <1>1, <2>1, <2>2, ObserveCalls
  <2>4. KnownIsOver'
    BY <1>1, <2>3 DEF CallsInv, KnownIsOver
  <2>5. SchedulerHasPending'
    <3> SUFFICES ASSUME ~evicted', ~down', NEW c \in pendingToolCalls'
                 PROVE  at'[c] # "new" /\ ~Over(c, at', struck') /\ InHand(c)'
      BY DEF SchedulerHasPending, Owed
    <3>1. CASE c \in pendingToolCalls /\ c \notin calls
      <4>1. Owed(c) /\ InHand(c)
        BY <3>1 DEF CallsInv, SchedulerHasPending
      <4> QED BY <1>1, <3>1, <4>1 DEF Owed, Over
    <3>2. CASE c \in calls /\ ~Over(c, at', struck')
      BY <3>2 DEF InHand
    <3> QED BY <2>3, <3>1, <3>2
  <2>6. ResultsArrive'
    BY <2>3 DEF ResultsArrive, Known, Results
  <2>7. AskedCanBeAnswered'
    <3> SUFFICES ASSUME NEW c \in calls, at'[c] = "awaiting_approval",
                        c \notin struck'
                 PROVE  c \in correlationIds'
      BY DEF AskedCanBeAnswered
    <3>1. ~Over(c, at', struck')
      BY DEF Over
    <3>2. c \notin Results
      BY <2>3, <2>4, <3>1 DEF KnownIsOver
    <3> QED BY <2>3, <3>1, <3>2
  <2> QED BY <2>3, <2>4, <2>5, <2>6, <2>7 DEF CallsInv
<1> QED BY <1>2, <1>3

\* What is over stays over when a batch advances.
LEMMA MovesCalls ==
    ASSUME TypeOK, SchedulerInv, CallsInv, NEW status \in [Call -> Status],
           Moves(status), Advances(status)
    PROVE  CallsInv'
<1>1. /\ at' = status
      /\ UNCHANGED <<struck, batch, evicted, down>>
      /\ TaskSees(Members)
  BY DEF Moves
<1>2. Members' = Members /\ Members \in SUBSET Call
  BY <1>1, BatchCalls DEF Members, TypeOK, SchedulerTypeOK
<1>3. /\ \A c \in Call : Over(c, at, struck) => Over(c, at', struck')
      /\ \A c \in Call \ Members : at'[c] = at[c]
  BY <1>1 DEF Over, Advances
<1>4. \A c \in Members : at'[c] # "new"
  BY <1>1, MovesScheduler, <1>2 DEF SchedulerInv, EnteredIsNotNew
<1>5. \A c \in Call : InHand(c) => InHand(c)'
  BY <1>2 DEF InHand, Moves
<1> QED BY <1>1, <1>2, <1>3, <1>4, <1>5, TaskFollows

-----------------------------------------------------------------------------
(* A batch starts.                                                         *)

\* The status of the calls of a batch that starts, and of the others.
LEMMA StartFacts ==
    ASSUME NEW calls, NEW m, at \in [Call -> Status], ToSet(calls) \subseteq Call,
           Start(calls, m, at)
    PROVE  /\ batch' = calls
           /\ cancelling' = FALSE
           /\ \A c \in ToSet(calls) : at'[c] \notin {"new", "line"}
           /\ \A c \in Call \ ToSet(calls) : at'[c] = at[c]
BY DEF Start

\* The next batch in line takes the place of the one that is over.
LEMMA EndBatchScheduler ==
    ASSUME TypeOK, SchedulerInv, EndBatch
    PROVE  SchedulerInv'
<1> USE DEF SchedulerInv
<1>1. CASE line = << >>
  <2>1. batch' = << >> /\ UNCHANGED <<at, line, struck, requests, cancelling>>
    BY <1>1 DEF EndBatch
  <2>2. Members' = {}
    BY <2>1 DEF Members, ToSet
  <2> QED
    BY <2>1, <2>2 DEF RequestsAreNew, EnteredIsNotNew, LineWaits,
                      CancellingLeavesNone
<1>2. CASE line # << >>
  <2> DEFINE next    == ToSet(Head(line).calls)
             Entries == [calls : Batches, owner : Message]
  <2>1. line \in Seq(Entries)
    BY DEF TypeOK, SchedulerTypeOK
  <2>2. /\ Head(line) = line[1] /\ 1 \in DOMAIN line
        /\ Len(line) \in Nat /\ DOMAIN line = 1..Len(line)
        /\ DOMAIN Tail(line) = 1..(Len(line) - 1)
        /\ \A i \in DOMAIN Tail(line) : i + 1 \in DOMAIN line
                                        /\ Tail(line)[i] = line[i + 1]
    <3> HIDE DEF Entries
    <3> QED BY <1>2, <2>1
  <2>3. next \subseteq Call /\ requests \in Batches \cup {<< >>}
        /\ ToSet(requests) \subseteq Call
    BY <2>2, LineCalls, BatchCalls DEF TypeOK, SchedulerTypeOK, ExecutorTypeOK
  <2>4. /\ line' = Tail(line) /\ struck' = struck /\ requests' = requests
        /\ Start(Head(line).calls, Head(line).owner, at)
    BY <1>2 DEF EndBatch
  <2>5. /\ batch' = Head(line).calls
        /\ cancelling' = FALSE
        /\ \A c \in next : at'[c] \notin {"new", "line"}
        /\ \A c \in Call \ next : at'[c] = at[c]
    BY <2>3, <2>4, StartFacts DEF TypeOK, SchedulerTypeOK
  <2>6. Members' = next
    BY <2>5 DEF Members
  <2>7. RequestsAreNew'
    BY <2>2, <2>3, <2>4, <2>5 DEF RequestsAreNew, LineWaits
  <2>8. EnteredIsNotNew'
    BY <2>4, <2>5, <2>6 DEF EnteredIsNotNew, TypeOK, SchedulerTypeOK
  <2>9. LineWaits'
    <3>1. \A i \in DOMAIN Tail(line) : ToSet(Tail(line)[i].calls) \cap next = {}
      <4> SUFFICES ASSUME NEW i \in DOMAIN Tail(line)
                   PROVE  ToSet(line[i + 1].calls) \cap ToSet(line[1].calls) = {}
        BY <2>2
      <4>1. i + 1 # 1 /\ i + 1 \in DOMAIN line
        BY <2>2
      <4> QED BY <2>2, <4>1 DEF LineWaits
    <3>2. ASSUME NEW i \in DOMAIN Tail(line), NEW c \in ToSet(Tail(line)[i].calls)
          PROVE  at'[c] = "line"
      <4>1. c \in Call /\ at[c] = "line"
        BY <2>2, LineCalls DEF LineWaits, TypeOK
      <4> QED BY <2>5, <3>1, <4>1
    <3>3. \A i, j \in DOMAIN Tail(line) : i # j =>
            ToSet(Tail(line)[i].calls) \cap ToSet(Tail(line)[j].calls) = {}
      <4> SUFFICES ASSUME NEW i \in DOMAIN Tail(line), NEW j \in DOMAIN Tail(line),
                          i # j
                   PROVE  ToSet(line[i + 1].calls) \cap ToSet(line[j + 1].calls)
                            = {}
        BY <2>2
      <4>1. i + 1 # j + 1
        BY <2>2
      <4> QED BY <2>2, <4>1 DEF LineWaits
    <3> QED BY <2>4, <3>2, <3>3 DEF LineWaits
  <2>10. CancellingLeavesNone'
    BY <2>5 DEF CancellingLeavesNone
  <2> QED BY <2>7, <2>8, <2>9, <2>10
<1> QED BY <1>1, <1>2

LEMMA EndBatchCalls ==
    ASSUME TypeOK, SchedulerInv, CallsInv, EndBatch
    PROVE  CallsInv'
<1>1. /\ batch' \in Batches \cup {<< >>}
      /\ TaskSees(Members')
      /\ UNCHANGED <<struck, evicted, down>>
  BY EndBatchType DEF EndBatch, Members, TypeOK, SchedulerTypeOK
<1>2. Members' \in SUBSET Call
  BY <1>1, BatchCalls DEF Members
<1>3. \A c \in Members' : at'[c] # "new"
  BY EndBatchScheduler DEF SchedulerInv, EnteredIsNotNew
<1>4. /\ \A c \in Call \ Members' : at'[c] = at[c]
      /\ \A c \in Members' : at[c] = "line"
  <2>1. CASE line = << >>
    <3>1. batch' = << >> /\ at' = at
      BY <2>1 DEF EndBatch
    <3>2. Members' = {}
      BY <3>1 DEF Members, ToSet
    <3> QED BY <3>1, <3>2
  <2>2. CASE line # << >>
    <3> DEFINE Entries == [calls : Batches, owner : Message]
    <3>1. line \in Seq(Entries)
      BY DEF TypeOK, SchedulerTypeOK
    <3>2. Head(line) = line[1] /\ 1 \in DOMAIN line
      <4> HIDE DEF Entries
      <4> QED BY <2>2, <3>1
    <3>3. /\ batch' = Head(line).calls
          /\ \A c \in Call \ ToSet(Head(line).calls) : at'[c] = at[c]
      BY <2>2, <3>2, LineCalls, StartFacts
         DEF EndBatch, TypeOK, SchedulerTypeOK
    <3> QED BY <3>2, <3>3 DEF Members, SchedulerInv, LineWaits
  <2> QED BY <2>1, <2>2
<1>5. \A c \in Call : Over(c, at, struck) => Over(c, at', struck')
  BY <1>1, <1>4 DEF Over
<1>6. ASSUME NEW c \in Call, Owed(c), InHand(c), c \notin Members'
      PROVE  InHand(c)'
  <2>1. c \notin Members
    BY <1>6 DEF EndBatch, Owed, Over
  <2>2. PICK i \in DOMAIN line : c \in ToSet(line[i].calls)
    BY <1>6, <2>1 DEF InHand
  <2> DEFINE Entries == [calls : Batches, owner : Message]
  <2>3. line \in Seq(Entries)
    BY DEF TypeOK, SchedulerTypeOK
  <2>4. line # << >>
    <3> HIDE DEF Entries
    <3> QED BY <2>2, <2>3
  <2>5. line' = Tail(line) /\ Members' = ToSet(line[1].calls)
    <3>1. Head(line) = line[1]
      <4> HIDE DEF Entries
      <4> QED BY <2>3, <2>4
    <3> QED BY <2>4, <3>1 DEF EndBatch, Start, Members
  <2>6. i # 1
    BY <1>6, <2>2, <2>5
  <2>7. i - 1 \in DOMAIN Tail(line) /\ Tail(line)[i - 1] = line[i]
    <3> HIDE DEF Entries
    <3> QED BY <2>2, <2>3, <2>4, <2>6
  <2> QED BY <2>2, <2>5, <2>7 DEF InHand
<1> QED BY <1>1, <1>2, <1>3, <1>4, <1>5, <1>6, TaskFollows

\* The calls that the model asked for enter the scheduler, or its line.
LEMMA ScheduleScheduler ==
    ASSUME TypeOK, OnlyPrimaryWaits, SchedulerInv, NEW m \in Message,
           ScheduleToolCalls(m)
    PROVE  SchedulerInv'
<1> USE DEF SchedulerInv
<1>1. /\ requests \in Batches /\ ToSet(requests) \subseteq Call
      /\ \A c \in ToSet(requests) : at[c] = "new"
      /\ requests' = << >> /\ struck' = struck
      /\ ToSet(requests') = {}
  BY BatchCalls DEF ScheduleToolCalls, OnlyPrimaryWaits, RequestsAreNew,
                    TypeOK, ExecutorTypeOK, ToSet
<1>2. RequestsAreNew'
  BY <1>1 DEF RequestsAreNew
<1>3. CASE batch = << >>
  <2>1. /\ batch' = requests
        /\ cancelling' = FALSE
        /\ \A c \in ToSet(requests) : at'[c] \notin {"new", "line"}
        /\ \A c \in Call \ ToSet(requests) : at'[c] = at[c]
        /\ line' = line
    BY <1>1, <1>3, StartFacts DEF ScheduleToolCalls, TypeOK, SchedulerTypeOK
  <2>2. EnteredIsNotNew'
    BY <1>1, <2>1 DEF EnteredIsNotNew, Members, TypeOK, SchedulerTypeOK
  <2>3. LineWaits'
    <3> SUFFICES ASSUME NEW i \in DOMAIN line, NEW c \in ToSet(line[i].calls)
                 PROVE  at'[c] = "line"
      BY <2>1 DEF LineWaits
    <3>1. c \in Call /\ at[c] = "line"
      BY LineCalls DEF LineWaits, TypeOK
    <3> QED BY <1>1, <2>1, <3>1
  <2>4. CancellingLeavesNone'
    BY <2>1 DEF CancellingLeavesNone
  <2> QED BY <1>2, <2>2, <2>3, <2>4
<1>4. CASE batch # << >>
  <2> DEFINE entry   == [calls |-> requests, owner |-> m]
             Entries == [calls : Batches, owner : Message]
  <2>1. /\ line' = Append(line, entry) /\ batch' = batch
        /\ cancelling' = cancelling
        /\ at' = [c \in Call |-> IF c \in ToSet(requests) THEN "line" ELSE at[c]]
    BY <1>4 DEF ScheduleToolCalls
  <2>2. entry.calls = requests /\ line \in Seq(Entries) /\ entry \in Entries
    BY <1>1 DEF TypeOK, SchedulerTypeOK
  <2>3. /\ DOMAIN line' = DOMAIN line \cup {Len(line) + 1}
        /\ Len(line) + 1 \notin DOMAIN line
        /\ \A i \in DOMAIN line : line'[i] = line[i]
        /\ line'[Len(line) + 1] = entry
    <3> HIDE DEF Entries, entry
    <3> QED BY <2>1, <2>2, AppendProperties
  <2>4. EnteredIsNotNew'
    <3>1. Members \cup struck \subseteq Call
      BY BatchCalls DEF Members, TypeOK, SchedulerTypeOK
    <3> QED BY <1>1, <2>1, <3>1 DEF EnteredIsNotNew, Members
  <2>5. \A i \in DOMAIN line : \A c \in ToSet(line[i].calls) :
          c \in Call /\ at[c] = "line"
    BY LineCalls DEF LineWaits, TypeOK
  <2> HIDE DEF entry
  <2>6. \A i \in DOMAIN line' : \A c \in ToSet(line'[i].calls) : at'[c] = "line"
    BY <1>1, <2>1, <2>2, <2>3, <2>5
  <2>7. ASSUME NEW i \in DOMAIN line', NEW j \in DOMAIN line', i # j
        PROVE  ToSet(line'[i].calls) \cap ToSet(line'[j].calls) = {}
    <3>1. CASE i \in DOMAIN line /\ j \in DOMAIN line
      BY <2>3, <2>7, <3>1 DEF LineWaits
    <3>2. CASE i = Len(line) + 1
      BY <1>1, <2>2, <2>3, <2>5, <2>7, <3>2
    <3>3. CASE j = Len(line) + 1
      BY <1>1, <2>2, <2>3, <2>5, <2>7, <3>3
    <3> QED BY <2>3, <3>1, <3>2, <3>3
  <2>8. CancellingLeavesNone'
    <3>1. \A c \in Members : at'[c] = at[c]
      <4> Members \subseteq Call
        BY BatchCalls DEF Members, TypeOK, SchedulerTypeOK
      <4> QED BY <1>1, <2>1 DEF EnteredIsNotNew
    <3> QED
      BY <1>1, <2>1, <3>1 DEF CancellingLeavesNone, Members, Over
  <2> QED BY <1>2, <2>4, <2>6, <2>7, <2>8 DEF LineWaits
<1> QED BY <1>3, <1>4

LEMMA ScheduleCalls ==
    ASSUME TypeOK, OnlyPrimaryWaits, SchedulerInv, CallsInv, NEW m \in Message,
           ScheduleToolCalls(m)
    PROVE  CallsInv'
<1> DEFINE registered == pendingToolCalls \cup ToSet(requests)
           promise    == IF pendingToolCalls = {} THEN "open" ELSE completion
           calls      == IF evicted \/ batch # << >> THEN {}
                         ELSE ToSet(requests)
<1>1. /\ requests \in Batches /\ ToSet(requests) \subseteq Call
      /\ \A c \in ToSet(requests) : at[c] = "new"
      /\ struck' = struck /\ evicted' = evicted /\ answer' = answer /\ ~down
  BY BatchCalls DEF ScheduleToolCalls, OnlyPrimaryWaits, SchedulerInv,
                    RequestsAreNew, TypeOK, ExecutorTypeOK
<1>2. /\ \A c \in Call \ ToSet(requests) : at'[c] = at[c]
      /\ \A c \in ToSet(requests) : at'[c] # "new"
      /\ batch # << >> => /\ batch' = batch
                          /\ \A c \in ToSet(requests) : at'[c] = "line"
      /\ batch = << >> => batch' = requests
  <2>1. CASE batch = << >>
    BY <1>1, <2>1, StartFacts DEF ScheduleToolCalls, TypeOK, SchedulerTypeOK
  <2>2. CASE batch # << >>
    BY <1>1, <2>2 DEF ScheduleToolCalls, TypeOK, SchedulerTypeOK
  <2> QED BY <2>1, <2>2
<1>3. /\ \A c \in Call : Over(c, at, struck) => Over(c, at', struck')
      /\ \A c \in ToSet(requests) : ~Over(c, at, struck)
  BY <1>1, <1>2 DEF Over, SchedulerInv, EnteredIsNotNew
<1>4. registered \cap Results = {}
  BY <1>3 DEF CallsInv, PendingUnknown, KnownIsOver
<1>5. Observe(calls, registered, "working", promise)
  BY DEF ScheduleToolCalls
<1>6. calls \in SUBSET Call /\ registered \in SUBSET Call /\ Results \subseteq Call
  BY <1>1 DEF TypeOK, TaskTypeOK, Results
<1>7. HandedOverOnce
  BY DEF CallsInv
<1>8. /\ HandedOverOnce'
      /\ PendingUnknown'
      /\ Results \subseteq Results'
      /\ \A c \in calls : Over(c, at', struck') => c \in Results'
      /\ \A c \in Results' : c \in Results \/ Over(c, at', struck')
      /\ \A c \in pendingToolCalls' :
           \/ c \in registered /\ c \notin calls
           \/ c \in calls /\ ~Over(c, at', struck')
      /\ correlationIds \subseteq correlationIds'
      /\ \A c \in calls \ Results :
           at'[c] = "awaiting_approval" /\ ~Over(c, at', struck')
             => c \in correlationIds'
  <2> HIDE DEF calls, registered, promise
  <2> QED BY <1>4, <1>5, <1>6, <1>7, ObserveCalls
<1>9. KnownIsOver'
  BY <1>3, <1>6, <1>8 DEF CallsInv, KnownIsOver
<1>10. SchedulerHasPending'
  <2> SUFFICES ASSUME ~evicted, NEW c \in pendingToolCalls'
               PROVE  at'[c] # "new" /\ ~Over(c, at', struck') /\ InHand(c)'
    BY <1>1 DEF SchedulerHasPending, Owed
  <2> DEFINE entry   == [calls |-> requests, owner |-> m]
             Entries == [calls : Batches, owner : Message]
  <2>1. line \in Seq(Entries) /\ entry \in Entries /\ entry.calls = requests
    BY <1>1 DEF TypeOK, SchedulerTypeOK
  <2>2. \/ batch = << >> /\ line' = line
        \/ batch # << >> /\ line' = Append(line, entry)
    BY DEF ScheduleToolCalls
  <2>3. ASSUME batch # << >>
        PROVE  /\ \A i \in DOMAIN line : i \in DOMAIN line' /\ line'[i] = line[i]
               /\ Len(line) + 1 \in DOMAIN line' /\ line'[Len(line) + 1] = entry
    <3> HIDE DEF Entries, entry
    <3> QED BY <2>1, <2>2, <2>3, AppendProperties
  <2>4. CASE c \in calls /\ ~Over(c, at', struck')
    BY <1>2, <2>4 DEF InHand, Members
  <2>5. CASE c \in registered /\ c \notin calls
    <3>1. CASE c \in ToSet(requests)
      <4>1. batch # << >>
        BY <2>5, <3>1
      <4>2. InHand(c)'
        <5> HIDE DEF entry, Entries
        <5> QED BY <2>1, <2>3, <3>1, <4>1 DEF InHand
      <4> QED BY <1>1, <1>2, <1>3, <3>1, <4>1, <4>2 DEF Over
    <3>2. CASE c \notin ToSet(requests)
      <4>1. Owed(c) /\ InHand(c)
        BY <1>1, <2>5, <3>2 DEF CallsInv, SchedulerHasPending
      <4>2. InHand(c)'
        <5>1. CASE batch = << >>
          <6>1. c \notin Members
            BY <5>1 DEF Members, ToSet
          <6> QED BY <2>2, <4>1, <5>1, <6>1 DEF InHand
        <5>2. CASE batch # << >>
          <6> HIDE DEF entry, Entries
          <6> QED BY <1>2, <2>3, <4>1, <5>2 DEF InHand, Members
        <5> QED BY <5>1, <5>2
      <4> QED BY <1>1, <1>2, <1>6, <2>5, <3>2, <4>1, <4>2 DEF Owed, Over
    <3> QED BY <3>1, <3>2
  <2> QED BY <1>8, <2>4, <2>5
<1>11. ASSUME ~evicted, NEW c \in Members'
       PROVE  \/ c \in calls
              \/ /\ c \in Members /\ at'[c] = at[c] /\ answer'[c] = answer[c]
                 /\ Members' = Members
  <2>1. CASE batch = << >>
    BY <1>2, <1>11, <2>1 DEF Members
  <2>2. CASE batch # << >>
    <3>1. Members' = Members /\ Members \subseteq Call
      BY <1>2, <2>2, BatchCalls DEF Members, TypeOK, SchedulerTypeOK
    <3>2. c \notin ToSet(requests)
      BY <1>1, <1>11, <3>1 DEF SchedulerInv, EnteredIsNotNew
    <3> QED BY <1>1, <1>2, <1>11, <3>1, <3>2
  <2> QED BY <2>1, <2>2
<1> HIDE DEF calls
<1>12. ResultsArrive'
  <2> SUFFICES ASSUME ~evicted, NEW c \in Members', Over(c, at', struck')
               PROVE  c \in Results'
    BY <1>1 DEF ResultsArrive, Known, Results
  <2>1. CASE c \in calls
    BY <1>8, <2>1
  <2>2. CASE c \in Members /\ at'[c] = at[c]
    <3>1. Over(c, at, struck)
      BY <1>1, <2>2 DEF Over
    <3>2. c \in Results
      BY <2>2, <3>1 DEF CallsInv, ResultsArrive, Known, Results
    <3> QED BY <1>8, <3>2
  <2> QED BY <1>11, <2>1, <2>2
<1>13. AskedCanBeAnswered'
  <2> SUFFICES ASSUME ~evicted, NEW c \in Members',
                      at'[c] = "awaiting_approval", c \notin struck',
                      answer'[c] = "none"
               PROVE  c \in correlationIds'
    BY <1>1 DEF AskedCanBeAnswered
  <2>1. CASE c \in calls
    <3>1. ~Over(c, at', struck')
      BY DEF Over
    <3>2. c \notin Results
      BY <1>8, <1>9, <3>1 DEF KnownIsOver
    <3> QED BY <1>8, <2>1, <3>1, <3>2
  <2>2. CASE c \in Members /\ at'[c] = at[c] /\ answer'[c] = answer[c]
    BY <1>1, <1>8, <2>2 DEF CallsInv, AskedCanBeAnswered
  <2> QED BY <1>11, <2>1, <2>2
<1> QED BY <1>8, <1>9, <1>10, <1>12, <1>13 DEF CallsInv

-----------------------------------------------------------------------------
(* Pending calls are cancelled.                                            *)

\* What cancelAll makes of the calls of the batch, and of the others.
LEMMA CancelFacts ==
    ASSUME TypeOK, SchedulerInv, CancelPendingTools
    PROVE  /\ cancelling' = TRUE
           /\ Members' = Members /\ Members \subseteq Call
           /\ \A c \in Members : Over(c, at', struck')
           /\ \A c \in Call : Over(c, at, struck) => Over(c, at', struck')
           /\ \A c \in Call : at'[c] = "new" <=> at[c] = "new"
           /\ \A c \in struck' : c \in struck \/ c \in Members
<1>1. Members' = Members /\ Members \subseteq Call
  BY BatchCalls DEF CancelPendingTools, Members, TypeOK, SchedulerTypeOK
<1>2. CASE cancelling
  BY <1>1, <1>2 DEF CancelPendingTools, CancelAll, SchedulerInv,
                    CancellingLeavesNone
<1>3. CASE ~cancelling
  <2>1. /\ cancelling' = TRUE
        /\ struck' = struck \cup {c \in Members : Owed(c)}
        /\ at' = [c \in Call |->
                   IF c \in Members /\ at[c] \in {"queued", "scheduled"}
                   THEN "cancelled" ELSE at[c]]
    BY <1>3 DEF CancelPendingTools, CancelAll
  <2>2. \A c \in Members : at[c] # "new"
    BY DEF SchedulerInv, EnteredIsNotNew
  <2>3. \A c \in Members : Over(c, at', struck')
    BY <1>1, <2>1, <2>2 DEF Owed, Over
  <2>4. \A c \in Call : Over(c, at, struck) => Over(c, at', struck')
    BY <2>1 DEF Over
  <2> QED BY <1>1, <2>1, <2>2, <2>3, <2>4
<1> QED BY <1>2, <1>3

LEMMA CancelScheduler ==
    ASSUME TypeOK, SchedulerInv, CancelPendingTools,
           requests' = requests \/ requests' = << >>
    PROVE  SchedulerInv'
<1> USE DEF SchedulerInv
<1>1. ToSet(requests) \subseteq Call
  BY BatchCalls DEF TypeOK, ExecutorTypeOK
<1>2. RequestsAreNew'
  <2>1. CASE requests' = requests
    BY <1>1, <2>1, CancelFacts DEF RequestsAreNew
  <2>2. CASE requests' = << >>
    <3>1. ToSet(requests') = {}
      BY <2>2 DEF ToSet
    <3> QED BY <3>1 DEF RequestsAreNew
  <2> QED BY <2>1, <2>2
<1>3. EnteredIsNotNew'
  <2>1. Members \cup struck \subseteq Call
    BY BatchCalls DEF Members, TypeOK, SchedulerTypeOK
  <2> QED BY <2>1, CancelFacts DEF EnteredIsNotNew
<1>4. LineWaits'
  <2>1. CASE cancelling
    BY <2>1 DEF CancelPendingTools, CancelAll, LineWaits
  <2>2. CASE ~cancelling
    <3>1. DOMAIN line' = {}
      BY <2>2 DEF CancelPendingTools, CancelAll
    <3> QED BY <3>1 DEF LineWaits
  <2> QED BY <2>1, <2>2
<1>5. CancellingLeavesNone'
  BY CancelFacts DEF CancellingLeavesNone
<1> QED BY <1>2, <1>3, <1>4, <1>5

LEMMA CancelCalls ==
    ASSUME TypeOK, SchedulerInv, CallsInv, CancelPendingTools,
           evicted => evicted'
    PROVE  CallsInv'
<1>1. /\ pendingToolCalls' = {}
      /\ processedToolCallIds' = processedToolCallIds
      /\ completedToolCalls' = IF evicted THEN completedToolCalls
                               ELSE completedToolCalls \cup Ending(Members)
  BY DEF CancelPendingTools, Forgotten
<1>2. /\ \A c \in Ending(Members) :
            c \in Members /\ c \notin Results /\ Over(c, at', struck')
      /\ \A c \in Members : Over(c, at', struck')
                              => c \in Results \cup Ending(Members)
      /\ Results \subseteq Call
  BY DEF Ending, Known, Results, TypeOK, TaskTypeOK
<1>3. HandedOverOnce' /\ PendingUnknown'
  BY <1>1, <1>2 DEF CallsInv, HandedOverOnce, PendingUnknown, Results
<1>4. Results' = IF evicted THEN Results ELSE Results \cup Ending(Members)
  BY <1>1 DEF Results
<1>5. KnownIsOver'
  BY <1>2, <1>4, CancelFacts DEF CallsInv, KnownIsOver
<1>6. SchedulerHasPending'
  BY <1>1 DEF SchedulerHasPending
<1>7. ResultsArrive'
  <2> SUFFICES ASSUME ~evicted, NEW c \in Members, Over(c, at', struck')
               PROVE  c \in Results'
    BY CancelFacts DEF ResultsArrive, Known, Results
  <2> QED BY <1>2, <1>4
<1>8. AskedCanBeAnswered'
  BY CancelFacts DEF AskedCanBeAnswered, Over
<1> QED BY <1>3, <1>5, <1>6, <1>7, <1>8 DEF CallsInv

-----------------------------------------------------------------------------
(* The steps that leave the scheduler alone.                               *)

LEMMA StillScheduler ==
    ASSUME SchedulerInv, UNCHANGED <<at, struck, batch, line, cancelling>>,
           \/ requests' = requests
           \/ \A c \in ToSet(requests') : at[c] = "new"
    PROVE  SchedulerInv'
BY DEF SchedulerInv, RequestsAreNew, EnteredIsNotNew, LineWaits,
       CancellingLeavesNone, Members, Over

LEMMA StillCalls ==
    ASSUME CallsInv, UNCHANGED <<at, struck, batch, line, answer,
                                 pendingToolCalls, correlationIds>>,
           evicted => evicted', down => down',
           \/ UNCHANGED <<completedToolCalls, processedToolCallIds>>
           \/ TakeResults
    PROVE  CallsInv'
<1>1. Results' = Results
  BY DEF TakeResults, Results
<1>2. HandedOverOnce'
  BY DEF TakeResults, CallsInv, HandedOverOnce
<1>3. PendingUnknown' /\ KnownIsOver'
  BY <1>1 DEF CallsInv, PendingUnknown, KnownIsOver, Over
<1>4. SchedulerHasPending'
  BY DEF CallsInv, SchedulerHasPending, Owed, Over, InHand, Members
<1>5. ResultsArrive'
  BY <1>1 DEF CallsInv, ResultsArrive, Over, Members, Known, Results
<1>6. AskedCanBeAnswered'
  BY DEF CallsInv, AskedCanBeAnswered, Members
<1> QED BY <1>2, <1>3, <1>4, <1>5, <1>6 DEF CallsInv

LEMMA AnswerCalls ==
    ASSUME TypeOK, CallsInv, NEW m \in Message, NEW c \in Call,
           NEW outcome \in Outcome, ReceiveAnswer(m, c, outcome)
    PROVE  CallsInv'
<1>1. /\ UNCHANGED <<at, struck, batch, line, pendingToolCalls,
                     completedToolCalls, processedToolCallIds, evicted, down>>
      /\ Members' = Members
  BY DEF ReceiveAnswer, Members
<1>2. HandedOverOnce' /\ PendingUnknown' /\ KnownIsOver'
  BY <1>1 DEF CallsInv, HandedOverOnce, PendingUnknown, KnownIsOver, Results,
              Over
<1>3. SchedulerHasPending' /\ ResultsArrive'
  BY <1>1 DEF CallsInv, SchedulerHasPending, ResultsArrive, Owed, Over, Known,
              InHand
<1>4. AskedCanBeAnswered'
  <2> SUFFICES ASSUME ~evicted, NEW d \in Members,
                      at[d] = "awaiting_approval", d \notin struck,
                      answer'[d] = "none"
               PROVE  d \in correlationIds'
    BY <1>1 DEF AskedCanBeAnswered
  <2>1. answer[d] = "none" /\ d \in correlationIds
    BY DEF ReceiveAnswer, TypeOK, SchedulerTypeOK, CallsInv, AskedCanBeAnswered
  <2>2. d # c
    BY <2>1 DEF ReceiveAnswer, TypeOK, SchedulerTypeOK
  <2> QED BY <2>1, <2>2 DEF ReceiveAnswer
<1> QED BY <1>2, <1>3, <1>4 DEF CallsInv

-----------------------------------------------------------------------------
(* Every step.                                                             *)

LEMMA ExecutionStep ==
    ASSUME IInv, NEW m \in Message,
           \/ Ignore(m) \/ ReceiveText(m)
           \/ \E c \in Call, outcome \in Outcome : ReceiveAnswer(m, c, outcome)
           \/ \E c \in Call : DropAnswer(m, c)
           \/ SecondaryEnds(m) \/ StreamEnds(m) \/ SocketEnds(m)
    PROVE  IInv'
<1>1. TypeOK' /\ ExecutorInv'
  BY ExecutionType, ExecutionExecutor DEF IInv
<1> USE DEF IInv, schedulerVars, taskVars
<1>2. CASE Ignore(m)
  BY <1>1, <1>2, StillScheduler, StillCalls DEF Ignore
<1>3. CASE ReceiveText(m)
  BY <1>1, <1>3, StillScheduler, StillCalls DEF ReceiveText
<1>4. CASE \E c \in Call, outcome \in Outcome : ReceiveAnswer(m, c, outcome)
  <2> PICK c \in Call, outcome \in Outcome : ReceiveAnswer(m, c, outcome)
    BY <1>4
  <2>1. SchedulerInv'
    BY StillScheduler DEF ReceiveAnswer
  <2> QED BY <1>1, <2>1, AnswerCalls
<1>5. CASE \E c \in Call : DropAnswer(m, c)
  <2> PICK c \in Call : DropAnswer(m, c)
    BY <1>5
  <2> QED BY <1>1, StillScheduler, StillCalls DEF DropAnswer
<1>6. CASE SecondaryEnds(m)
  BY <1>1, <1>6, StillScheduler, StillCalls DEF SecondaryEnds
<1>7. CASE StreamEnds(m)
  BY <1>1, <1>7, StillScheduler, StillCalls DEF StreamEnds
<1>8. CASE SocketEnds(m)
  BY <1>1, <1>8, StillScheduler, StillCalls DEF SocketEnds, Receives
<1> QED BY <1>2, <1>3, <1>4, <1>5, <1>6, <1>7, <1>8

LEMMA CancelStep ==
    ASSUME IInv, CancelPendingTools,
           requests' = requests \/ requests' = << >>, evicted => evicted'
    PROVE  SchedulerInv' /\ CallsInv'
BY CancelScheduler, CancelCalls DEF IInv

LEMMA TurnStep ==
    ASSUME IInv, NEW m \in Message,
           \/ StreamReports(m) \/ StreamThrows(m) \/ ScheduleToolCalls(m)
           \/ SendResults(m) \/ EndTurn(m) \/ WaitFails(m)
    PROVE  IInv'
<1>1. ExecutorInv'
  BY TurnExecutor DEF IInv
<1>2. TypeOK'
  BY TurnType, ScheduleToolCallsType
     DEF IInv, ScheduleToolCalls, ExecutorInv, OnlyPrimaryWaits
<1>3. CASE StreamReports(m)
  BY <1>1, <1>2, <1>3, CancelStep DEF StreamReports, executorVars, IInv
<1>4. CASE StreamThrows(m) \/ WaitFails(m)
  BY <1>1, <1>2, <1>4, CancelStep
     DEF StreamThrows, WaitFails, Catch, EndExecution, IInv
<1>5. CASE ScheduleToolCalls(m)
  BY <1>1, <1>2, <1>5, ScheduleScheduler, ScheduleCalls DEF IInv, ExecutorInv
<1>6. CASE SendResults(m)
  BY <1>1, <1>2, <1>6, StillScheduler, StillCalls
     DEF SendResults, TakeResults, schedulerVars, IInv
<1>7. CASE EndTurn(m)
  <2>1. \A c \in ToSet(<< >>) : at[c] = "new"
    BY DEF ToSet
  <2> QED
    BY <1>1, <1>2, <1>7, <2>1, StillScheduler, StillCalls
       DEF EndTurn, EndExecution, TakeResults, schedulerVars, IInv
<1> QED BY <1>3, <1>4, <1>5, <1>6, <1>7

LEMMA ClientCancelStep ==
    ASSUME IInv, CancelTask \/ CancelSaved
    PROVE  IInv'
<1>1. TypeOK' /\ ExecutorInv'
  BY ClientCancelType, ClientCancelExecutor DEF IInv
<1>2. CASE CancelTask
  BY <1>1, <1>2, CancelStep DEF CancelTask, IInv
<1>3. CASE CancelSaved
  BY <1>1, <1>3, StillScheduler, StillCalls
     DEF CancelSaved, taskVars, schedulerVars, IInv
<1> QED BY <1>2, <1>3

LEMMA SchedulerStep ==
    ASSUME IInv,
           \/ \E c \in Call : Validated(c) \/ TakeAnswer(c) \/ Finish(c)
                              \/ AbortCall(c)
           \/ RunWave \/ CancelQueued \/ NextWave
    PROVE  IInv'
<1>1. PICK status \in [Call -> Status] : Moves(status) /\ Advances(status)
  BY StepsAdvance DEF IInv
<1> QED
  BY <1>1, SchedulerStepType, MovesExecutor, MovesScheduler, MovesCalls DEF IInv

LEMMA EndBatchStep ==
    ASSUME IInv, EndBatch
    PROVE  IInv'
BY EndBatchType, EndBatchExecutor, EndBatchScheduler, EndBatchCalls DEF IInv

LEMMA StutterStep ==
    ASSUME IInv, UNCHANGED vars
    PROVE  IInv'
<1> USE DEF vars, taskVars, executorVars, schedulerVars, IInv
<1>1. TypeOK'
  BY DEF TypeOK, TaskTypeOK, ExecutorTypeOK, SchedulerTypeOK
<1>2. ExecutorInv'
  BY DEF ExecutorInv, OnlyPrimaryWaits, HeldByPrimary, WaitIsFounded
<1> QED BY <1>1, <1>2, StillScheduler, StillCalls

\* The inductive invariant holds throughout.
THEOREM Inductive == Spec => []IInv
<1>1. Init => IInv
  <2> SUFFICES ASSUME Init
               PROVE  IInv
    OBVIOUS
  <2> USE DEF Init
  <2>1. TypeOK
    <3>1. TaskTypeOK
      BY DEF TaskTypeOK
    <3>2. ExecutorTypeOK
      BY DEF ExecutorTypeOK
    <3>3. << >> \in Seq([calls : Batches, owner : Message])
      OBVIOUS
    <3>4. SchedulerTypeOK
      BY <3>3 DEF SchedulerTypeOK
    <3> QED BY <3>1, <3>2, <3>4 DEF TypeOK
  <2>2. ExecutorInv
    BY DEF ExecutorInv, OnlyPrimaryWaits, HeldByPrimary, WaitIsFounded
  <2>3. Members = {} /\ ToSet(requests) = {} /\ DOMAIN line = {}
    BY DEF Members, ToSet
  <2>4. SchedulerInv
    BY <2>3 DEF SchedulerInv, RequestsAreNew, EnteredIsNotNew, LineWaits,
                CancellingLeavesNone
  <2>5. CallsInv
    BY <2>3 DEF CallsInv, HandedOverOnce, PendingUnknown, KnownIsOver,
                SchedulerHasPending, ResultsArrive, AskedCanBeAnswered, Results
  <2> QED BY <2>1, <2>2, <2>4, <2>5 DEF IInv
<1>2. IInv /\ [Next]_vars => IInv'
  <2> SUFFICES ASSUME IInv, [Next]_vars
               PROVE  IInv'
    OBVIOUS
  <2>1. ASSUME NEW m \in Message,
               \/ Ignore(m) \/ ReceiveText(m)
               \/ \E c \in Call, outcome \in Outcome : ReceiveAnswer(m, c, outcome)
               \/ \E c \in Call : DropAnswer(m, c)
               \/ SecondaryEnds(m) \/ StreamEnds(m) \/ SocketEnds(m)
        PROVE  IInv'
    BY <2>1, ExecutionStep
  <2>2. ASSUME NEW m \in Message,
               \/ StreamReports(m) \/ StreamThrows(m) \/ ScheduleToolCalls(m)
               \/ SendResults(m) \/ EndTurn(m) \/ WaitFails(m)
        PROVE  IInv'
    BY <2>2, TurnStep
  <2>3. CASE CancelTask \/ CancelSaved
    BY <2>3, ClientCancelStep
  <2>4. CASE \/ \E c \in Call : Validated(c) \/ TakeAnswer(c) \/ Finish(c)
                                \/ AbortCall(c)
             \/ RunWave \/ CancelQueued \/ NextWave
    BY <2>4, SchedulerStep
  <2>5. CASE EndBatch
    BY <2>5, EndBatchStep
  <2>6. CASE UNCHANGED vars
    BY <2>6, StutterStep
  <2>7. CASE Next
    BY <2>1, <2>2, <2>3, <2>4, <2>5, <2>7, Zenon DEF Next, BatchStep
  <2> QED BY <2>6, <2>7
<1> QED BY <1>1, <1>2, PTL DEF Spec

\* Every variable of the task, of its executor and of the scheduler as the
\* task sees it keeps its type.
THEOREM TypeCorrect == Spec => []TypeOK
<1>1. IInv => TypeOK
  BY DEF IInv
<1> QED BY <1>1, Inductive, PTL

\* However often an event repeats that a call is over, its result is given to
\* the model once.
THEOREM HandsOverOnce == Spec => []HandedOverOnce
<1>1. IInv => HandedOverOnce
  BY DEF IInv, CallsInv
<1> QED BY <1>1, Inductive, PTL

\* A primary waits on the promise in force only, and while a call is pending.
\* Nothing is said here of whether that call ends: that is WaitEnds, a liveness
\* property with its exceptions, which is only model-checked.
THEOREM WaitsForSomething == Spec => []WaitIsFounded
<1>1. IInv => WaitIsFounded
  BY DEF IInv, ExecutorInv
<1> QED BY <1>1, Inductive, PTL

\* While the task listens, what it counts as pending is in the batch or the line
\* of the scheduler, and not over.
THEOREM PendingIsInHand == Spec => []SchedulerHasPending
<1>1. IInv => SchedulerHasPending
  BY DEF IInv, CallsInv
<1> QED BY <1>1, Inductive, PTL

\* No result of a call gets lost.
THEOREM ResultsAreKept == Spec => []ResultsArrive
<1>1. IInv => ResultsArrive
  BY DEF IInv, CallsInv
<1> QED BY <1>1, Inductive, PTL

\* A question of the scheduler can be answered until it is, or until a cancelAll
\* cancels its call; the events of cancelAll and the ids they bring back, of
\* calls it cancels, are part of the step.
THEOREM QuestionsCanBeAnswered == Spec => []AskedCanBeAnswered
<1>1. IInv => AskedCanBeAnswered
  BY DEF IInv, CallsInv
<1> QED BY <1>1, Inductive, PTL
-----------------------------------------------------------------------------
(* How the wait of a primary is abandoned.                                 *)

\* A step that makes a primary wait for ever is an answer handed in by another
\* execution.
LosesByAnswer ==
    held' = "lost" /\ held # "lost" =>
        /\ primary # None
        /\ \E m \in Message, c \in Call, outcome \in Outcome :
              ReceiveAnswer(m, c, outcome)

\* An event never replaces the promise of a waiter: it makes a new one only
\* when nothing was pending, and a waiter has a pending call.
LEMMA TaskSeesKeeps ==
    ASSUME WaitIsFounded, NEW calls, TaskSees(calls), held # "lost"
    PROVE  held' # "lost"
<1>1. CASE evicted
  BY <1>1 DEF TaskSees
<1>2. CASE ~evicted /\ held = "open"
  <2>1. pendingToolCalls # {}
    BY <1>2 DEF WaitIsFounded
  <2>2. Effect(calls, pendingToolCalls, taskState) # "open"
    BY <2>1 DEF Effect
  <2> QED BY <1>2, <2>2 DEF TaskSees, Settles
<1>3. CASE ~evicted /\ held # "open"
  BY <1>3 DEF TaskSees, Settles, Replaces
<1> QED BY <1>1, <1>2, <1>3

\* Nor does any other step but an answer while another execution is primary.
LEMMA ExecutionKeeps ==
    ASSUME TypeOK, TypeOK', held # "lost", NEW m \in Message,
           \/ Ignore(m) \/ ReceiveText(m)
           \/ \E c \in Call : DropAnswer(m, c)
           \/ SecondaryEnds(m) \/ StreamReports(m) \/ StreamEnds(m)
           \/ StreamThrows(m) \/ ScheduleToolCalls(m)
           \/ SendResults(m) \/ EndTurn(m) \/ WaitFails(m) \/ SocketEnds(m)
    PROVE  held' # "lost"
<1> USE DEF WaitsOn, TypeOK, TaskTypeOK
<1>1. CASE Ignore(m) \/ ReceiveText(m) \/ SecondaryEnds(m) \/ SocketEnds(m)
  BY <1>1 DEF Ignore, ReceiveText, SecondaryEnds, SocketEnds
<1>2. CASE \E c \in Call : DropAnswer(m, c)
  BY <1>2 DEF DropAnswer
<1>3. CASE StreamReports(m) \/ StreamThrows(m) \/ WaitFails(m)
  BY <1>3 DEF StreamReports, StreamThrows, WaitFails, Catch, EndExecution,
              executorVars
<1>4. CASE StreamEnds(m)
  BY <1>4 DEF StreamEnds
<1>5. CASE ScheduleToolCalls(m)
  BY <1>5 DEF ScheduleToolCalls
<1>6. CASE SendResults(m) \/ EndTurn(m)
  BY <1>6 DEF SendResults, EndTurn, EndExecution
<1> QED BY <1>1, <1>2, <1>3, <1>4, <1>5, <1>6

LEMMA AnswerKeeps ==
    ASSUME TypeOK, held # "lost", NEW m \in Message, NEW c \in Call,
           NEW outcome \in Outcome, ReceiveAnswer(m, c, outcome)
    PROVE  LosesByAnswer
<1>1. CASE primary # None
  BY <1>1 DEF LosesByAnswer
<1>2. CASE primary = None
  <2>1. held' \in {"resolved", "open"}
    BY <1>2 DEF ReceiveAnswer, WaitsOn, Reset
  <2> QED BY <2>1 DEF LosesByAnswer
<1> QED BY <1>1, <1>2

\* However events, cancellations, ends of turns and further messages
\* interleave, nothing but such an answer replaces the promise that a primary
\* waits on: what the run waiter_lost shows is the only way in which a wait is
\* abandoned.
THEOREM AnswersAloneLose == Spec => OnlyAnswersLose
<1>1. ASSUME IInv, IInv', [Next]_vars
      PROVE  [LosesByAnswer]_vars
  <2> SUFFICES ASSUME held' = "lost", held # "lost"
               PROVE  LosesByAnswer
    BY DEF LosesByAnswer
  <2> USE <1>1 DEF IInv
  <2>1. ASSUME NEW m \in Message, NEW c \in Call, NEW outcome \in Outcome,
               ReceiveAnswer(m, c, outcome)
        PROVE  LosesByAnswer
    BY <2>1, AnswerKeeps
  <2>2. ASSUME NEW m \in Message,
               \/ Ignore(m) \/ ReceiveText(m)
               \/ \E c \in Call : DropAnswer(m, c)
               \/ SecondaryEnds(m) \/ StreamReports(m) \/ StreamEnds(m)
               \/ StreamThrows(m) \/ ScheduleToolCalls(m)
               \/ SendResults(m) \/ EndTurn(m) \/ WaitFails(m) \/ SocketEnds(m)
        PROVE  FALSE
    BY <2>2, ExecutionKeeps
  <2>3. WaitIsFounded
    BY DEF ExecutorInv
  <2>4. CASE \E c \in Call : Validated(c) \/ TakeAnswer(c) \/ Finish(c)
                             \/ AbortCall(c)
    BY <2>3, <2>4, TaskSeesKeeps
       DEF Validated, TakeAnswer, Finish, AbortCall, Moves
  <2>5. CASE RunWave \/ CancelQueued \/ NextWave \/ EndBatch
    BY <2>3, <2>5, TaskSeesKeeps
       DEF RunWave, CancelQueued, NextWave, EndBatch, Moves
  <2>6. CASE CancelTask \/ CancelSaved
    BY <2>6 DEF CancelTask, CancelSaved, Settles
  <2>7. CASE UNCHANGED vars
    BY <2>7 DEF vars, executorVars
  <2>8. CASE Next
    BY <2>1, <2>2, <2>4, <2>5, <2>6, <2>8, Zenon DEF Next, BatchStep
  <2> QED BY <2>7, <2>8
<1>2. Spec => [][LosesByAnswer]_vars
  BY <1>1, Inductive, PTL DEF Spec
<1> QED BY <1>2 DEF OnlyAnswersLose, LosesByAnswer

=============================================================================
