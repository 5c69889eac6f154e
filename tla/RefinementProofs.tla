-------------------------- MODULE RefinementProofs --------------------------
(***************************************************************************)
(* That the scheduler implements the ToolBatchService, for any calls and   *)
(* batches, where no tool prints on after it returned.                     *)
(***************************************************************************)
EXTENDS ReportProofs

\* The request queue holds the batches whose promise is pending, once each,
\* and the promise of the batch in progress is open.
QueueInv ==
    /\ IsInjective(requestQueue)
    /\ \A b \in Batch : request[b] = "queued" <=> b \in ToSet(requestQueue)
    /\ cur # None => request[cur] = "running"

ServiceInv == ReportInv /\ QueueInv

-----------------------------------------------------------------------------
(* Queues without repetition.                                              *)

LEMMA AppendSeq ==
    ASSUME NEW S, NEW q \in Seq(S), IsInjective(q),
           NEW e \in S, e \notin ToSet(q)
    PROVE  /\ IsInjective(Append(q, e))
           /\ ToSet(Append(q, e)) = ToSet(q) \cup {e}
  <1> DEFINE p == Append(q, e)
  <1>1. /\ DOMAIN p = 1..(Len(q) + 1)
        /\ \A i \in 1..Len(q) : p[i] = q[i]
        /\ p[Len(q) + 1] = e
        /\ DOMAIN q = 1..Len(q)
    BY AppendProperties
  <1> HIDE DEF p
  <1>2. IsInjective(p)
    <2> SUFFICES ASSUME NEW i \in 1..(Len(q) + 1), NEW j \in 1..(Len(q) + 1),
                        i < j, p[i] = p[j]
                 PROVE  FALSE
      BY <1>1 DEF IsInjective
    <2>1. CASE j = Len(q) + 1
      BY <1>1, <2>1 DEF ToSet
    <2>2. CASE j # Len(q) + 1
      BY <1>1, <2>2 DEF IsInjective
    <2> QED
      BY <2>1, <2>2
  <1>3. ToSet(p) \subseteq ToSet(q) \cup {e}
    <2> SUFFICES ASSUME NEW i \in 1..(Len(q) + 1)
                 PROVE  p[i] \in ToSet(q) \cup {e}
      BY <1>1 DEF ToSet
    <2>1. CASE i = Len(q) + 1
      BY <1>1, <2>1
    <2>2. CASE i \in 1..Len(q)
      BY <1>1, <2>2 DEF ToSet
    <2> QED
      BY <2>1, <2>2
  <1>4. ToSet(q) \subseteq ToSet(p)
    <2> SUFFICES ASSUME NEW i \in 1..Len(q)
                 PROVE  q[i] \in ToSet(p)
      BY <1>1 DEF ToSet
    <2>1. q[i] = p[i] /\ i \in 1..(Len(q) + 1)
      BY <1>1
    <2> QED
      BY <1>1, <2>1 DEF ToSet
  <1>5. e \in ToSet(p)
    <2>1. Len(q) + 1 \in 1..(Len(q) + 1)
      OBVIOUS
    <2> QED
      BY <1>1, <2>1 DEF ToSet
  <1> QED
    BY <1>2, <1>3, <1>4, <1>5 DEF p

LEMMA TailSeq ==
    ASSUME NEW S, NEW q \in Seq(S), IsInjective(q), q # << >>
    PROVE  /\ IsInjective(Tail(q))
           /\ ToSet(Tail(q)) = ToSet(q) \ {Head(q)}
           /\ Head(q) \in ToSet(q)
  <1> DEFINE p == Tail(q)
  <1>1. /\ Len(q) >= 1
        /\ Head(q) = q[1]
        /\ DOMAIN p = 1..(Len(q) - 1)
        /\ \A i \in 1..(Len(q) - 1) : p[i] = q[i + 1]
        /\ DOMAIN q = 1..Len(q)
    BY HeadTailProperties
  <1> HIDE DEF p
  <1>2. IsInjective(p)
    <2> SUFFICES ASSUME NEW i \in 1..(Len(q) - 1), NEW j \in 1..(Len(q) - 1),
                        p[i] = p[j]
                 PROVE  i = j
      BY <1>1 DEF IsInjective
    <2>1. /\ i + 1 \in 1..Len(q) /\ j + 1 \in 1..Len(q)
          /\ q[i + 1] = q[j + 1]
      BY <1>1
    <2>2. i + 1 = j + 1
      BY <1>1, <2>1 DEF IsInjective
    <2> QED
      BY <2>2
  <1>3. ToSet(p) \subseteq ToSet(q) \ {Head(q)}
    <2> SUFFICES ASSUME NEW i \in 1..(Len(q) - 1)
                 PROVE  p[i] \in ToSet(q) /\ p[i] # q[1]
      BY <1>1 DEF ToSet
    <2>1. i + 1 \in 1..Len(q) /\ 1 \in 1..Len(q) /\ p[i] = q[i + 1]
      BY <1>1
    <2> QED
      BY <1>1, <2>1 DEF ToSet, IsInjective
  <1>4. ToSet(q) \ {Head(q)} \subseteq ToSet(p)
    <2> SUFFICES ASSUME NEW i \in 1..Len(q), q[i] # q[1]
                 PROVE  q[i] \in ToSet(p)
      BY <1>1 DEF ToSet
    <2>1. i - 1 \in 1..(Len(q) - 1) /\ q[i] = p[i - 1]
      BY <1>1
    <2> QED
      BY <1>1, <2>1 DEF ToSet
  <1>5. Head(q) \in ToSet(q)
    BY <1>1 DEF ToSet
  <1> QED
    BY <1>2, <1>3, <1>4, <1>5 DEF p

-----------------------------------------------------------------------------
(* The request queue and the promises.                                     *)

LEMMA QueueInit == Init => QueueInv
  BY DEF Init, QueueInv, IsInjective, ToSet

LEMMA QueueNext ==
    ASSUME TypeOK, QueueInv, phase = "finishing" => cur # None, Next
    PROVE  QueueInv'
  <1>ty. /\ requestQueue \in Seq(Batch)
         /\ DOMAIN request = Batch
         /\ cur \in Batch \cup {None}
    BY DEF TypeOK
  <1>em. IsInjective(<< >>) /\ ToSet(<< >>) = {}
    BY DEF IsInjective, ToSet
  <1>un. CASE UNCHANGED <<request, requestQueue, cur>>
    BY <1>un DEF QueueInv
  <1>1. CASE LoopTop \/ JoinValidation \/ JoinExecution
    BY <1>1, <1>un DEF LoopTop, JoinValidation, JoinExecution
  <1>2. CASE Finish
    <2> DEFINE settled == [request EXCEPT ![cur] = "resolved"]
    <2>1. cur # None /\ cur \in Batch
      BY <1>2, <1>ty DEF Finish
    <2>2. /\ request[cur] = "running" /\ cur \notin ToSet(requestQueue)
          /\ settled[cur] = "resolved"
          /\ \A d \in Batch \ {cur} : settled[d] = request[d]
          /\ DOMAIN settled = Batch
      BY <1>ty, <2>1 DEF QueueInv
    <2>3. NextInRequestQueue(settled)
      BY <1>2 DEF Finish
    <2> HIDE DEF settled
    <2>4. \A d \in Batch : settled[d] = "queued" <=> d \in ToSet(requestQueue)
      BY <2>2 DEF QueueInv
    <2>5. CASE requestQueue = << >>
      <3>1. cur' = None /\ request' = settled /\ requestQueue' = << >>
        BY <2>3, <2>5 DEF NextInRequestQueue
      <3> QED
        BY <1>em, <2>4, <2>5, <3>1 DEF QueueInv
    <2>6. CASE requestQueue # << >>
      <3> DEFINE h == Head(requestQueue)
                 rest == Tail(requestQueue)
      <3>1. /\ rest \in Seq(Batch)
            /\ IsInjective(rest)
            /\ ToSet(rest) = ToSet(requestQueue) \ {h}
            /\ h \in ToSet(requestQueue)
            /\ h \in Batch
        BY <1>ty, <2>6, TailSeq, HeadTailProperties DEF QueueInv
      <3>2. CASE sm.active = {}
        <4>1. /\ cur' = h
              /\ request' = [settled EXCEPT ![h] = "running"]
              /\ requestQueue' = rest
          BY <2>3, <2>6, <3>2 DEF NextInRequestQueue, StartBatch
        <4> HIDE DEF h, rest
        <4>2. /\ request'[h] = "running"
              /\ \A d \in Batch \ {h} : request'[d] = settled[d]
          BY <2>2, <3>1, <4>1
        <4> QED
          BY <2>4, <3>1, <4>1, <4>2 DEF QueueInv
      <3>3. CASE sm.active # {}
        <4>1. /\ cur' = None /\ request' = settled
              /\ requestQueue' = Append(rest, h)
          BY <2>3, <2>6, <3>3 DEF NextInRequestQueue
        <4> HIDE DEF h, rest
        <4>2. /\ IsInjective(Append(rest, h))
              /\ ToSet(Append(rest, h)) = ToSet(rest) \cup {h}
          BY <3>1, AppendSeq
        <4>3. ToSet(Append(rest, h)) = ToSet(requestQueue)
          BY <3>1, <4>2
        <4> QED
          BY <2>4, <4>1, <4>2, <4>3 DEF QueueInv
      <3> QED
        BY <3>2, <3>3
    <2> QED
      BY <2>5, <2>6
  <1>3. ASSUME NEW c \in Call, HandlerAction(c)
        PROVE  QueueInv'
    BY <1>3, <1>un, HandlerHasEffect DEF CallUnchanged
  <1>4. ASSUME NEW b \in Batch, Schedule(b)
        PROVE  QueueInv'
    <2>1. request[b] = "new" /\ b \notin ToSet(requestQueue) /\ b # cur
      BY <1>4, BatchAssumption DEF Schedule, QueueInv
    <2>2. CASE StartBatch(b, request) /\ UNCHANGED requestQueue
      <3>1. /\ request'[b] = "running"
            /\ \A d \in Batch \ {b} : request'[d] = request[d]
            /\ cur' = b
        BY <1>ty, <2>2 DEF StartBatch
      <3> QED
        BY <2>1, <2>2, <3>1 DEF QueueInv
    <2>3. CASE /\ request' = [request EXCEPT ![b] = "rejected"]
               /\ UNCHANGED <<requestQueue, cur>>
      <3>1. /\ request'[b] = "rejected"
            /\ \A d \in Batch \ {b} : request'[d] = request[d]
        BY <1>ty, <2>3
      <3> QED
        BY <1>ty, <2>1, <2>3, <3>1 DEF QueueInv
    <2>4. CASE /\ request' = [request EXCEPT ![b] = "queued"]
               /\ requestQueue' = Append(requestQueue, b)
               /\ UNCHANGED cur
      <3>1. /\ request'[b] = "queued"
            /\ \A d \in Batch \ {b} : request'[d] = request[d]
        BY <1>ty, <2>4
      <3>2. /\ IsInjective(requestQueue')
            /\ ToSet(requestQueue') = ToSet(requestQueue) \cup {b}
        BY <1>ty, <2>1, <2>4, AppendSeq DEF QueueInv
      <3> QED
        BY <1>ty, <2>1, <2>4, <3>1, <3>2 DEF QueueInv
    <2> QED
      BY <1>4, <2>2, <2>3, <2>4 DEF Schedule
  <1>5. ASSUME NEW b \in Batch, Abort(b)
        PROVE  QueueInv'
    <2>1. CASE request[b] = "queued"
      <3> PICK i \in DOMAIN requestQueue :
                 /\ requestQueue[i] = b
                 /\ requestQueue' = RemoveAt(requestQueue, i)
        BY <1>5, <2>1 DEF Abort
      <3>1. /\ request'[b] = "rejected"
            /\ \A d \in Batch \ {b} : request'[d] = request[d]
            /\ cur' = cur
        BY <1>5, <1>ty, <2>1 DEF Abort
      <3>2. /\ IsInjective(requestQueue')
            /\ ToSet(requestQueue') = ToSet(requestQueue) \ {b}
        <4>1. i \in 1..Len(requestQueue)
          BY <1>ty
        <4> QED
          BY <1>ty, <4>1, RemoveAtSeq DEF QueueInv
      <3> QED
        BY <1>ty, <2>1, <3>1, <3>2 DEF QueueInv
    <2>2. CASE request[b] # "queued"
      BY <1>5, <1>un, <2>2 DEF Abort
    <2> QED
      BY <2>1, <2>2
  <1>6. CASE CancelAll
    <2>1. /\ \A b \in Batch : request'[b] = IF b \in ToSet(requestQueue)
                                            THEN "rejected" ELSE request[b]
          /\ requestQueue' = << >> /\ cur' = cur
      BY <1>6 DEF CancelAll
    <2> QED
      BY <1>em, <1>ty, <2>1 DEF QueueInv
  <1>7. CASE Done
    BY <1>7, <1>un DEF Done, vars
  <1> QED
    BY <1>1, <1>2, <1>3, <1>4, <1>5, <1>6, <1>7 DEF Next, Loop, HandlerAction

-----------------------------------------------------------------------------
(* The refinement mapping.                                                 *)

\* A turn has brought all results or none, as the loop of its batch is over
\* or not.
ReportedIsBatch == Reported = IF phase = "finishing" THEN BatchSet(cur) ELSE {}

LEMMA ReportedAllOrNone == ReportInv => ReportedIsBatch
  <1> SUFFICES ASSUME ReportInv PROVE ReportedIsBatch
    OBVIOUS
  <1>1. CASE phase # "finishing"
    BY <1>1 DEF Reported, ReportedIsBatch
  <1>2. CASE phase = "finishing"
    <2>1. cur \in Batch /\ BatchSet(cur) \in SUBSET Call
      BY <1>2, BatchSetType DEF ReportInv, LoopInv, TypeOK
    <2>2. ToSet(sm.queue) = {} /\ sm.active = {}
      BY <1>2 DEF ReportInv, LoopInv, ToSet
    <2>3. /\ \A c \in Call : sm.completed[c] = IF c \in BatchSet(cur)
                                               THEN 1 ELSE 0
          /\ \A c \in BatchSet(cur) : sm.status[c] \in Terminal
      BY <1>2, <2>2 DEF ReportInv, LoopInv, Placed
    <2> QED
      BY <1>2, <2>1, <2>3 DEF Reported, ReportedIsBatch
  <1> QED
    BY <1>1, <1>2

LEMMA ReportedNext == ReportInv' => ReportedIsBatch'
  BY ReportedAllOrNone, PTL

LEMMA ReportedKept ==
    ASSUME ReportInv, ReportInv', UNCHANGED <<cur, phase>>
    PROVE  Reported' = Reported
  <1>1. ReportedIsBatch /\ ReportedIsBatch'
    BY ReportedAllOrNone, ReportedNext
  <1>2. BatchSet(cur)' = BatchSet(cur)
    BY DEF BatchSet
  <1> QED
    BY <1>1, <1>2 DEF ReportedIsBatch

LEMMA ServiceInitially == Init => Service!Init
  BY DEF Init, Service!Init, Reported

\* Within a turn the service only sees the report of the batch.
LEMMA TurnServed ==
    ASSUME ReportInv, ReportInv', UNCHANGED <<request, requestQueue, cur>>,
           phase = "finishing" => phase' = "finishing"
    PROVE  [Service!Next]_Service!serviceVars
  <1>1. ReportedIsBatch /\ ReportedIsBatch'
    BY ReportedAllOrNone, ReportedNext
  <1>2. CASE phase' # "finishing" \/ phase = "finishing"
    <2>1. BatchSet(cur)' = BatchSet(cur)
      BY DEF BatchSet
    <2>2. Reported' = Reported
      BY <1>1, <1>2, <2>1 DEF ReportedIsBatch
    <2> QED
      BY <2>2 DEF Service!serviceVars
  <1>3. CASE phase' = "finishing" /\ phase # "finishing"
    <2>1. cur # None /\ cur \in Batch
      BY <1>3 DEF ReportInv, LoopInv, TypeOK
    <2>2. Reported = {} /\ Reported' = BatchSet(cur)
      BY <1>1, <1>3 DEF ReportedIsBatch, BatchSet
    <2>3. Service!Report
      BY <2>1, <2>2 DEF Service!Report
    <2> QED
      BY <2>3 DEF Service!Next
  <1> QED
    BY <1>2, <1>3

\* The turn of b begins.
LEMMA StartServed ==
    ASSUME ReportInv', NEW b \in Batch, NEW before, StartBatch(b, before)
    PROVE  Service!Begin(b, before)
  <1>1. cur' = b /\ request' = [before EXCEPT ![b] = "running"]
    BY DEF StartBatch
  <1>2. Reported' \in {{}, BatchSet(b)}
    BY <1>1, ReportedNext DEF ReportedIsBatch, BatchSet
  <1> QED
    BY <1>1, <1>2 DEF Service!Begin

LEMMA ServiceNext ==
    ASSUME ServiceInv, ReportInv', [Next]_vars
    PROVE  [Service!Next]_Service!serviceVars
  <1>in. ReportInv /\ QueueInv
    BY DEF ServiceInv
  \* Steps that the service does not see.
  <1>un. ASSUME UNCHANGED <<request, requestQueue, cur, phase>>
         PROVE  [Service!Next]_Service!serviceVars
    BY <1>un, <1>in, TurnServed
  <1>1. CASE LoopTop \/ JoinValidation \/ JoinExecution
    BY <1>1, <1>in, TurnServed DEF LoopTop, JoinValidation, JoinExecution
  <1>2. CASE Finish
    <2> DEFINE settled == [request EXCEPT ![cur] = "resolved"]
    <2>1. /\ sm.active = {} /\ cur # None /\ cur \in Batch
      BY <1>2, <1>in DEF Finish, ReportInv, LoopInv, TypeOK
    <2>2. Reported = BatchSet(cur)
      BY <1>2, <1>in, ReportedAllOrNone DEF Finish, ReportedIsBatch
    <2>3. NextInRequestQueue(settled)
      BY <1>2 DEF Finish
    <2>4. CASE requestQueue = << >>
      <3>1. /\ cur' = None /\ request' = settled
            /\ requestQueue' = << >> /\ phase' = "idle"
        BY <2>3, <2>4 DEF NextInRequestQueue
      <3>2. Reported' = {}
        BY <3>1, ReportedNext DEF ReportedIsBatch
      <3> QED
        BY <2>1, <2>2, <2>4, <3>1, <3>2 DEF Service!Settle, Service!Next
    <2>5. CASE requestQueue # << >>
      <3>1. /\ StartBatch(Head(requestQueue), settled)
            /\ requestQueue' = Tail(requestQueue)
        BY <2>1, <2>3, <2>5 DEF NextInRequestQueue
      <3>2. Head(requestQueue) \in Batch
        BY <1>in, <2>5, HeadTailProperties DEF ReportInv, TypeOK
      <3>3. Service!Begin(Head(requestQueue), settled)
        BY <3>1, <3>2, StartServed
      <3> QED
        BY <2>1, <2>2, <2>5, <3>1, <3>3 DEF Service!Settle, Service!Next
    <2> QED
      BY <2>4, <2>5
  <1>3. ASSUME NEW c \in Call, HandlerAction(c)
        PROVE  [Service!Next]_Service!serviceVars
    BY <1>3, <1>un, <1>in, HandlerAwaits DEF CallUnchanged
  <1>4. ASSUME NEW b \in Batch, Schedule(b)
        PROVE  [Service!Next]_Service!serviceVars
    <2>1. cur = None => sm.active = {}
      BY <1>in DEF ReportInv, LoopInv
    <2>2. request[b] = "new"
      BY <1>4 DEF Schedule
    <2>3. CASE cur = None
      <3>1. StartBatch(b, request) /\ UNCHANGED requestQueue
        BY <1>4, <2>1, <2>3 DEF Schedule
      <3>2. Service!Serve(b)
        BY <2>2, <2>3, <3>1, StartServed DEF Service!Serve
      <3> QED
        BY <3>2 DEF Service!Next
    <2>4. CASE cur # None
      <3>1. /\ UNCHANGED <<cur, phase>>
            /\ \/ /\ request' = [request EXCEPT ![b] = "rejected"]
                  /\ UNCHANGED requestQueue
               \/ /\ request' = [request EXCEPT ![b] = "queued"]
                  /\ requestQueue' = Append(requestQueue, b)
        BY <1>4, <2>4 DEF Schedule
      <3>2. Reported' = Reported
        BY <1>in, <3>1, ReportedKept
      <3>3. Service!Wait(b) \/ Service!Refuse(b)
        BY <2>2, <2>4, <3>1, <3>2 DEF Service!Wait, Service!Refuse
      <3> QED
        BY <3>3 DEF Service!Next
    <2> QED
      BY <2>3, <2>4
  <1>5. ASSUME NEW b \in Batch, Abort(b)
        PROVE  [Service!Next]_Service!serviceVars
    <2>1. CASE request[b] = "queued"
      <3>1. /\ request' = [request EXCEPT ![b] = "rejected"]
            /\ \E i \in DOMAIN requestQueue :
                  /\ requestQueue[i] = b
                  /\ requestQueue' = RemoveAt(requestQueue, i)
            /\ UNCHANGED <<cur, phase>>
        BY <1>5, <2>1 DEF Abort
      <3>2. Reported' = Reported
        BY <1>in, <3>1, ReportedKept
      <3>3. Service!Withdraw(b)
        BY <2>1, <3>1, <3>2 DEF Service!Withdraw, Service!RemoveAt, RemoveAt
      <3> QED
        BY <3>3 DEF Service!Next
    <2>2. CASE request[b] # "queued"
      BY <1>5, <1>un, <2>2 DEF Abort
    <2> QED
      BY <2>1, <2>2
  <1>6. CASE CancelAll
    <2>1. /\ request' = [b \in Batch |-> IF b \in ToSet(requestQueue)
                                         THEN "rejected" ELSE request[b]]
          /\ requestQueue' = << >>
          /\ UNCHANGED <<cur, phase>>
      BY <1>6 DEF CancelAll
    <2>2. request' = [b \in Batch |-> IF request[b] = "queued"
                                      THEN "rejected" ELSE request[b]]
      BY <1>in, <2>1 DEF QueueInv
    <2>3. Reported' = Reported
      BY <1>in, <2>1, ReportedKept
    <2>4. Service!WithdrawAll
      BY <2>1, <2>2, <2>3 DEF Service!WithdrawAll
    <2> QED
      BY <2>4 DEF Service!Next
  <1>7. CASE Done \/ UNCHANGED vars
    BY <1>7, <1>un DEF Done, vars
  <1> QED
    BY <1>1, <1>2, <1>3, <1>4, <1>5, <1>6, <1>7 DEF Next, Loop, HandlerAction

\* Where no tool prints on after it returned, the scheduler is the service
\* its callers rely on: batches are served one at a time and in order of
\* arrival, each promise is settled once, and schedule() resolves with the
\* results of exactly its own calls.
THEOREM SchedulerImplementsService ==
    Background = {} => (Spec => ImplementsService)
  <1> SUFFICES ASSUME Background = {}
               PROVE  Spec => ImplementsService
    OBVIOUS
  <1>1. Init => ServiceInv
    BY ReportInit, QueueInit DEF ServiceInv
  <1>2. ServiceInv /\ [Next]_vars => ServiceInv'
    <2> SUFFICES ASSUME ServiceInv, [Next]_vars PROVE ServiceInv'
      OBVIOUS
    <2>1. ReportInv'
      BY ReportNext DEF ServiceInv
    <2>2. CASE Next
      BY <2>1, <2>2, QueueNext DEF ServiceInv, ReportInv, LoopInv
    <2>3. CASE UNCHANGED vars
      BY <2>1, <2>3 DEF ServiceInv, QueueInv, vars
    <2> QED
      BY <2>2, <2>3
  <1>3. ServiceInv /\ ServiceInv' /\ [Next]_vars
            => [Service!Next]_Service!serviceVars
    BY ServiceNext DEF ServiceInv
  <1> QED
    BY <1>1, <1>2, <1>3, ServiceInitially, PTL
    DEF Spec, ImplementsService, Service!Spec

=============================================================================
