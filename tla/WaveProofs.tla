----------------------------- MODULE WaveProofs -----------------------------
(***************************************************************************)
(* What the waves of a batch guarantee, for any calls and batches, tools   *)
(* that print on in the background included: nothing is left half-way, and *)
(* a call that waits for the previous ones gets its turn after them.       *)
(***************************************************************************)
EXTENDS RefinementProofs

\* The queue holds each call once, none of them active, all of them new.
Lined(s) ==
    /\ IsInjective(s.queue)
    /\ ToSet(s.queue) \cap s.active = {}
    /\ \A c \in ToSet(s.queue) : s.status[c] \in {"validating", "error"}

\* The calls the scheduler has in hand.
Held(s) == s.active \cup ToSet(s.queue)

\* No handler has worked on c yet.
Untouched(c) ==
    \E by \in {"model", "tail"}, w \in BOOLEAN : call[c] = NewCall(c, by, w)

\* Batch b has not had its turn.
InLine(b) == request[b] \in {"new", "queued"}

\* The calls in hand are those of the current batch, the queued ones as they
\* came, and the calls of a batch in line are as the model asked for them.
OwnInv ==
    /\ cur # None => Held(sm) \subseteq BatchSet(cur)
    /\ \A c \in ToSet(sm.queue) : Untouched(c)
    /\ \A b \in Batch : InLine(b) =>
          \A c \in BatchSet(b) : /\ call[c] = NewCall(c, "model", c \in Waits)
                                 /\ c \notin Held(sm)

\* Where the loop is, and which calls are active there: outside a wave only
\* those that print on, and those have not ended unless cancelAll came.  A
\* wave is made either of queued calls or of what an earlier one left.
RoundInv ==
    /\ phase = "idle" <=> cur = None
    /\ phase \in {"idle", "finishing"} => sm.queue = << >>
    /\ phase \in {"idle", "top", "finishing"} =>
          \A c \in sm.active : call[c].noisy
    /\ phase \in {"validating", "executing"} => sm.active # {} \/ spawned
    /\ phase = "top" /\ ~ cancelling =>
          \A c \in sm.active : sm.status[c] = "executing"
    /\ phase = "validating" /\ (\E c \in sm.active : call[c].noisy) =>
          \A c \in sm.active : call[c].noisy

\* The statuses an active call can have once its handler has returned.
Returned(c) ==
    Terminal \cup IF call[c].noisy THEN {"executing"}
                  ELSE IF phase = "executing" THEN {} ELSE {"scheduled"}

\* A suspended handler is that of an active call, at an await of the phase
\* the loop is in; a call prints on only after its tool has succeeded; and a
\* call that waits for the previous ones is active alone.
TurnInv(c) ==
    /\ ~ At(c, "idle") => c \in sm.active /\ phase \in {"validating", "executing"}
    /\ c \in sm.active /\ At(c, "idle") => sm.status[c] \in Returned(c)
    /\ call[c].noisy => /\ call[c].pc \in {"idle", "result"}
                        /\ At(c, "result") => call[c].result = "success"
                        /\ c \notin ToSet(sm.queue)
    /\ call[c].pc \in {"tool", "result"} => phase = "executing"
    /\ call[c].expands => phase = "executing" /\ ~ At(c, "idle")
    /\ phase = "executing" =>
          /\ ~ At(c, "hook") /\ ~ At(c, "policy")
          /\ call[c].pc \in Validation => call[c].expands
    /\ c \in sm.active /\ call[c].waits => sm.active = {c}
    /\ call[c].result = "tail" => c \in Tailing

\* c comes before d in the order batch b is taken up.
Precedes(b, c, d) ==
    LET order == TopicFirst(BatchCalls[b])
    IN  \E i, j \in DOMAIN order : i < j /\ order[i] = c /\ order[j] = d

\* Nothing that comes before d is queued behind it, and nothing that comes
\* before it is left once it is active, or once it will no longer wait.
Ordered(s, b, d, waits) ==
    /\ \A i, j \in DOMAIN s.queue :
          i < j /\ s.queue[i] = d => ~ Precedes(b, s.queue[j], d)
    /\ d \in s.active \/ (d \in ToSet(s.queue) /\ ~ waits) =>
          \A c \in Held(s) : ~ Precedes(b, c, d)

OrderInv(d) == cur # None /\ d \in Waits => Ordered(sm, cur, d, call[d].waits)

Waves ==
    /\ Lined(sm) /\ OwnInv /\ RoundInv
    /\ \A c \in Call : TurnInv(c)
    /\ \A d \in Call : OrderInv(d)

\* The inductive invariant.
WaveInv == TypeOK /\ QueueInv /\ Waves

-----------------------------------------------------------------------------
(* The operators of the state manager on a queue that is lined up.         *)

\* What keeps the queue and at most retires active calls or empties the
\* queue keeps it lined up and in order.
Lessened(s, t) ==
    /\ t.active \subseteq s.active
    /\ \/ t.queue = s.queue
       \/ t.queue = << >>
    /\ \A c \in ToSet(t.queue) : t.status[c] = s.status[c]

LEMMA EmptyQueue ==
    IsInjective(<< >>) /\ ToSet(<< >>) = {} /\ DOMAIN << >> = {}
  BY DEF IsInjective, ToSet

LEMMA LessenedLined ==
    ASSUME NEW s, NEW t, Lined(s), Lessened(s, t)
    PROVE  /\ Lined(t)
           /\ ToSet(t.queue) \subseteq ToSet(s.queue)
           /\ Held(t) \subseteq Held(s)
           /\ \A b, d, waits : Ordered(s, b, d, waits) =>
                                   Ordered(t, b, d, waits)
  <1>1. CASE t.queue = s.queue
    BY <1>1 DEF Lessened, Lined, Held, Ordered
  <1>2. CASE t.queue = << >>
    BY <1>2, EmptyQueue DEF Lessened, Lined, Held, Ordered
  <1> QED
    BY <1>1, <1>2 DEF Lessened

LEMMA OperatorsLessen ==
    ASSUME NEW s \in StateType, Lined(s)
    PROVE  /\ \A C, v : Lessened(s, UpdateAll(s, C, v))
           /\ Lessened(s, FinalizeEnded(s))
           /\ Lessened(s, CancelAllQueued(s))
           /\ Lessened(s, ClearBatch(s))
  <1>1. ToSet(s.queue) \subseteq Call \ s.active
    BY ToSetType DEF StateType, Lined
  <1>2. \A C, v : Lessened(s, UpdateAll(s, C, v))
    BY <1>1 DEF Lessened, UpdateAll, StateType
  <1>3. Lessened(s, FinalizeEnded(s))
    BY DEF Lessened, FinalizeEnded, Pending, StateType
  <1>4. Lessened(s, CancelAllQueued(s))
    BY EmptyQueue DEF Lessened, CancelAllQueued, StateType
  <1>5. Lessened(s, ClearBatch(s))
    BY DEF Lessened, ClearBatch, StateType
  <1> QED
    BY <1>2, <1>3, <1>4, <1>5

LEMMA BatchOrder ==
    ASSUME NEW b \in Batch
    PROVE  /\ TopicFirst(BatchCalls[b]) \in Seq(Call)
           /\ IsInjective(TopicFirst(BatchCalls[b]))
           /\ ToSet(TopicFirst(BatchCalls[b])) = BatchSet(b)
           /\ \A d : ~ Precedes(b, d, d)
  <1> DEFINE q == TopicFirst(BatchCalls[b])
  <1>1. q \in Seq(Call) /\ IsInjective(q) /\ ToSet(q) = BatchSet(b)
    BY BatchAssumption, DistinctCalls, TopicFirstType, TopicFirstReorders
    DEF BatchSet
  <1>2. Len(q) \in Nat /\ DOMAIN q = 1..Len(q)
    BY <1>1
  <1>3. \A d : ~ Precedes(b, d, d)
    BY <1>1, <1>2 DEF Precedes, IsInjective
  <1> QED
    BY <1>1, <1>3

\* The calls of a new batch are lined up in its order.
LEMMA EnqueueLined ==
    ASSUME NEW s \in StateType, s.queue = << >>, s.active = {},
           NEW b \in Batch
    PROVE  LET t == Enqueue(ClearBatch(s), TopicFirst(BatchCalls[b]), Invalid)
           IN  /\ t \in StateType
               /\ Lined(t)
               /\ t.active = {}
               /\ ToSet(t.queue) = BatchSet(b)
               /\ \A d : Ordered(t, b, d, TRUE)
               /\ t.queue = TopicFirst(BatchCalls[b])
  <1> DEFINE q == TopicFirst(BatchCalls[b])
             t == Enqueue(ClearBatch(s), q, Invalid)
  <1>1. /\ q \in Seq(Call) /\ IsInjective(q) /\ ToSet(q) = BatchSet(b)
    BY BatchOrder
  <1>2. \A c, d : Precedes(b, c, d) <=>
            \E i, j \in DOMAIN q : i < j /\ q[i] = c /\ q[j] = d
    BY DEF Precedes
  <1>3. t \in StateType
    BY <1>1, ClearBatchType, EnqueueType
  <1> HIDE DEF q
  <1>4. << >> \o q = q
    BY <1>1
  <1>5. /\ t.queue = q
        /\ t.active = {}
        /\ \A c \in ToSet(q) \cap Call : t.status[c] \in {"validating", "error"}
    BY <1>4 DEF Enqueue, ClearBatch, StateType
  <1>6. ToSet(q) \subseteq Call
    BY <1>1, ToSetType
  <1> HIDE DEF t
  <1>7. Lined(t)
    BY <1>1, <1>5, <1>6 DEF Lined
  <1>8. ASSUME NEW d PROVE Ordered(t, b, d, TRUE)
    <2>1. DOMAIN q = 1..Len(q) /\ Len(q) \in Nat
      BY <1>1
    <2>2. ASSUME NEW i \in DOMAIN q, NEW j \in DOMAIN q, i < j, q[i] = d
          PROVE  ~ Precedes(b, q[j], d)
      BY <1>1, <1>2, <2>1, <2>2 DEF IsInjective
    <2> QED
      BY <1>5, <2>2 DEF Ordered
  <1> QED
    BY <1>1, <1>3, <1>5, <1>7, <1>8 DEF t, q

\* The first n calls are taken up.
LEMMA DequeueLined ==
    ASSUME NEW s \in StateType, Lined(s), s.active = {},
           NEW n \in 1..Len(s.queue)
    PROVE  LET t == Dequeue(s, n)
           IN  /\ t \in StateType
               /\ Lined(t)
               /\ t.active # {}
               /\ t.status = s.status
               /\ t.active \subseteq ToSet(s.queue)
               /\ ToSet(t.queue) \subseteq ToSet(s.queue)
               /\ \A c \in t.active :
                     /\ t.status[c] \in {"validating", "error"}
                     /\ \E i \in 1..n : s.queue[i] = c
               /\ n = 1 => t.active = {s.queue[1]}
               /\ DOMAIN t.queue = 1..(Len(s.queue) - n)
               /\ \A i \in DOMAIN t.queue : t.queue[i] = s.queue[n + i]
  <1> DEFINE t == Dequeue(s, n)
             front == SubSeq(s.queue, 1, n)
             back  == SubSeq(s.queue, n + 1, Len(s.queue))
  <1>1. s.queue \in Seq(Call) /\ IsInjective(s.queue)
    BY DEF StateType, Lined
  <1>2. /\ front \in Seq(Call) /\ back \in Seq(Call)
        /\ IsInjective(back)
        /\ ToSet(front) # {}
        /\ ToSet(front) \subseteq ToSet(s.queue)
        /\ ToSet(back) = ToSet(s.queue) \ ToSet(front)
    BY <1>1, SplitSeq
  <1>3. /\ DOMAIN front = 1..n
        /\ \A i \in 1..n : front[i] = s.queue[i]
    BY <1>1, SubSeqProperties
  <1>4. /\ DOMAIN back = 1..(Len(s.queue) - n)
        /\ \A i \in 1..(Len(s.queue) - n) : back[i] = s.queue[n + i]
    BY <1>1, SubSeqProperties
  <1>5. /\ t.queue = back
        /\ t.active = ToSet(front)
        /\ t.status = s.status
    BY DEF Dequeue, StateType
  <1>6. t \in StateType
    BY DequeueType
  <1> HIDE DEF t, front, back
  <1>7. \A c \in ToSet(front) : \E i \in 1..n : s.queue[i] = c
    BY <1>3 DEF ToSet
  <1>8. n = 1 => ToSet(front) = {s.queue[1]}
    BY <1>3 DEF ToSet
  <1>9. Lined(t)
    BY <1>2, <1>5 DEF Lined
  <1>10. \A c \in t.active : t.status[c] \in {"validating", "error"}
    BY <1>2, <1>5 DEF Lined
  <1>11. /\ t \in StateType
         /\ Lined(t)
         /\ t.active # {}
         /\ t.status = s.status
         /\ t.active \subseteq ToSet(s.queue)
         /\ ToSet(t.queue) \subseteq ToSet(s.queue)
         /\ \A c \in t.active :
               /\ t.status[c] \in {"validating", "error"}
               /\ \E i \in 1..n : s.queue[i] = c
         /\ n = 1 => t.active = {s.queue[1]}
         /\ DOMAIN t.queue = 1..(Len(s.queue) - n)
         /\ \A i \in DOMAIN t.queue : t.queue[i] = s.queue[n + i]
    BY <1>2, <1>4, <1>5, <1>6, <1>7, <1>8, <1>9, <1>10
  <1> QED
    BY <1>11 DEF t

\* A call that will not wait is taken up only when it no longer has to.
LEMMA DequeueOrdered ==
    ASSUME NEW s \in StateType, Lined(s), s.active = {},
           NEW n \in 1..Len(s.queue), NEW b \in Batch, NEW d,
           NEW waits, Ordered(s, b, d, waits),
           waits => \A i \in 1..n : s.queue[i] = d => n = 1
    PROVE  Ordered(Dequeue(s, n), b, d, waits)
  <1> DEFINE t == Dequeue(s, n)
  <1>1. /\ t.active \subseteq ToSet(s.queue)
        /\ ToSet(t.queue) \subseteq ToSet(s.queue)
        /\ \A c \in t.active : \E i \in 1..n : s.queue[i] = c
        /\ DOMAIN t.queue = 1..(Len(s.queue) - n)
        /\ \A i \in DOMAIN t.queue : t.queue[i] = s.queue[n + i]
    <2>1. /\ t \in StateType
          /\ Lined(t)
          /\ t.active # {}
          /\ t.status = s.status
          /\ t.active \subseteq ToSet(s.queue)
          /\ ToSet(t.queue) \subseteq ToSet(s.queue)
          /\ \A c \in t.active :
                /\ t.status[c] \in {"validating", "error"}
                /\ \E i \in 1..n : s.queue[i] = c
          /\ n = 1 => t.active = {s.queue[1]}
          /\ DOMAIN t.queue = 1..(Len(s.queue) - n)
          /\ \A i \in DOMAIN t.queue : t.queue[i] = s.queue[n + i]
      BY DequeueLined, Zenon
    <2> HIDE DEF t
    <2> QED
      BY <2>1
  <1>2. /\ DOMAIN s.queue = 1..Len(s.queue) /\ Len(s.queue) \in Nat
        /\ IsInjective(s.queue)
    BY DEF StateType, Lined
  <1> HIDE DEF t
  <1>3. Held(t) \subseteq ToSet(s.queue) /\ Held(s) = ToSet(s.queue)
    BY <1>1 DEF Held
  <1>4. ASSUME NEW i \in DOMAIN t.queue, NEW j \in DOMAIN t.queue,
               i < j, t.queue[i] = d
        PROVE  ~ Precedes(b, t.queue[j], d)
    <2>1. i \in 1..(Len(s.queue) - n) /\ j \in 1..(Len(s.queue) - n)
      BY <1>1
    <2>2. n + i \in 1..Len(s.queue) /\ n + j \in 1..Len(s.queue)
      BY <1>2, <2>1
    <2>3. n + i < n + j
      BY <1>4, <2>1
    <2>4. s.queue[n + i] = d /\ s.queue[n + j] = t.queue[j]
      BY <1>1, <1>4
    <2> QED
      BY <1>2, <2>2, <2>3, <2>4 DEF Ordered
  <1>5. ASSUME d \in t.active \/ (d \in ToSet(t.queue) /\ ~ waits),
               NEW c \in Held(t)
        PROVE  ~ Precedes(b, c, d)
    <2>1. CASE ~ waits
      BY <1>1, <1>3, <1>5, <2>1 DEF Ordered
    <2>2. CASE waits
      <3>1. n = 1 /\ s.queue[1] = d /\ 1 \in DOMAIN s.queue
        BY <1>1, <1>2, <1>5, <2>2
      <3>2. PICK j \in DOMAIN s.queue : s.queue[j] = c
        BY <1>3 DEF ToSet
      <3>3. CASE j = 1
        BY <3>1, <3>2, <3>3, BatchOrder
      <3>4. CASE j # 1
        BY <1>2, <3>1, <3>2, <3>4 DEF Ordered
      <3> QED
        BY <3>3, <3>4
    <2> QED
      BY <2>1, <2>2
  <1>6. Ordered(t, b, d, waits)
    BY <1>4, <1>5 DEF Ordered
  <1> QED
    BY <1>6 DEF t

\* A tail call takes the place at the head of the queue.
LEMMA ReplaceWithTailLined ==
    ASSUME NEW s \in StateType, Lined(s), NEW c \in s.active,
           NEW v \in {"validating", "error"}
    PROVE  LET t == ReplaceWithTail(s, c, v)
           IN  /\ Lined(t)
               /\ t.active = s.active \ {c}
               /\ ToSet(t.queue) = {c} \cup ToSet(s.queue)
               /\ Held(t) = Held(s)
               /\ \A d \in Call \ {c} : t.status[d] = s.status[d]
               /\ \A b, waits, w : Ordered(s, b, c, waits) =>
                                       Ordered(t, b, c, w)
               /\ \A b, d, waits :
                     d # c /\ Ordered(s, b, d, waits) =>
                         Ordered(t, b, d, waits)
  <1> DEFINE t == ReplaceWithTail(s, c, v)
             q == s.queue
  <1>1. c \in Call /\ q \in Seq(Call) /\ s.active \subseteq Call
    BY DEF StateType
  <1>2. c \notin ToSet(q) /\ IsInjective(q)
    BY DEF Lined
  <1>3. /\ IsInjective(Cons(c, q))
        /\ ToSet(Cons(c, q)) = {c} \cup ToSet(q)
    BY <1>1, <1>2, ConsSeq
  <1>4. /\ DOMAIN Cons(c, q) = 1..(Len(q) + 1)
        /\ Cons(c, q)[1] = c
        /\ \A i \in 2..(Len(q) + 1) : Cons(c, q)[i] = q[i - 1]
        /\ DOMAIN q = 1..Len(q) /\ Len(q) \in Nat
    BY <1>1 DEF Cons
  <1>5. /\ t.queue = Cons(c, q)
        /\ t.active = s.active \ {c}
        /\ t.status = [s.status EXCEPT ![c] = v]
    BY DEF ReplaceWithTail, StateType
  <1>6. /\ t.status[c] = v
        /\ \A d \in Call \ {c} : t.status[d] = s.status[d]
    BY <1>1, <1>5 DEF StateType
  <1> HIDE DEF t, q
  <1>7. ToSet(q) \subseteq Call
    BY <1>1, ToSetType
  <1>8. Lined(t)
    BY <1>1, <1>2, <1>3, <1>5, <1>6, <1>7 DEF Lined, q
  <1>9. Held(t) = Held(s)
    BY <1>3, <1>5 DEF Held, q
  <1>10. ASSUME NEW b, NEW waits, NEW w, Ordered(s, b, c, waits)
         PROVE  Ordered(t, b, c, w)
    <2>1. \A e \in Held(s) : ~ Precedes(b, e, c)
      BY <1>10 DEF Ordered
    <2>2. \A j \in DOMAIN t.queue : t.queue[j] \in Held(t)
      BY DEF Held, ToSet
    <2> QED
      BY <1>9, <2>1, <2>2 DEF Ordered
  <1>11. ASSUME NEW b, NEW d, NEW waits, d # c, Ordered(s, b, d, waits)
         PROVE  Ordered(t, b, d, waits)
    <2>1. ASSUME NEW i \in DOMAIN t.queue, NEW j \in DOMAIN t.queue,
                 i < j, t.queue[i] = d
          PROVE  ~ Precedes(b, t.queue[j], d)
      <3>1. /\ i - 1 \in DOMAIN q /\ j - 1 \in DOMAIN q
            /\ i - 1 < j - 1
            /\ q[i - 1] = d /\ q[j - 1] = t.queue[j]
        BY <1>4, <1>5, <1>11, <2>1
      <3> QED
        BY <1>11, <3>1 DEF Ordered, q
    <2>2. d \in t.active \/ (d \in ToSet(t.queue) /\ ~ waits) =>
             \A e \in Held(t) : ~ Precedes(b, e, d)
      BY <1>3, <1>5, <1>9, <1>11 DEF Ordered, q
    <2> QED
      BY <2>1, <2>2 DEF Ordered
  <1>12. t.active = s.active \ {c} /\ ToSet(t.queue) = {c} \cup ToSet(s.queue)
    BY <1>3, <1>5 DEF q
  <1> QED
    BY <1>6, <1>8, <1>9, <1>10, <1>11, <1>12 DEF t

-----------------------------------------------------------------------------
(* The loop.                                                               *)

\* What is known of c between two waves, with the calls of s in hand.
Resting(s, c) ==
    /\ At(c, "idle") /\ ~ call[c].expands
    /\ call[c].result = "tail" => c \in Tailing
    /\ call[c].noisy => c \notin ToSet(s.queue)
    /\ c \in s.active => /\ call[c].noisy
                         /\ s.status[c] \in Terminal \cup {"executing"}
                         /\ call[c].waits => s.active = {c}

\* A wave is alone if it has a call that waits.
LEMMA WaveAlone ==
    ASSUME NEW q \in Seq(Call), NEW n \in 1..Len(q), IsWave(q, n),
           NEW i \in 1..n, call[q[i]].waits
    PROVE  n = 1
  BY DEF IsWave, Parallelizable

\* The first iteration of a batch, and each that follows another.
LEMMA IterateWave ==
    ASSUME TypeOK, NEW s \in StateType, cur' \in Batch, Lined(s),
           \A c \in ToSet(s.queue) : Untouched(c),
           \A c \in Call : Resting(s, c),
           \A d \in Call : d \in Waits =>
               Ordered(s, cur', d, call[d].waits),
           NEW stop, Iterate(s, stop)
    PROVE  /\ Lined(sm')
           /\ Held(sm') \subseteq Held(s)
           /\ ToSet(sm'.queue) \subseteq ToSet(s.queue)
           /\ \A c \in Call : call'[c] = call[c] \/ c \in sm'.active
           /\ RoundInv'
           /\ \A c \in Call : TurnInv(c)'
           /\ \A d \in Call : OrderInv(d)'
  <1> DEFINE more == s.queue # << >> \/ s.active # {}
             Goal == /\ Lined(sm')
                     /\ Held(sm') \subseteq Held(s)
                     /\ ToSet(sm'.queue) \subseteq ToSet(s.queue)
                     /\ \A c \in Call : call'[c] = call[c] \/ c \in sm'.active
                     /\ RoundInv'
                     /\ \A c \in Call : TurnInv(c)'
                     /\ \A d \in Call : OrderInv(d)'
  <1>cur. cur' # None
    BY BatchAssumption
  <1>ty. /\ s.active \subseteq Call /\ s.queue \in Seq(Call)
         /\ ToSet(s.queue) \subseteq Call
         /\ call \in [Call -> CallType]
    BY ToSetType DEF StateType, TypeOK
  \* No wave is begun: the loop is left with an empty queue, or goes on with
  \* nothing active.
  <1>calm. ASSUME NEW t, sm' = t, UNCHANGED call,
                  Lined(t), Held(t) \subseteq Held(s),
                  ToSet(t.queue) \subseteq ToSet(s.queue),
                  t.active \subseteq s.active,
                  \A c \in t.active : t.status[c] = s.status[c],
                  \A d \in Call : d \in Waits =>
                      Ordered(t, cur', d, call[d].waits),
                  \/ phase' = "top" /\ t.active = {}
                  \/ phase' = "finishing" /\ t.queue = << >>
           PROVE  Goal
    <2>1. RoundInv'
      BY <1>calm, <1>cur, <1>ty DEF RoundInv, Resting
    <2>2. ASSUME NEW c \in Call PROVE TurnInv(c)'
      <3>1. Resting(s, c) /\ call'[c] = call[c]
        BY <1>calm
      <3>2. c \in t.active => c \in s.active /\ t.status[c] = s.status[c]
                              /\ (s.active = {c} => t.active = {c})
        BY <1>calm
      <3>3. phase' # "executing" /\ phase' # "validating"
        BY <1>calm
      <3> QED
        BY <1>calm, <3>1, <3>2, <3>3
        DEF TurnInv, Returned, Resting, At, Validation
    <2>3. ASSUME NEW d \in Call PROVE OrderInv(d)'
      BY <1>calm, <1>cur DEF OrderInv
    <2> QED
      BY <1>calm, <2>1, <2>2, <2>3
  <1>1. CASE ~ more /\ LeaveLoop(s)
    BY <1>1, <1>calm DEF LeaveLoop
  <1>2. CASE more /\ stop /\ LeaveLoop(CancelAllQueued(s))
    <2> DEFINE t == CancelAllQueued(s)
    <2>1. t.queue = << >> /\ t.active = s.active
      BY DEF CancelAllQueued, StateType
    <2>2. \A c \in s.active : t.status[c] = s.status[c]
      BY <1>ty DEF CancelAllQueued, StateType, Lined
    <2>3. Lessened(s, t)
      BY OperatorsLessen
    <2> HIDE DEF t
    <2>4. /\ Lined(t)
          /\ ToSet(t.queue) \subseteq ToSet(s.queue)
          /\ Held(t) \subseteq Held(s)
          /\ \A b, d, waits : Ordered(s, b, d, waits) =>
                                  Ordered(t, b, d, waits)
      BY <2>3, LessenedLined
    <2>5. sm' = t /\ phase' = "finishing" /\ UNCHANGED call
      BY <1>2 DEF LeaveLoop, t
    <2> QED
      BY <1>calm, <2>1, <2>2, <2>4, <2>5
  <1>3. CASE /\ s.queue # << >> /\ s.active = {}
             /\ s.status[s.queue[1]] = "error"
             /\ sm' = FinalizeEnded(Dequeue(s, 1))
             /\ phase' = "top"
             /\ UNCHANGED <<spawned, call>>
    <2> DEFINE r == Dequeue(s, 1)
               t == FinalizeEnded(r)
    <2>1. 1 \in 1..Len(s.queue)
      BY <1>3, <1>ty
    <2>2. /\ r \in StateType
          /\ Lined(r)
          /\ r.status = s.status
          /\ r.active = {s.queue[1]}
          /\ r.active \subseteq ToSet(s.queue)
          /\ ToSet(r.queue) \subseteq ToSet(s.queue)
      BY <1>3, <2>1, DequeueLined, ZenonT(30)
    <2>3. \A d \in Call : d \in Waits =>
              Ordered(r, cur', d, call[d].waits)
      <3> SUFFICES ASSUME NEW d \in Call, d \in Waits
                   PROVE  Ordered(r, cur', d, call[d].waits)
        OBVIOUS
      <3> DEFINE w == call[d].waits
      <3>1. Ordered(s, cur', d, w)
        OBVIOUS
      <3> HIDE DEF w, r
      <3>2. Ordered(Dequeue(s, 1), cur', d, w)
        BY <1>3, <2>1, <3>1, DequeueOrdered
      <3> QED
        BY <3>2 DEF r, w
    <2> HIDE DEF r
    <2>4. t.active = {}
      BY <1>3, <2>2 DEF FinalizeEnded, Pending, Ended, Terminal, StateType
    <2>5. Lessened(r, t)
      BY <2>2, OperatorsLessen
    <2>6. sm' = t
      BY <1>3 DEF r
    <2> HIDE DEF t
    <2>7. /\ Lined(t)
          /\ ToSet(t.queue) \subseteq ToSet(r.queue)
          /\ Held(t) \subseteq Held(r)
          /\ \A b, d, waits : Ordered(r, b, d, waits) =>
                                  Ordered(t, b, d, waits)
      BY <2>2, <2>5, LessenedLined
    <2>8. Held(t) \subseteq Held(s)
      BY <2>2, <2>7 DEF Held
    <2> QED
      BY <1>3, <1>calm, <2>2, <2>3, <2>4, <2>6, <2>7, <2>8
  \* The wave is of calls that print on: none of them is validated again.
  <1>4. CASE s.active # {} /\ Validate(s)
    <2>1. \A c \in s.active : call[c].noisy /\ s.status[c] # "validating"
      BY <1>ty DEF Resting, Terminal
    <2>2. /\ sm' = s /\ phase' = "validating"
          /\ \A c \in Call : call'[c] = call[c]
      BY <1>4, <1>ty, <2>1 DEF Validate
    <2>3. RoundInv'
      BY <1>4, <1>cur, <1>ty, <2>1, <2>2 DEF RoundInv
    <2>4. ASSUME NEW c \in Call PROVE TurnInv(c)'
      <3>1. Resting(s, c) /\ call'[c] = call[c]
        BY <2>2
      <3> QED
        BY <2>2, <3>1 DEF TurnInv, Returned, Resting, At, Validation
    <2>5. ASSUME NEW d \in Call PROVE OrderInv(d)'
      BY <1>cur, <2>2 DEF OrderInv
    <2> QED
      BY <2>2, <2>3, <2>4, <2>5 DEF Held
  \* The wave is of queued calls.
  <1>5. ASSUME NEW n \in 1..Len(s.queue), s.active = {},
               IsWave(s.queue, n), Validate(Dequeue(s, n))
        PROVE  Goal
    <2> DEFINE t == Dequeue(s, n)
    <2>1. /\ t \in StateType
          /\ Lined(t)
          /\ t.active # {}
          /\ t.active \subseteq ToSet(s.queue)
          /\ ToSet(t.queue) \subseteq ToSet(s.queue)
          /\ \A c \in t.active :
                /\ t.status[c] \in {"validating", "error"}
                /\ \E i \in 1..n : s.queue[i] = c
          /\ n = 1 => t.active = {s.queue[1]}
      BY <1>5, DequeueLined, ZenonT(30)
    <2>2. \A d \in Call : d \in Waits =>
              Ordered(t, cur', d, call[d].waits)
      <3> SUFFICES ASSUME NEW d \in Call, d \in Waits
                   PROVE  Ordered(t, cur', d, call[d].waits)
        OBVIOUS
      <3> DEFINE w == call[d].waits
      <3>1. Ordered(s, cur', d, w)
        OBVIOUS
      <3>2. w => \A i \in 1..n : s.queue[i] = d => n = 1
        BY <1>5, <1>ty, WaveAlone
      <3> HIDE DEF w, t
      <3>3. Ordered(Dequeue(s, n), cur', d, w)
        BY <1>5, <3>1, <3>2, DequeueOrdered
      <3> QED
        BY <3>3 DEF t, w
    <2> HIDE DEF t
    <2>3. /\ sm' = t /\ phase' = "validating"
          /\ call' = [c \in Call |->
                IF c \in t.active /\ t.status[c] = "validating"
                THEN [call[c] EXCEPT !.pc = "hook"] ELSE call[c]]
      BY <1>5 DEF Validate, t
    <2>4. Held(t) \subseteq Held(s)
      BY <2>1 DEF Held
    <2>5. \A c \in t.active : c \in Call /\ Untouched(c)
      BY <1>ty, <2>1
    <2>6. \A c \in Call \ t.active : call'[c] = call[c]
      BY <2>3
    <2>7. \A c \in t.active :
             /\ call'[c].pc = IF t.status[c] = "validating" THEN "hook"
                              ELSE "idle"
             /\ ~ call'[c].noisy /\ ~ call'[c].expands
             /\ call'[c].result = "none"
             /\ call'[c].waits = call[c].waits
      <3> TAKE c \in t.active
      <3>1. PICK by \in {"model", "tail"}, w \in BOOLEAN :
                call[c] = NewCall(c, by, w)
        BY <2>5 DEF Untouched
      <3>2. call'[c] = IF t.status[c] = "validating"
                       THEN [call[c] EXCEPT !.pc = "hook"] ELSE call[c]
        BY <2>3, <2>5
      <3> QED
        BY <3>1, <3>2 DEF NewCall
    <2>8. RoundInv'
      BY <1>cur, <2>1, <2>3, <2>7 DEF RoundInv
    <2>9. ASSUME NEW c \in Call PROVE TurnInv(c)'
      <3>1. CASE c \in t.active
        <4>1. call[c].waits => t.active = {c}
          <5> SUFFICES ASSUME call[c].waits PROVE t.active = {c}
            OBVIOUS
          <5>1. n = 1
            BY <1>5, <1>ty, <2>1, <3>1, WaveAlone
          <5> QED
            BY <2>1, <3>1, <5>1
        <4> QED
          BY <2>1, <2>3, <2>7, <3>1, <4>1
          DEF TurnInv, Returned, At, Validation, Terminal
      <3>2. CASE c \notin t.active
        <4>1. Resting(s, c) /\ call'[c] = call[c]
          BY <2>6, <3>2
        <4> QED
          BY <2>1, <2>3, <3>2, <4>1
          DEF TurnInv, Returned, Resting, At, Validation
      <3> QED
        BY <3>1, <3>2
    <2>10. ASSUME NEW d \in Call PROVE OrderInv(d)'
      <3>1. call'[d].waits = call[d].waits
        BY <2>6, <2>7
      <3> QED
        BY <1>cur, <2>2, <2>3, <3>1 DEF OrderInv
    <2> QED
      BY <2>1, <2>3, <2>4, <2>6, <2>8, <2>9, <2>10
  <1> QED
    BY <1>1, <1>2, <1>3, <1>4, <1>5 DEF Iterate

\* A call of a batch in line.
LEMMA AsAsked ==
    ASSUME NEW c \in Call, call[c] = NewCall(c, "model", c \in Waits)
    PROVE  /\ Untouched(c)
           /\ call[c].pc = "idle" /\ ~ call[c].noisy
           /\ c \in Waits => call[c].waits
  <1> DEFINE w == c \in Waits
  <1>1. w \in BOOLEAN /\ call[c] = NewCall(c, "model", w)
    OBVIOUS
  <1>2. c \in Waits => w
    OBVIOUS
  <1> HIDE DEF w
  <1>3. Untouched(c)
    BY <1>1 DEF Untouched
  <1>4. call[c].pc = "idle" /\ call[c].noisy = FALSE /\ call[c].waits = w
    BY <1>1 DEF NewCall
  <1> QED
    BY <1>2, <1>3, <1>4

\* Steps within a turn: nothing new is in hand, only calls in hand are worked
\* on, the queued ones not, and no request joins the line.
LEMMA OwnKept ==
    ASSUME WaveInv, cur' = cur \/ cur' = None,
           Lined(sm'), Held(sm') \subseteq Held(sm),
           \A c \in ToSet(sm'.queue) :
               (c \in ToSet(sm.queue) /\ call'[c] = call[c]) \/ Untouched(c)',
           \A c \in Call \ Held(sm) : call'[c] = call[c] \/ call[c].noisy,
           \A b \in Batch : InLine(b)' => InLine(b)
    PROVE  OwnInv'
  <1>1. OwnInv
    BY DEF WaveInv, Waves
  <1>2. \A b : BatchSet(b)' = BatchSet(b)
    BY DEF BatchSet
  <1>3. cur' # None => Held(sm') \subseteq BatchSet(cur')
    BY <1>1 DEF OwnInv
  <1>4. \A c \in ToSet(sm'.queue) : Untouched(c)'
    BY <1>1 DEF OwnInv, Untouched
  <1>5. ASSUME NEW b \in Batch, InLine(b)', NEW c \in BatchSet(b)
        PROVE  /\ call'[c] = NewCall(c, "model", c \in Waits)
               /\ c \notin Held(sm')
    <2>1. /\ c \in Call
          /\ call[c] = NewCall(c, "model", c \in Waits)
          /\ c \notin Held(sm)
      BY <1>1, <1>5, BatchSetType DEF OwnInv
    <2>2. ~ call[c].noisy
      BY <2>1, AsAsked
    <2> QED
      BY <2>1, <2>2
  <1>6. BatchSet(cur)' = BatchSet(cur')
    BY DEF BatchSet
  <1>7. Held(sm)' = Held(sm')
    BY DEF Held
  <1> QED
    BY <1>2, <1>3, <1>4, <1>5, <1>6, <1>7 DEF OwnInv

\* Between two waves.
LEMMA AllResting ==
    ASSUME WaveInv, phase \in {"idle", "top", "finishing"}
    PROVE  \A c \in Call : Resting(sm, c)
  <1> SUFFICES ASSUME NEW c \in Call PROVE Resting(sm, c)
    OBVIOUS
  <1>1. TurnInv(c) /\ RoundInv
    BY DEF WaveInv, Waves
  <1> QED
    BY <1>1 DEF TurnInv, RoundInv, Returned, Resting, At

LEMMA StartBatchWave ==
    ASSUME WaveInv, phase \in {"idle", "finishing"}, sm.active = {},
           NEW b \in Batch, InLine(b),
           NEW before \in [Batch -> {"new", "queued", "running",
                                    "resolved", "rejected"}],
           \A a \in Batch : before[a] \in {"new", "queued"} => InLine(a),
           StartBatch(b, before)
    PROVE  Waves'
  <1> DEFINE s == Enqueue(ClearBatch(sm), TopicFirst(BatchCalls[b]), Invalid)
  <1>1. TypeOK /\ sm \in StateType /\ OwnInv /\ sm.queue = << >>
    BY DEF WaveInv, Waves, RoundInv, TypeOK
  <1>2. /\ s \in StateType
        /\ Lined(s)
        /\ s.active = {}
        /\ ToSet(s.queue) = BatchSet(b)
        /\ \A d : Ordered(s, b, d, TRUE)
    BY <1>1, EnqueueLined
  <1> HIDE DEF s
  <1>3. /\ cur' = b
        /\ request' = [before EXCEPT ![b] = "running"]
        /\ Iterate(s, b \in aborted)
    BY DEF StartBatch, s
  <1>4. \A c \in BatchSet(b) :
            /\ Untouched(c)
            /\ ~ call[c].noisy
            /\ c \in Waits => call[c].waits
    BY <1>1, BatchSetType, AsAsked DEF OwnInv
  <1>5. \A c \in ToSet(s.queue) : Untouched(c)
    BY <1>2, <1>4
  <1>6. \A c \in Call : Resting(s, c)
    <2> SUFFICES ASSUME NEW c \in Call PROVE Resting(s, c)
      OBVIOUS
    <2>1. Resting(sm, c)
      BY AllResting
    <2>2. c \in ToSet(s.queue) => ~ call[c].noisy
      BY <1>2, <1>4
    <2> QED
      BY <1>2, <2>1, <2>2 DEF Resting
  <1>7. \A d \in Call : d \in Waits => Ordered(s, b, d, call[d].waits)
    <2> SUFFICES ASSUME NEW d \in Call, d \in Waits
                 PROVE  Ordered(s, b, d, call[d].waits)
      OBVIOUS
    <2>1. d \in ToSet(s.queue) => call[d].waits
      BY <1>2, <1>4
    <2> QED
      BY <1>2, <2>1 DEF Ordered
  <1>8. /\ Lined(sm')
        /\ Held(sm') \subseteq Held(s)
        /\ ToSet(sm'.queue) \subseteq ToSet(s.queue)
        /\ \A c \in Call : call'[c] = call[c] \/ c \in sm'.active
        /\ RoundInv'
        /\ \A c \in Call : TurnInv(c)'
        /\ \A d \in Call : OrderInv(d)'
    BY <1>1, <1>2, <1>3, <1>5, <1>6, <1>7, IterateWave
  <1>9. OwnInv'
    <2>1. Held(sm') \subseteq BatchSet(b) /\ BatchSet(b) \subseteq Call
      BY <1>2, <1>8, BatchSetType DEF Held
    <2>2. \A c \in ToSet(sm'.queue) : Untouched(c)'
      <3> SUFFICES ASSUME NEW c \in ToSet(sm'.queue) PROVE Untouched(c)'
        OBVIOUS
      <3>1. c \in Call /\ c \notin sm'.active
        BY <1>8, <2>1 DEF Lined, Held
      <3>2. call'[c] = call[c] /\ Untouched(c)
        BY <1>5, <1>8, <3>1
      <3> QED
        BY <3>2 DEF Untouched
    <2>3. ASSUME NEW a \in Batch, InLine(a)', NEW c \in BatchSet(a)
          PROVE  /\ call'[c] = NewCall(c, "model", c \in Waits)
                 /\ c \notin Held(sm')
      <3>1. a # b /\ before[a] \in {"new", "queued"}
        BY <1>3, <2>3 DEF InLine
      <3>2. c \notin BatchSet(b) /\ c \in Call
        BY <3>1, UniqueCalls, BatchSetType DEF BatchSet
      <3>3. c \notin Held(sm') /\ call'[c] = call[c]
        BY <1>8, <2>1, <3>2 DEF Held
      <3> QED
        BY <1>1, <3>1, <3>3 DEF OwnInv
    <2>4. BatchSet(cur)' = BatchSet(b)
      BY <1>3 DEF BatchSet
    <2>5. \A a : BatchSet(a)' = BatchSet(a)
      BY DEF BatchSet
    <2> QED
      BY <2>1, <2>2, <2>3, <2>4, <2>5 DEF OwnInv, Held
  <1> QED
    BY <1>8, <1>9 DEF Waves

\* An iteration that follows another.
LEMMA LoopTopWave ==
    ASSUME WaveInv, LoopTop
    PROVE  Waves'
  <1>1. /\ TypeOK /\ sm \in StateType /\ Lined(sm) /\ OwnInv
        /\ phase = "top" /\ cur' = cur /\ cur \in Batch /\ cur # None
        /\ UNCHANGED request
        /\ Iterate(sm, cur \in aborted \/ cancelling)
    BY DEF WaveInv, Waves, RoundInv, TypeOK, LoopTop
  <1>2. \A c \in Call : Resting(sm, c)
    BY <1>1, AllResting
  <1>3. \A d \in Call : d \in Waits => Ordered(sm, cur, d, call[d].waits)
    BY <1>1 DEF WaveInv, Waves, OrderInv
  <1>4. /\ Lined(sm')
        /\ Held(sm') \subseteq Held(sm)
        /\ ToSet(sm'.queue) \subseteq ToSet(sm.queue)
        /\ \A c \in Call : call'[c] = call[c] \/ c \in sm'.active
        /\ RoundInv'
        /\ \A c \in Call : TurnInv(c)'
        /\ \A d \in Call : OrderInv(d)'
    BY <1>1, <1>2, <1>3, IterateWave DEF OwnInv
  <1>5. ToSet(sm'.queue) \subseteq Call \ sm'.active
    BY <1>1, <1>4, ToSetType DEF StateType, Lined
  <1>6. \A c \in ToSet(sm'.queue) :
            c \in ToSet(sm.queue) /\ call'[c] = call[c]
    BY <1>4, <1>5
  <1>7. \A c \in Call \ Held(sm) : call'[c] = call[c]
    BY <1>4 DEF Held
  <1>8. OwnInv'
    BY <1>1, <1>4, <1>6, <1>7, OwnKept DEF InLine
  <1> QED
    BY <1>4, <1>8 DEF Waves

\* Where every handler has returned and nothing is to be executed, the ended
\* calls are reported, what prints on stays active, and another iteration
\* follows: the loop is never left with a call half-way.
LEMMA EndIterationWave ==
    ASSUME WaveInv, phase \in {"validating", "executing"}, AllIdle,
           \A c \in sm.active :
               \/ sm.status[c] \in Terminal
               \/ sm.status[c] = "executing" /\ call[c].noisy,
           EndIteration, UNCHANGED <<cur, cancelling, request>>
    PROVE  Waves'
  <1>1. /\ TypeOK /\ sm \in StateType /\ Lined(sm) /\ RoundInv /\ cur # None
    BY DEF WaveInv, Waves, RoundInv, TypeOK
  <1>2. sm' = FinalizeEnded(sm) /\ UNCHANGED call
    BY DEF EndIteration
  <1>3. Lessened(sm, sm')
    BY <1>1, <1>2, OperatorsLessen
  <1>4. /\ Lined(sm')
        /\ ToSet(sm'.queue) \subseteq ToSet(sm.queue)
        /\ Held(sm') \subseteq Held(sm)
        /\ \A b, d, waits : Ordered(sm, b, d, waits) =>
                                Ordered(sm', b, d, waits)
    BY <1>1, <1>3, LessenedLined
  <1>5. /\ sm'.active = {c \in sm.active : sm.status[c] \notin Terminal}
        /\ sm'.status = sm.status
        /\ sm'.queue = sm.queue
    BY <1>1, <1>2 DEF FinalizeEnded, Pending, Ended, StateType
  <1>6. \A c \in sm'.active : sm.status[c] = "executing" /\ call[c].noisy
    BY <1>5
  <1>7. phase' = "top"
    <2>1. CASE sm.active = {}
      BY <1>1, <2>1 DEF EndIteration, RoundInv
    <2>2. CASE sm.active # {}
      <3>1. PICK c \in sm.active : TRUE
        BY <2>2
      <3> QED
        BY <3>1 DEF EndIteration, Ended
    <2> QED
      BY <2>1, <2>2
  <1>8. RoundInv'
    BY <1>1, <1>2, <1>5, <1>6, <1>7 DEF RoundInv
  <1>9. ASSUME NEW c \in Call PROVE TurnInv(c)'
    <2>1. TurnInv(c) /\ At(c, "idle")
      BY DEF WaveInv, Waves, AllIdle, At
    <2>2. c \in sm'.active => c \in sm.active /\ (sm.active = {c} => sm'.active = {c})
      BY <1>5
    <2> QED
      BY <1>2, <1>5, <1>6, <1>7, <2>1, <2>2
      DEF TurnInv, Returned, At, Validation
  <1>10. ASSUME NEW d \in Call PROVE OrderInv(d)'
    BY <1>2, <1>4 DEF WaveInv, Waves, OrderInv
  <1>11. OwnInv'
    BY <1>2, <1>4, OwnKept DEF InLine
  <1> QED
    BY <1>4, <1>8, <1>9, <1>10, <1>11 DEF Waves

\* The tools of the scheduled calls are started, or the calls cancelled.
LEMMA ExecuteWave ==
    ASSUME WaveInv, phase = "validating", AllIdle, phase' = "executing",
           NEW ready, ready = {c \in sm.active : sm.status[c] = "scheduled"},
           ready # {}, sm.active \subseteq ready \cup Ended(sm),
           Execute(ready), UNCHANGED <<cur, cancelling, request, spawned>>
    PROVE  Waves'
  <1>1. /\ TypeOK /\ sm \in StateType /\ sm.active \subseteq Call
        /\ Lined(sm) /\ RoundInv /\ cur # None
        /\ call \in [Call -> CallType]
    BY DEF WaveInv, Waves, RoundInv, TypeOK, StateType
  <1> PICK v \in {"cancelled", "executing"} :
            /\ sm' = UpdateAll(sm, ready, v)
            /\ v = "cancelled" => UNCHANGED call
            /\ v = "executing" =>
                  call' = [c \in Call |-> IF c \in ready
                                          THEN [call[c] EXCEPT !.pc = "tool"]
                                          ELSE call[c]]
    BY DEF Execute, Start
  <1>3. Lessened(sm, sm')
    BY <1>1, OperatorsLessen
  <1>4. /\ Lined(sm')
        /\ ToSet(sm'.queue) \subseteq ToSet(sm.queue)
        /\ Held(sm') \subseteq Held(sm)
        /\ \A b, d, waits : Ordered(sm, b, d, waits) =>
                                Ordered(sm', b, d, waits)
    BY <1>1, <1>3, LessenedLined
  <1>5. /\ sm'.active = sm.active
        /\ sm'.queue = sm.queue
        /\ \A c \in ready : sm'.status[c] = v
        /\ \A c \in sm.active \ ready : sm'.status[c] = sm.status[c]
    BY <1>1 DEF UpdateAll, StateType
  <1>6. \A c \in Call :
            call'[c] = IF c \in ready /\ v = "executing"
                       THEN [call[c] EXCEPT !.pc = "tool"] ELSE call[c]
    BY <1>1
  <1>7. \A c \in sm.active : ~ call[c].noisy
    <2>1. PICK c \in sm.active : sm.status[c] = "scheduled"
      OBVIOUS
    <2>2. TurnInv(c) /\ At(c, "idle")
      BY <1>1 DEF WaveInv, Waves, AllIdle, At
    <2>3. ~ call[c].noisy
      BY <2>1, <2>2 DEF TurnInv, Returned, Terminal
    <2> QED
      BY <1>1, <2>3 DEF RoundInv
  <1>8. RoundInv'
    BY <1>1, <1>5 DEF RoundInv
  <1>9. ASSUME NEW c \in Call PROVE TurnInv(c)'
    <2>1. TurnInv(c) /\ At(c, "idle")
      BY DEF WaveInv, Waves, AllIdle, At
    <2>2. CASE c \in ready /\ v = "executing"
      <3>1. /\ call'[c].pc = "tool" /\ call'[c].noisy = call[c].noisy
            /\ call'[c].expands = call[c].expands
            /\ call'[c].waits = call[c].waits
            /\ call'[c].result = call[c].result
        BY <1>1, <1>6, <2>2 DEF CallType
      <3> QED
        BY <1>5, <1>7, <2>1, <2>2, <3>1 DEF TurnInv, At, Validation
    <2>3. CASE ~ (c \in ready /\ v = "executing")
      <3>1. call'[c] = call[c]
        BY <1>6, <2>3
      <3>2. c \in sm.active => sm'.status[c] \in Terminal
        BY <1>5, <2>3 DEF Ended, Terminal
      <3> QED
        BY <1>5, <2>1, <3>1, <3>2 DEF TurnInv, Returned, At, Validation
    <2> QED
      BY <2>2, <2>3
  <1>10. \A c \in Call : call'[c].waits = call[c].waits
    BY <1>1, <1>6 DEF CallType
  <1>11. ASSUME NEW d \in Call PROVE OrderInv(d)'
    BY <1>4, <1>10 DEF WaveInv, Waves, OrderInv
  <1>12. \A c \in Call \ sm.active : call'[c] = call[c]
    BY <1>6
  <1>13. ToSet(sm.queue) \subseteq Call \ sm.active
    BY <1>1, ToSetType DEF StateType, Lined
  <1>14. OwnInv'
    BY <1>4, <1>12, <1>13, OwnKept DEF Held, InLine
  <1> QED
    BY <1>4, <1>8, <1>9, <1>11, <1>14 DEF Waves

LEMMA JoinWave ==
    ASSUME WaveInv, JoinValidation \/ JoinExecution
    PROVE  Waves'
  <1>1. /\ phase \in {"validating", "executing"} /\ AllIdle
        /\ UNCHANGED <<cur, cancelling, request, spawned>>
    BY DEF JoinValidation, JoinExecution
  <1>2. \A c \in sm.active : sm.status[c] \in Returned(c)
    BY <1>1 DEF WaveInv, Waves, TurnInv, AllIdle, At, TypeOK, StateType
  <1>3. CASE phase = "executing"
    <2>1. \A c \in sm.active :
             \/ sm.status[c] \in Terminal
             \/ sm.status[c] = "executing" /\ call[c].noisy
      BY <1>2, <1>3 DEF Returned
    <2>2. EndIteration
      BY <1>3 DEF JoinValidation, JoinExecution
    <2> QED
      BY <1>1, <2>1, <2>2, EndIterationWave
  <1>4. CASE phase = "validating"
    <2> DEFINE ready == {c \in sm.active : sm.status[c] = "scheduled"}
               all   == ready # {} /\ sm.active \subseteq ready \cup Ended(sm)
    <2>1. \/ all /\ phase' = "executing" /\ Execute(ready)
          \/ ~ all /\ EndIteration
      BY <1>4 DEF JoinValidation, JoinExecution
    <2>2. CASE all /\ phase' = "executing" /\ Execute(ready)
      <3>1. ready = {c \in sm.active : sm.status[c] = "scheduled"}
        OBVIOUS
      <3> HIDE DEF ready
      <3> QED
        BY <1>1, <1>4, <2>2, <3>1, ExecuteWave
    <2>3. CASE ~ all /\ EndIteration
      <3>1. ready = {}
        <4> SUFFICES ASSUME ready # {} PROVE FALSE
          OBVIOUS
        <4>1. PICK c \in sm.active : sm.status[c] = "scheduled"
          OBVIOUS
        <4>2. ~ call[c].noisy
          BY <1>2, <4>1 DEF Returned, Terminal
        <4>3. \A d \in sm.active : ~ call[d].noisy
          BY <1>4, <4>2 DEF WaveInv, Waves, RoundInv
        <4>4. sm.active \subseteq ready \cup Ended(sm)
          BY <1>2, <4>3 DEF Returned, Ended
        <4> QED
          BY <2>3, <4>4
      <3>2. \A c \in sm.active :
               \/ sm.status[c] \in Terminal
               \/ sm.status[c] = "executing" /\ call[c].noisy
        BY <1>2, <3>1 DEF Returned
      <3> QED
        BY <1>1, <2>3, <3>2, EndIterationWave
    <2> QED
      BY <2>1, <2>2, <2>3
  <1> QED
    BY <1>1, <1>3, <1>4

-----------------------------------------------------------------------------
(* The handlers.                                                           *)

\* Whatever a handler does, the queue stays lined up and in order: it is kept
\* or emptied, or the call's own tail call goes to its front.
LEMMA EffectKeepsLine ==
    ASSUME TypeOK, Lined(sm), NEW c \in Call, HandlerEffect(c),
           \/ c \in sm.active
           \/ sm' = UpdateStatus(sm, c, "executing") /\ UNCHANGED spawned
    PROVE  /\ Lined(sm')
           /\ Held(sm') \subseteq Held(sm)
           /\ \/ /\ Lessened(sm, sm') /\ sm'.active = sm.active
                 /\ ToSet(sm'.queue) \subseteq ToSet(sm.queue)
                 /\ UNCHANGED spawned
              \/ /\ c \in sm.active /\ sm'.active = sm.active \ {c}
                 /\ ToSet(sm'.queue) = {c} \cup ToSet(sm.queue)
                 /\ spawned' = TRUE
           /\ \A d \in sm.active \ {c} : sm'.status[d] = sm.status[d]
           /\ \A b, d, waits : d # c /\ Ordered(sm, b, d, waits) =>
                                   Ordered(sm', b, d, waits)
           /\ \A b, waits, w :
                 Ordered(sm, b, c, waits) /\ (c \in sm.active \/ w = waits)
                     => Ordered(sm', b, c, w)
  <1> DEFINE Goal ==
           /\ Lined(sm')
           /\ Held(sm') \subseteq Held(sm)
           /\ \/ /\ Lessened(sm, sm') /\ sm'.active = sm.active
                 /\ ToSet(sm'.queue) \subseteq ToSet(sm.queue)
                 /\ UNCHANGED spawned
              \/ /\ c \in sm.active /\ sm'.active = sm.active \ {c}
                 /\ ToSet(sm'.queue) = {c} \cup ToSet(sm.queue)
                 /\ spawned' = TRUE
           /\ \A d \in sm.active \ {c} : sm'.status[d] = sm.status[d]
           /\ \A b, d, waits : d # c /\ Ordered(sm, b, d, waits) =>
                                   Ordered(sm', b, d, waits)
           /\ \A b, waits, w :
                 Ordered(sm, b, c, waits) /\ (c \in sm.active \/ w = waits)
                     => Ordered(sm', b, c, w)
  <1>ty. sm \in StateType /\ sm.active \subseteq Call
    BY DEF TypeOK, StateType
  <1>st. {"executing", "cancelled"} \subseteq Status
    BY DEF Status
  <1>less. ASSUME NEW t, sm' = t,
                  Lessened(sm, t), t.active = sm.active,
                  \A d \in sm.active \ {c} : t.status[d] = sm.status[d],
                  UNCHANGED spawned
           PROVE  Goal
    <2>1. Lessened(sm, t) /\ t.active = sm.active
      BY <1>less
    <2>2. /\ Lined(t)
          /\ ToSet(t.queue) \subseteq ToSet(sm.queue)
          /\ Held(t) \subseteq Held(sm)
          /\ \A b, d, waits : Ordered(sm, b, d, waits) =>
                                  Ordered(t, b, d, waits)
      BY <2>1, LessenedLined
    <2>3. ASSUME NEW b, NEW waits, NEW w, Ordered(sm, b, c, waits),
                 c \in sm.active
          PROVE  Ordered(t, b, c, w)
      <3>1. Ordered(t, b, c, waits)
        BY <2>2, <2>3
      <3> QED
        BY <2>1, <2>3, <3>1 DEF Ordered
    <2>4. ASSUME NEW b, NEW waits, NEW w, Ordered(sm, b, c, waits),
                 c \in sm.active \/ w = waits
          PROVE  Ordered(sm', b, c, w)
      BY <1>less, <2>2, <2>3, <2>4
    <2>5. ASSUME NEW b, NEW d, NEW waits, Ordered(sm, b, d, waits)
          PROVE  Ordered(sm', b, d, waits)
      BY <1>less, <2>2, <2>5
    <2> QED
      BY <1>less, <2>2, <2>4, <2>5, ZenonT(30)
  <1>1. ASSUME NEW v \in Status
        PROVE  /\ UpdateStatus(sm, c, v) \in StateType
               /\ Lined(UpdateStatus(sm, c, v))
               /\ Lessened(sm, UpdateStatus(sm, c, v))
               /\ UpdateStatus(sm, c, v).queue = sm.queue
               /\ UpdateStatus(sm, c, v).active = sm.active
               /\ \A d \in sm.active \ {c} :
                     UpdateStatus(sm, c, v).status[d] = sm.status[d]
    <2> DEFINE t == UpdateStatus(sm, c, v)
    <2>1. t \in StateType /\ Lessened(sm, t)
      BY <1>ty, UpdateAllType, OperatorsLessen DEF UpdateStatus
    <2>2. /\ t.queue = sm.queue /\ t.active = sm.active
          /\ \A d \in sm.active \ {c} : t.status[d] = sm.status[d]
      BY <1>ty DEF UpdateStatus, UpdateAll, StateType
    <2> HIDE DEF t
    <2>3. Lined(t)
      BY <2>1, LessenedLined
    <2> QED
      BY <2>1, <2>2, <2>3 DEF t
  <1>2. CASE UNCHANGED <<sm, spawned>>
    <2>1. Lessened(sm, sm)
      BY DEF Lessened
    <2> QED
      BY <1>2, <1>less, <2>1
  <1>3. CASE \E v \in Status : /\ sm' = UpdateStatus(sm, c, v)
                               /\ UNCHANGED spawned
    <2> PICK v \in Status :
            sm' = UpdateStatus(sm, c, v) /\ UNCHANGED spawned
      BY <1>3
    <2> QED
      BY <1>1, <1>less
  <1>4. CASE /\ sm' = CancelAllQueued(UpdateStatus(sm, c, "cancelled"))
             /\ UNCHANGED spawned
    <2> DEFINE t == UpdateStatus(sm, c, "cancelled")
    <2>1. /\ t \in StateType /\ Lined(t)
          /\ Lessened(sm, t)
          /\ t.queue = sm.queue
          /\ t.active = sm.active
          /\ \A d \in sm.active \ {c} : t.status[d] = sm.status[d]
      BY <1>1, <1>st
    <2> DEFINE u == CancelAllQueued(t)
    <2>2. sm' = u
      BY <1>4
    <2> HIDE DEF t
    <2>3. /\ u.queue = << >> /\ u.active = t.active
          /\ \A d \in Call \ ToSet(t.queue) : u.status[d] = t.status[d]
      BY <2>1 DEF CancelAllQueued, StateType
    <2> HIDE DEF u
    <2>4. \A d \in sm.active \ {c} : u.status[d] = sm.status[d]
      BY <1>ty, <2>1, <2>3 DEF Lined
    <2>5. Lessened(sm, u)
      BY <2>1, <2>3, EmptyQueue DEF Lessened
    <2> QED
      BY <1>4, <1>less, <2>1, <2>2, <2>3, <2>4, <2>5
  <1>5. CASE \E v \in {"validating", "error"} :
                sm' = ReplaceWithTail(sm, c, v) /\ spawned' = TRUE
    <2> PICK v \in {"validating", "error"} :
                sm' = ReplaceWithTail(sm, c, v) /\ spawned' = TRUE
      BY <1>5
    <2>1. CASE c \in sm.active
      <3> DEFINE t == ReplaceWithTail(sm, c, v)
      <3>1. /\ Lined(t)
            /\ t.active = sm.active \ {c}
            /\ ToSet(t.queue) = {c} \cup ToSet(sm.queue)
            /\ Held(t) = Held(sm)
            /\ \A d \in Call \ {c} : t.status[d] = sm.status[d]
            /\ \A b, waits, w : Ordered(sm, b, c, waits) =>
                                    Ordered(t, b, c, w)
            /\ \A b, d, waits :
                  d # c /\ Ordered(sm, b, d, waits) =>
                      Ordered(t, b, d, waits)
        BY <1>ty, <2>1, ReplaceWithTailLined, ZenonT(30)
      <3>2. sm' = t /\ spawned' = TRUE
        OBVIOUS
      <3> HIDE DEF t
      <3>3. ASSUME NEW b, NEW waits, NEW w, Ordered(sm, b, c, waits)
            PROVE  Ordered(sm', b, c, w)
        BY <3>1, <3>2, <3>3
      <3>4. ASSUME NEW b, NEW d, NEW waits, d # c, Ordered(sm, b, d, waits)
            PROVE  Ordered(sm', b, d, waits)
        BY <3>1, <3>2, <3>4
      <3>5. \A d \in sm.active \ {c} : sm'.status[d] = sm.status[d]
        BY <1>ty, <3>1, <3>2
      <3> QED
        BY <2>1, <3>1, <3>2, <3>3, <3>4, <3>5, ZenonT(30)
    <2>2. CASE c \notin sm.active
      <3>1. sm' = UpdateStatus(sm, c, "executing") /\ UNCHANGED spawned
        BY <2>2
      <3> QED
        BY <1>1, <1>st, <1>less, <3>1
    <2> QED
      BY <2>1, <2>2
  <1> QED
    BY <1>2, <1>3, <1>4, <1>5 DEF HandlerEffect

\* A handler that stops at another await, or returns, leaves its call as
\* TurnInv says; during validation it does not start to print.
LEMMA HandlerTurns ==
    ASSUME WaveInv, Lined(sm'), NEW c \in Call, HandlerAction(c),
           ~ At(c, "idle")
    PROVE  /\ TurnInv(c)'
           /\ phase = "validating" => /\ call'[c].noisy = call[c].noisy
                                      /\ sm'.active = sm.active
  <1> USE DEF At
  <1>ty. /\ sm \in StateType
         /\ call \in [Call -> CallType]
         /\ call[c] \in CallType
    BY DEF WaveInv, TypeOK
  <1>in. /\ call[c].pc # "idle" /\ c \in sm.active
         /\ phase \in {"validating", "executing"}
         /\ call[c].noisy => call[c].pc = "result" /\ call[c].result = "success"
         /\ call[c].pc \in {"tool", "result"} => phase = "executing"
         /\ call[c].expands => phase = "executing"
         /\ phase = "executing" =>
               /\ call[c].pc # "hook" /\ call[c].pc # "policy"
               /\ call[c].pc \in Validation => call[c].expands
         /\ call[c].waits => sm.active = {c}
         /\ call[c].result = "tail" => c \in Tailing
         /\ phase' = phase
    BY HandlerHasEffect DEF WaveInv, Waves, TurnInv, CallUnchanged
  <1>qu. c \in sm'.active => c \notin ToSet(sm'.queue)
    BY DEF Lined
  <1>ac. /\ \A v : UpdateStatus(sm, c, v).active = sm.active
         /\ \A v \in Terminal :
               UpdateStatus(sm, c, v).status[c] \in Terminal
         /\ UpdateStatus(sm, c, "scheduled").status[c]
               \in Terminal \cup {"scheduled"}
    BY <1>ty, <1>in DEF UpdateStatus, UpdateAll, StateType, Terminal
  <1> DEFINE Kept == /\ call'[c].noisy = call[c].noisy
                     /\ call'[c].waits = call[c].waits
                     /\ call'[c].result = call[c].result
                     /\ sm'.active = sm.active
             Goal == /\ TurnInv(c)'
                     /\ phase = "validating" =>
                           /\ call'[c].noisy = call[c].noisy
                           /\ sm'.active = sm.active
  \* It stops at an await of the validation...
  <1>va. ASSUME call'[c].pc \in {"policy", "details", "answer", "editor",
                                 "inline", "outcome"},
                call'[c].pc = "policy" => phase # "executing",
                Kept, call'[c].expands = call[c].expands,
                call[c].pc \in Validation
         PROVE  Goal
    <2>1. ~ call[c].noisy
      BY <1>in, <1>va DEF Validation
    <2> QED
      BY <1>in, <1>va, <2>1 DEF TurnInv
  \* ... or returns.
  <1>re. ASSUME call'[c].pc = "idle", Kept, ~ call'[c].expands,
                \/ sm'.status[c] \in Terminal
                \/ sm'.status[c] = "scheduled" /\ phase # "executing"
                   /\ ~ call[c].noisy
         PROVE  Goal
    BY <1>in, <1>qu, <1>re DEF TurnInv, Returned, Validation
  <1>en. ASSUME NEW v \in Terminal, End(c, v)
         PROVE  Goal
    <2>1. call'[c].pc = "idle" /\ Kept /\ ~ call'[c].expands
      BY <1>ty, <1>ac, <1>en DEF End, CallType
    <2>2. sm'.status[c] \in Terminal
      BY <1>ac, <1>en DEF End
    <2> HIDE DEF Goal, Kept
    <2> QED
      BY <1>re, <2>1, <2>2
  <1>te. {"success", "error", "cancelled"} = Terminal
    BY DEF Terminal
  <1>1. CASE HookDone(c)
    <2>1. CASE End(c, "error")
      BY <1>en, <1>te, <2>1
    <2>2. ASSUME NEW asks \in BOOLEAN, NEW by \in {call[c].input.by, "hook"},
                 call' = [call EXCEPT ![c].pc = "policy",
                                      ![c].hookAsks = asks,
                                      ![c].input.by = by,
                                      ![c].args.by = IF Replaced(c)
                                                     THEN call[c].args.by ELSE by],
                 UNCHANGED sm
          PROVE  Goal
      <3>1. /\ call'[c].pc = "policy" /\ Kept
            /\ call'[c].expands = call[c].expands
        BY <1>ty, <2>2 DEF CallType
      <3>2. phase # "executing" /\ call[c].pc \in Validation
        BY <1>1, <1>in DEF HookDone, Validation
      <3> QED
        BY <1>va, <3>1, <3>2
    <2> QED
      BY <1>1, <2>1, <2>2 DEF HookDone
  <1>2. CASE PolicyDone(c)
    <2> PICK d \in PolicyAnswers(c) :
          LET decided == [call EXCEPT ![c].decision = d]
          IN  \/ /\ Verdict(c, d) = "deny"
                 /\ sm' = UpdateStatus(sm, c, "error")
                 /\ call' = [decided EXCEPT ![c].pc = "idle"]
              \/ /\ Verdict(c, d) = "allow"
                 /\ sm' = UpdateStatus(sm, c, "scheduled")
                 /\ call' = [decided EXCEPT ![c].pc = "idle",
                                            ![c].vetted = {call[c].input}]
              \/ /\ Verdict(c, d) = "ask"
                 /\ cur \notin aborted
                 /\ call' = [decided EXCEPT ![c].pc = "details"]
                 /\ UNCHANGED sm
      BY <1>2 DEF PolicyDone
    <2>1. Kept /\ call'[c].expands = call[c].expands
      BY <1>ty, <1>ac DEF CallType
    <2>2. /\ phase # "executing" /\ call[c].pc \in Validation
          /\ ~ call[c].expands /\ ~ call[c].noisy
      BY <1>2, <1>in DEF PolicyDone, Validation
    <2>3. \/ call'[c].pc = "idle" /\ sm' = UpdateStatus(sm, c, "error")
          \/ call'[c].pc = "idle" /\ sm' = UpdateStatus(sm, c, "scheduled")
          \/ call'[c].pc = "details"
      BY <1>ty DEF CallType
    <2>4. call'[c].pc = "idle" => sm'.status[c] \in Terminal \cup {"scheduled"}
      BY <1>ac, <1>te, <2>3
    <2>5. CASE call'[c].pc = "idle"
      BY <1>re, <2>1, <2>2, <2>4, <2>5
    <2>6. CASE call'[c].pc = "details"
      BY <1>va, <2>1, <2>2, <2>6
    <2> QED
      BY <2>3, <2>5, <2>6
  <1>3. CASE Unneeded(c) \/ AskUser(c) \/ EditorDone(c) \/ InlineDone(c)
    <2>1. /\ call'[c].pc \in {"outcome", "answer", "details"}
          /\ Kept /\ call'[c].expands = call[c].expands
      <3>1. CASE Unneeded(c)
        BY <1>ty, <3>1 DEF Unneeded, CallType
      <3>2. CASE AskUser(c)
        BY <1>ty, <1>ac, <3>2 DEF AskUser, CallType
      <3>3. CASE EditorDone(c)
        BY <1>ty, <3>3 DEF EditorDone, CallType
      <3>4. CASE InlineDone(c)
        BY <1>ty, <3>4 DEF InlineDone, CallType
      <3> QED
        BY <1>3, <3>1, <3>2, <3>3, <3>4
    <2>2. call[c].pc \in Validation
      BY <1>3 DEF Unneeded, AskUser, EditorDone, InlineDone, Validation
    <2> QED
      BY <1>va, <2>1, <2>2
  <1>4. CASE \E r \in Responses : Respond(c, r)
    <2>1. /\ call'[c].pc \in {"outcome", "inline", "editor"}
          /\ Kept /\ call'[c].expands = call[c].expands
          /\ call[c].pc = "answer"
      <3> PICK r \in Responses : Respond(c, r)
        BY <1>4
      <3> QED
        BY <1>ty DEF Respond, CallType
    <2> QED
      BY <1>va, <2>1 DEF Validation
  <1>5. CASE Conclude(c)
    <2>1. /\ phase # "executing" /\ ~ call[c].expands /\ ~ call[c].noisy
          /\ call'[c].pc = "idle"
          /\ call'[c].noisy = call[c].noisy
          /\ call'[c].waits = call[c].waits
          /\ call'[c].result = call[c].result
          /\ call'[c].expands = call[c].expands
      BY <1>ty, <1>5, <1>in DEF Conclude, Validation, CallType
    <2>2. sm'.active = sm.active /\ sm'.status[c] \in Terminal \cup {"scheduled"}
      <3>1. CASE call[c].answer = "cancel"
        <4> DEFINE t == UpdateStatus(sm, c, "cancelled")
        <4>1. /\ t.active = sm.active /\ t.queue = sm.queue
              /\ t.status[c] \in Terminal
              /\ t \in StateType
          BY <1>ty, <1>ac, <1>te, UpdateAllType
          DEF UpdateStatus, UpdateAll, StateType, Status
        <4>2. sm' = CancelAllQueued(t)
          BY <1>5, <3>1 DEF Conclude
        <4> HIDE DEF t
        <4> QED
          BY <4>1, <4>2 DEF CancelAllQueued, StateType, Terminal
      <3>2. CASE call[c].answer # "cancel"
        BY <1>5, <1>ac, <3>2 DEF Conclude
      <3> QED
        BY <3>1, <3>2
    <2> QED
      BY <1>re, <2>1, <2>2
  <1>6. CASE Throw(c)
    <2>1. End(c, "error") \/ End(c, "cancelled")
      BY <1>6 DEF Throw
    <2> QED
      BY <1>en, <1>te, <2>1
  <1>7. CASE \E r \in Result \ {"none"} : ToolDone(c, r)
    <2> PICK r \in Result \ {"none"} : ToolDone(c, r)
      BY <1>7
    <2>1. /\ call'[c].pc = "result" /\ call'[c].result = r
          /\ call'[c].noisy => r = "success"
          /\ call'[c].waits = call[c].waits
          /\ call'[c].expands = call[c].expands
          /\ sm' = sm /\ phase = "executing"
          /\ r = "tail" => c \in Tailing
      BY <1>ty, <1>in DEF ToolDone, CallType
    <2> QED
      BY <1>in, <1>qu, <2>1 DEF TurnInv, Validation
  <1>8. CASE Recorded(c)
    BY <1>8, <1>en DEF Recorded
  <1>9. CASE TailCalled(c)
    <2> PICK v \in {"validating", "error"}, w \in BOOLEAN :
          /\ sm' = ReplaceWithTail(sm, c, v)
          /\ call' = [call EXCEPT ![c] = NewCall(c, "tail", w)]
      BY <1>9 DEF TailCalled
    <2>1. call'[c] = NewCall(c, "tail", w)
      BY <1>ty
    <2>2. /\ call'[c].pc = "idle" /\ ~ call'[c].noisy /\ ~ call'[c].expands
          /\ call'[c].result = "none"
      BY <2>1 DEF NewCall
    <2>3. c \notin sm'.active
      BY <1>ty, <1>in DEF ReplaceWithTail, StateType
    <2>4. phase = "executing"
      BY <1>9, <1>in DEF TailCalled
    <2> QED
      BY <1>in, <2>2, <2>3, <2>4 DEF TurnInv, Validation
  <1>10. CASE ExpansionAsked(c)
    <2>1. CASE cur \in aborted
      BY <1>10, <1>en, <1>te, <2>1 DEF ExpansionAsked
    <2>2. CASE cur \notin aborted
      <3>1. /\ call'[c].pc = "details" /\ call'[c].expands
            /\ Kept /\ phase = "executing" /\ ~ call[c].noisy
        BY <1>ty, <1>10, <1>in, <1>ac, <2>2 DEF ExpansionAsked, CallType
      <3> QED
        BY <1>in, <3>1 DEF TurnInv
    <2> QED
      BY <2>1, <2>2
  <1>11. CASE ExpansionAnswered(c)
    <2>1. CASE call[c].answer = "cancel" \/ cur \in aborted
      BY <1>11, <1>en, <1>te, <2>1 DEF ExpansionAnswered
    <2>2. CASE ~ (call[c].answer = "cancel" \/ cur \in aborted)
      <3>1. /\ call'[c].pc = "tool" /\ Kept /\ ~ call'[c].expands
            /\ phase = "executing" /\ ~ call[c].noisy
        BY <1>ty, <1>11, <1>in, <1>ac, <2>2 DEF ExpansionAnswered, CallType
      <3> QED
        BY <1>in, <3>1 DEF TurnInv, Validation
    <2> QED
      BY <2>1, <2>2
  <1>12. CASE Output(c)
    <2>1. UNCHANGED call /\ sm'.active = sm.active
      BY <1>12, <1>ac DEF Output
    <2>2. call[c].pc \in {"tool", "result"}
      BY <1>12, <1>in DEF Output
    <2> QED
      BY <1>in, <1>qu, <2>1, <2>2 DEF TurnInv, Validation
  <1> QED
    BY <1>1, <1>2, <1>3, <1>4, <1>5, <1>6, <1>7, <1>8, <1>9, <1>10, <1>11,
       <1>12 DEF HandlerAction, CallStep
\* Only its tail call makes a handled call leave, or joins the queue.
LEMMA OnlyTailLeaves ==
    ASSUME TypeOK, NEW c \in Call, HandlerAction(c), ~ TailCalled(c)
    PROVE  sm'.active = sm.active /\ sm'.queue \in {sm.queue, << >>}
  <1>ty. sm \in StateType
    BY DEF TypeOK
  <1>1. \A v : /\ UpdateStatus(sm, c, v).active = sm.active
               /\ UpdateStatus(sm, c, v).queue = sm.queue
               /\ CancelAllQueued(UpdateStatus(sm, c, v)).active = sm.active
               /\ CancelAllQueued(UpdateStatus(sm, c, v)).queue = << >>
    BY <1>ty DEF UpdateStatus, UpdateAll, CancelAllQueued, StateType
  <1>2. \/ UNCHANGED sm
        \/ \E v : sm' = UpdateStatus(sm, c, v)
        \/ \E v : sm' = CancelAllQueued(UpdateStatus(sm, c, v))
    BY DEF HandlerAction, CallStep, HookDone, PolicyDone, Unneeded, AskUser,
           EditorDone, InlineDone, Conclude, Throw, ToolDone, Recorded,
           ExpansionAsked, ExpansionAnswered, Output, Respond, End
  <1> QED
    BY <1>1, <1>2

LEMMA HandlerWave ==
    ASSUME WaveInv, NEW c \in Call, HandlerAction(c)
    PROVE  Waves'
  <1>ty. /\ TypeOK /\ sm \in StateType /\ sm.active \subseteq Call
         /\ call \in [Call -> CallType]
         /\ ToSet(sm.queue) \subseteq Call
    BY ToSetType DEF WaveInv, TypeOK, StateType
  <1>in. Lined(sm) /\ OwnInv /\ RoundInv /\ TurnInv(c)
    BY DEF WaveInv, Waves
  <1>1. /\ HandlerEffect(c)
        /\ At(c, "idle") => call[c].noisy /\ Output(c)
        /\ UNCHANGED <<phase, cur, cancelling, request>>
        /\ \A d \in Call \ {c} : call'[d] = call[d]
    BY <1>ty, HandlerHasEffect DEF CallUnchanged
  <1>2. \/ c \in sm.active
        \/ sm' = UpdateStatus(sm, c, "executing") /\ UNCHANGED spawned
    BY <1>in, <1>1 DEF TurnInv, Output
  <1>3. /\ Lined(sm')
        /\ Held(sm') \subseteq Held(sm)
        /\ \/ /\ sm'.active = sm.active
              /\ ToSet(sm'.queue) \subseteq ToSet(sm.queue)
              /\ UNCHANGED spawned
           \/ /\ c \in sm.active /\ sm'.active = sm.active \ {c}
              /\ ToSet(sm'.queue) = {c} \cup ToSet(sm.queue)
              /\ spawned' = TRUE
        /\ \A d \in sm.active \ {c} : sm'.status[d] = sm.status[d]
        /\ \A b, d, waits : d # c /\ Ordered(sm, b, d, waits) =>
                                Ordered(sm', b, d, waits)
        /\ \A b, waits, w :
              Ordered(sm, b, c, waits) /\ (c \in sm.active \/ w = waits)
                  => Ordered(sm', b, c, w)
    BY <1>ty, <1>in, <1>1, <1>2, EffectKeepsLine, ZenonT(30)
  \* A call that prints on.
  <1>4. CASE At(c, "idle")
    <2>1. /\ sm' = UpdateStatus(sm, c, "executing")
          /\ UNCHANGED <<call, spawned>>
          /\ call[c].noisy
      BY <1>1, <1>4 DEF Output
    <2>2. /\ sm'.active = sm.active /\ sm'.queue = sm.queue
          /\ c \in sm.active =>
                sm'.status[c] \in {"executing", sm.status[c]}
      BY <1>ty, <2>1 DEF UpdateStatus, UpdateAll, StateType
    <2>3. RoundInv'
      BY <1>in, <1>1, <1>3, <2>1, <2>2 DEF RoundInv
    <2>4. ASSUME NEW d \in Call PROVE TurnInv(d)'
      <3>1. TurnInv(d)
        BY DEF WaveInv, Waves
      <3>2. d \in sm.active /\ At(d, "idle") => sm'.status[d] \in Returned(d)
        BY <1>3, <2>1, <2>2, <3>1 DEF TurnInv, Returned
      <3> QED
        BY <1>1, <2>1, <2>2, <3>1, <3>2 DEF TurnInv, Returned, At
    <2>5. ASSUME NEW d \in Call PROVE OrderInv(d)'
      <3>1. OrderInv(d)
        BY DEF WaveInv, Waves
      <3>2. Ordered(sm, cur, d, call[d].waits) =>
                Ordered(sm', cur, d, call[d].waits)
        BY <1>3
      <3> QED
        BY <1>1, <2>1, <3>1, <3>2 DEF OrderInv
    <2>6. OwnInv'
      BY <1>1, <1>3, <2>1, <2>2, OwnKept DEF InLine
    <2> QED
      BY <1>3, <2>3, <2>4, <2>5, <2>6 DEF Waves
  \* A suspended handler.
  <1>5. CASE ~ At(c, "idle")
    <2>1. c \in sm.active /\ phase \in {"validating", "executing"}
      BY <1>in, <1>5 DEF TurnInv
    <2>2. /\ TurnInv(c)'
          /\ phase = "validating" => /\ call'[c].noisy = call[c].noisy
                                     /\ sm'.active = sm.active
      BY <1>3, <1>5, HandlerTurns
    <2>3. ASSUME NEW d \in Call PROVE TurnInv(d)'
      <3>1. CASE d # c
        <4>1. TurnInv(d) /\ call'[d] = call[d]
          BY <1>1, <3>1 DEF WaveInv, Waves
        <4>2. /\ d \in sm'.active <=> d \in sm.active
              /\ d \in sm.active => sm'.status[d] = sm.status[d]
              /\ d \in ToSet(sm'.queue) => d \in ToSet(sm.queue)
              /\ ~ (sm.active = {d})
          BY <1>3, <2>1, <3>1
        <4> QED
          BY <1>1, <4>1, <4>2 DEF TurnInv, Returned, At
      <3> QED
        BY <2>2, <3>1
    <2>4. RoundInv'
      <3>1. \A d \in sm.active : phase = "validating" => call'[d].noisy = call[d].noisy
        BY <1>ty, <1>1, <2>2
      <3>2. /\ sm'.active # {} \/ spawned'
            /\ phase = "validating" => sm'.active = sm.active
        BY <1>in, <1>3, <2>1, <2>2 DEF RoundInv
      <3> QED
        BY <1>in, <1>1, <2>1, <3>1, <3>2 DEF RoundInv
    <2>5. ASSUME NEW d \in Call PROVE OrderInv(d)'
      <3>1. OrderInv(d)
        BY DEF WaveInv, Waves
      <3>2. Ordered(sm, cur, d, call[d].waits) =>
                Ordered(sm', cur, d, call'[d].waits)
        BY <1>1, <1>3, <2>1
      <3> QED
        BY <1>1, <3>1, <3>2 DEF OrderInv
    <2>6. \A e \in ToSet(sm'.queue) :
              (e \in ToSet(sm.queue) /\ call'[e] = call[e]) \/ Untouched(e)'
      <3> TAKE e \in ToSet(sm'.queue)
      <3>1. CASE e # c
        BY <1>ty, <1>1, <1>3, <3>1
      <3>2. CASE e = c /\ TailCalled(c)
        <4>1. PICK w \in BOOLEAN : call' = [call EXCEPT ![c] = NewCall(c, "tail", w)]
          BY <3>2 DEF TailCalled
        <4>2. call'[c] = NewCall(c, "tail", w)
          BY <1>ty, <4>1
        <4> QED
          BY <3>2, <4>2 DEF Untouched
      <3>3. CASE e = c /\ ~ TailCalled(c)
        BY <1>ty, <1>3, <2>1, <3>3, OnlyTailLeaves DEF Lined
      <3> QED
        BY <3>1, <3>2, <3>3
    <2>7. OwnInv'
      <3>1. \A d \in Call \ Held(sm) : call'[d] = call[d]
        BY <1>1, <2>1 DEF Held
      <3> QED
        BY <1>1, <1>3, <2>6, <3>1, OwnKept DEF InLine
    <2> QED
      BY <1>3, <2>3, <2>4, <2>5, <2>7 DEF Waves
  <1> QED
    BY <1>4, <1>5

-----------------------------------------------------------------------------
(* Cancellation, requests, and the invariant.                              *)

\* Every active call that had not ended is cancelled, and the queue emptied.
LEMMA CancelAllWave ==
    ASSUME WaveInv, CancelAll
    PROVE  Waves'
  <1> DEFINE s == UpdateAll(sm, Pending(sm), "cancelled")
  <1>1. /\ TypeOK /\ sm \in StateType /\ sm.active \subseteq Call
        /\ Lined(sm) /\ OwnInv /\ RoundInv
        /\ "cancelled" \in Status
    BY DEF WaveInv, Waves, TypeOK, StateType, Status
  <1>2. s \in StateType /\ Lessened(sm, s)
    BY <1>1, UpdateAllType, OperatorsLessen
  <1>3. /\ s.active = sm.active
        /\ \A c \in sm.active :
              \/ s.status[c] = sm.status[c] /\ sm.status[c] \in Terminal
              \/ s.status[c] = "cancelled"
    BY <1>1 DEF UpdateAll, StateType, Pending, Ended, Terminal
  <1>4. /\ sm' = CancelAllQueued(s) /\ cancelling'
        /\ UNCHANGED <<phase, cur, spawned, call>>
    BY DEF CancelAll
  <1> HIDE DEF s
  <1>5. /\ Lined(s)
        /\ Held(s) \subseteq Held(sm)
        /\ \A b, d, waits : Ordered(sm, b, d, waits) =>
                                Ordered(s, b, d, waits)
    BY <1>1, <1>2, LessenedLined
  <1>6. Lessened(s, sm')
    BY <1>2, <1>4, <1>5, OperatorsLessen
  <1>7. /\ Lined(sm')
        /\ Held(sm') \subseteq Held(s)
        /\ \A b, d, waits : Ordered(s, b, d, waits) =>
                                Ordered(sm', b, d, waits)
    BY <1>5, <1>6, LessenedLined
  <1>8. /\ sm'.queue = << >> /\ sm'.active = sm.active
        /\ \A c \in sm.active : sm'.status[c] \in Terminal
    <2>1. \A c \in sm.active : s.status[c] \in Terminal
      BY <1>3 DEF Terminal
    <2> QED
      BY <1>1, <1>2, <1>3, <1>4, <2>1
      DEF CancelAllQueued, StateType, Terminal
  <1>9. RoundInv'
    BY <1>1, <1>4, <1>8 DEF RoundInv
  <1>10. ASSUME NEW c \in Call PROVE TurnInv(c)'
    <2>1. TurnInv(c)
      BY DEF WaveInv, Waves
    <2> QED
      BY <1>4, <1>8, <2>1, EmptyQueue DEF TurnInv, Returned, At
  <1>11. ASSUME NEW d \in Call PROVE OrderInv(d)'
    BY <1>4, <1>5, <1>7 DEF WaveInv, Waves, OrderInv
  <1>12. \A b \in Batch : InLine(b)' => InLine(b)
    BY DEF CancelAll, InLine
  <1>13. OwnInv'
    BY <1>4, <1>5, <1>7, <1>8, <1>12, EmptyQueue, OwnKept
  <1> QED
    BY <1>7, <1>9, <1>10, <1>11, <1>13 DEF Waves

\* The promise of the batch is settled, and the next request gets its turn
\* unless something prints on.
LEMMA FinishWave ==
    ASSUME WaveInv, Finish
    PROVE  Waves'
  <1> DEFINE settled == [request EXCEPT ![cur] = "resolved"]
  <1>1. /\ TypeOK /\ sm \in StateType
        /\ phase = "finishing" /\ cur \in Batch /\ sm.queue = << >>
        /\ request \in [Batch -> {"new", "queued", "running", "resolved",
                                 "rejected"}]
        /\ requestQueue \in Seq(Batch)
        /\ Lined(sm) /\ RoundInv /\ QueueInv
    BY DEF WaveInv, Waves, RoundInv, TypeOK, Finish
  <1>2. NextInRequestQueue(settled)
    BY DEF Finish
  <1>3. /\ settled \in [Batch -> {"new", "queued", "running", "resolved",
                                 "rejected"}]
        /\ \A a \in Batch : settled[a] \in {"new", "queued"} => InLine(a)
    BY <1>1 DEF InLine
  <1> HIDE DEF settled
  <1>4. CASE requestQueue # << >> /\ sm.active = {}
    <2> DEFINE h == Head(requestQueue)
    <2>1. h \in Batch /\ h \in ToSet(requestQueue)
      BY <1>1, <1>4 DEF ToSet
    <2>2. InLine(h)
      BY <1>1, <2>1 DEF QueueInv, InLine
    <2>3. StartBatch(h, settled)
      BY <1>2, <1>4 DEF NextInRequestQueue
    <2> HIDE DEF h
    <2> QED
      BY <1>1, <1>3, <1>4, <2>1, <2>2, <2>3, StartBatchWave
  <1>5. CASE ~ (requestQueue # << >> /\ sm.active = {})
    <2>1. /\ cur' = None /\ phase' = "idle" /\ sm' = ClearBatch(sm)
          /\ request' = settled /\ UNCHANGED <<cancelling, spawned, call>>
      BY <1>2, <1>5 DEF NextInRequestQueue
    <2>2. /\ sm'.active = sm.active /\ sm'.queue = << >>
          /\ sm'.status = sm.status
      BY <1>1, <2>1 DEF ClearBatch, StateType
    <2>3. Lessened(sm, sm')
      BY <1>1, <2>1, OperatorsLessen
    <2>4. Lined(sm') /\ Held(sm') \subseteq Held(sm)
      BY <1>1, <2>3, LessenedLined
    <2>5. RoundInv'
      BY <1>1, <2>1, <2>2 DEF RoundInv
    <2>6. ASSUME NEW c \in Call PROVE TurnInv(c)'
      <3>1. TurnInv(c)
        BY DEF WaveInv, Waves
      <3> QED
        BY <1>1, <2>1, <2>2, <3>1, EmptyQueue DEF TurnInv, Returned, At
    <2>7. \A d \in Call : OrderInv(d)'
      BY <2>1 DEF OrderInv
    <2>8. \A b \in Batch : InLine(b)' => InLine(b)
      BY <1>3, <2>1 DEF InLine
    <2>9. OwnInv'
      BY <2>1, <2>2, <2>4, <2>8, EmptyQueue, OwnKept
    <2> QED
      BY <2>4, <2>5, <2>6, <2>7, <2>9 DEF Waves
  <1> QED
    BY <1>4, <1>5

LEMMA WaveInit == Init => WaveInv
  <1> SUFFICES ASSUME Init PROVE WaveInv
    OBVIOUS
  <1>1. /\ sm.queue = << >> /\ sm.active = {}
        /\ phase = "idle" /\ cur = None
    BY DEF Init, Fresh
  <1>2. \A c \in Call : /\ call[c] = NewCall(c, "model", c \in Waits)
                        /\ call[c].pc = "idle" /\ ~ call[c].noisy
                        /\ ~ call[c].expands /\ call[c].result = "none"
    BY DEF Init, NewCall
  <1>3. Lined(sm) /\ Held(sm) = {}
    BY <1>1, EmptyQueue DEF Lined, Held
  <1>4. OwnInv
    BY <1>1, <1>2, <1>3, EmptyQueue, BatchSetType DEF OwnInv
  <1>5. RoundInv
    BY <1>1 DEF RoundInv
  <1>6. \A c \in Call : TurnInv(c)
    BY <1>1, <1>2, EmptyQueue DEF TurnInv, At, Validation
  <1>7. \A d \in Call : OrderInv(d)
    BY <1>1 DEF OrderInv
  <1> QED
    BY <1>3, <1>4, <1>5, <1>6, <1>7, TypeInit, QueueInit DEF WaveInv, Waves

LEMMA WaveNext == WaveInv /\ [Next]_vars => WaveInv'
  <1> SUFFICES ASSUME WaveInv, [Next]_vars PROVE WaveInv'
    OBVIOUS
  <1>ty. /\ TypeOK /\ QueueInv /\ OwnInv /\ RoundInv /\ Lined(sm)
         /\ request \in [Batch -> {"new", "queued", "running", "resolved",
                                  "rejected"}]
    BY DEF WaveInv, Waves, TypeOK
  <1>un. ASSUME UNCHANGED <<sm, phase, cur, cancelling, spawned, call>>,
                \A b \in Batch : InLine(b)' => InLine(b)
         PROVE  Waves'
    <2>1. Lined(sm') /\ RoundInv'
      BY <1>ty, <1>un DEF RoundInv
    <2>2. \A c \in Call : TurnInv(c)'
      BY <1>un DEF WaveInv, Waves, TurnInv, Returned, At
    <2>3. \A d \in Call : OrderInv(d)'
      BY <1>un DEF WaveInv, Waves, OrderInv
    <2>4. OwnInv'
      BY <1>un, <2>1, OwnKept
    <2> QED
      BY <2>1, <2>2, <2>3, <2>4 DEF Waves
  <1>1. CASE UNCHANGED vars
    <2>1. UNCHANGED QueueInv
      BY <1>1 DEF vars, QueueInv
    <2>2. Waves'
      BY <1>1, <1>un DEF vars, InLine
    <2> QED
      BY <1>ty, <2>1, <2>2, TypeNext DEF WaveInv
  <1>2. CASE Next
    <2>1. TypeOK'
      BY <1>2, <1>ty, TypeNext
    <2>2. QueueInv'
      BY <1>2, <1>ty, QueueNext DEF RoundInv
    <2>3. ASSUME Loop PROVE Waves'
      BY <2>3, LoopTopWave, JoinWave, FinishWave DEF Loop
    <2>4. ASSUME NEW c \in Call, HandlerAction(c)
          PROVE  Waves'
      BY <2>4, HandlerWave
    <2>5. ASSUME NEW b \in Batch, Schedule(b)
          PROVE  Waves'
      <3>1. InLine(b) /\ \A a \in Batch : request[a] \in {"new", "queued"} => InLine(a)
        BY <2>5 DEF Schedule, InLine
      <3>2. CASE cur = None /\ sm.active = {}
        <4>1. StartBatch(b, request)
          BY <2>5, <3>2 DEF Schedule
        <4> QED
          BY <1>ty, <3>1, <3>2, <4>1, StartBatchWave DEF RoundInv
      <3>3. CASE ~ (cur = None /\ sm.active = {})
        <4>1. /\ UNCHANGED <<sm, phase, cur, cancelling, spawned, call>>
              /\ \A a \in Batch : InLine(a)' => InLine(a)
          BY <1>ty, <2>5, <3>1, <3>3 DEF Schedule, InLine
        <4> QED
          BY <1>un, <4>1
      <3> QED
        BY <3>2, <3>3
    <2>6. ASSUME NEW b \in Batch, Abort(b)
          PROVE  Waves'
      <3>1. /\ UNCHANGED <<sm, phase, cur, cancelling, spawned, call>>
            /\ \A a \in Batch : InLine(a)' => InLine(a)
        BY <1>ty, <2>6 DEF Abort, InLine
      <3> QED
        BY <1>un, <3>1
    <2>7. ASSUME CancelAll PROVE Waves'
      BY <2>7, CancelAllWave
    <2>8. ASSUME Done PROVE Waves'
      BY <2>8, <1>un DEF Done, vars, InLine
    <2>9. Waves'
      BY <1>2, <2>3, <2>4, <2>5, <2>6, <2>7, <2>8 DEF Next, HandlerAction
    <2> QED
      BY <2>1, <2>2, <2>9 DEF WaveInv
  <1> QED
    BY <1>1, <1>2

LEMMA WaveSafety == Spec => []WaveInv
  BY WaveInit, WaveNext, PTL DEF Spec
\* Whatever prints on, is cancelled, tail-called or throws: when an iteration
\* begins, the calls still active are those a late output has revived, so no
\* call is left half-validated for good.
THEOREM OnlyRevivedCallsLinger == Spec => []OnlyRevivedLinger
  <1>1. WaveInv => OnlyRevivedLinger
    BY DEF WaveInv, Waves, RoundInv, OnlyRevivedLinger
  <1> QED
    BY <1>1, WaveSafety, PTL

\* A call that asks to wait for the previous ones runs alone, and not before
\* all of them have been reported, whatever became of them.
THEOREM WaitingCallsWait == Spec => []WaitsForPrevious
  <1>1. ASSUME WaveInv PROVE WaitsForPrevious
    <2> SUFFICES ASSUME NEW d \in Call, At(d, "tool")
                 PROVE  /\ call[d].waits => \A c \in Call \ {d} : At(c, "idle")
                        /\ d \in Waits =>
                              \A c \in Call : Before(c, d) =>
                                  c \notin sm.active \cup ToSet(sm.queue)
      BY DEF WaitsForPrevious
    <2>1. /\ d \in sm.active
          /\ call[d].waits => sm.active = {d}
          /\ cur # None
      BY <1>1 DEF WaveInv, Waves, RoundInv, TurnInv, At
    <2>2. \A c \in Call : ~ At(c, "idle") => c \in sm.active
      BY <1>1 DEF WaveInv, Waves, TurnInv
    <2>3. d \in Waits => Ordered(sm, cur, d, call[d].waits)
      BY <1>1, <2>1 DEF WaveInv, Waves, OrderInv
    <2>4. ASSUME NEW c \in Call, d \in Waits, Before(c, d)
          PROVE  c \notin sm.active \cup ToSet(sm.queue)
      <3>1. Precedes(cur, c, d)
        BY <2>4 DEF Before, Precedes
      <3> QED
        BY <2>1, <2>3, <2>4, <3>1 DEF Ordered, Held
    <2> QED
      BY <2>1, <2>2, <2>4
  <1> QED
    BY <1>1, WaveSafety, PTL

-----------------------------------------------------------------------------
(* The topic.                                                              *)

\* Once a batch has begun, its topic call is not queued any more.
TopicInv == ToSet(sm.queue) \cap Topic = {}

\* An iteration takes nothing from the queue, some calls from its front, or
\* all; with nothing active it takes at least the first.
LEMMA IterateShortens ==
    ASSUME NEW s \in StateType, NEW stop, Iterate(s, stop)
    PROVE  \/ sm'.queue = s.queue /\ s.active # {}
           \/ sm'.queue = << >>
           \/ \E n \in 1..Len(s.queue) :
                 sm'.queue = SubSeq(s.queue, n + 1, Len(s.queue))
  <1>1. s.queue \in Seq(Call)
    BY DEF StateType
  <1>2. CASE sm' = s /\ (s.active # {} \/ s.queue = << >>)
    BY <1>2
  <1>3. CASE sm' = CancelAllQueued(s)
    BY <1>3 DEF CancelAllQueued, StateType
  <1>4. \A n : Dequeue(s, n).queue = SubSeq(s.queue, n + 1, Len(s.queue))
    BY DEF Dequeue, StateType
  <1>5. CASE s.queue # << >> /\ sm' = FinalizeEnded(Dequeue(s, 1))
    <2> DEFINE r == Dequeue(s, 1)
    <2>1. 1 \in 1..Len(s.queue) /\ r \in StateType
      BY <1>1, <1>5, DequeueType
    <2>2. sm' = FinalizeEnded(r)
      BY <1>5
    <2> HIDE DEF r
    <2>3. sm'.queue = r.queue
      BY <2>1, <2>2 DEF FinalizeEnded, StateType
    <2> QED
      BY <1>4, <2>1, <2>3 DEF r
  <1>6. ASSUME NEW n \in 1..Len(s.queue), sm' = Dequeue(s, n)
        PROVE  sm'.queue = SubSeq(s.queue, n + 1, Len(s.queue))
    BY <1>4, <1>6
  <1>7. \/ sm' = s /\ (s.active # {} \/ s.queue = << >>)
        \/ sm' = CancelAllQueued(s)
        \/ s.queue # << >> /\ sm' = FinalizeEnded(Dequeue(s, 1))
        \/ \E n \in 1..Len(s.queue) : sm' = Dequeue(s, n)
    BY DEF Iterate, LeaveLoop, Validate
  <1> QED
    BY <1>2, <1>3, <1>5, <1>6, <1>7

\* Of a batch with one topic call, that call is the first.
LEMMA TopicHead ==
    ASSUME NEW b \in Batch, \A c, d \in BatchSet(b) \cap Topic : c = d,
           NEW i \in DOMAIN TopicFirst(BatchCalls[b]), i # 1
    PROVE  TopicFirst(BatchCalls[b])[i] \notin Topic
  <1> DEFINE calls == BatchCalls[b]
             q     == TopicFirst(calls)
  <1>1. /\ q \in Seq(Call) /\ IsInjective(q) /\ ToSet(q) = BatchSet(b)
        /\ calls \in Seq(Call)
    BY BatchOrder, BatchAssumption
  <1>2. q[i] \in BatchSet(b)
    BY <1>1 DEF ToSet
  <1>3. CASE \E k \in DOMAIN calls : calls[k] \in Topic
    <2> DEFINE k == CHOOSE k \in DOMAIN calls : calls[k] \in Topic
    <2>1. calls[k] \in Topic
      BY <1>3
    <2>2. q = Cons(calls[k], RemoveAt(calls, k))
      BY <1>3 DEF TopicFirst
    <2> HIDE DEF k, q
    <2>3. q # << >> /\ q[1] = calls[k]
      BY <2>2, <1>1 DEF Cons
    <2>4. 1 \in DOMAIN q /\ q[1] \in BatchSet(b) /\ q[1] \in Topic
      BY <1>1, <2>1, <2>3 DEF ToSet
    <2>5. i \in DOMAIN q
      BY DEF q
    <2>6. q[i] \in Topic => q[i] = q[1]
      BY <1>2, <2>4
    <2>7. q[i] \notin Topic
      BY <1>1, <2>4, <2>5, <2>6 DEF IsInjective
    <2> QED
      BY <2>7 DEF q
  <1>4. CASE ~ \E k \in DOMAIN calls : calls[k] \in Topic
    BY <1>2, <1>4 DEF BatchSet, ToSet
  <1> QED
    BY <1>3, <1>4

LEMMA StartBatchTopic ==
    ASSUME NEW b \in Batch, \A c, d \in BatchSet(b) \cap Topic : c = d,
           sm \in StateType, sm.queue = << >>, sm.active = {},
           NEW before, StartBatch(b, before)
    PROVE  TopicInv'
  <1> DEFINE q == TopicFirst(BatchCalls[b])
             s == Enqueue(ClearBatch(sm), q, Invalid)
  <1>1. s \in StateType /\ s.active = {} /\ s.queue = q
    BY EnqueueLined
  <1>2. Iterate(s, b \in aborted)
    BY DEF StartBatch
  <1>3. q \in Seq(Call) /\ \A i \in DOMAIN q : i # 1 => q[i] \notin Topic
    BY BatchOrder, TopicHead
  <1> HIDE DEF q, s
  <1>4. \/ sm'.queue = << >>
        \/ \E n \in 1..Len(q) : sm'.queue = SubSeq(q, n + 1, Len(q))
    BY <1>1, <1>2, IterateShortens
  <1>5. CASE sm'.queue = << >>
    BY <1>5, EmptyQueue DEF TopicInv
  <1>6. ASSUME NEW n \in 1..Len(q), sm'.queue = SubSeq(q, n + 1, Len(q))
        PROVE  TopicInv'
    <2>1. /\ DOMAIN sm'.queue = 1..(Len(q) - n)
          /\ \A i \in 1..(Len(q) - n) : sm'.queue[i] = q[n + i]
      BY <1>3, <1>6, SubSeqProperties
    <2>2. DOMAIN q = 1..Len(q) /\ Len(q) \in Nat
      BY <1>3
    <2>3. ASSUME NEW i \in 1..(Len(q) - n)
          PROVE  q[n + i] \notin Topic
      <3>1. n + i \in DOMAIN q /\ n + i # 1
        BY <2>2
      <3> QED
        BY <1>3, <3>1
    <2>4. \A i \in DOMAIN sm'.queue : sm'.queue[i] \notin Topic
      BY <2>1, <2>3
    <2> QED
      BY <2>4 DEF TopicInv, ToSet
  <1> QED
    BY <1>4, <1>5, <1>6

LEMMA TopicNext ==
    ASSUME \A b \in Batch : \A c, d \in BatchSet(b) \cap Topic : c = d,
           Topic \cap Tailing = {}
    PROVE  WaveInv /\ TopicInv /\ [Next]_vars => TopicInv'
  <1> SUFFICES ASSUME WaveInv, TopicInv, [Next]_vars PROVE TopicInv'
    OBVIOUS
  <1>ty. /\ TypeOK /\ sm \in StateType
         /\ requestQueue \in Seq(Batch)
         /\ RoundInv /\ Lined(sm)
    BY DEF WaveInv, Waves, TypeOK
  <1>un. CASE sm'.queue \in {sm.queue, << >>}
    BY <1>un, EmptyQueue DEF TopicInv
  <1>1. CASE LoopTop
    <2>1. Iterate(sm, cur \in aborted \/ cancelling)
      BY <1>1 DEF LoopTop
    <2>2. CASE \E n \in 1..Len(sm.queue) :
                  sm'.queue = SubSeq(sm.queue, n + 1, Len(sm.queue))
      <3> PICK n \in 1..Len(sm.queue) :
                  sm'.queue = SubSeq(sm.queue, n + 1, Len(sm.queue))
        BY <2>2
      <3>1. sm.queue \in Seq(Call)
        BY <1>ty DEF StateType
      <3>2. ToSet(sm'.queue) \subseteq ToSet(sm.queue)
        <4> DEFINE q == sm.queue
        <4>1. /\ DOMAIN sm'.queue = 1..(Len(q) - n)
              /\ \A i \in 1..(Len(q) - n) : sm'.queue[i] = q[n + i]
          BY <3>1, SubSeqProperties
        <4>2. \A i \in 1..(Len(q) - n) : n + i \in DOMAIN q
          BY <3>1
        <4> QED
          BY <4>1, <4>2 DEF ToSet
      <3> QED
        BY <3>2 DEF TopicInv
    <2> QED
      BY <1>ty, <1>un, <2>1, <2>2, IterateShortens
  <1>2. CASE JoinValidation \/ JoinExecution
    <2>1. \/ sm' = FinalizeEnded(sm)
          \/ \E C, v : sm' = UpdateAll(sm, C, v)
      BY <1>2 DEF JoinValidation, JoinExecution, EndIteration, Execute, Start
    <2>2. sm'.queue = sm.queue
      BY <1>ty, <2>1 DEF FinalizeEnded, UpdateAll, StateType
    <2> QED
      BY <1>un, <2>2
  <1>3. CASE Finish
    <2> DEFINE settled == [request EXCEPT ![cur] = "resolved"]
    <2>1. sm.queue = << >> /\ NextInRequestQueue(settled)
      BY <1>3, <1>ty DEF Finish, RoundInv
    <2>2. CASE requestQueue # << >> /\ sm.active = {}
      <3>1. Head(requestQueue) \in Batch
        BY <1>ty, <2>2
      <3>2. StartBatch(Head(requestQueue), settled)
        BY <2>1, <2>2 DEF NextInRequestQueue
      <3> HIDE DEF settled
      <3> QED
        BY <1>ty, <2>1, <2>2, <3>1, <3>2, StartBatchTopic
    <2>3. CASE ~ (requestQueue # << >> /\ sm.active = {})
      <3>1. sm' = ClearBatch(sm)
        BY <2>1, <2>3 DEF NextInRequestQueue
      <3>2. sm'.queue = sm.queue
        BY <1>ty, <3>1 DEF ClearBatch, StateType
      <3> QED
        BY <1>un, <3>2
    <2> QED
      BY <2>2, <2>3
  <1>4. ASSUME NEW c \in Call, HandlerAction(c)
        PROVE  TopicInv'
    <2>1. CASE ~ TailCalled(c)
      BY <1>4, <1>ty, <1>un, <2>1, OnlyTailLeaves
    <2>2. CASE TailCalled(c)
      <3>1. PICK v \in {"validating", "error"} :
                sm' = ReplaceWithTail(sm, c, v)
        BY <2>2 DEF TailCalled
      <3>2. c \in Tailing /\ c \in sm.active
        BY <2>2 DEF TailCalled, WaveInv, Waves, TurnInv, At
      <3>3. ToSet(sm'.queue) = {c} \cup ToSet(sm.queue)
        BY <1>ty, <3>1, <3>2, ReplaceWithTailLined, ZenonT(30)
      <3> QED
        BY <3>2, <3>3 DEF TopicInv
    <2> QED
      BY <2>1, <2>2
  <1>5. ASSUME NEW b \in Batch, Schedule(b)
        PROVE  TopicInv'
    <2>1. CASE cur = None /\ sm.active = {}
      <3>1. StartBatch(b, request) /\ sm.queue = << >>
        BY <1>5, <1>ty, <2>1 DEF Schedule, RoundInv
      <3> QED
        BY <1>ty, <2>1, <3>1, StartBatchTopic
    <2>2. CASE ~ (cur = None /\ sm.active = {})
      BY <1>5, <1>un, <2>2 DEF Schedule
    <2> QED
      BY <2>1, <2>2
  <1>6. CASE CancelAll
    <2> DEFINE s == UpdateAll(sm, Pending(sm), "cancelled")
    <2>1. s \in StateType /\ sm' = CancelAllQueued(s)
      BY <1>6, <1>ty, UpdateAllType DEF CancelAll, Status
    <2> HIDE DEF s
    <2>2. sm'.queue = << >>
      BY <2>1 DEF CancelAllQueued, StateType
    <2> QED
      BY <1>un, <2>2
  <1>7. CASE UNCHANGED sm
    BY <1>7, <1>un
  <1> QED
    BY <1>1, <1>2, <1>3, <1>4, <1>5, <1>6, <1>7
    DEF Next, Loop, HandlerAction, Abort, Done, vars

\* Where a batch has at most one update_topic call, and that tool requests no
\* tail call, the topic is taken up with the first wave: no other call runs
\* while it is queued.
THEOREM TopicComesFirst ==
    ASSUME \A b \in Batch : \A c, d \in BatchSet(b) \cap Topic : c = d,
           Topic \cap Tailing = {}
    PROVE  Spec => []TopicLeads
  <1>1. Init => TopicInv
    BY EmptyQueue DEF Init, Fresh, TopicInv
  <1>2. TopicInv => TopicLeads
    BY DEF TopicInv, TopicLeads
  <1>3. WaveInv /\ TopicInv /\ [Next]_vars => TopicInv'
    BY TopicNext
  <1> QED
    BY <1>1, <1>2, <1>3, WaveSafety, PTL DEF Spec

=============================================================================
