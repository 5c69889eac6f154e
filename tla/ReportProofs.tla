---------------------------- MODULE ReportProofs ----------------------------
(***************************************************************************)
(* That the scheduler loses no call and no request: what is proved of      *)
(* ReportIsComplete and NothingStranded, for any calls and batches.        *)
(***************************************************************************)
EXTENDS SchedulerProofs

\* Each call of M is in one place: queued, active, or reported once with a
\* final status.  Those queued are new, tail calls included.
Placed(s, M) ==
    /\ IsInjective(s.queue)
    /\ ToSet(s.queue) \cap s.active = {}
    /\ ToSet(s.queue) \cup s.active \subseteq M
    /\ \A c \in Call :
          s.completed[c] = IF c \in M \ (ToSet(s.queue) \cup s.active)
                           THEN 1 ELSE 0
    /\ \A c \in ToSet(s.queue) : s.status[c] \in {"validating", "error"}
    /\ \A c \in M \ (ToSet(s.queue) \cup s.active) : s.status[c] \in Terminal

\* A suspended handler is that of an active call, and one that returned left
\* its call scheduled or ended.  Once the tools run, nothing is validated but
\* sandbox expansions, and nothing is scheduled any more.
HandlerInv(c) ==
    /\ ~ At(c, "idle") => c \in sm.active
    /\ ~ call[c].noisy
    /\ c \in sm.active /\ At(c, "idle") =>
          sm.status[c] \in Terminal \cup {"scheduled"}
    /\ phase = "executing" =>
          /\ At(c, "idle") /\ c \in sm.active => sm.status[c] \in Terminal
          /\ ~ At(c, "hook") /\ ~ At(c, "policy")
          /\ call[c].pc \in Validation => call[c].expands

\* Where the loop is, and what that says of the batch.
LoopInv ==
    /\ cur # None => Placed(sm, BatchSet(cur))
    /\ cur = None => /\ requestQueue = << >>
                     /\ sm.queue = << >>
    /\ phase = "idle" <=> cur = None
    /\ phase = "finishing" => sm.queue = << >>
    /\ phase \in {"idle", "top", "finishing"} => sm.active = {}
    /\ phase \in {"validating", "executing"} => sm.active # {} \/ spawned

ReportInv == TypeOK /\ LoopInv /\ \A c \in Call : HandlerInv(c)

-----------------------------------------------------------------------------
(* Sequences without repetition, and the sets of their elements.           *)

LEMMA SplitSeq ==
    ASSUME NEW q \in Seq(Call), IsInjective(q), NEW n \in 1..Len(q)
    PROVE  LET front == SubSeq(q, 1, n)
               back  == SubSeq(q, n + 1, Len(q))
           IN  /\ front \in Seq(Call) /\ back \in Seq(Call)
               /\ IsInjective(back)
               /\ ToSet(front) # {}
               /\ ToSet(front) \subseteq ToSet(q)
               /\ ToSet(back) = ToSet(q) \ ToSet(front)
  <1> DEFINE front == SubSeq(q, 1, n)
             back  == SubSeq(q, n + 1, Len(q))
  <1>1. /\ front \in Seq(Call) /\ Len(front) = n
        /\ \A i \in 1..n : front[i] = q[i]
    BY SubSeqProperties
  <1>2. /\ back \in Seq(Call) /\ Len(back) = Len(q) - n
        /\ \A i \in 1..(Len(q) - n) : back[i] = q[n + i]
    BY SubSeqProperties
  <1> HIDE DEF front, back
  <1>3. /\ DOMAIN front = 1..n
        /\ DOMAIN back = 1..(Len(q) - n)
        /\ DOMAIN q = 1..Len(q)
    BY <1>1, <1>2
  <1>4. IsInjective(back)
    <2> SUFFICES ASSUME NEW i \in 1..(Len(q) - n), NEW j \in 1..(Len(q) - n),
                        back[i] = back[j]
                 PROVE  i = j
      BY <1>3 DEF IsInjective
    <2>1. /\ n + i \in 1..Len(q) /\ n + j \in 1..Len(q)
          /\ q[n + i] = q[n + j]
      BY <1>2
    <2>2. n + i = n + j
      BY <1>3, <2>1 DEF IsInjective
    <2> QED
      BY <2>2
  <1>5. front[1] \in ToSet(front)
    BY <1>3 DEF ToSet
  <1>6. ToSet(front) \subseteq ToSet(q)
    BY <1>1, <1>3 DEF ToSet
  <1>7. ToSet(back) \subseteq ToSet(q) \ ToSet(front)
    <2> SUFFICES ASSUME NEW i \in 1..(Len(q) - n)
                 PROVE  back[i] \in ToSet(q) /\ back[i] \notin ToSet(front)
      BY <1>3 DEF ToSet
    <2>1. back[i] = q[n + i] /\ n + i \in 1..Len(q)
      BY <1>2
    <2>2. \A j \in 1..n : front[j] # back[i]
      BY <1>1, <2>1 DEF IsInjective
    <2> QED
      BY <1>3, <2>1, <2>2 DEF ToSet
  <1>8. ToSet(q) \ ToSet(front) \subseteq ToSet(back)
    <2> SUFFICES ASSUME NEW i \in 1..Len(q), q[i] \notin ToSet(front)
                 PROVE  q[i] \in ToSet(back)
      BY <1>3 DEF ToSet
    <2>1. i > n
      BY <1>1, <1>3 DEF ToSet
    <2>2. i - n \in 1..(Len(q) - n) /\ q[i] = back[i - n]
      BY <1>2, <2>1
    <2> QED
      BY <1>3, <2>2 DEF ToSet
  <1>9. /\ front \in Seq(Call) /\ back \in Seq(Call)
        /\ IsInjective(back)
        /\ ToSet(front) # {}
        /\ ToSet(front) \subseteq ToSet(q)
        /\ ToSet(back) = ToSet(q) \ ToSet(front)
    BY <1>1, <1>2, <1>4, <1>5, <1>6, <1>7, <1>8
  <1> QED
    BY <1>9 DEF front, back

LEMMA ConsSeq ==
    ASSUME NEW q \in Seq(Call), IsInjective(q),
           NEW c \in Call, c \notin ToSet(q)
    PROVE  /\ IsInjective(Cons(c, q))
           /\ ToSet(Cons(c, q)) = {c} \cup ToSet(q)
  <1> DEFINE p == Cons(c, q)
  <1>1. /\ DOMAIN p = 1..(Len(q) + 1)
        /\ p[1] = c
        /\ \A i \in 2..(Len(q) + 1) : p[i] = q[i - 1]
    BY DEF Cons
  <1> HIDE DEF p
  <1>2. IsInjective(p)
    <2> SUFFICES ASSUME NEW i \in 1..(Len(q) + 1), NEW j \in 1..(Len(q) + 1),
                        i < j, p[i] = p[j]
                 PROVE  FALSE
      BY <1>1 DEF IsInjective
    <2>1. CASE i = 1
      BY <1>1, <2>1 DEF ToSet
    <2>2. CASE i # 1
      BY <1>1, <2>2 DEF IsInjective
    <2> QED
      BY <2>1, <2>2
  <1>3. ToSet(p) = {c} \cup ToSet(q)
    <2>1. ToSet(p) \subseteq {c} \cup ToSet(q)
      <3> SUFFICES ASSUME NEW i \in 1..(Len(q) + 1)
                   PROVE  p[i] \in {c} \cup ToSet(q)
        BY <1>1 DEF ToSet
      <3> QED
        BY <1>1 DEF ToSet
    <2>2. c \in ToSet(p)
      BY <1>1 DEF ToSet
    <2>3. ToSet(q) \subseteq ToSet(p)
      <3> SUFFICES ASSUME NEW i \in 1..Len(q)
                   PROVE  q[i] \in ToSet(p)
        BY DEF ToSet
      <3>1. q[i] = p[i + 1] /\ i + 1 \in 1..(Len(q) + 1)
        BY <1>1
      <3> QED
        BY <1>1, <3>1 DEF ToSet
    <2> QED
      BY <2>1, <2>2, <2>3
  <1> QED
    BY <1>2, <1>3 DEF p

LEMMA RemoveAtSeq ==
    ASSUME NEW S, NEW q \in Seq(S), IsInjective(q), NEW n \in 1..Len(q)
    PROVE  /\ RemoveAt(q, n) \in Seq(S)
           /\ IsInjective(RemoveAt(q, n))
           /\ ToSet(RemoveAt(q, n)) = ToSet(q) \ {q[n]}
  <1> DEFINE p == RemoveAt(q, n)
             skip(i) == IF i < n THEN i ELSE i + 1
             front == SubSeq(q, 1, n - 1)
             back  == SubSeq(q, n + 1, Len(q))
  <1>1. /\ front \in Seq(S) /\ Len(front) = n - 1
        /\ \A i \in 1..(n - 1) : front[i] = q[i]
    BY SubSeqProperties
  <1>2. /\ back \in Seq(S) /\ Len(back) = Len(q) - n
        /\ \A i \in 1..(Len(q) - n) : back[i] = q[n + i]
    BY SubSeqProperties
  <1>3. p = front \o back
    BY DEF RemoveAt
  <1> HIDE DEF front, back, p
  <1>4. /\ p \in Seq(S)
        /\ DOMAIN p = 1..(Len(q) - 1)
        /\ \A i \in 1..(Len(q) - 1) : p[i] = q[skip(i)]
    <2>1. p \in Seq(S) /\ Len(p) = Len(front) + Len(back)
      BY <1>1, <1>2, <1>3, ConcatProperties
    <2>2. \A i \in 1..(Len(front) + Len(back)) :
             p[i] = IF i <= Len(front) THEN front[i] ELSE back[i - Len(front)]
      BY <1>1, <1>2, <1>3, ConcatProperties
    <2>3. DOMAIN p = 1..(Len(q) - 1)
      BY <1>1, <1>2, <2>1
    <2>4. ASSUME NEW i \in 1..(Len(q) - 1) PROVE p[i] = q[skip(i)]
      <3>1. CASE i < n
        BY <1>1, <1>2, <2>2, <3>1
      <3>2. CASE ~ i < n
        <4>1. i - (n - 1) \in 1..(Len(q) - n)
          BY <3>2
        <4>2. p[i] = back[i - (n - 1)]
          BY <1>1, <1>2, <2>2, <3>2, SMTT(20)
        <4>3. back[i - (n - 1)] = q[n + (i - (n - 1))]
          BY <1>2, <4>1
        <4>4. n + (i - (n - 1)) = i + 1
          OBVIOUS
        <4> QED
          BY <3>2, <4>2, <4>3, <4>4
      <3> QED
        BY <3>1, <3>2
    <2> QED
      BY <2>1, <2>3, <2>4
  <1>5. IsInjective(p)
    <2> SUFFICES ASSUME NEW i \in 1..(Len(q) - 1), NEW j \in 1..(Len(q) - 1),
                        p[i] = p[j]
                 PROVE  i = j
      BY <1>4 DEF IsInjective
    <2>1. /\ skip(i) \in 1..Len(q) /\ skip(j) \in 1..Len(q)
          /\ q[skip(i)] = q[skip(j)]
      BY <1>4
    <2>2. skip(i) = skip(j)
      BY <2>1 DEF IsInjective
    <2> QED
      BY <2>2
  <1>6. ToSet(p) \subseteq ToSet(q) \ {q[n]}
    <2> SUFFICES ASSUME NEW i \in 1..(Len(q) - 1)
                 PROVE  p[i] \in ToSet(q) /\ p[i] # q[n]
      BY <1>4 DEF ToSet
    <2>1. skip(i) \in 1..Len(q) /\ skip(i) # n /\ p[i] = q[skip(i)]
      BY <1>4
    <2> QED
      BY <2>1 DEF ToSet, IsInjective
  <1>7. ToSet(q) \ {q[n]} \subseteq ToSet(p)
    <2> SUFFICES ASSUME NEW i \in 1..Len(q), q[i] # q[n]
                 PROVE  q[i] \in ToSet(p)
      BY DEF ToSet
    <2>1. CASE i < n
      <3>1. i \in 1..(Len(q) - 1) /\ p[i] = q[i]
        BY <1>4, <2>1
      <3> QED
        BY <1>4, <3>1 DEF ToSet
    <2>2. CASE i > n
      <3>1. i - 1 \in 1..(Len(q) - 1) /\ p[i - 1] = q[i]
        BY <1>4, <2>2
      <3> QED
        BY <1>4, <3>1 DEF ToSet
    <2> QED
      BY <2>1, <2>2
  <1> QED
    BY <1>4, <1>5, <1>6, <1>7 DEF p

\* Sorting the topic call first only reorders a batch.
LEMMA TopicFirstReorders ==
    ASSUME NEW q \in Seq(Call), IsInjective(q)
    PROVE  /\ IsInjective(TopicFirst(q))
           /\ ToSet(TopicFirst(q)) = ToSet(q)
  <1>1. CASE \E i \in DOMAIN q : q[i] \in Topic
    <2> DEFINE i == CHOOSE i \in DOMAIN q : q[i] \in Topic
    <2>1. i \in 1..Len(q)
      BY <1>1
    <2>2. TopicFirst(q) = Cons(q[i], RemoveAt(q, i))
      BY <1>1 DEF TopicFirst
    <2> HIDE DEF i
    <2>3. q[i] \in Call /\ q[i] \in ToSet(q)
      BY <2>1 DEF ToSet
    <2>4. /\ RemoveAt(q, i) \in Seq(Call)
          /\ IsInjective(RemoveAt(q, i))
          /\ ToSet(RemoveAt(q, i)) = ToSet(q) \ {q[i]}
      BY <2>1, RemoveAtSeq
    <2>5. /\ IsInjective(Cons(q[i], RemoveAt(q, i)))
          /\ ToSet(Cons(q[i], RemoveAt(q, i)))
                = {q[i]} \cup ToSet(RemoveAt(q, i))
      BY <2>3, <2>4, ConsSeq
    <2> QED
      BY <2>2, <2>3, <2>4, <2>5
  <1>2. CASE ~ \E i \in DOMAIN q : q[i] \in Topic
    BY <1>2 DEF TopicFirst
  <1> QED
    BY <1>1, <1>2

-----------------------------------------------------------------------------
(* The operators of the state manager keep calls in their places.          *)

LEMMA UpdateAllPlaced ==
    ASSUME NEW s \in StateType, NEW M \in SUBSET Call, Placed(s, M), NEW C, NEW v \in Status
    PROVE  Placed(UpdateAll(s, C, v), M)
  <1> DEFINE t == UpdateAll(s, C, v)
  <1>1. /\ t.queue = s.queue
        /\ t.active = s.active
        /\ t.completed = s.completed
        /\ \A c \in Call \ s.active : t.status[c] = s.status[c]
    BY DEF UpdateAll, StateType
  <1>2. ToSet(s.queue) \subseteq Call
    BY ToSetType DEF StateType
  <1>3. /\ \A c \in ToSet(s.queue) : t.status[c] = s.status[c]
        /\ \A c \in M \ (ToSet(s.queue) \cup s.active) :
              t.status[c] = s.status[c]
    BY <1>1, <1>2 DEF Placed
  <1> HIDE DEF t
  <1>4. Placed(t, M)
    BY <1>1, <1>3 DEF Placed
  <1> QED
    BY <1>4 DEF t

LEMMA EnqueuePlaced ==
    ASSUME NEW s \in StateType, s.queue = << >>, s.active = {},
           NEW b \in Batch
    PROVE  Placed(Enqueue(ClearBatch(s), TopicFirst(BatchCalls[b]), Invalid),
                  BatchSet(b))
  <1> DEFINE q == TopicFirst(BatchCalls[b])
             t == Enqueue(ClearBatch(s), q, Invalid)
  <1>1. q \in Seq(Call) /\ IsInjective(q) /\ ToSet(q) = BatchSet(b)
    BY BatchAssumption, DistinctCalls, TopicFirstType, TopicFirstReorders
    DEF BatchSet
  <1> HIDE DEF q
  <1>2. << >> \o q = q
    BY <1>1
  <1>3. /\ t.queue = q
        /\ t.active = {}
        /\ t.completed = [c \in Call |-> 0]
        /\ \A c \in ToSet(q) \cap Call : t.status[c] \in {"validating", "error"}
    BY <1>2 DEF Enqueue, ClearBatch, StateType
  <1>4. ToSet(q) \subseteq Call
    BY <1>1, ToSetType
  <1> HIDE DEF t
  <1>5. Placed(t, BatchSet(b))
    BY <1>1, <1>3, <1>4 DEF Placed
  <1> QED
    BY <1>5 DEF t, q

LEMMA DequeuePlaced ==
    ASSUME NEW s \in StateType, NEW M \in SUBSET Call, Placed(s, M), s.active = {},
           NEW n \in 1..Len(s.queue)
    PROVE  LET t == Dequeue(s, n)
           IN  /\ Placed(t, M)
               /\ t.active # {}
               /\ t.status = s.status
               /\ \A c \in t.active : t.status[c] \in {"validating", "error"}
  <1> DEFINE t == Dequeue(s, n)
             front == SubSeq(s.queue, 1, n)
             back  == SubSeq(s.queue, n + 1, Len(s.queue))
  <1>1. s.queue \in Seq(Call) /\ IsInjective(s.queue)
    BY DEF StateType, Placed
  <1>2. /\ front \in Seq(Call) /\ back \in Seq(Call)
        /\ IsInjective(back)
        /\ ToSet(front) # {}
        /\ ToSet(front) \subseteq ToSet(s.queue)
        /\ ToSet(back) = ToSet(s.queue) \ ToSet(front)
    BY <1>1, SplitSeq
  <1>3. /\ t.queue = back
        /\ t.active = ToSet(front)
        /\ t.completed = s.completed
        /\ t.status = s.status
    BY DEF Dequeue, StateType
  <1> HIDE DEF t, front, back
  <1>4. /\ Placed(t, M)
        /\ t.active # {}
        /\ t.status = s.status
        /\ \A c \in t.active : t.status[c] \in {"validating", "error"}
    BY <1>2, <1>3 DEF Placed
  <1> QED
    BY <1>4 DEF t

LEMMA FinalizeEndedPlaced ==
    ASSUME NEW s \in StateType, NEW M \in SUBSET Call, Placed(s, M)
    PROVE  Placed(FinalizeEnded(s), M)
  <1> DEFINE t == FinalizeEnded(s)
  <1>1. /\ t.queue = s.queue
        /\ t.status = s.status
        /\ t.active = s.active \ Ended(s)
        /\ \A c \in Call : t.completed[c] = IF c \in Ended(s)
                                            THEN s.completed[c] + 1
                                            ELSE s.completed[c]
    BY DEF FinalizeEnded, Pending, StateType
  <1>2. /\ Ended(s) \subseteq s.active
        /\ \A c \in Ended(s) : s.status[c] \in Terminal
    BY DEF Ended
  <1> HIDE DEF t
  <1>3. Placed(t, M)
    BY <1>1, <1>2 DEF Placed
  <1> QED
    BY <1>3 DEF t

LEMMA CancelAllQueuedPlaced ==
    ASSUME NEW s \in StateType, NEW M \in SUBSET Call, Placed(s, M)
    PROVE  /\ Placed(CancelAllQueued(s), M)
           /\ CancelAllQueued(s).queue = << >>
           /\ CancelAllQueued(s).active = s.active
           /\ \A c \in s.active : CancelAllQueued(s).status[c] = s.status[c]
  <1> DEFINE t == CancelAllQueued(s)
             Q == ToSet(s.queue)
  <1>1. Q \subseteq Call
    BY ToSetType DEF StateType
  <1>2. /\ t.queue = << >>
        /\ t.active = s.active
        /\ \A c \in Call : t.completed[c] = IF c \in Q THEN s.completed[c] + 1
                                            ELSE s.completed[c]
        /\ \A c \in Call : t.status[c] = IF c \in Q /\ s.status[c] # "error"
                                         THEN "cancelled" ELSE s.status[c]
    BY DEF CancelAllQueued, StateType
  <1>3. IsInjective(<< >>) /\ ToSet(<< >>) = {}
    BY DEF IsInjective, ToSet
  <1>4. s.active \subseteq Call
    BY DEF StateType
  <1>5. Q \cap s.active = {} /\ Q \subseteq M
    BY DEF Placed
  <1> HIDE DEF t
  <1>6. \A c \in M \ s.active : t.status[c] \in Terminal
    <2> SUFFICES ASSUME NEW c \in M \ s.active PROVE t.status[c] \in Terminal
      OBVIOUS
    <2>1. CASE c \in Q
      BY <1>1, <1>2, <2>1 DEF Terminal
    <2>2. CASE c \notin Q
      <3>1. t.status[c] = s.status[c]
        BY <1>2, <2>2
      <3> QED
        BY <2>2, <3>1 DEF Placed
    <2> QED
      BY <2>1, <2>2
  <1>7. Placed(t, M)
    <2> HIDE DEF Q
    <2>1. \A c \in Call : t.completed[c] = IF c \in M \ s.active THEN 1 ELSE 0
      BY <1>2, <1>5 DEF Placed, Q
    <2> QED
      BY <1>2, <1>3, <1>6, <2>1 DEF Placed
  <1>8. \A c \in s.active : t.status[c] = s.status[c]
    BY <1>2, <1>4, <1>5
  <1> QED
    BY <1>2, <1>7, <1>8 DEF t

LEMMA ReplaceWithTailPlaced ==
    ASSUME NEW s \in StateType, NEW M \in SUBSET Call, Placed(s, M),
           NEW c \in s.active, NEW v \in {"validating", "error"}
    PROVE  LET t == ReplaceWithTail(s, c, v)
           IN  /\ Placed(t, M)
               /\ t.active = s.active \ {c}
               /\ \A d \in t.active : t.status[d] = s.status[d]
  <1> DEFINE t == ReplaceWithTail(s, c, v)
  <1>1. c \in Call /\ s.queue \in Seq(Call) /\ s.active \subseteq Call
    BY DEF StateType
  <1>2. c \notin ToSet(s.queue) /\ IsInjective(s.queue)
    BY DEF Placed
  <1>3. /\ IsInjective(Cons(c, s.queue))
        /\ ToSet(Cons(c, s.queue)) = {c} \cup ToSet(s.queue)
    BY <1>1, <1>2, ConsSeq
  <1>4. /\ t.queue = Cons(c, s.queue)
        /\ t.active = s.active \ {c}
        /\ t.completed = s.completed
        /\ t.status = [s.status EXCEPT ![c] = v]
    BY DEF ReplaceWithTail, StateType
  <1>5. /\ t.status[c] = v
        /\ \A d \in Call \ {c} : t.status[d] = s.status[d]
    BY <1>1, <1>4 DEF StateType
  <1> HIDE DEF t
  <1>6. ToSet(s.queue) \subseteq Call
    BY <1>1, ToSetType
  <1>7. \A d : d \in M \ (ToSet(t.queue) \cup t.active) =>
                  t.status[d] = s.status[d]
    BY <1>3, <1>4
  <1>8. Placed(t, M)
    BY <1>1, <1>2, <1>3, <1>4, <1>5, <1>6, <1>7 DEF Placed
  <1>9. \A d \in t.active : t.status[d] = s.status[d]
    BY <1>1, <1>4, <1>5
  <1> QED
    BY <1>4, <1>8, <1>9 DEF t

-----------------------------------------------------------------------------
(* The loop.                                                               *)

LEMMA BatchSetType ==
    ASSUME NEW b \in Batch
    PROVE  BatchSet(b) \in SUBSET Call
  BY BatchAssumption, ToSetType DEF BatchSet

\* What an iteration that starts with all handlers idle and no active call
\* leaves behind.
LEMMA IterateReport ==
    ASSUME TypeOK, NEW s \in StateType, cur' \in Batch,
           Placed(s, BatchSet(cur')), s.active = {},
           \A c \in Call : At(c, "idle") /\ ~ call[c].noisy,
           NEW stop, Iterate(s, stop)
    PROVE  LoopInv' /\ \A c \in Call : HandlerInv(c)'
  <1> DEFINE more == s.queue # << >> \/ s.active # {}
             M == BatchSet(cur')
  <1>M. M \in SUBSET Call
    BY BatchSetType
  <1>cur. cur' # None
    BY BatchAssumption
  \* The loop is left, or goes on with nothing active.
  <1>calm. ASSUME Placed(sm', M), sm'.active = {}, UNCHANGED call,
                  \/ phase' = "top"
                  \/ phase' = "finishing" /\ sm'.queue = << >>
           PROVE  LoopInv' /\ \A c \in Call : HandlerInv(c)'
    <2>1. LoopInv'
      BY <1>calm, <1>cur DEF LoopInv
    <2>2. \A c \in Call : HandlerInv(c)'
      BY <1>calm DEF HandlerInv, At
    <2> QED
      BY <2>1, <2>2
  <1>1. CASE ~ more /\ LeaveLoop(s)
    BY <1>1, <1>calm DEF LeaveLoop
  <1>2. CASE more /\ stop /\ LeaveLoop(CancelAllQueued(s))
    <2>1. /\ Placed(CancelAllQueued(s), M)
          /\ CancelAllQueued(s).queue = << >>
          /\ CancelAllQueued(s).active = {}
      BY <1>M, CancelAllQueuedPlaced
    <2> QED
      BY <1>2, <1>calm, <2>1 DEF LeaveLoop
  <1>3. CASE /\ s.queue # << >>
             /\ s.status[s.queue[1]] = "error"
             /\ sm' = FinalizeEnded(Dequeue(s, 1))
             /\ phase' = "top"
             /\ UNCHANGED <<spawned, call>>
    <2> DEFINE t == Dequeue(s, 1)
    <2>1. s.queue \in Seq(Call) /\ 1 \in 1..Len(s.queue)
      BY <1>3 DEF StateType
    <2>2. t \in StateType /\ Placed(t, M)
      BY <1>M, <2>1, DequeueType, DequeuePlaced
    <2>3. t.active = ToSet(SubSeq(s.queue, 1, 1)) /\ t.status = s.status
      BY DEF Dequeue, StateType
    <2>4. ToSet(SubSeq(s.queue, 1, 1)) = {s.queue[1]}
      <3>1. /\ Len(SubSeq(s.queue, 1, 1)) = 1
            /\ SubSeq(s.queue, 1, 1)[1] = s.queue[1]
            /\ DOMAIN SubSeq(s.queue, 1, 1) = 1..1
        BY <2>1, SubSeqProperties
      <3> QED
        BY <3>1 DEF ToSet
    <2> HIDE DEF t
    <2>5. Ended(t) = t.active
      BY <1>3, <2>3, <2>4 DEF Ended, Terminal
    <2>6. FinalizeEnded(t).active = {}
      BY <2>2, <2>5 DEF FinalizeEnded, Pending, StateType
    <2>7. Placed(FinalizeEnded(t), M)
      BY <1>M, <2>2, FinalizeEndedPlaced
    <2>8. sm' = FinalizeEnded(t)
      BY <1>3 DEF t
    <2> QED
      BY <1>3, <1>calm, <2>6, <2>7, <2>8
  <1>4. ASSUME NEW n \in 1..Len(s.queue), Validate(Dequeue(s, n))
        PROVE  LoopInv' /\ \A c \in Call : HandlerInv(c)'
    <2> DEFINE t == Dequeue(s, n)
    <2>1. t \in StateType
      BY DequeueType
    <2>2. /\ Placed(t, M)
          /\ t.active # {}
          /\ \A c \in t.active : t.status[c] \in {"validating", "error"}
      BY <1>M, DequeuePlaced
    <2> HIDE DEF t
    <2>3. /\ sm' = t /\ phase' = "validating"
          /\ call' = [c \in Call |->
                IF c \in t.active /\ t.status[c] = "validating"
                THEN [call[c] EXCEPT !.pc = "hook"] ELSE call[c]]
      BY <1>4 DEF Validate, t
    <2>4. LoopInv'
      BY <1>cur, <2>2, <2>3 DEF LoopInv
    <2>5. ASSUME NEW c \in Call PROVE HandlerInv(c)'
      <3>1. CASE c \in t.active /\ t.status[c] = "validating"
        <4>1. call'[c].pc = "hook" /\ call'[c].noisy = call[c].noisy
          BY <2>3, <3>1 DEF TypeOK, CallType
        <4> QED
          BY <2>3, <3>1, <4>1 DEF HandlerInv, At
      <3>2. CASE ~ (c \in t.active /\ t.status[c] = "validating")
        <4>1. call'[c] = call[c]
          BY <2>3, <3>2
        <4>2. c \in t.active => t.status[c] \in Terminal
          BY <2>2, <3>2 DEF Terminal
        <4> QED
          BY <2>3, <4>1, <4>2 DEF HandlerInv, At
      <3> QED
        BY <3>1, <3>2
    <2> QED
      BY <2>4, <2>5
  <1> QED
    BY <1>1, <1>2, <1>3, <1>4 DEF Iterate

LEMMA IdleAndQuiet ==
    ASSUME ReportInv, sm.active = {}
    PROVE  \A c \in Call : At(c, "idle") /\ ~ call[c].noisy
  BY DEF ReportInv, HandlerInv

LEMMA StartBatchReport ==
    ASSUME ReportInv, sm.queue = << >>, sm.active = {},
           NEW b \in Batch, NEW before, StartBatch(b, before)
    PROVE  LoopInv' /\ \A c \in Call : HandlerInv(c)'
  <1> DEFINE s == Enqueue(ClearBatch(sm), TopicFirst(BatchCalls[b]), Invalid)
  <1>1. TypeOK /\ sm \in StateType
    BY DEF ReportInv, TypeOK
  <1>2. TopicFirst(BatchCalls[b]) \in Seq(Call)
    BY BatchAssumption, TopicFirstType
  <1>3. s \in StateType
    BY <1>1, <1>2, ClearBatchType, EnqueueType
  <1>4. Placed(s, BatchSet(b))
    BY <1>1, EnqueuePlaced
  <1>5. s.active = {}
    BY <1>1 DEF Enqueue, ClearBatch, StateType
  <1> HIDE DEF s
  <1>6. cur' = b /\ Iterate(s, b \in aborted)
    BY DEF StartBatch, s
  <1> QED
    BY <1>1, <1>3, <1>4, <1>5, <1>6, IdleAndQuiet, IterateReport

\* When all handlers have returned and none of the calls is to be executed,
\* all have ended: the iteration reports them, and another follows.
LEMMA EndIterationReport ==
    ASSUME ReportInv, phase \in {"validating", "executing"}, AllIdle,
           \A c \in sm.active : sm.status[c] \in Terminal,
           EndIteration, UNCHANGED cur
    PROVE  LoopInv' /\ \A c \in Call : HandlerInv(c)'
  <1>1. sm \in StateType /\ cur \in Batch \cup {None}
    BY DEF ReportInv, TypeOK
  <1>2. cur # None /\ Placed(sm, BatchSet(cur))
    BY DEF ReportInv, LoopInv
  <1>3. Placed(FinalizeEnded(sm), BatchSet(cur))
    BY <1>1, <1>2, BatchSetType, FinalizeEndedPlaced
  <1>4. Ended(sm) = sm.active
    BY DEF Ended
  <1>5. FinalizeEnded(sm).active = {}
    BY <1>1, <1>4 DEF FinalizeEnded, Pending, StateType
  <1>6. phase' = "top"
    BY <1>4 DEF EndIteration, ReportInv, LoopInv
  <1>7. sm' = FinalizeEnded(sm) /\ UNCHANGED call
    BY DEF EndIteration
  <1>8. LoopInv'
    BY <1>2, <1>3, <1>5, <1>6, <1>7 DEF LoopInv
  <1>9. \A c \in Call : HandlerInv(c)'
    BY <1>5, <1>6, <1>7 DEF HandlerInv, At, AllIdle, ReportInv
  <1> QED
    BY <1>8, <1>9

\* The tools of the scheduled calls are started, or the calls cancelled.
LEMMA ExecuteReport ==
    ASSUME ReportInv, phase = "validating", AllIdle, phase' = "executing",
           NEW ready, ready = {c \in sm.active : sm.status[c] = "scheduled"},
           ready # {}, Execute(ready), UNCHANGED <<cur, spawned>>
    PROVE  LoopInv' /\ \A c \in Call : HandlerInv(c)'
  <1>1. /\ sm \in StateType /\ cur \in Batch \cup {None}
        /\ call \in [Call -> CallType]
    BY DEF ReportInv, TypeOK
  <1>2. cur # None /\ Placed(sm, BatchSet(cur))
    BY DEF ReportInv, LoopInv
  <1>3. \E v \in {"cancelled", "executing"} :
            /\ sm' = UpdateAll(sm, ready, v)
            /\ v = "cancelled" => UNCHANGED call
            /\ v = "executing" =>
                  call' = [c \in Call |-> IF c \in ready
                                          THEN [call[c] EXCEPT !.pc = "tool"]
                                          ELSE call[c]]
    BY DEF Execute, Start
  <1> PICK v \in {"cancelled", "executing"} :
            /\ sm' = UpdateAll(sm, ready, v)
            /\ v = "cancelled" => UNCHANGED call
            /\ v = "executing" =>
                  call' = [c \in Call |-> IF c \in ready
                                          THEN [call[c] EXCEPT !.pc = "tool"]
                                          ELSE call[c]]
    BY <1>3
  <1>4. Placed(sm', BatchSet(cur))
    BY <1>1, <1>2, BatchSetType, UpdateAllPlaced DEF Status
  <1>5. /\ sm'.active = sm.active
        /\ \A c \in ready : sm'.status[c] = v
        /\ \A c \in sm.active \ ready : sm'.status[c] = sm.status[c]
    BY <1>1 DEF UpdateAll, StateType
  <1>6. sm.active # {}
    OBVIOUS
  <1>7. LoopInv'
    BY <1>2, <1>4, <1>5, <1>6 DEF LoopInv
  <1>8. ASSUME NEW c \in Call PROVE HandlerInv(c)'
    <2>1. HandlerInv(c) /\ At(c, "idle")
      BY DEF ReportInv, AllIdle, At
    <2>2. c \in sm.active \ ready => sm.status[c] \in Terminal
      BY <2>1 DEF HandlerInv
    <2>3. CASE c \in ready /\ v = "executing"
      <3>1. call'[c].pc = "tool" /\ call'[c].noisy = call[c].noisy
        BY <1>1, <2>3 DEF CallType
      <3> QED
        BY <1>5, <2>1, <2>3, <3>1 DEF HandlerInv, At, Validation
    <2>4. CASE ~ (c \in ready /\ v = "executing")
      <3>1. call'[c] = call[c]
        BY <2>4
      <3>2. c \in sm'.active => sm'.status[c] \in Terminal
        BY <1>5, <2>2, <2>4 DEF Terminal
      <3> QED
        BY <2>1, <3>1, <3>2 DEF HandlerInv, At, Validation
    <2> QED
      BY <2>3, <2>4
  <1> QED
    BY <1>7, <1>8

-----------------------------------------------------------------------------
(* The handlers.                                                           *)

\* A call whose handler is suspended is active, so its batch is under way.
LEMMA Suspended ==
    ASSUME ReportInv, NEW c \in Call, ~ At(c, "idle")
    PROVE  /\ c \in sm.active
           /\ phase \in {"validating", "executing"}
           /\ cur # None /\ cur \in Batch
           /\ Placed(sm, BatchSet(cur))
           /\ ~ call[c].noisy
  <1>1. c \in sm.active /\ ~ call[c].noisy
    BY DEF ReportInv, HandlerInv
  <1>2. phase \in {"validating", "executing"}
    BY <1>1 DEF ReportInv, LoopInv, TypeOK, Phase
  <1>3. cur # None /\ cur \in Batch
    BY <1>2 DEF ReportInv, LoopInv, TypeOK
  <1> QED
    BY <1>1, <1>2, <1>3 DEF ReportInv, LoopInv

\* What a handler may do to the batch.
HandlerEffect(c) ==
    \/ UNCHANGED <<sm, spawned>>
    \/ \E v \in Status : sm' = UpdateStatus(sm, c, v) /\ UNCHANGED spawned
    \/ /\ sm' = CancelAllQueued(UpdateStatus(sm, c, "cancelled"))
       /\ UNCHANGED spawned
    \/ \E v \in {"validating", "error"} :
          sm' = ReplaceWithTail(sm, c, v) /\ spawned' = TRUE

HandlerAction(c) ==
    CallStep(c) \/ Output(c) \/ \E r \in Responses : Respond(c, r)

LEMMA HandlerHasEffect ==
    ASSUME TypeOK, NEW c \in Call, HandlerAction(c)
    PROVE  /\ HandlerEffect(c)
           /\ At(c, "idle") => call[c].noisy /\ Output(c)
           /\ CallUnchanged
           /\ \A d \in Call \ {c} : call'[d] = call[d]
  <1>st. {"scheduled", "awaiting_approval", "executing", "success",
          "error", "cancelled"} \cup Terminal \subseteq Status
    BY DEF Status, Terminal
  <1>1. HandlerEffect(c)
    BY <1>st
    DEF HandlerAction, HandlerEffect, CallStep, HookDone, PolicyDone, Unneeded,
        AskUser, EditorDone, InlineDone, Conclude, Throw, ToolDone, Recorded,
        TailCalled, ExpansionAsked, ExpansionAnswered, Output, Respond, End
  <1>2. At(c, "idle") => call[c].noisy /\ Output(c)
    <2>1. ~ At(c, "idle") \/ Output(c)
      BY DEF HandlerAction, CallStep, HookDone, PolicyDone, Unneeded, AskUser,
             EditorDone, InlineDone, Conclude, Throw, ToolDone, Recorded,
             TailCalled, ExpansionAsked, ExpansionAnswered, Respond, At,
             Validation
    <2> QED
      BY <2>1 DEF Output, At
  <1>3. CallUnchanged
    BY DEF HandlerAction, CallStep, HookDone, PolicyDone, Unneeded, AskUser,
           EditorDone, InlineDone, Conclude, Throw, ToolDone, Recorded,
           TailCalled, ExpansionAsked, ExpansionAnswered, Output, Respond
  <1>4. ASSUME NEW d \in Call \ {c}
        PROVE  call'[d] = call[d]
    BY DEF TypeOK, HandlerAction, CallStep, HookDone, PolicyDone,
       Unneeded, AskUser, EditorDone, InlineDone, Conclude, Throw, ToolDone,
       Recorded, TailCalled, ExpansionAsked, ExpansionAnswered, Output,
       Respond, End
  <1> QED
    BY <1>1, <1>2, <1>3, <1>4

\* Only suspended handlers move where nothing prints on.
LEMMA HandlerAwaits ==
    ASSUME ReportInv, NEW c \in Call, HandlerAction(c)
    PROVE  /\ HandlerEffect(c)
           /\ ~ At(c, "idle")
           /\ CallUnchanged
           /\ \A d \in Call \ {c} : call'[d] = call[d]
  BY HandlerHasEffect DEF ReportInv, HandlerInv

\* Whatever it does, every call stays in its place, the other active calls
\* keep their status, and if c leaves for its tail call the loop will know.
LEMMA EffectKeepsPlaces ==
    ASSUME ReportInv, NEW c \in Call, ~ At(c, "idle"), HandlerEffect(c)
    PROVE  /\ Placed(sm', BatchSet(cur))
           /\ \/ sm'.active = sm.active /\ UNCHANGED spawned
              \/ sm'.active = sm.active \ {c} /\ spawned' = TRUE
           /\ \A d \in sm'.active \ {c} : sm'.status[d] = sm.status[d]
  <1> DEFINE M == BatchSet(cur)
  <1>1. sm \in StateType /\ M \in SUBSET Call /\ Placed(sm, M)
        /\ c \in sm.active /\ sm.active \subseteq Call
    BY Suspended, BatchSetType DEF ReportInv, TypeOK, StateType
  <1>2. ASSUME NEW v \in Status
        PROVE  /\ UpdateStatus(sm, c, v) \in StateType
               /\ Placed(UpdateStatus(sm, c, v), M)
               /\ UpdateStatus(sm, c, v).active = sm.active
               /\ \A d \in sm.active \ {c} :
                     UpdateStatus(sm, c, v).status[d] = sm.status[d]
    <2>1. /\ UpdateStatus(sm, c, v) \in StateType
          /\ Placed(UpdateStatus(sm, c, v), M)
      BY <1>1, UpdateAllType, UpdateAllPlaced DEF UpdateStatus
    <2>2. /\ UpdateStatus(sm, c, v).active = sm.active
          /\ \A d \in sm.active \ {c} :
                UpdateStatus(sm, c, v).status[d] = sm.status[d]
      BY <1>1 DEF UpdateStatus, UpdateAll, StateType
    <2> QED
      BY <2>1, <2>2
  <1>3. CASE UNCHANGED <<sm, spawned>>
    BY <1>1, <1>3
  <1>4. CASE \E v \in Status : /\ sm' = UpdateStatus(sm, c, v)
                               /\ UNCHANGED spawned
    BY <1>2, <1>4
  <1>5. CASE /\ sm' = CancelAllQueued(UpdateStatus(sm, c, "cancelled"))
             /\ UNCHANGED spawned
    <2> DEFINE t == UpdateStatus(sm, c, "cancelled")
    <2>1. "cancelled" \in Status
      BY DEF Status
    <2>2. /\ t \in StateType
          /\ Placed(t, M)
          /\ t.active = sm.active
          /\ \A d \in sm.active \ {c} : t.status[d] = sm.status[d]
      BY <1>2, <2>1
    <2> HIDE DEF t
    <2>3. /\ Placed(CancelAllQueued(t), M)
          /\ CancelAllQueued(t).active = t.active
          /\ \A d \in t.active : CancelAllQueued(t).status[d] = t.status[d]
      BY <1>1, <2>2, CancelAllQueuedPlaced
    <2>4. sm' = CancelAllQueued(t)
      BY <1>5 DEF t
    <2> QED
      BY <1>5, <2>2, <2>3, <2>4
  <1>6. CASE \E v \in {"validating", "error"} :
                sm' = ReplaceWithTail(sm, c, v) /\ spawned' = TRUE
    <2> PICK v \in {"validating", "error"} :
                sm' = ReplaceWithTail(sm, c, v) /\ spawned' = TRUE
      BY <1>6
    <2> DEFINE t == ReplaceWithTail(sm, c, v)
    <2>1. /\ Placed(t, M)
          /\ t.active = sm.active \ {c}
          /\ \A d \in t.active : t.status[d] = sm.status[d]
      BY <1>1, ReplaceWithTailPlaced
    <2> QED
      BY <2>1
  <1> QED
    BY <1>3, <1>4, <1>5, <1>6 DEF HandlerEffect

\* A handler that stops at another await, or returns, leaves its call as
\* HandlerInv says.
LEMMA HandlerReturns ==
    ASSUME ReportInv, Background = {}, NEW c \in Call, HandlerAction(c)
    PROVE  HandlerInv(c)'
  <1> USE DEF At
  <1>ty. /\ sm \in StateType
         /\ call \in [Call -> CallType]
         /\ call[c] \in CallType
    BY DEF ReportInv, TypeOK
  <1>in. /\ call[c].pc # "idle" /\ c \in sm.active /\ ~ call[c].noisy
         /\ phase = "executing" =>
               /\ call[c].pc # "hook" /\ call[c].pc # "policy"
               /\ call[c].pc \in Validation => call[c].expands
         /\ phase' = phase
    BY HandlerAwaits, Suspended DEF ReportInv, HandlerInv, CallUnchanged
  <1>ac. /\ \A v : UpdateStatus(sm, c, v).active = sm.active
         /\ \A v \in Terminal :
               UpdateStatus(sm, c, v).status[c] \in Terminal
         /\ UpdateStatus(sm, c, "scheduled").status[c]
               \in Terminal \cup {"scheduled"}
    BY <1>ty, <1>in DEF UpdateStatus, UpdateAll, StateType, Terminal
  \* It stops at an await of the validation...
  <1>va. ASSUME call'[c].pc \in {"details", "answer", "editor", "inline",
                                 "outcome"},
                call'[c].noisy = call[c].noisy,
                call'[c].expands = call[c].expands,
                call[c].pc \in Validation,
                sm'.active = sm.active
         PROVE  HandlerInv(c)'
    BY <1>in, <1>va DEF HandlerInv
  \* ... or at one of the execution...
  <1>ex. ASSUME call'[c].pc \in {"tool", "result"}, ~ call'[c].noisy,
                sm'.active = sm.active
         PROVE  HandlerInv(c)'
    BY <1>in, <1>ex DEF HandlerInv, Validation
  \* ... or returns.
  <1>re. ASSUME call'[c].pc = "idle", ~ call'[c].noisy,
                \/ sm'.status[c] \in Terminal
                \/ sm'.status[c] = "scheduled" /\ phase # "executing"
         PROVE  HandlerInv(c)'
    BY <1>in, <1>re DEF HandlerInv, Validation
  <1>en. ASSUME NEW v \in Terminal, End(c, v)
         PROVE  HandlerInv(c)'
    <2>1. call'[c].pc = "idle" /\ call'[c].noisy = call[c].noisy
      BY <1>ty, <1>en DEF End, CallType
    <2>2. sm'.status[c] \in Terminal
      BY <1>ac, <1>en DEF End
    <2> QED
      BY <1>in, <1>re, <2>1, <2>2
  <1>te. {"success", "error", "cancelled"} = Terminal
    BY DEF Terminal
  <1>1. CASE HookDone(c)
    <2>1. CASE End(c, "error")
      BY <1>en, <1>te, <2>1
    <2>2. ASSUME NEW asks \in BOOLEAN, NEW by \in {call[c].input.by, "hook"},
                 call' = [call EXCEPT ![c].pc = "policy",
                                      ![c].hookAsks = asks,
                                      ![c].input.by = by,
                                      ![c].args.by = IF Replaced(c)
                                                     THEN call[c].args.by ELSE by],
                 UNCHANGED sm
          PROVE  HandlerInv(c)'
      <3>1. call'[c].pc = "policy" /\ call'[c].noisy = call[c].noisy
        BY <1>ty, <2>2 DEF CallType
      <3>2. phase # "executing"
        BY <1>1, <1>in DEF HookDone
      <3> QED
        BY <1>in, <2>2, <3>1, <3>2 DEF HandlerInv
    <2> QED
      BY <1>1, <2>1, <2>2 DEF HookDone
  <1>2. CASE PolicyDone(c)
    <2> PICK d \in PolicyAnswers(c) :
          LET decided == [call EXCEPT ![c].decision = d]
          IN  \/ /\ Verdict(c, d) = "deny"
                 /\ sm' = UpdateStatus(sm, c, "error")
                 /\ call' = [decided EXCEPT ![c].pc = "idle"]
              \/ /\ Verdict(c, d) = "allow"
                 /\ sm' = UpdateStatus(sm, c, "scheduled")
                 /\ call' = [decided EXCEPT ![c].pc = "idle",
                                            ![c].vetted = {call[c].input}]
              \/ /\ Verdict(c, d) = "ask"
                 /\ cur \notin aborted
                 /\ call' = [decided EXCEPT ![c].pc = "details"]
                 /\ UNCHANGED sm
      BY <1>2 DEF PolicyDone
    <2>1. /\ call'[c].noisy = call[c].noisy
          /\ call'[c].expands = call[c].expands
      BY <1>ty DEF CallType
    <2>2. phase # "executing" /\ call[c].pc \in Validation
      BY <1>2, <1>in DEF PolicyDone, Validation
    <2>3. CASE Verdict(c, d) = "deny"
      <3>1. call'[c].pc = "idle" /\ sm' = UpdateStatus(sm, c, "error")
        BY <1>ty, <2>3 DEF CallType
      <3> QED
        BY <1>in, <1>ac, <1>te, <1>re, <2>1, <3>1
    <2>4. CASE Verdict(c, d) = "allow"
      <3>1. call'[c].pc = "idle" /\ sm' = UpdateStatus(sm, c, "scheduled")
        BY <1>ty, <2>4 DEF CallType
      <3> QED
        BY <1>in, <1>ac, <1>re, <2>1, <2>2, <3>1
    <2>5. CASE Verdict(c, d) = "ask"
      <3>1. call'[c].pc = "details" /\ UNCHANGED sm
        BY <1>ty, <2>5 DEF CallType
      <3> QED
        BY <1>va, <2>1, <2>2, <3>1
    <2> QED
      BY <2>3, <2>4, <2>5
  <1>3. CASE Unneeded(c)
    <2>1. /\ call'[c].pc = "outcome"
          /\ call'[c].noisy = call[c].noisy
          /\ call'[c].expands = call[c].expands
      BY <1>ty, <1>3 DEF Unneeded, CallType
    <2> QED
      BY <1>3, <1>va, <2>1 DEF Unneeded, Validation
  <1>4. CASE AskUser(c)
    <2>1. /\ call'[c].pc = "answer"
          /\ call'[c].noisy = call[c].noisy
          /\ call'[c].expands = call[c].expands
      BY <1>ty, <1>4 DEF AskUser, CallType
    <2> QED
      BY <1>4, <1>ac, <1>va, <2>1 DEF AskUser, Validation
  <1>5. CASE \E r \in Responses : Respond(c, r)
    <2>1. /\ call'[c].pc \in {"outcome", "inline", "editor"}
          /\ call'[c].noisy = call[c].noisy
          /\ call'[c].expands = call[c].expands
          /\ UNCHANGED sm /\ call[c].pc = "answer"
      <3> PICK r \in Responses : Respond(c, r)
        BY <1>5
      <3> QED
        BY <1>ty DEF Respond, CallType
    <2> QED
      BY <1>va, <2>1 DEF Validation
  <1>6. CASE EditorDone(c)
    <2>1. /\ call'[c].pc = "details"
          /\ call'[c].noisy = call[c].noisy
          /\ call'[c].expands = call[c].expands
      BY <1>ty, <1>6 DEF EditorDone, CallType
    <2> QED
      BY <1>6, <1>va, <2>1 DEF EditorDone, Validation
  <1>7. CASE InlineDone(c)
    <2>1. /\ call'[c].pc = "outcome"
          /\ call'[c].noisy = call[c].noisy
          /\ call'[c].expands = call[c].expands
      BY <1>ty, <1>7 DEF InlineDone, CallType
    <2> QED
      BY <1>7, <1>va, <2>1 DEF InlineDone, Validation
  <1>8. CASE Conclude(c)
    <2>1. call'[c].pc = "idle" /\ call'[c].noisy = call[c].noisy
      BY <1>ty, <1>8 DEF Conclude, CallType
    <2>2. phase # "executing"
      BY <1>8, <1>in DEF Conclude, Validation
    <2>3. CASE call[c].answer = "cancel"
      <3> DEFINE t == UpdateStatus(sm, c, "cancelled")
      <3>1. /\ t \in StateType /\ Placed(t, BatchSet(cur))
            /\ BatchSet(cur) \in SUBSET Call
            /\ c \in t.active /\ t.status[c] \in Terminal
        <4>1. cur \in Batch /\ Placed(sm, BatchSet(cur))
          BY <1>in, Suspended
        <4>2. "cancelled" \in Status
          BY DEF Status
        <4> QED
          BY <1>ty, <1>in, <1>ac, <1>te, <4>1, <4>2, BatchSetType,
             UpdateAllType, UpdateAllPlaced DEF UpdateStatus
      <3>2. sm' = CancelAllQueued(t)
        BY <1>8, <2>3 DEF Conclude
      <3> HIDE DEF t
      <3>3. sm'.status[c] \in Terminal
        BY <3>1, <3>2, CancelAllQueuedPlaced
      <3> QED
        BY <1>in, <1>re, <2>1, <3>3
    <2>4. CASE call[c].answer # "cancel"
      BY <1>8, <1>in, <1>ac, <1>re, <2>1, <2>2, <2>4 DEF Conclude
    <2> QED
      BY <2>3, <2>4
  <1>9. CASE Throw(c)
    BY <1>9, <1>en, <1>te DEF Throw
  <1>10. CASE \E r \in Result \ {"none"} : ToolDone(c, r)
    <2>1. call'[c].pc = "result" /\ ~ call'[c].noisy /\ UNCHANGED sm
      <3> PICK r \in Result \ {"none"} : ToolDone(c, r)
        BY <1>10
      <3> QED
        BY <1>ty DEF ToolDone, CallType
    <2> QED
      BY <1>ex, <2>1
  <1>11. CASE Recorded(c)
    BY <1>11, <1>en DEF Recorded
  <1>12. CASE TailCalled(c)
    <2>1. call'[c].pc = "idle" /\ ~ call'[c].noisy
      BY <1>ty, <1>12 DEF TailCalled, NewCall
    <2>2. c \notin sm'.active
      BY <1>ty, <1>12, <1>in DEF TailCalled, ReplaceWithTail, StateType
    <2> QED
      BY <2>1, <2>2 DEF HandlerInv, Validation
  <1>13. CASE ExpansionAsked(c)
    <2>1. CASE cur \in aborted
      BY <1>13, <1>en, <1>te, <2>1 DEF ExpansionAsked
    <2>2. CASE cur \notin aborted
      <3>1. /\ call'[c].pc = "details" /\ call'[c].expands
            /\ call'[c].noisy = call[c].noisy
        BY <1>ty, <1>13, <2>2 DEF ExpansionAsked, CallType
      <3>2. sm'.active = sm.active
        BY <1>13, <1>ac, <2>2 DEF ExpansionAsked
      <3> QED
        BY <1>in, <3>1, <3>2 DEF HandlerInv
    <2> QED
      BY <2>1, <2>2
  <1>14. CASE ExpansionAnswered(c)
    <2>1. CASE call[c].answer = "cancel" \/ cur \in aborted
      BY <1>14, <1>en, <1>te, <2>1 DEF ExpansionAnswered
    <2>2. CASE ~ (call[c].answer = "cancel" \/ cur \in aborted)
      <3>1. call'[c].pc = "tool" /\ call'[c].noisy = call[c].noisy
        BY <1>ty, <1>14, <2>2 DEF ExpansionAnswered, CallType
      <3> QED
        BY <1>14, <1>in, <1>ac, <1>ex, <2>2, <3>1 DEF ExpansionAnswered
    <2> QED
      BY <2>1, <2>2
  <1>15. CASE Output(c)
    <2>1. UNCHANGED call /\ call[c].pc = "tool" /\ sm'.active = sm.active
      BY <1>15, <1>in, <1>ac DEF Output
    <2> QED
      BY <1>in, <1>ex, <2>1
  <1> QED
    BY <1>1, <1>2, <1>3, <1>4, <1>5, <1>6, <1>7, <1>8, <1>9, <1>10, <1>11,
       <1>12, <1>13, <1>14, <1>15 DEF HandlerAction, CallStep

LEMMA HandlerReport ==
    ASSUME ReportInv, Background = {}, NEW c \in Call, HandlerAction(c)
    PROVE  LoopInv' /\ \A d \in Call : HandlerInv(d)'
  <1>1. /\ ~ At(c, "idle") /\ CallUnchanged
        /\ \A d \in Call \ {c} : call'[d] = call[d]
    BY HandlerAwaits
  <1>2. /\ c \in sm.active /\ cur # None
        /\ phase \in {"validating", "executing"}
    BY <1>1, Suspended
  <1>3. /\ Placed(sm', BatchSet(cur))
        /\ \/ sm'.active = sm.active /\ UNCHANGED spawned
           \/ sm'.active = sm.active \ {c} /\ spawned' = TRUE
        /\ \A d \in sm'.active \ {c} : sm'.status[d] = sm.status[d]
    BY <1>1, HandlerAwaits, EffectKeepsPlaces
  <1>4. LoopInv'
    BY <1>1, <1>2, <1>3 DEF LoopInv, CallUnchanged
  <1>5. ASSUME NEW d \in Call \ {c} PROVE HandlerInv(d)'
    <2>1. HandlerInv(d)
      BY DEF ReportInv
    <2>2. d \in sm'.active <=> d \in sm.active
      BY <1>3
    <2>3. call'[d] = call[d] /\ phase' = phase
      BY <1>1 DEF CallUnchanged
    <2> QED
      BY <1>3, <2>1, <2>2, <2>3 DEF HandlerInv, At
  <1> QED
    BY <1>4, <1>5, HandlerReturns

-----------------------------------------------------------------------------
(* The specification.                                                      *)

LEMMA ReportInit == Init => ReportInv
  <1> SUFFICES ASSUME Init PROVE ReportInv
    OBVIOUS
  <1>1. /\ sm.queue = << >> /\ sm.active = {}
        /\ phase = "idle" /\ cur = None /\ requestQueue = << >>
    BY DEF Init, Fresh
  <1>2. LoopInv
    BY <1>1 DEF LoopInv
  <1>3. \A c \in Call : call[c].pc = "idle" /\ ~ call[c].noisy
    BY DEF Init, NewCall
  <1>4. \A c \in Call : HandlerInv(c)
    BY <1>1, <1>3 DEF HandlerInv, At
  <1> QED
    BY <1>2, <1>4, TypeInit DEF ReportInv

LEMMA CancelAllReport ==
    ASSUME ReportInv, CancelAll
    PROVE  LoopInv' /\ \A c \in Call : HandlerInv(c)'
  <1> DEFINE s == UpdateAll(sm, Pending(sm), "cancelled")
  <1>1. /\ sm \in StateType /\ sm.active \subseteq Call
        /\ cur \in Batch \cup {None}
    BY DEF ReportInv, TypeOK, StateType
  <1>2. "cancelled" \in Status
    BY DEF Status
  <1>3. /\ s \in StateType
        /\ s.queue = sm.queue /\ s.active = sm.active
        /\ \A c \in sm.active :
              \/ s.status[c] = sm.status[c] /\ sm.status[c] \in Terminal
              \/ s.status[c] = "cancelled"
    <2>1. \A c \in sm.active \ Pending(sm) : sm.status[c] \in Terminal
      BY DEF Pending, Ended
    <2>2. \A c \in Pending(sm) : sm.status[c] # "error"
      BY DEF Pending, Ended, Terminal
    <2> QED
      BY <1>1, <1>2, <2>1, <2>2, UpdateAllType DEF UpdateAll, StateType, Pending
  <1>4. cur # None => Placed(s, BatchSet(cur))
    BY <1>1, <1>2, BatchSetType, UpdateAllPlaced DEF ReportInv, LoopInv
  <1> HIDE DEF s
  <1>5. /\ sm' = CancelAllQueued(s)
        /\ requestQueue' = << >>
        /\ UNCHANGED <<phase, cur, spawned, call>>
    BY DEF CancelAll, s
  <1>6. sm'.queue = << >> /\ sm'.active = sm.active
    BY <1>3, <1>5 DEF CancelAllQueued, StateType
  <1>7. cur # None => Placed(sm', BatchSet(cur))
    BY <1>1, <1>3, <1>4, <1>5, BatchSetType, CancelAllQueuedPlaced
  <1>8. LoopInv'
    BY <1>5, <1>6, <1>7 DEF ReportInv, LoopInv
  <1>9. ASSUME NEW c \in Call PROVE HandlerInv(c)'
    <2>1. HandlerInv(c)
      BY DEF ReportInv
    <2>2. CASE c \in sm.active
      <3>1. cur # None
        BY <2>2 DEF ReportInv, LoopInv
      <3>2. sm'.status[c] = s.status[c]
        BY <1>1, <1>3, <1>4, <1>5, <2>2, <3>1, BatchSetType,
           CancelAllQueuedPlaced
      <3>3. sm'.status[c] \in Terminal
        BY <1>3, <2>2, <3>2 DEF Terminal
      <3> QED
        BY <1>5, <1>6, <2>1, <3>3 DEF HandlerInv, At
    <2>3. CASE c \notin sm.active
      BY <1>5, <1>6, <2>1, <2>3 DEF HandlerInv, At
    <2> QED
      BY <2>2, <2>3
  <1> QED
    BY <1>8, <1>9

LEMMA ReportNext ==
    ASSUME Background = {}
    PROVE  ReportInv /\ [Next]_vars => ReportInv'
  <1> SUFFICES ASSUME ReportInv, [Next]_vars
               PROVE  LoopInv' /\ \A c \in Call : HandlerInv(c)'
    BY TypeNext DEF ReportInv
  <1>ty. /\ TypeOK /\ sm \in StateType
         /\ cur \in Batch \cup {None}
         /\ TypeOK'
    BY TypeNext DEF ReportInv, TypeOK
  \* Steps that leave the batch and the handlers alone.
  <1>un. ASSUME UNCHANGED <<sm, phase, cur, spawned, call>>,
                cur = None => requestQueue' = << >>
         PROVE  LoopInv' /\ \A c \in Call : HandlerInv(c)'
    <2>1. LoopInv'
      BY <1>un DEF ReportInv, LoopInv
    <2>2. \A c \in Call : HandlerInv(c)'
      BY <1>un DEF ReportInv, HandlerInv, At
    <2> QED
      BY <2>1, <2>2
  <1>1. CASE LoopTop
    <2>1. /\ cur' = cur /\ cur \in Batch
          /\ Placed(sm, BatchSet(cur)) /\ sm.active = {}
      BY <1>1, <1>ty DEF LoopTop, ReportInv, LoopInv
    <2>2. Iterate(sm, cur \in aborted \/ cancelling)
      BY <1>1 DEF LoopTop
    <2> QED
      BY <1>ty, <2>1, <2>2, IdleAndQuiet, IterateReport
  <1>2. CASE JoinValidation
    <2> DEFINE ready == {c \in sm.active : sm.status[c] = "scheduled"}
    <2>1. /\ phase = "validating" /\ AllIdle
          /\ UNCHANGED <<cur, spawned>>
          /\ \/ /\ ready # {}
                /\ phase' = "executing"
                /\ Execute(ready)
             \/ /\ ~ (ready # {} /\ sm.active \subseteq ready \cup Ended(sm))
                /\ EndIteration
      BY <1>2 DEF JoinValidation
    <2>2. \A c \in sm.active :
              sm.status[c] \in Terminal \cup {"scheduled"}
      BY <1>ty, <2>1 DEF ReportInv, HandlerInv, AllIdle, At, StateType
    <2>3. sm.active \subseteq ready \cup Ended(sm)
      BY <2>2 DEF Ended
    <2>4. CASE ready # {} /\ phase' = "executing" /\ Execute(ready)
      <3> HIDE DEF ready
      <3>1. ready = {c \in sm.active : sm.status[c] = "scheduled"}
        BY DEF ready
      <3> QED
        BY <2>1, <2>4, <3>1, ExecuteReport
    <2>5. CASE ready = {} /\ EndIteration
      <3>1. \A c \in sm.active : sm.status[c] \in Terminal
        BY <2>2, <2>5
      <3> QED
        BY <2>1, <2>5, <3>1, EndIterationReport
    <2> QED
      BY <2>1, <2>3, <2>4, <2>5
  <1>3. CASE JoinExecution
    <2>1. /\ phase = "executing" /\ AllIdle /\ EndIteration
          /\ UNCHANGED cur
      BY <1>3 DEF JoinExecution
    <2>2. \A c \in sm.active : sm.status[c] \in Terminal
      BY <1>ty, <2>1 DEF ReportInv, HandlerInv, AllIdle, At, StateType
    <2> QED
      BY <2>1, <2>2, EndIterationReport
  <1>4. CASE Finish
    <2>1. sm.queue = << >> /\ sm.active = {}
      BY <1>4 DEF Finish, ReportInv, LoopInv
    <2>2. CASE requestQueue # << >>
      <3>1. /\ Head(requestQueue) \in Batch
            /\ StartBatch(Head(requestQueue),
                          [request EXCEPT ![cur] = "resolved"])
        BY <1>4, <1>ty, <2>1, <2>2, HeadTailProperties
        DEF Finish, NextInRequestQueue, TypeOK
      <3> QED
        BY <2>1, <3>1, StartBatchReport
    <2>3. CASE requestQueue = << >>
      <3>1. /\ cur' = None /\ phase' = "idle" /\ requestQueue' = << >>
            /\ sm' = ClearBatch(sm) /\ UNCHANGED call
        BY <1>4, <2>3 DEF Finish, NextInRequestQueue
      <3>2. sm'.queue = << >> /\ sm'.active = {}
        BY <1>ty, <2>1, <3>1 DEF ClearBatch, StateType
      <3>3. LoopInv'
        BY <3>1, <3>2 DEF LoopInv
      <3>4. \A c \in Call : HandlerInv(c)'
        BY <2>1, <3>1, <3>2, IdleAndQuiet DEF HandlerInv, At
      <3> QED
        BY <3>3, <3>4
    <2> QED
      BY <2>2, <2>3
  <1>5. ASSUME NEW c \in Call,
               CallStep(c) \/ Output(c) \/ \E r \in Responses : Respond(c, r)
        PROVE  LoopInv' /\ \A d \in Call : HandlerInv(d)'
    BY <1>5, HandlerReport DEF HandlerAction
  <1>6. ASSUME NEW b \in Batch, Schedule(b)
        PROVE  LoopInv' /\ \A c \in Call : HandlerInv(c)'
    <2>1. cur = None => sm.queue = << >> /\ sm.active = {}
      BY DEF ReportInv, LoopInv
    <2>2. CASE cur = None
      BY <1>6, <2>1, <2>2, StartBatchReport DEF Schedule
    <2>3. CASE cur # None
      BY <1>6, <1>un, <2>3 DEF Schedule
    <2> QED
      BY <2>2, <2>3
  <1>7. ASSUME NEW b \in Batch, Abort(b)
        PROVE  LoopInv' /\ \A c \in Call : HandlerInv(c)'
    <2>1. cur = None => requestQueue = << >>
      BY DEF ReportInv, LoopInv
    <2>2. cur = None => requestQueue' = << >>
      BY <1>7, <2>1 DEF Abort
    <2> QED
      BY <1>7, <1>un, <2>2 DEF Abort
  <1>8. CASE CancelAll
    BY <1>8, CancelAllReport
  <1>9. CASE Done \/ UNCHANGED vars
    BY <1>9, <1>un DEF Done, vars, ReportInv, LoopInv
  <1> QED
    BY <1>1, <1>2, <1>3, <1>4, <1>5, <1>6, <1>7, <1>8, <1>9 DEF Next, Loop

LEMMA ReportSafety ==
    ASSUME Background = {}
    PROVE  Spec => []ReportInv
  BY ReportInit, ReportNext, PTL DEF Spec

\* Where no tool prints on after it returned, each schedule() resolves with
\* complete results: whatever is denied, refused, edited, aborted, cancelled
\* or tail-called, and whatever throws, every call of the batch ends and is
\* reported exactly once.
THEOREM ReportsAreComplete ==
    Background = {} => (Spec => []ReportIsComplete)
  <1>1. ASSUME NEW q, q = << >> PROVE ToSet(q) = {}
    BY <1>1 DEF ToSet
  <1>2. ReportInv => ReportIsComplete
    BY <1>1 DEF ReportInv, LoopInv, Placed, ReportIsComplete
  <1>3. ASSUME Background = {}
        PROVE  Spec => []ReportIsComplete
    BY <1>2, <1>3, ReportSafety, PTL
  <1> QED
    BY <1>3

\* Where no tool prints on after it returned, the scheduler between two
\* batches is as good as new: no request and no call is left behind.
THEOREM NothingIsStranded ==
    Background = {} => (Spec => []NothingStranded)
  <1>1. ReportInv => NothingStranded
    BY DEF ReportInv, LoopInv, NothingStranded
  <1>2. ASSUME Background = {}
        PROVE  Spec => []NothingStranded
    BY <1>1, <1>2, ReportSafety, PTL
  <1> QED
    BY <1>2

=============================================================================
