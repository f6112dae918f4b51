----------------------------- MODULE SchedulerProofs -----------------------------
(***************************************************************************)
(* Every method of the Scheduler preserves SchedulerSound, for every       *)
(* number of images, slots and threads, and whoever calls it; every thread *)
(* keeps to the rules the Scheduler relies on; hence what the Scheduler    *)
(* promises holds of the driver, and no wakeup of a waiting worker is      *)
(* lost.                                                                   *)
(***************************************************************************)
EXTENDS JpegDriverProperties, SequenceTheorems, FiniteSetTheorems, TLAPS

-----------------------------------------------------------------------------
(* Queues *)

(* The empty queue holds nothing, twice nothing. *)
LEMMA EmptyFacts ==
  /\ Range(<<>>) = {}
  /\ Distinct(<<>>)
  /\ \A S : <<>> \in Seq(S)
BY DEF Range, Distinct

(* An element of a queue's range is an element of the set it is over. *)
LEMMA RangeFacts ==
  ASSUME NEW S, NEW q \in Seq(S)
  PROVE  /\ Range(q) \subseteq S
         /\ q = <<>> <=> Range(q) = {}
<1>1. DOMAIN q = 1..Len(q) /\ Len(q) \in Nat /\ \A i \in 1..Len(q) : q[i] \in S
  BY LenProperties, ElementOfSeq
<1>2. Range(q) \subseteq S
  BY <1>1 DEF Range
<1>3. CASE q = <<>>
  BY <1>2, <1>3, EmptyFacts
<1>4. CASE q # <<>>
  <2>1. Len(q) \in Nat \ {0}
    BY <1>4, EmptySeq
  <2>2. 1 \in DOMAIN q
    BY <1>1, <2>1
  <2>3. q[1] \in Range(q)
    BY <2>2 DEF Range
  <2>4. QED
    BY <1>2, <1>4, <2>3
<1>5. QED
  BY <1>3, <1>4

(* pop() of a queue without repetitions takes its front out of it. *)
LEMMA PopFacts ==
  ASSUME NEW S, NEW q \in Seq(S), q # <<>>
  PROVE  /\ Head(q) \in S
         /\ Tail(q) \in Seq(S)
         /\ Len(Tail(q)) = Len(q) - 1
         /\ Range(q) = Range(Tail(q)) \union {Head(q)}
         /\ Distinct(q) => Distinct(Tail(q)) /\ Head(q) \notin Range(Tail(q))
<1>1. /\ DOMAIN q = 1..Len(q)
      /\ Len(q) \in Nat \ {0}
      /\ DOMAIN Tail(q) = 1..(Len(q) - 1)
      /\ Len(Tail(q)) = Len(q) - 1
      /\ \A i \in 1..(Len(q) - 1) : Tail(q)[i] = q[i + 1]
      /\ Head(q) = q[1] /\ Head(q) \in S /\ Tail(q) \in Seq(S)
  BY LenProperties, EmptySeq, HeadTailProperties
<1>2. Range(q) \subseteq Range(Tail(q)) \union {Head(q)}
  <2> SUFFICES ASSUME NEW i \in 1..Len(q)
               PROVE  q[i] \in Range(Tail(q)) \union {Head(q)}
    BY <1>1 DEF Range
  <2>1. CASE i = 1
    BY <2>1, <1>1
  <2>2. CASE i # 1
    <3>1. i - 1 \in 1..(Len(q) - 1) /\ Tail(q)[i - 1] = q[i]
      BY <2>2, <1>1
    <3>2. QED
      BY <3>1, <1>1 DEF Range
  <2>3. QED
    BY <2>1, <2>2
<1>3. Range(Tail(q)) \union {Head(q)} \subseteq Range(q)
  <2>1. \A i \in 1..(Len(q) - 1) : i + 1 \in 1..Len(q)
    BY <1>1
  <2>2. 1 \in 1..Len(q)
    BY <1>1
  <2>3. QED
    BY <2>1, <2>2, <1>1 DEF Range
<1>4. ASSUME Distinct(q)
      PROVE  Distinct(Tail(q)) /\ Head(q) \notin Range(Tail(q))
  <2>1. ASSUME NEW i \in 1..(Len(q) - 1), NEW j \in 1..(Len(q) - 1), i # j
        PROVE  Tail(q)[i] # Tail(q)[j]
    <3>1. i + 1 \in 1..Len(q) /\ j + 1 \in 1..Len(q) /\ i + 1 # j + 1
      BY <1>1, <2>1
    <3>2. QED
      BY <3>1, <1>1, <1>4 DEF Distinct
  <2>2. ASSUME NEW i \in 1..(Len(q) - 1)
        PROVE  Tail(q)[i] # Head(q)
    <3>1. i + 1 \in 1..Len(q) /\ 1 \in 1..Len(q) /\ i + 1 # 1
      BY <1>1
    <3>2. QED
      BY <3>1, <1>1, <1>4 DEF Distinct
  <2>3. QED
    BY <2>1, <2>2, <1>1 DEF Distinct, Range
<1>5. QED
  BY <1>1, <1>2, <1>3, <1>4

(* push() of something new keeps a queue without repetitions. *)
LEMMA PushFacts ==
  ASSUME NEW S, NEW q \in Seq(S), NEW e \in S
  PROVE  /\ Append(q, e) \in Seq(S)
         /\ Append(q, e) # <<>>
         /\ Len(Append(q, e)) = Len(q) + 1
         /\ Range(Append(q, e)) = Range(q) \union {e}
         /\ Distinct(q) /\ e \notin Range(q) => Distinct(Append(q, e))
<1> DEFINE a == Append(q, e)
<1>1. /\ DOMAIN q = 1..Len(q)
      /\ Len(q) \in Nat
      /\ a \in Seq(S) /\ a # <<>> /\ Len(a) = Len(q) + 1
      /\ DOMAIN a = 1..(Len(q) + 1)
      /\ \A i \in 1..Len(q) : a[i] = q[i]
      /\ a[Len(q) + 1] = e
  BY LenProperties, AppendProperties
<1>2. \A i \in 1..(Len(q) + 1) : i \in 1..Len(q) \/ i = Len(q) + 1
  BY <1>1
<1>3. \A i \in 1..Len(q) : i \in 1..(Len(q) + 1)
  BY <1>1
<1>4. Len(q) + 1 \in 1..(Len(q) + 1)
  BY <1>1
<1> HIDE DEF a
<1>5. Range(a) = Range(q) \union {e}
  BY <1>1, <1>2, <1>3, <1>4 DEF Range
<1>6. Distinct(q) /\ e \notin Range(q) => Distinct(a)
  BY <1>1, <1>2 DEF Range, Distinct
<1>7. QED
  BY <1>1, <1>5, <1>6 DEF a

(* An acquiring loop whose queue has no stale entry skips nothing. *)
LEMMA SkipToFresh ==
  ASSUME NEW S, NEW q \in Seq(S), NEW valid, Range(q) \subseteq valid
  PROVE  SkipTo(q, valid) = q
<1> DEFINE hits == {i \in DOMAIN q : q[i] \in valid}
<1>1. DOMAIN q = 1..Len(q) /\ Len(q) \in Nat
  BY LenProperties
<1>2. hits = 1..Len(q)
  BY <1>1 DEF Range
<1>3. CASE q = <<>>
  <2>1. hits = {}
    BY <1>2, <1>3, EmptySeq
  <2>2. QED
    BY <2>1, <1>3 DEF SkipTo
<1>4. CASE q # <<>>
  <2>1. Len(q) \in Nat \ {0}
    BY <1>4, EmptySeq
  <2> HIDE DEF hits
  <2>2. hits # {} /\ 1 \in hits /\ \A j \in hits : 1 <= j
    <3>1. 1 \in 1..Len(q) /\ \A j \in 1..Len(q) : 1 <= j
      BY <2>1
    <3>2. QED
      BY <3>1, <1>2
  <2>3. \A i \in hits : (\A j \in hits : i <= j) => i = 1
    BY <2>2, <1>2
  <2>4. (CHOOSE i \in hits : \A j \in hits : i <= j) = 1
    BY <2>2, <2>3
  <2>5. SkipTo(q, valid) = SubSeq(q, 1, Len(q))
    BY <2>2, <2>4 DEF SkipTo, hits
  <2>6. QED
    BY <2>5, SubSeqFull
<1>5. QED
  BY <1>3, <1>4

-----------------------------------------------------------------------------
(* Queues of tasks in a stage *)

(* A task outside the queue may change its stage. *)
LEMMA QueueKeeps ==
  ASSUME NEW q \in Seq(Tasks), NEW st, NEW f, NEW g,
         QueueOf(q, f, st),
         \A u \in Tasks : f[u] = st => g[u] = st
  PROVE  QueueOf(q, g, st)
BY RangeFacts DEF QueueOf

(* pop() leaves the queue with the tasks that stay in the stage. *)
LEMMA QueuePops ==
  ASSUME NEW q \in Seq(Tasks), q # <<>>, NEW st, NEW f, NEW g,
         QueueOf(q, f, st),
         \A u \in Tasks : f[u] = st /\ u # Head(q) => g[u] = st
  PROVE  /\ Tail(q) \in Seq(Tasks)
         /\ QueueOf(Tail(q), g, st)
         /\ Head(q) \in Tasks /\ f[Head(q)] = st
BY RangeFacts, PopFacts DEF QueueOf

(* push() of a task that enters the stage. *)
LEMMA QueuePushes ==
  ASSUME NEW q \in Seq(Tasks), NEW st, NEW f, NEW g, NEW t \in Tasks,
         QueueOf(q, f, st), f[t] # st, g[t] = st,
         \A u \in Tasks : f[u] = st => g[u] = st
  PROVE  /\ Append(q, t) \in Seq(Tasks)
         /\ QueueOf(Append(q, t), g, st)
BY RangeFacts, PushFacts DEF QueueOf

-----------------------------------------------------------------------------
(* Slot pools *)

(* A task takes the slot at the front of the free queue. *)
LEMMA SlotTaken ==
  ASSUME NEW slots, NoSlot \notin slots,
         NEW free \in Seq(slots), free # <<>>,
         NEW slot \in [Tasks -> slots \union {NoSlot}],
         Partitioned(slots, free, slot),
         NEW t \in Tasks, slot[t] = NoSlot,
         NEW next, next = [slot EXCEPT ![t] = Head(free)]
  PROVE  /\ Tail(free) \in Seq(slots)
         /\ Head(free) \in slots
         /\ next \in [Tasks -> slots \union {NoSlot}]
         /\ Partitioned(slots, Tail(free), next)
<1>1. /\ Head(free) \in slots
      /\ Tail(free) \in Seq(slots)
      /\ Range(free) = Range(Tail(free)) \union {Head(free)}
      /\ Distinct(Tail(free)) /\ Head(free) \notin Range(Tail(free))
  BY PopFacts DEF Partitioned
<1>2. /\ next[t] = Head(free)
      /\ \A u \in Tasks : u # t => next[u] = slot[u]
      /\ next \in [Tasks -> slots \union {NoSlot}]
  BY <1>1
<1>3. \A u, v \in Tasks : u # v /\ next[u] # NoSlot => next[u] # next[v]
  BY <1>1, <1>2 DEF Partitioned
<1>4. \A u \in Tasks : next[u] \notin Range(Tail(free))
  BY <1>1, <1>2 DEF Partitioned
<1>5. \A s \in slots : s \in Range(Tail(free)) \/ \E u \in Tasks : next[u] = s
  <2> SUFFICES ASSUME NEW s \in slots, s \notin Range(Tail(free))
               PROVE  \E u \in Tasks : next[u] = s
    OBVIOUS
  <2>1. CASE s = Head(free)
    BY <2>1, <1>2
  <2>2. CASE s # Head(free)
    <3>1. PICK u \in Tasks : slot[u] = s
      BY <2>2, <1>1 DEF Partitioned
    <3>2. u # t
      BY <3>1
    <3>3. QED
      BY <3>1, <3>2, <1>2
  <2>3. QED
    BY <2>1, <2>2
<1>6. QED
  BY <1>1, <1>2, <1>3, <1>4, <1>5 DEF Partitioned

(* A task gives its slot back. *)
LEMMA SlotReturned ==
  ASSUME NEW slots, NoSlot \notin slots,
         NEW free \in Seq(slots),
         NEW slot \in [Tasks -> slots \union {NoSlot}],
         Partitioned(slots, free, slot),
         NEW t \in Tasks, slot[t] # NoSlot,
         NEW next, next = [slot EXCEPT ![t] = NoSlot]
  PROVE  /\ slot[t] \in slots
         /\ Append(free, slot[t]) \in Seq(slots)
         /\ next \in [Tasks -> slots \union {NoSlot}]
         /\ Partitioned(slots, Append(free, slot[t]), next)
<1>1. slot[t] \in slots /\ slot[t] \notin Range(free)
  BY DEF Partitioned
<1>2. /\ Append(free, slot[t]) \in Seq(slots)
      /\ Range(Append(free, slot[t])) = Range(free) \union {slot[t]}
      /\ Distinct(Append(free, slot[t]))
  BY <1>1, PushFacts DEF Partitioned
<1>3. /\ next[t] = NoSlot
      /\ \A u \in Tasks : u # t => next[u] = slot[u]
      /\ next \in [Tasks -> slots \union {NoSlot}]
  OBVIOUS
<1>4. \A u, v \in Tasks : u # v /\ next[u] # NoSlot => next[u] # next[v]
  BY <1>1, <1>3 DEF Partitioned
<1>5. \A u \in Tasks : next[u] \notin Range(Append(free, slot[t]))
  <2> SUFFICES ASSUME NEW u \in Tasks, next[u] \in Range(free) \union {slot[t]}
               PROVE  FALSE
    BY <1>2
  <2>1. CASE u = t
    <3>1. Range(free) \subseteq slots
      BY RangeFacts
    <3>2. QED
      BY <2>1, <3>1, <1>1, <1>3
  <2>2. CASE u # t
    BY <2>2, <1>3 DEF Partitioned
  <2>3. QED
    BY <2>1, <2>2
<1>6. \A s \in slots : s \in Range(Append(free, slot[t])) \/ \E u \in Tasks : next[u] = s
  <2> SUFFICES ASSUME NEW s \in slots, s \notin Range(free), s # slot[t]
               PROVE  \E u \in Tasks : next[u] = s
    BY <1>2
  <2>1. PICK u \in Tasks : slot[u] = s
    BY DEF Partitioned
  <2>2. u # t
    BY <2>1
  <2>3. QED
    BY <2>1, <2>2, <1>3
<1>7. QED
  BY <1>1, <1>2, <1>3, <1>4, <1>5, <1>6 DEF Partitioned

(* No slot is the empty optional. *)
LEMMA SlotIdsAreSlots == NoSlot \notin SrcSlotIds /\ NoSlot \notin DstSlotIds
BY SchedulerAssumption DEF SrcSlotIds, DstSlotIds, NoSlot

-----------------------------------------------------------------------------
(* The loops of the Scheduler *)

(* No acquiring loop ever meets a stale entry. *)
LEMMA NothingStale ==
  ASSUME SchedulerTypeOK, StageSlots, QueuesFresh, ~failed
  PROVE  /\ PostQueue = ready_post
         /\ SwQueue = ready_sw_decode
         /\ HwQueue = ready_hw_submit
<1>1. Range(ready_post) \subseteq PostReady
  BY RangeFacts DEF SchedulerTypeOK, StageSlots, QueuesFresh, QueueOf, PostReady,
                    DstStages
<1>2. Range(ready_sw_decode) \subseteq SwReady
  BY RangeFacts DEF SchedulerTypeOK, StageSlots, QueuesFresh, QueueOf, SwReady,
                    SrcStages, DstStages
<1>3. Range(ready_hw_submit) \subseteq HwReady
  BY RangeFacts DEF SchedulerTypeOK, StageSlots, QueuesFresh, QueueOf, HwReady,
                    SrcStages
<1>4. QED
  BY <1>1, <1>2, <1>3, SkipToFresh DEF SchedulerTypeOK, PostQueue, SwQueue, HwQueue

(* AssignSwDecodeJobsLocked after CompletePostProcess: nobody waits, and the *)
(* slot goes to the pool.                                                    *)
LEMMA AssignsNothing ==
  ASSUME SchedulerTypeOK, waiting_sw_decode = <<>>,
         NEW s \in DstSlotIds, NEW t \in Tasks,
         AssignSwDecodeJobsLocked(Append(free_dst_slots, s), t)
  PROVE  NoAssignment(Append(free_dst_slots, s), t)
<1> DEFINE dst == Append(free_dst_slots, s)
<1>1. dst \in Seq(DstSlotIds) /\ Len(dst) \in Nat
  BY PushFacts, LenProperties DEF SchedulerTypeOK
<1>2. DOMAIN waiting_sw_decode = {} /\ Len(waiting_sw_decode) = 0
  <2>1. Len(<<>>) = 0 /\ DOMAIN <<>> = {}
    OBVIOUS
  <2>2. QED
    BY <2>1
<1> HIDE DEF dst
<1>3. Matched(dst) = {} /\ Popped(dst) = {}
  BY <1>2 DEF Matched, Popped, Assignable
<1>4. Cardinality(Matched(dst)) = 0 /\ Cardinality(Popped(dst)) = 0
  BY <1>3, FS_EmptySet
<1>5. stage' = [stage EXCEPT ![t] = "kDone"]
  BY <1>3 DEF AssignSwDecodeJobsLocked, dst, SchedulerTypeOK
<1>6. dst_slot' = [dst_slot EXCEPT ![t] = NoSlot]
  BY <1>3 DEF AssignSwDecodeJobsLocked, dst, SchedulerTypeOK
<1>7. free_dst_slots' = dst
  BY <1>1, <1>4, SubSeqFull DEF AssignSwDecodeJobsLocked, dst
<1>8. waiting_sw_decode' = waiting_sw_decode
  <2>1. waiting_sw_decode' = SubSeq(waiting_sw_decode, 0 + 1, Len(waiting_sw_decode))
    BY <1>4 DEF AssignSwDecodeJobsLocked, dst
  <2>2. waiting_sw_decode' = SubSeq(waiting_sw_decode, 1, Len(waiting_sw_decode))
    BY <2>1
  <2>3. waiting_sw_decode \in Seq(Tasks)
    BY DEF SchedulerTypeOK
  <2>4. QED
    BY <2>2, <2>3, SubSeqFull
<1>9. ready_sw_decode' = ready_sw_decode
  <2>1. ready_sw_decode' =
          ready_sw_decode \o [k \in 1..0 |-> waiting_sw_decode[MatchedAt(dst, k)]]
    BY <1>4 DEF AssignSwDecodeJobsLocked, dst
  <2>2. [k \in 1..0 |-> waiting_sw_decode[MatchedAt(dst, k)]] = <<>>
    OBVIOUS
  <2>3. QED
    BY <2>1, <2>2, ConcatEmptySeq DEF SchedulerTypeOK
<1>10. QED
  BY <1>5, <1>6, <1>7, <1>8, <1>9 DEF NoAssignment, dst

(* Or somebody waits, so that no slot was free, and the first in the queue   *)
(* gets the slot.                                                            *)
LEMMA AssignsOne ==
  ASSUME SchedulerTypeOK, StageSlots, QueuesFresh, NoIdleDestination, ~failed,
         waiting_sw_decode # <<>>,
         NEW s \in DstSlotIds, NEW t \in Tasks,
         AssignSwDecodeJobsLocked(Append(free_dst_slots, s), t)
  PROVE  LET h == Head(waiting_sw_decode)
         IN  /\ stage' = [u \in Tasks |-> IF u = t THEN "kDone"
                                          ELSE IF u = h THEN "kQueuedForSwDecode"
                                          ELSE stage[u]]
             /\ dst_slot' = [u \in Tasks |-> IF u = t THEN NoSlot
                                             ELSE IF u = h THEN s ELSE dst_slot[u]]
             /\ free_dst_slots' = <<>>
             /\ waiting_sw_decode' = Tail(waiting_sw_decode)
             /\ ready_sw_decode' = Append(ready_sw_decode, h)
<1> DEFINE dst == Append(free_dst_slots, s)
           n == Len(waiting_sw_decode)
           h == Head(waiting_sw_decode)
<1>1. free_dst_slots = <<>>
  BY DEF NoIdleDestination
<1>2. dst = <<s>> /\ Len(dst) = 1 /\ dst[1] = s /\ dst \in Seq(DstSlotIds)
  BY <1>1
<1>3. /\ n \in Nat \ {0}
      /\ DOMAIN waiting_sw_decode = 1..n
      /\ h = waiting_sw_decode[1] /\ h \in Tasks
  <2>1. waiting_sw_decode \in Seq(Tasks)
    BY DEF SchedulerTypeOK
  <2>2. n \in Nat \ {0} /\ DOMAIN waiting_sw_decode = 1..n
    BY <2>1, LenProperties, EmptySeq
  <2>3. h = waiting_sw_decode[1] /\ h \in Tasks
    BY <2>1, HeadTailProperties
  <2>4. QED
    BY <2>2, <2>3
<1> HIDE DEF dst, n, h
<1>4. Assignable = 1..n
  <2>1. \A i \in 1..n : waiting_sw_decode[i] \in Range(waiting_sw_decode)
    BY <1>3 DEF Range
  <2>2. \A u \in Range(waiting_sw_decode) :
          stage[u] = "kLoadedAwaitingDecode" /\ HasSrc(u)
    BY RangeFacts DEF SchedulerTypeOK, QueuesFresh, QueueOf, StageSlots, SrcStages
  <2>3. QED
    BY <1>3, <2>1, <2>2 DEF Assignable
<1>5. \A i \in 1..n : Turn(i) = i
  <2> SUFFICES ASSUME NEW i \in 1..n
               PROVE  Turn(i) = i
    OBVIOUS
  <2>1. {j \in Assignable : j <= i} = 1..i
    BY <1>3, <1>4
  <2>2. Cardinality(1..i) = i
    BY <1>3, FS_Interval
  <2>3. QED
    BY <2>1, <2>2 DEF Turn
<1>6. Matched(dst) = {1}
  <2>1. Matched(dst) = {i \in 1..n : i <= 1}
    BY <1>2, <1>4, <1>5 DEF Matched
  <2>2. QED
    BY <2>1, <1>3
<1>7. Popped(dst) = {1}
  <2>1. Cardinality(Assignable) = n
    BY <1>3, <1>4, FS_Interval
  <2>2. Popped(dst) = {i \in 1..n : i <= 1}
    BY <2>1, <1>2, <1>3, <1>6 DEF Popped
  <2>3. QED
    BY <2>2, <1>3
<1>8. Cardinality({1}) = 1
  BY FS_Singleton
<1>9. MatchedAt(dst, 1) = 1
  BY <1>3, <1>5, <1>6 DEF MatchedAt
<1>10. \A u \in Tasks : u \in {waiting_sw_decode[i] : i \in Matched(dst)} <=> u = h
  BY <1>3, <1>6
<1>11. stage' = [u \in Tasks |-> IF u = t THEN "kDone"
                                 ELSE IF u = h THEN "kQueuedForSwDecode" ELSE stage[u]]
  BY <1>10 DEF AssignSwDecodeJobsLocked, dst
<1>12. dst_slot' = [u \in Tasks |-> IF u = t THEN NoSlot
                                    ELSE IF u = h THEN s ELSE dst_slot[u]]
  <2>1. (CHOOSE i \in Matched(dst) : waiting_sw_decode[i] = h) = 1
    BY <1>3, <1>6
  <2>2. dst[Turn(CHOOSE i \in Matched(dst) : waiting_sw_decode[i] = h)] = s
    <3>1. 1 \in 1..n
      BY <1>3
    <3>2. QED
      BY <3>1, <2>1, <1>2, <1>5
  <2>3. QED
    BY <2>2, <1>10 DEF AssignSwDecodeJobsLocked, dst
<1>13. free_dst_slots' = <<>>
  <2>1. free_dst_slots' = SubSeq(dst, 1 + 1, 1)
    BY <1>2, <1>6, <1>8 DEF AssignSwDecodeJobsLocked, dst
  <2>2. QED
    BY <2>1, SubSeqEmpty
<1>14. waiting_sw_decode' = Tail(waiting_sw_decode)
  <2>1. waiting_sw_decode' = SubSeq(waiting_sw_decode, 1 + 1, Len(waiting_sw_decode))
    BY <1>7, <1>8 DEF AssignSwDecodeJobsLocked, dst
  <2>2. waiting_sw_decode' = SubSeq(waiting_sw_decode, 2, Len(waiting_sw_decode))
    BY <2>1
  <2>3. waiting_sw_decode \in Seq(Tasks)
    BY DEF SchedulerTypeOK
  <2>4. QED
    BY <2>2, <2>3, TailIsSubSeq
<1>15. ready_sw_decode' = Append(ready_sw_decode, h)
  <2>1. ready_sw_decode' =
          ready_sw_decode \o [k \in 1..1 |-> waiting_sw_decode[MatchedAt(dst, k)]]
    BY <1>6, <1>8 DEF AssignSwDecodeJobsLocked, dst
  <2>2. [k \in 1..1 |-> waiting_sw_decode[MatchedAt(dst, k)]] = <<h>>
    BY <1>3, <1>9
  <2>3. ready_sw_decode \o <<h>> = Append(ready_sw_decode, h)
    BY <1>3, AppendIsConcat DEF SchedulerTypeOK
  <2>4. QED
    BY <2>1, <2>2, <2>3
<1>16. QED
  BY <1>11, <1>12, <1>13, <1>14, <1>15 DEF h

-----------------------------------------------------------------------------
(* Facts that hold of the state before each method *)

(* What SchedulerSound says of the queues while nothing has failed. *)
LEMMA SoundQueues ==
  ASSUME SchedulerSound, ~failed
  PROVE  /\ QueueOf(ready_post, stage, "kDecoded")
         /\ QueueOf(waiting_sw_decode, stage, "kLoadedAwaitingDecode")
         /\ QueueOf(ready_sw_decode, stage, "kQueuedForSwDecode")
         /\ QueueOf(ready_hw_submit, stage, "kQueuedForHwSubmit")
         /\ PostQueue = ready_post
         /\ SwQueue = ready_sw_decode
         /\ HwQueue = ready_hw_submit
         /\ ready_post \in Seq(Tasks)
         /\ waiting_sw_decode \in Seq(Tasks)
         /\ ready_sw_decode \in Seq(Tasks)
         /\ ready_hw_submit \in Seq(Tasks)
         /\ stage \in [Tasks -> Stages]
<1>1. SchedulerTypeOK /\ StageSlots /\ QueuesFresh
  BY DEF SchedulerSound
<1>2. /\ PostQueue = ready_post
      /\ SwQueue = ready_sw_decode
      /\ HwQueue = ready_hw_submit
  BY <1>1, NothingStale
<1>3. QED
  BY <1>1, <1>2 DEF SchedulerTypeOK, QueuesFresh

(* A step that leaves the Scheduler alone. *)
LEMMA SoundStutter ==
  ASSUME SchedulerSound, UNCHANGED schedulerVars
  PROVE  SchedulerSound'
BY DEF schedulerVars, taskVars, queueVars, SchedulerSound, SchedulerTypeOK,
       SlotsConserved, StageSlots, QueuesFresh, NoIdleDestination,
       WaitingInSoftwareOnly, HasSrc, HasDst

(* The constructor. *)
LEMMA SoundInit ==
  ASSUME SchedulerInit
  PROVE  SchedulerSound
<1>1. SchedulerTypeOK
  <2>1. /\ free_src_slots \in Seq(SrcSlotIds)
        /\ free_dst_slots \in Seq(DstSlotIds)
    BY SchedulerAssumption DEF SchedulerInit, SrcSlotIds, DstSlotIds
  <2>2. \A S : <<>> \in Seq(S)
    BY EmptyFacts
  <2>3. next_load_index \in 0..NumTasks /\ num_done \in Nat
    BY SchedulerAssumption DEF SchedulerInit
  <2>4. QED
    BY <2>1, <2>2, <2>3 DEF SchedulerInit, SchedulerTypeOK, Stages
<1>2. Partitioned(SrcSlotIds, free_src_slots, src_slot)
  <2>1. /\ DOMAIN free_src_slots = 1..SrcSlots
        /\ \A i \in 1..SrcSlots : free_src_slots[i] = i - 1
        /\ \A t \in Tasks : src_slot[t] = NoSlot
        /\ SrcSlots \in Nat \ {0}
    BY SchedulerAssumption DEF SchedulerInit
  <2>2. Distinct(free_src_slots)
    BY <2>1 DEF Distinct
  <2>3. NoSlot \notin Range(free_src_slots)
    BY <2>1 DEF Range, NoSlot
  <2>4. ASSUME NEW s \in SrcSlotIds
        PROVE  s \in Range(free_src_slots)
    <3>1. s + 1 \in 1..SrcSlots /\ free_src_slots[s + 1] = s
      BY <2>1 DEF SrcSlotIds
    <3>2. QED
      BY <3>1, <2>1 DEF Range
  <2>5. QED
    BY <2>1, <2>2, <2>3, <2>4 DEF Partitioned
<1>3. Partitioned(DstSlotIds, free_dst_slots, dst_slot)
  <2>1. /\ DOMAIN free_dst_slots = 1..DstSlots
        /\ \A i \in 1..DstSlots : free_dst_slots[i] = i - 1
        /\ \A t \in Tasks : dst_slot[t] = NoSlot
        /\ DstSlots \in Nat \ {0}
    BY SchedulerAssumption DEF SchedulerInit
  <2>2. Distinct(free_dst_slots)
    BY <2>1 DEF Distinct
  <2>3. NoSlot \notin Range(free_dst_slots)
    BY <2>1 DEF Range, NoSlot
  <2>4. ASSUME NEW s \in DstSlotIds
        PROVE  s \in Range(free_dst_slots)
    <3>1. s + 1 \in 1..DstSlots /\ free_dst_slots[s + 1] = s
      BY <2>1 DEF DstSlotIds
    <3>2. QED
      BY <3>1, <2>1 DEF Range
  <2>5. QED
    BY <2>1, <2>2, <2>3, <2>4 DEF Partitioned
<1>4. StageSlots
  BY DEF SchedulerInit, StageSlots, HasSrc, HasDst, SrcStages, DstStages
<1>5. QueuesFresh
  BY EmptyFacts DEF SchedulerInit, QueuesFresh, QueueOf
<1>6. NoIdleDestination /\ WaitingInSoftwareOnly
  BY DEF SchedulerInit, NoIdleDestination, WaitingInSoftwareOnly
<1>7. QED
  BY <1>1, <1>2, <1>3, <1>4, <1>5, <1>6 DEF SchedulerSound, SlotsConserved

-----------------------------------------------------------------------------
(* AcquireCpuJob *)

LEMMA SoundAcquirePostProcess ==
  ASSUME SchedulerSound, NEW t \in Tasks, AcquirePostProcess(t)
  PROVE  SchedulerSound'
<1>1. /\ ~failed /\ ready_post # <<>>
      /\ t = Head(ready_post) /\ ready_post' = Tail(ready_post)
  BY SoundQueues DEF AcquirePostProcess, AcquireAllowed
<1>2. stage' = [stage EXCEPT ![t] = "kPostProcessing"]
  BY DEF AcquirePostProcess
<1>3. /\ Tail(ready_post) \in Seq(Tasks)
      /\ QueueOf(Tail(ready_post), stage', "kDecoded")
      /\ stage[t] = "kDecoded"
  BY <1>1, <1>2, SoundQueues, QueuePops
<1>4. SchedulerTypeOK'
  BY <1>1, <1>2, <1>3 DEF SchedulerSound, SchedulerTypeOK, AcquirePostProcess, Stages
<1>5. SlotsConserved'
  BY DEF SchedulerSound, SlotsConserved, AcquirePostProcess
<1>6. StageSlots'
  BY <1>1, <1>2, <1>3 DEF SchedulerSound, SchedulerTypeOK, StageSlots,
     AcquirePostProcess, HasSrc, HasDst, SrcStages, DstStages
<1>7. QueuesFresh'
  <2>1. /\ QueueOf(waiting_sw_decode, stage', "kLoadedAwaitingDecode")
        /\ QueueOf(ready_sw_decode, stage', "kQueuedForSwDecode")
        /\ QueueOf(ready_hw_submit, stage', "kQueuedForHwSubmit")
    BY <1>1, <1>2, <1>3, SoundQueues, QueueKeeps
  <2>2. QED
    BY <2>1, <1>1, <1>3 DEF QueuesFresh, AcquirePostProcess
<1>8. NoIdleDestination' /\ WaitingInSoftwareOnly'
  BY DEF SchedulerSound, NoIdleDestination, WaitingInSoftwareOnly, AcquirePostProcess
<1>9. QED
  BY <1>4, <1>5, <1>6, <1>7, <1>8 DEF SchedulerSound

LEMMA SoundAcquireSoftwareDecode ==
  ASSUME SchedulerSound, NEW t \in Tasks, AcquireSoftwareDecode(t)
  PROVE  SchedulerSound'
<1>1. /\ ~failed /\ ready_post = <<>> /\ ready_sw_decode # <<>>
      /\ t = Head(ready_sw_decode) /\ ready_sw_decode' = Tail(ready_sw_decode)
      /\ ready_post' = ready_post
  BY SoundQueues DEF AcquireSoftwareDecode, AcquireAllowed, SwJobPending
<1>2. stage' = [stage EXCEPT ![t] = "kSwDecoding"]
  BY DEF AcquireSoftwareDecode
<1>3. /\ Tail(ready_sw_decode) \in Seq(Tasks)
      /\ QueueOf(Tail(ready_sw_decode), stage', "kQueuedForSwDecode")
      /\ stage[t] = "kQueuedForSwDecode"
  BY <1>1, <1>2, SoundQueues, QueuePops
<1>4. SchedulerTypeOK'
  BY <1>1, <1>2, <1>3 DEF SchedulerSound, SchedulerTypeOK, AcquireSoftwareDecode, Stages
<1>5. SlotsConserved'
  BY DEF SchedulerSound, SlotsConserved, AcquireSoftwareDecode
<1>6. StageSlots'
  BY <1>1, <1>2, <1>3 DEF SchedulerSound, SchedulerTypeOK, StageSlots,
     AcquireSoftwareDecode, HasSrc, HasDst, SrcStages, DstStages
<1>7. QueuesFresh'
  <2>1. /\ QueueOf(ready_post, stage', "kDecoded")
        /\ QueueOf(waiting_sw_decode, stage', "kLoadedAwaitingDecode")
        /\ QueueOf(ready_hw_submit, stage', "kQueuedForHwSubmit")
    BY <1>1, <1>2, <1>3, SoundQueues, QueueKeeps
  <2>2. QED
    BY <2>1, <1>1, <1>3 DEF QueuesFresh, AcquireSoftwareDecode
<1>8. NoIdleDestination' /\ WaitingInSoftwareOnly'
  BY DEF SchedulerSound, NoIdleDestination, WaitingInSoftwareOnly, AcquireSoftwareDecode
<1>9. QED
  BY <1>4, <1>5, <1>6, <1>7, <1>8 DEF SchedulerSound

LEMMA SoundAcquireLoad ==
  ASSUME SchedulerSound, NEW t \in Tasks, AcquireLoad(t)
  PROVE  SchedulerSound'
<1>1. /\ ~failed /\ free_src_slots # <<>>
      /\ t = next_load_index /\ next_load_index < NumTasks
      /\ ready_post' = ready_post /\ ready_sw_decode' = ready_sw_decode
  BY SoundQueues DEF AcquireLoad, AcquireAllowed, CanLoad
<1>2. /\ stage' = [stage EXCEPT ![t] = "kLoading"]
      /\ src_slot' = [src_slot EXCEPT ![t] = Head(free_src_slots)]
      /\ free_src_slots' = Tail(free_src_slots)
      /\ next_load_index' = next_load_index + 1
  BY DEF AcquireLoad
<1>3. /\ stage \in [Tasks -> Stages]
      /\ src_slot \in [Tasks -> SrcSlotIds \union {NoSlot}]
      /\ free_src_slots \in Seq(SrcSlotIds)
      /\ next_load_index \in 0..NumTasks
      /\ NumTasks \in Nat
  <2>1. NumTasks \in Nat
    BY SchedulerAssumption
  <2>2. QED
    BY <2>1 DEF SchedulerSound, SchedulerTypeOK
<1>4. stage[t] = "kPendingLoad"
  <2>1. t >= next_load_index
    BY <1>1, <1>3
  <2>2. QED
    BY <2>1, <1>1 DEF SchedulerSound, StageSlots
<1>5. src_slot[t] = NoSlot
  BY <1>1, <1>4 DEF SchedulerSound, StageSlots, HasSrc, SrcStages
<1>6. /\ Tail(free_src_slots) \in Seq(SrcSlotIds)
      /\ Head(free_src_slots) \in SrcSlotIds
      /\ src_slot' \in [Tasks -> SrcSlotIds \union {NoSlot}]
      /\ Partitioned(SrcSlotIds, Tail(free_src_slots), src_slot')
  BY <1>1, <1>2, <1>3, <1>5, SlotTaken, SlotIdsAreSlots DEF SchedulerSound, SlotsConserved
<1>7. SchedulerTypeOK'
  <2>1. next_load_index' \in 0..NumTasks
    BY <1>1, <1>2, <1>3
  <2>2. stage' \in [Tasks -> Stages]
    BY <1>2, <1>3 DEF Stages
  <2>3. QED
    BY <2>1, <2>2, <1>1, <1>2, <1>6 DEF SchedulerSound, SchedulerTypeOK, AcquireLoad
<1>8. SlotsConserved'
  BY <1>2, <1>6 DEF SchedulerSound, SlotsConserved, AcquireLoad
<1>9. StageSlots'
  <2> SUFFICES ASSUME NEW u \in Tasks
               PROVE  (/\ HasSrc(u) <=> stage[u] \in SrcStages
                       /\ HasDst(u) <=> stage[u] \in DstStages
                       /\ stage[u] # "kFailed"
                       /\ u >= next_load_index => stage[u] = "kPendingLoad")'
    BY DEF StageSlots
  <2>1. CASE u = t
    <3>1. ~(u >= next_load_index + 1)
      BY <2>1, <1>1, <1>3
    <3>2. src_slot'[u] # NoSlot /\ stage'[u] = "kLoading"
      BY <2>1, <1>2, <1>3, <1>6, SlotIdsAreSlots
    <3>3. dst_slot'[u] = NoSlot
      BY <2>1, <1>1, <1>4 DEF SchedulerSound, StageSlots, HasDst, DstStages, AcquireLoad
    <3>4. QED
      BY <3>1, <3>2, <3>3, <1>2 DEF HasSrc, HasDst, SrcStages, DstStages
  <2>2. CASE u # t
    <3>1. u >= next_load_index + 1 => u >= next_load_index
      BY <1>3 DEF Tasks
    <3>2. stage'[u] = stage[u] /\ src_slot'[u] = src_slot[u] /\ dst_slot' = dst_slot
      BY <2>2, <1>2, <1>3 DEF AcquireLoad
    <3>3. QED
      BY <3>1, <3>2, <1>1, <1>2 DEF SchedulerSound, StageSlots, HasSrc, HasDst
  <2>3. QED
    BY <2>1, <2>2
<1>10. QueuesFresh'
  <2>1. /\ QueueOf(ready_post, stage', "kDecoded")
        /\ QueueOf(waiting_sw_decode, stage', "kLoadedAwaitingDecode")
        /\ QueueOf(ready_sw_decode, stage', "kQueuedForSwDecode")
        /\ QueueOf(ready_hw_submit, stage', "kQueuedForHwSubmit")
    BY <1>1, <1>2, <1>4, SoundQueues, QueueKeeps
  <2>2. QED
    BY <2>1, <1>1 DEF QueuesFresh, AcquireLoad
<1>11. NoIdleDestination' /\ WaitingInSoftwareOnly'
  BY DEF SchedulerSound, NoIdleDestination, WaitingInSoftwareOnly, AcquireLoad
<1>12. QED
  BY <1>7, <1>8, <1>9, <1>10, <1>11 DEF SchedulerSound

LEMMA SoundAcquireWait ==
  ASSUME SchedulerSound, NEW w, AcquireWait(w)
  PROVE  SchedulerSound'
<1>1. ready_post' = ready_post /\ ready_sw_decode' = ready_sw_decode
  BY SoundQueues DEF AcquireWait, AcquireAllowed
<1>2. UNCHANGED schedulerVars
  BY <1>1 DEF AcquireWait, schedulerVars, taskVars, queueVars
<1>3. QED
  BY <1>2, SoundStutter

-----------------------------------------------------------------------------
(* TryAcquireHardwareSubmitTask *)

LEMMA SoundAcquireHardwareSubmit ==
  ASSUME SchedulerSound, NEW t \in Tasks, AcquireHardwareSubmit(t)
  PROVE  SchedulerSound'
<1>1. /\ ~failed /\ ready_hw_submit # <<>> /\ free_dst_slots # <<>>
      /\ t = Head(ready_hw_submit) /\ ready_hw_submit' = Tail(ready_hw_submit)
  BY SoundQueues DEF AcquireHardwareSubmit, HwSubmitPossible
<1>2. /\ stage' = [stage EXCEPT ![t] = "kHwSubmitting"]
      /\ dst_slot' = [dst_slot EXCEPT ![t] = Head(free_dst_slots)]
      /\ free_dst_slots' = Tail(free_dst_slots)
  BY DEF AcquireHardwareSubmit
<1>3. /\ stage \in [Tasks -> Stages]
      /\ dst_slot \in [Tasks -> DstSlotIds \union {NoSlot}]
      /\ free_dst_slots \in Seq(DstSlotIds)
  BY DEF SchedulerSound, SchedulerTypeOK
<1>4. /\ Tail(ready_hw_submit) \in Seq(Tasks)
      /\ QueueOf(Tail(ready_hw_submit), stage', "kQueuedForHwSubmit")
      /\ stage[t] = "kQueuedForHwSubmit"
  BY <1>1, <1>2, SoundQueues, QueuePops
<1>5. dst_slot[t] = NoSlot
  BY <1>1, <1>4 DEF SchedulerSound, StageSlots, HasDst, DstStages
<1>6. /\ Tail(free_dst_slots) \in Seq(DstSlotIds)
      /\ Head(free_dst_slots) \in DstSlotIds
      /\ dst_slot' \in [Tasks -> DstSlotIds \union {NoSlot}]
      /\ Partitioned(DstSlotIds, Tail(free_dst_slots), dst_slot')
  BY <1>1, <1>2, <1>3, <1>5, SlotTaken, SlotIdsAreSlots DEF SchedulerSound, SlotsConserved
<1>7. SchedulerTypeOK'
  <2>1. stage' \in [Tasks -> Stages]
    BY <1>2, <1>3 DEF Stages
  <2>2. QED
    BY <2>1, <1>1, <1>2, <1>4, <1>6
       DEF SchedulerSound, SchedulerTypeOK, AcquireHardwareSubmit
<1>8. SlotsConserved'
  BY <1>2, <1>6 DEF SchedulerSound, SlotsConserved, AcquireHardwareSubmit
<1>9. StageSlots'
  <2>1. dst_slot'[t] # NoSlot /\ stage'[t] = "kHwSubmitting"
    BY <1>2, <1>3, <1>6, SlotIdsAreSlots
  <2>2. \A u \in Tasks : u # t => stage'[u] = stage[u] /\ dst_slot'[u] = dst_slot[u]
    BY <1>2, <1>3
  <2>3. src_slot' = src_slot /\ next_load_index' = next_load_index
    BY DEF AcquireHardwareSubmit
  <2>4. QED
    BY <2>1, <2>2, <2>3, <1>1, <1>4
       DEF SchedulerSound, StageSlots, HasSrc, HasDst, SrcStages, DstStages
<1>10. QueuesFresh'
  <2>1. /\ QueueOf(ready_post, stage', "kDecoded")
        /\ QueueOf(waiting_sw_decode, stage', "kLoadedAwaitingDecode")
        /\ QueueOf(ready_sw_decode, stage', "kQueuedForSwDecode")
    BY <1>1, <1>2, <1>4, SoundQueues, QueueKeeps
  <2>2. QED
    BY <2>1, <1>1, <1>4 DEF QueuesFresh, AcquireHardwareSubmit
<1>11. NoIdleDestination' /\ WaitingInSoftwareOnly'
  BY <1>1 DEF SchedulerSound, NoIdleDestination, WaitingInSoftwareOnly,
              AcquireHardwareSubmit
<1>12. QED
  BY <1>7, <1>8, <1>9, <1>10, <1>11 DEF SchedulerSound

LEMMA SoundAcquireNoHardwareSubmit ==
  ASSUME SchedulerSound, AcquireNoHardwareSubmit
  PROVE  SchedulerSound'
<1>1. ready_hw_submit' = ready_hw_submit
  <2>1. CASE failed \/ free_dst_slots = <<>>
    BY <2>1 DEF AcquireNoHardwareSubmit
  <2>2. CASE ~failed /\ free_dst_slots # <<>>
    <3>1. ready_hw_submit = <<>> /\ ready_hw_submit' = <<>>
      BY <2>2, SoundQueues DEF AcquireNoHardwareSubmit, HwSubmitPossible
    <3>2. QED
      BY <3>1
  <2>3. QED
    BY <2>1, <2>2
<1>2. UNCHANGED schedulerVars
  BY <1>1 DEF AcquireNoHardwareSubmit, schedulerVars, taskVars, queueVars
<1>3. QED
  BY <1>2, SoundStutter

-----------------------------------------------------------------------------
(* The completions *)

LEMMA SoundRejected ==
  ASSUME SchedulerSound, Rejected
  PROVE  SchedulerSound'
BY DEF Rejected, taskVars, queueVars, SchedulerSound, SchedulerTypeOK,
       SlotsConserved, StageSlots, QueuesFresh, NoIdleDestination,
       WaitingInSoftwareOnly

LEMMA SoundIgnored ==
  ASSUME SchedulerSound, Ignored
  PROVE  SchedulerSound'
BY SoundStutter DEF Ignored

(* CompleteLoad of a task that waits, for the manager or for a slot. *)
LEMMA SoundLoadQueued ==
  ASSUME SchedulerSound, ~failed, NEW t \in Tasks, stage[t] = "kLoading",
         LoadCompleted(t),
         stage' # [stage EXCEPT ![t] = "kQueuedForSwDecode"]
  PROVE  SchedulerSound'
<1>1. \/ /\ Mode = "hw"
         /\ stage' = [stage EXCEPT ![t] = "kQueuedForHwSubmit"]
         /\ ready_hw_submit' = Append(ready_hw_submit, t)
         /\ waiting_sw_decode' = waiting_sw_decode
      \/ /\ Mode = "sw" /\ free_dst_slots = <<>>
         /\ stage' = [stage EXCEPT ![t] = "kLoadedAwaitingDecode"]
         /\ waiting_sw_decode' = Append(waiting_sw_decode, t)
         /\ ready_hw_submit' = ready_hw_submit
  <2>1. CASE Mode = "hw"
    <3>1. StageAfterLoad = "kQueuedForHwSubmit"
      BY <2>1 DEF StageAfterLoad
    <3>2. QED
      BY <2>1, <3>1 DEF LoadCompleted
  <2>2. CASE Mode = "sw" /\ free_dst_slots # <<>>
    <3>1. StageAfterLoad = "kQueuedForSwDecode"
      BY <2>2 DEF StageAfterLoad
    <3>2. QED
      BY <3>1 DEF LoadCompleted
  <2>3. CASE Mode = "sw" /\ free_dst_slots = <<>>
    <3>1. StageAfterLoad = "kLoadedAwaitingDecode"
      BY <2>3 DEF StageAfterLoad
    <3>2. QED
      BY <2>3, <3>1 DEF LoadCompleted
  <2>4. \/ Mode = "hw"
        \/ Mode = "sw" /\ free_dst_slots # <<>>
        \/ Mode = "sw" /\ free_dst_slots = <<>>
    BY SchedulerAssumption
  <2>5. QED
    BY <2>1, <2>2, <2>3, <2>4
<1>2. UNCHANGED <<src_slot, dst_slot, next_load_index, num_done, free_src_slots,
                  free_dst_slots, ready_post, ready_sw_decode, failed,
                  failure_message>>
  <2>1. CASE Mode = "hw"
    <3>1. StageAfterLoad = "kQueuedForHwSubmit"
      BY <2>1 DEF StageAfterLoad
    <3>2. QED
      BY <3>1 DEF LoadCompleted
  <2>2. CASE Mode = "sw" /\ free_dst_slots = <<>>
    <3>1. StageAfterLoad = "kLoadedAwaitingDecode"
      BY <2>2 DEF StageAfterLoad
    <3>2. QED
      BY <3>1 DEF LoadCompleted
  <2>3. QED
    BY <1>1, <2>1, <2>2
<1>3. stage \in [Tasks -> Stages]
  BY SoundQueues
<1>4. /\ QueueOf(ready_post, stage', "kDecoded")
      /\ QueueOf(waiting_sw_decode', stage', "kLoadedAwaitingDecode")
      /\ QueueOf(ready_sw_decode, stage', "kQueuedForSwDecode")
      /\ QueueOf(ready_hw_submit', stage', "kQueuedForHwSubmit")
      /\ waiting_sw_decode' \in Seq(Tasks)
      /\ ready_hw_submit' \in Seq(Tasks)
  <2>1. QueueOf(ready_post, stage', "kDecoded")
    BY <1>1, <1>3, SoundQueues, QueueKeeps
  <2>2. QueueOf(ready_sw_decode, stage', "kQueuedForSwDecode")
    BY <1>1, <1>3, SoundQueues, QueueKeeps
  <2>3. CASE Mode = "hw"
    <3>1. /\ stage' = [stage EXCEPT ![t] = "kQueuedForHwSubmit"]
          /\ ready_hw_submit' = Append(ready_hw_submit, t)
          /\ waiting_sw_decode' = waiting_sw_decode
      BY <2>3, <1>1
    <3>2. /\ QueueOf(ready_hw_submit', stage', "kQueuedForHwSubmit")
          /\ ready_hw_submit' \in Seq(Tasks)
      <4>1. /\ stage[t] # "kQueuedForHwSubmit" /\ stage'[t] = "kQueuedForHwSubmit"
            /\ \A u \in Tasks : stage[u] = "kQueuedForHwSubmit" =>
                               stage'[u] = "kQueuedForHwSubmit"
        BY <3>1, <1>3
      <4>2. QueueOf(ready_hw_submit, stage, "kQueuedForHwSubmit") /\ ready_hw_submit \in Seq(Tasks)
        BY SoundQueues
      <4>3. /\ QueueOf(Append(ready_hw_submit, t), stage', "kQueuedForHwSubmit")
            /\ Append(ready_hw_submit, t) \in Seq(Tasks)
        BY <4>1, <4>2, QueuePushes
      <4>4. QED
        BY <4>3, <3>1
    <3>3. QueueOf(waiting_sw_decode, stage', "kLoadedAwaitingDecode")
      BY <3>1, <1>3, SoundQueues, QueueKeeps
    <3>4. QED
      BY <2>1, <2>2, <3>1, <3>2, <3>3, SoundQueues
  <2>4. CASE Mode = "sw"
    <3>1. /\ stage' = [stage EXCEPT ![t] = "kLoadedAwaitingDecode"]
          /\ waiting_sw_decode' = Append(waiting_sw_decode, t)
          /\ ready_hw_submit' = ready_hw_submit
      BY <2>4, <1>1
    <3>2. /\ QueueOf(waiting_sw_decode', stage', "kLoadedAwaitingDecode")
          /\ waiting_sw_decode' \in Seq(Tasks)
      <4>1. /\ stage[t] # "kLoadedAwaitingDecode" /\ stage'[t] = "kLoadedAwaitingDecode"
            /\ \A u \in Tasks : stage[u] = "kLoadedAwaitingDecode" =>
                               stage'[u] = "kLoadedAwaitingDecode"
        BY <3>1, <1>3
      <4>2. QueueOf(waiting_sw_decode, stage, "kLoadedAwaitingDecode") /\ waiting_sw_decode \in Seq(Tasks)
        BY SoundQueues
      <4>3. /\ QueueOf(Append(waiting_sw_decode, t), stage', "kLoadedAwaitingDecode")
            /\ Append(waiting_sw_decode, t) \in Seq(Tasks)
        BY <4>1, <4>2, QueuePushes
      <4>4. QED
        BY <4>3, <3>1
    <3>3. QueueOf(ready_hw_submit, stage', "kQueuedForHwSubmit")
      BY <3>1, <1>3, SoundQueues, QueueKeeps
    <3>4. QED
      BY <2>1, <2>2, <3>1, <3>2, <3>3, SoundQueues
  <2>5. QED
    BY <2>3, <2>4, SchedulerAssumption
<1>5. SchedulerTypeOK'
  BY <1>1, <1>2, <1>3, <1>4 DEF SchedulerSound, SchedulerTypeOK, Stages
<1>6. SlotsConserved'
  BY <1>2 DEF SchedulerSound, SlotsConserved
<1>7. StageSlots'
  BY <1>1, <1>2, <1>3 DEF SchedulerSound, StageSlots, HasSrc, HasDst, SrcStages, DstStages
<1>8. QueuesFresh'
  BY <1>2, <1>4 DEF QueuesFresh
<1>9. NoIdleDestination' /\ WaitingInSoftwareOnly'
  BY <1>1, <1>2 DEF SchedulerSound, NoIdleDestination, WaitingInSoftwareOnly
<1>10. QED
  BY <1>5, <1>6, <1>7, <1>8, <1>9 DEF SchedulerSound

(* CompleteLoad of a software task that gets a destination slot at once. *)
LEMMA SoundLoadAssigned ==
  ASSUME SchedulerSound, ~failed, NEW t \in Tasks, stage[t] = "kLoading",
         LoadCompleted(t),
         stage' = [stage EXCEPT ![t] = "kQueuedForSwDecode"]
  PROVE  SchedulerSound'
<1>1. /\ stage \in [Tasks -> Stages]
      /\ dst_slot \in [Tasks -> DstSlotIds \union {NoSlot}]
      /\ free_dst_slots \in Seq(DstSlotIds)
  BY DEF SchedulerSound, SchedulerTypeOK
<1>2. stage'[t] = "kQueuedForSwDecode"
  BY <1>1
<1>3. /\ Mode = "sw" /\ free_dst_slots # <<>>
      /\ dst_slot' = [dst_slot EXCEPT ![t] = Head(free_dst_slots)]
      /\ free_dst_slots' = Tail(free_dst_slots)
      /\ ready_sw_decode' = Append(ready_sw_decode, t)
      /\ UNCHANGED <<src_slot, next_load_index, num_done, free_src_slots,
                     ready_post, ready_hw_submit, waiting_sw_decode, failed,
                     failure_message>>
  <2>1. StageAfterLoad = "kQueuedForSwDecode"
    BY <1>1, <1>2 DEF LoadCompleted
  <2>2. Mode = "sw" /\ free_dst_slots # <<>>
    BY <2>1, SchedulerAssumption DEF StageAfterLoad
  <2>3. QED
    BY <2>1, <2>2 DEF LoadCompleted
<1>4. dst_slot[t] = NoSlot
  BY DEF SchedulerSound, StageSlots, HasDst, DstStages
<1>5. /\ Tail(free_dst_slots) \in Seq(DstSlotIds)
      /\ Head(free_dst_slots) \in DstSlotIds
      /\ dst_slot' \in [Tasks -> DstSlotIds \union {NoSlot}]
      /\ Partitioned(DstSlotIds, Tail(free_dst_slots), dst_slot')
  BY <1>1, <1>3, <1>4, SlotTaken, SlotIdsAreSlots DEF SchedulerSound, SlotsConserved
<1>6. /\ QueueOf(ready_sw_decode', stage', "kQueuedForSwDecode")
      /\ ready_sw_decode' \in Seq(Tasks)
  <2>1. /\ QueueOf(ready_sw_decode, stage, "kQueuedForSwDecode")
        /\ ready_sw_decode \in Seq(Tasks)
    BY SoundQueues
  <2>2. /\ stage[t] # "kQueuedForSwDecode"
        /\ \A u \in Tasks : stage[u] = "kQueuedForSwDecode" =>
                           stage'[u] = "kQueuedForSwDecode"
    BY <1>1, <1>2
  <2>3. ASSUME NEW g, g[t] = "kQueuedForSwDecode",
               \A u \in Tasks : stage[u] = "kQueuedForSwDecode" =>
                               g[u] = "kQueuedForSwDecode"
        PROVE  /\ QueueOf(Append(ready_sw_decode, t), g, "kQueuedForSwDecode")
               /\ Append(ready_sw_decode, t) \in Seq(Tasks)
    BY <2>1, <2>2, <2>3, QueuePushes
  <2>4. QED
    BY <1>2, <1>3, <2>2, <2>3
<1>7. SchedulerTypeOK'
  <2>1. stage' \in [Tasks -> Stages]
    BY <1>1 DEF Stages
  <2>2. QED
    BY <2>1, <1>3, <1>5, <1>6 DEF SchedulerSound, SchedulerTypeOK
<1>8. SlotsConserved'
  BY <1>3, <1>5 DEF SchedulerSound, SlotsConserved
<1>9. StageSlots'
  <2>1. dst_slot'[t] # NoSlot
    BY <1>1, <1>3, <1>5, SlotIdsAreSlots
  <2>2. \A u \in Tasks : u # t => stage'[u] = stage[u] /\ dst_slot'[u] = dst_slot[u]
    BY <1>1, <1>3
  <2>3. QED
    BY <2>1, <2>2, <1>2, <1>3
       DEF SchedulerSound, StageSlots, HasSrc, HasDst, SrcStages, DstStages
<1>10. QueuesFresh'
  <2>1. /\ QueueOf(ready_post, stage', "kDecoded")
        /\ QueueOf(waiting_sw_decode, stage', "kLoadedAwaitingDecode")
        /\ QueueOf(ready_hw_submit, stage', "kQueuedForHwSubmit")
    BY <1>1, SoundQueues, QueueKeeps
  <2>2. QED
    BY <2>1, <1>3, <1>6 DEF QueuesFresh
<1>11. NoIdleDestination' /\ WaitingInSoftwareOnly'
  BY <1>3 DEF SchedulerSound, NoIdleDestination, WaitingInSoftwareOnly
<1>12. QED
  BY <1>7, <1>8, <1>9, <1>10, <1>11 DEF SchedulerSound

LEMMA SoundCompleteLoad ==
  ASSUME SchedulerSound, NEW t \in Tasks, CompleteLoad(t)
  PROVE  SchedulerSound'
<1>1. CASE Ignored
  BY <1>1, SoundIgnored
<1>2. CASE Rejected
  BY <1>2, SoundRejected
<1>3. CASE ~failed /\ stage[t] = "kLoading" /\ LoadCompleted(t)
  BY <1>3, SoundLoadQueued, SoundLoadAssigned
<1>4. QED
  BY <1>1, <1>2, <1>3 DEF CompleteLoad

(* CompleteSoftwareDecode and CompleteHardwareDecode of a task at work. *)
LEMMA SoundDecodeCompleted ==
  ASSUME SchedulerSound, ~failed, NEW t \in Tasks,
         stage[t] \in {"kSwDecoding", "kHwInflight"},
         DecodeCompleted(t)
  PROVE  SchedulerSound'
<1>1. /\ stage \in [Tasks -> Stages]
      /\ src_slot \in [Tasks -> SrcSlotIds \union {NoSlot}]
      /\ free_src_slots \in Seq(SrcSlotIds)
  BY DEF SchedulerSound, SchedulerTypeOK
<1>2. /\ free_src_slots' = Append(free_src_slots, src_slot[t])
      /\ src_slot' = [src_slot EXCEPT ![t] = NoSlot]
      /\ stage' = [stage EXCEPT ![t] = "kDecoded"]
      /\ ready_post' = Append(ready_post, t)
      /\ UNCHANGED <<dst_slot, next_load_index, num_done, free_dst_slots,
                     waiting_sw_decode, ready_sw_decode, ready_hw_submit, failed,
                     failure_message>>
  BY DEF DecodeCompleted
<1>3. src_slot[t] # NoSlot /\ stage'[t] = "kDecoded"
  BY <1>1, <1>2 DEF SchedulerSound, StageSlots, HasSrc, SrcStages
<1>4. /\ Append(free_src_slots, src_slot[t]) \in Seq(SrcSlotIds)
      /\ src_slot' \in [Tasks -> SrcSlotIds \union {NoSlot}]
      /\ Partitioned(SrcSlotIds, Append(free_src_slots, src_slot[t]), src_slot')
  BY <1>1, <1>2, <1>3, SlotReturned, SlotIdsAreSlots DEF SchedulerSound, SlotsConserved
<1>5. /\ QueueOf(ready_post', stage', "kDecoded")
      /\ ready_post' \in Seq(Tasks)
  <2>1. /\ stage[t] # "kDecoded"
        /\ \A u \in Tasks : stage[u] = "kDecoded" => stage'[u] = "kDecoded"
    BY <1>1, <1>2
  <2>2. QueueOf(ready_post, stage, "kDecoded") /\ ready_post \in Seq(Tasks)
    BY SoundQueues
  <2>3. /\ QueueOf(Append(ready_post, t), stage', "kDecoded")
        /\ Append(ready_post, t) \in Seq(Tasks)
    BY <2>1, <2>2, <1>3, QueuePushes
  <2>4. QED
    BY <2>3, <1>2
<1>6. SchedulerTypeOK'
  <2>1. stage' \in [Tasks -> Stages]
    BY <1>1, <1>2 DEF Stages
  <2>2. QED
    BY <2>1, <1>2, <1>4, <1>5 DEF SchedulerSound, SchedulerTypeOK
<1>7. SlotsConserved'
  BY <1>2, <1>4 DEF SchedulerSound, SlotsConserved
<1>8. StageSlots'
  <2>1. src_slot'[t] = NoSlot
    BY <1>1, <1>2
  <2>2. \A u \in Tasks : u # t => stage'[u] = stage[u] /\ src_slot'[u] = src_slot[u]
    BY <1>1, <1>2
  <2>3. QED
    BY <2>1, <2>2, <1>2, <1>3
       DEF SchedulerSound, StageSlots, HasSrc, HasDst, SrcStages, DstStages
<1>9. QueuesFresh'
  <2>1. /\ QueueOf(waiting_sw_decode, stage', "kLoadedAwaitingDecode")
        /\ QueueOf(ready_sw_decode, stage', "kQueuedForSwDecode")
        /\ QueueOf(ready_hw_submit, stage', "kQueuedForHwSubmit")
    BY <1>1, <1>2, SoundQueues, QueueKeeps
  <2>2. QED
    BY <2>1, <1>2, <1>5 DEF QueuesFresh
<1>10. NoIdleDestination' /\ WaitingInSoftwareOnly'
  BY <1>2 DEF SchedulerSound, NoIdleDestination, WaitingInSoftwareOnly
<1>11. QED
  BY <1>6, <1>7, <1>8, <1>9, <1>10 DEF SchedulerSound

LEMMA SoundCompleteDecode ==
  ASSUME SchedulerSound, NEW t \in Tasks,
         CompleteSoftwareDecode(t) \/ CompleteHardwareDecode(t)
  PROVE  SchedulerSound'
<1>1. CASE Ignored
  BY <1>1, SoundIgnored
<1>2. CASE Rejected
  BY <1>2, SoundRejected
<1>3. CASE /\ ~failed
           /\ stage[t] \in {"kSwDecoding", "kHwInflight"}
           /\ DecodeCompleted(t)
  BY <1>3, SoundDecodeCompleted
<1>4. QED
  BY <1>1, <1>2, <1>3 DEF CompleteSoftwareDecode, CompleteHardwareDecode, DecodeEnds

LEMMA SoundCompleteHardwareSubmit ==
  ASSUME SchedulerSound, NEW t \in Tasks, CompleteHardwareSubmit(t)
  PROVE  SchedulerSound'
<1>1. CASE Ignored
  BY <1>1, SoundIgnored
<1>2. CASE Rejected
  BY <1>2, SoundRejected
<1>3. CASE /\ ~failed /\ stage[t] = "kHwSubmitting"
           /\ stage' = [stage EXCEPT ![t] = "kHwInflight"]
           /\ UNCHANGED <<src_slot, dst_slot, next_load_index, num_done, queueVars,
                          failed, failure_message, asleep>>
  <2>1. stage \in [Tasks -> Stages]
    BY DEF SchedulerSound, SchedulerTypeOK
  <2>2. UNCHANGED <<free_src_slots, free_dst_slots, ready_post, waiting_sw_decode,
                    ready_sw_decode, ready_hw_submit>>
    BY <1>3 DEF queueVars
  <2>3. SchedulerTypeOK'
    BY <1>3, <2>1, <2>2 DEF SchedulerSound, SchedulerTypeOK, Stages
  <2>4. SlotsConserved'
    BY <1>3, <2>2 DEF SchedulerSound, SlotsConserved
  <2>5. StageSlots'
    BY <1>3, <2>1 DEF SchedulerSound, StageSlots, HasSrc, HasDst, SrcStages, DstStages
  <2>6. QueuesFresh'
    <3>1. /\ QueueOf(ready_post, stage', "kDecoded")
          /\ QueueOf(waiting_sw_decode, stage', "kLoadedAwaitingDecode")
          /\ QueueOf(ready_sw_decode, stage', "kQueuedForSwDecode")
          /\ QueueOf(ready_hw_submit, stage', "kQueuedForHwSubmit")
      BY <1>3, <2>1, SoundQueues, QueueKeeps
    <3>2. QED
      BY <3>1, <2>2 DEF QueuesFresh
  <2>7. NoIdleDestination' /\ WaitingInSoftwareOnly'
    BY <2>2 DEF SchedulerSound, NoIdleDestination, WaitingInSoftwareOnly
  <2>8. QED
    BY <2>3, <2>4, <2>5, <2>6, <2>7 DEF SchedulerSound
<1>4. QED
  BY <1>1, <1>2, <1>3 DEF CompleteHardwareSubmit, DecodeEnds

(* CompletePostProcess when nobody waits for the slot. *)
LEMMA SoundSlotToPool ==
  ASSUME SchedulerSound, ~failed, NEW t \in Tasks, stage[t] = "kPostProcessing",
         waiting_sw_decode = <<>>,
         NoAssignment(Append(free_dst_slots, dst_slot[t]), t),
         num_done' = num_done + 1,
         UNCHANGED <<src_slot, next_load_index, free_src_slots, ready_post,
                     ready_hw_submit, failed, failure_message>>
  PROVE  SchedulerSound'
<1>1. /\ stage \in [Tasks -> Stages]
      /\ dst_slot \in [Tasks -> DstSlotIds \union {NoSlot}]
      /\ free_dst_slots \in Seq(DstSlotIds)
  BY DEF SchedulerSound, SchedulerTypeOK
<1>2. /\ free_dst_slots' = Append(free_dst_slots, dst_slot[t])
      /\ dst_slot' = [dst_slot EXCEPT ![t] = NoSlot]
      /\ stage' = [stage EXCEPT ![t] = "kDone"]
      /\ UNCHANGED <<waiting_sw_decode, ready_sw_decode>>
  BY DEF NoAssignment
<1>3. dst_slot[t] # NoSlot
  BY DEF SchedulerSound, StageSlots, HasDst, DstStages
<1>4. /\ Append(free_dst_slots, dst_slot[t]) \in Seq(DstSlotIds)
      /\ dst_slot' \in [Tasks -> DstSlotIds \union {NoSlot}]
      /\ Partitioned(DstSlotIds, Append(free_dst_slots, dst_slot[t]), dst_slot')
  BY <1>1, <1>2, <1>3, SlotReturned, SlotIdsAreSlots DEF SchedulerSound, SlotsConserved
<1>5. SchedulerTypeOK'
  <2>1. stage' \in [Tasks -> Stages]
    BY <1>1, <1>2 DEF Stages
  <2>2. num_done \in Nat
    BY DEF SchedulerSound, SchedulerTypeOK
  <2>3. num_done' \in Nat
    BY <2>2
  <2>4. QED
    BY <2>1, <2>3, <1>2, <1>4 DEF SchedulerSound, SchedulerTypeOK
<1>6. SlotsConserved'
  BY <1>2, <1>4 DEF SchedulerSound, SlotsConserved
<1>7. StageSlots'
  <2>1. dst_slot'[t] = NoSlot /\ stage'[t] = "kDone"
    BY <1>1, <1>2
  <2>2. \A u \in Tasks : u # t => stage'[u] = stage[u] /\ dst_slot'[u] = dst_slot[u]
    BY <1>1, <1>2
  <2>3. QED
    BY <2>1, <2>2 DEF SchedulerSound, StageSlots, HasSrc, HasDst, SrcStages, DstStages
<1>8. QueuesFresh'
  <2>1. /\ QueueOf(ready_post, stage', "kDecoded")
        /\ QueueOf(waiting_sw_decode, stage', "kLoadedAwaitingDecode")
        /\ QueueOf(ready_sw_decode, stage', "kQueuedForSwDecode")
        /\ QueueOf(ready_hw_submit, stage', "kQueuedForHwSubmit")
    BY <1>1, <1>2, SoundQueues, QueueKeeps
  <2>2. QED
    BY <2>1, <1>2 DEF QueuesFresh
<1>9. NoIdleDestination' /\ WaitingInSoftwareOnly'
  BY <1>2 DEF NoIdleDestination, WaitingInSoftwareOnly
<1>10. QED
  BY <1>5, <1>6, <1>7, <1>8, <1>9 DEF SchedulerSound

(* CompletePostProcess when somebody waits for the slot: the slot goes from  *)
(* the task that is done to the one that has waited longest.                 *)
LEMMA SoundSlotHandedOver ==
  ASSUME SchedulerSound, ~failed, NEW t \in Tasks, stage[t] = "kPostProcessing",
         waiting_sw_decode # <<>>,
         AssignSwDecodeJobsLocked(Append(free_dst_slots, dst_slot[t]), t),
         num_done' = num_done + 1,
         UNCHANGED <<src_slot, next_load_index, free_src_slots, ready_post,
                     ready_hw_submit, failed, failure_message>>
  PROVE  SchedulerSound'
<1> DEFINE h == Head(waiting_sw_decode)
           s == dst_slot[t]
           between == [dst_slot EXCEPT ![t] = NoSlot]
<1>1. /\ stage \in [Tasks -> Stages]
      /\ dst_slot \in [Tasks -> DstSlotIds \union {NoSlot}]
      /\ free_dst_slots \in Seq(DstSlotIds)
      /\ free_dst_slots = <<>>
  BY DEF SchedulerSound, SchedulerTypeOK, NoIdleDestination
<1>2. s # NoSlot /\ s \in DstSlotIds
  BY <1>1 DEF SchedulerSound, StageSlots, HasDst, DstStages
<1>3. /\ stage' = [u \in Tasks |-> IF u = t THEN "kDone"
                                   ELSE IF u = h THEN "kQueuedForSwDecode"
                                   ELSE stage[u]]
      /\ dst_slot' = [u \in Tasks |-> IF u = t THEN NoSlot
                                      ELSE IF u = h THEN s ELSE dst_slot[u]]
      /\ free_dst_slots' = <<>>
      /\ waiting_sw_decode' = Tail(waiting_sw_decode)
      /\ ready_sw_decode' = Append(ready_sw_decode, h)
  BY <1>2, AssignsOne DEF SchedulerSound
<1>4. h \in Tasks /\ stage[h] = "kLoadedAwaitingDecode"
  BY SoundQueues, PopFacts DEF QueueOf
<1> HIDE DEF h, s
<1>5. h # t /\ dst_slot[h] = NoSlot /\ src_slot[h] # NoSlot
  BY <1>4 DEF SchedulerSound, StageSlots, HasSrc, HasDst, SrcStages, DstStages
<1>6. /\ \A u \in Tasks : u # t /\ u # h =>
            stage'[u] = stage[u] /\ dst_slot'[u] = dst_slot[u]
      /\ stage'[t] = "kDone" /\ dst_slot'[t] = NoSlot
      /\ stage'[h] = "kQueuedForSwDecode" /\ dst_slot'[h] = s
  BY <1>3, <1>4, <1>5
<1>7. stage' \in [Tasks -> Stages]
  BY <1>1, <1>3 DEF Stages
<1>8. /\ dst_slot' \in [Tasks -> DstSlotIds \union {NoSlot}]
      /\ Partitioned(DstSlotIds, <<>>, dst_slot')
  <2>1. /\ between \in [Tasks -> DstSlotIds \union {NoSlot}]
        /\ Append(free_dst_slots, s) \in Seq(DstSlotIds)
        /\ Partitioned(DstSlotIds, Append(free_dst_slots, s), between)
    BY <1>1, <1>2, SlotReturned, SlotIdsAreSlots
       DEF SchedulerSound, SlotsConserved, s
  <2>2. Append(free_dst_slots, s) = <<s>>
    BY <1>1
  <2>3. Head(<<s>>) = s /\ Tail(<<s>>) = <<>> /\ <<s>> # <<>>
    OBVIOUS
  <2>4. between[h] = NoSlot /\ dst_slot' = [between EXCEPT ![h] = Head(<<s>>)]
    BY <1>1, <1>3, <1>4, <1>5, <2>3
  <2> HIDE DEF between
  <2>5. Partitioned(DstSlotIds, <<s>>, between) /\ <<s>> \in Seq(DstSlotIds)
    BY <2>1, <2>2
  <2>6. /\ dst_slot' \in [Tasks -> DstSlotIds \union {NoSlot}]
        /\ Partitioned(DstSlotIds, Tail(<<s>>), dst_slot')
    BY <2>1, <2>3, <2>4, <2>5, <1>4, SlotTaken, SlotIdsAreSlots
  <2>7. QED
    BY <2>3, <2>6
<1>9. /\ QueueOf(Tail(waiting_sw_decode), stage', "kLoadedAwaitingDecode")
      /\ Tail(waiting_sw_decode) \in Seq(Tasks)
  BY <1>6, SoundQueues, QueuePops DEF h
<1>10. /\ QueueOf(ready_sw_decode', stage', "kQueuedForSwDecode")
       /\ ready_sw_decode' \in Seq(Tasks)
  <2>1. /\ stage[h] # "kQueuedForSwDecode"
        /\ \A u \in Tasks : stage[u] = "kQueuedForSwDecode" =>
                             stage'[u] = "kQueuedForSwDecode"
    BY <1>4, <1>6
  <2>2. QED
    BY <2>1, <1>3, <1>4, <1>6, SoundQueues, QueuePushes
<1>11. /\ QueueOf(ready_post, stage', "kDecoded")
       /\ QueueOf(ready_hw_submit, stage', "kQueuedForHwSubmit")
  BY <1>4, <1>6, SoundQueues, QueueKeeps
<1>12. SchedulerTypeOK'
  <2>1. free_dst_slots' \in Seq(DstSlotIds)
    BY <1>1, <1>3
  <2>2. num_done \in Nat
    BY DEF SchedulerSound, SchedulerTypeOK
  <2>3. num_done' \in Nat
    BY <2>2
  <2>4. QED
    BY <2>1, <2>3, <1>3, <1>7, <1>8, <1>9, <1>10 DEF SchedulerSound, SchedulerTypeOK
<1>13. SlotsConserved'
  BY <1>3, <1>8 DEF SchedulerSound, SlotsConserved
<1>14. StageSlots'
  BY <1>2, <1>4, <1>5, <1>6
     DEF SchedulerSound, StageSlots, HasSrc, HasDst, SrcStages, DstStages
<1>15. QueuesFresh'
  BY <1>3, <1>9, <1>10, <1>11 DEF QueuesFresh
<1>16. NoIdleDestination' /\ WaitingInSoftwareOnly'
  BY <1>3 DEF SchedulerSound, NoIdleDestination, WaitingInSoftwareOnly
<1>17. QED
  BY <1>12, <1>13, <1>14, <1>15, <1>16 DEF SchedulerSound

LEMMA SoundCompletePostProcess ==
  ASSUME SchedulerSound, NEW t \in Tasks, CompletePostProcess(t)
  PROVE  SchedulerSound'
<1>1. CASE Ignored
  BY <1>1, SoundIgnored
<1>2. CASE Rejected
  BY <1>2, SoundRejected
<1>3. CASE ~failed /\ stage[t] = "kPostProcessing" /\ HasDst(t) /\ PostProcessCompleted(t)
  <2> DEFINE dst == Append(free_dst_slots, dst_slot[t])
  <2>1. /\ num_done' = num_done + 1
        /\ UNCHANGED <<src_slot, next_load_index, free_src_slots, ready_post,
                       ready_hw_submit, failed, failure_message>>
    BY <1>3 DEF PostProcessCompleted
  <2>2. dst_slot[t] \in DstSlotIds
    BY <1>3 DEF HasDst, SchedulerSound, SchedulerTypeOK
  <2>3. CASE Mode = "sw" /\ waiting_sw_decode # <<>>
    <3>1. AssignSwDecodeJobsLocked(dst, t)
      BY <1>3, <2>3 DEF PostProcessCompleted
    <3>2. QED
      BY <1>3, <2>1, <2>3, <3>1, SoundSlotHandedOver
  <2>4. CASE Mode = "sw" /\ waiting_sw_decode = <<>>
    <3>1. AssignSwDecodeJobsLocked(dst, t)
      BY <1>3, <2>4 DEF PostProcessCompleted
    <3>2. NoAssignment(dst, t)
      BY <2>2, <2>4, <3>1, AssignsNothing DEF SchedulerSound
    <3>3. QED
      BY <1>3, <2>1, <2>4, <3>2, SoundSlotToPool
  <2>5. CASE Mode = "hw"
    <3>1. NoAssignment(dst, t) /\ waiting_sw_decode = <<>>
      BY <1>3, <2>5 DEF PostProcessCompleted, SchedulerSound, WaitingInSoftwareOnly
    <3>2. QED
      BY <1>3, <2>1, <3>1, SoundSlotToPool
  <2>6. QED
    BY <2>3, <2>4, <2>5, SchedulerAssumption
<1>4. QED
  BY <1>1, <1>2, <1>3 DEF CompletePostProcess

LEMMA SoundFail ==
  ASSUME SchedulerSound, NEW message, Fail(message),
         message \in {"missing slot", "image load failed", "software decode failed",
                      "invalid descriptor", "unknown task_id", "not in flight",
                      "timed out"}
  PROVE  SchedulerSound'
<1>1. CASE Ignored
  BY <1>1, SoundIgnored
<1>2. CASE ~Ignored
  <2>1. /\ failed' = TRUE
        /\ failure_message' = message
        /\ stage' = [t \in Tasks |-> IF stage[t] = "kDone" THEN "kDone" ELSE "kFailed"]
        /\ UNCHANGED <<src_slot, dst_slot, next_load_index, num_done, free_src_slots,
                       free_dst_slots, ready_post, waiting_sw_decode,
                       ready_sw_decode, ready_hw_submit>>
    BY <1>2 DEF Fail, queueVars
  <2>2. SchedulerTypeOK'
    BY <2>1 DEF SchedulerSound, SchedulerTypeOK, Stages
  <2>3. SlotsConserved'
    BY <2>1 DEF SchedulerSound, SlotsConserved
  <2>4. StageSlots' /\ QueuesFresh'
    BY <2>1 DEF StageSlots, QueuesFresh
  <2>5. NoIdleDestination' /\ WaitingInSoftwareOnly'
    BY <2>1 DEF SchedulerSound, NoIdleDestination, WaitingInSoftwareOnly
  <2>6. QED
    BY <2>2, <2>3, <2>4, <2>5 DEF SchedulerSound
<1>3. QED
  BY <1>1, <1>2

-----------------------------------------------------------------------------
(***************************************************************************)
(* The driver                                                              *)
(***************************************************************************)

DriverSound == SchedulerSound /\ DeviceTypeOK /\ ThreadsTypeOK

-----------------------------------------------------------------------------
(* The program starts sound. *)
LEMMA DriverSoundInit == Init => DriverSound
<1> SUFFICES ASSUME Init
             PROVE  DriverSound
  OBVIOUS
<1>1. SchedulerSound
  BY SoundInit DEF Init
<1>2. DeviceTypeOK
  <2>1. /\ <<>> \in Seq(Descriptors \union {NoDesc})
        /\ <<Stale>> \in Seq(Descriptors \union {NoDesc})
        /\ Stale \in Descriptors
    BY DriverAssumption
  <2>2. CASE Mode = "hw"
    BY <2>1, <2>2 DEF Init, DeviceLeftOver, DeviceTypeOK
  <2>3. CASE Mode # "hw"
    BY <2>1, <2>3 DEF Init, DeviceInit, DeviceTypeOK, SlotStates
  <2>4. QED
    BY <2>2, <2>3
<1>3. ThreadsTypeOK
  BY DEF Init, SchedulerInit, ThreadsTypeOK, WorkerPcs, ManagerPcs, Loading, SwDecoding,
         Posting, Busy, Submitting
<1>4. QED
  BY <1>1, <1>2, <1>3 DEF DriverSound

-----------------------------------------------------------------------------
(* Thread bookkeeping *)

(* A worker moves on, with a task wherever it needs one. *)
LEMMA WorkerMoves ==
  ASSUME ThreadsTypeOK, NEW w \in Workers,
         NEW to \in WorkerPcs, NEW t \in Tasks \union {NoTask},
         pc' = [pc EXCEPT ![w] = to], job' = [job EXCEPT ![w] = t],
         to \in {"load", "loaded", "decode", "decoded", "post", "posted"} => t \in Tasks,
         asleep' \subseteq Workers, workers_ok' \in BOOLEAN,
         UNCHANGED <<managerVars, hw_ok, exit_status>>
  PROVE  ThreadsTypeOK'
<1>1. /\ pc \in [Workers -> WorkerPcs]
      /\ job \in [Workers -> Tasks \union {NoTask}]
      /\ \A v \in Workers :
           pc[v] \in {"load", "loaded", "decode", "decoded", "post", "posted"}
             => job[v] \in Tasks
  BY DEF ThreadsTypeOK, Busy, Loading, SwDecoding, Posting
<1>2. /\ pc' \in [Workers -> WorkerPcs]
      /\ job' \in [Workers -> Tasks \union {NoTask}]
      /\ \A v \in Workers :
           pc'[v] \in {"load", "loaded", "decode", "decoded", "post", "posted"}
             => job'[v] \in Tasks
  BY <1>1
<1>3. \A v \in Busy' : job'[v] \in Tasks
  BY <1>2 DEF Busy, Loading, SwDecoding, Posting
<1>4. QED
  BY <1>2, <1>3 DEF ThreadsTypeOK, managerVars, Submitting

(* The manager moves on, with a task wherever it needs one. *)
LEMMA ManagerMoves ==
  ASSUME ThreadsTypeOK,
         manager' \in ManagerPcs,
         cpl' \in Descriptors \union {NoDesc},
         manager' \in {"spurious", "complete"} => cpl'.id \in Tasks,
         submitting' \in Tasks \union {NoTask},
         manager' \in {"poll", "recheck", "write", "commit", "submit"}
           => submitting' \in Tasks,
         simulation_enabled' \in BOOLEAN, hw_ok' \in BOOLEAN,
         asleep' \subseteq Workers,
         UNCHANGED <<workerVars, workers_ok, exit_status>>
  PROVE  ThreadsTypeOK'
BY DEF ThreadsTypeOK, workerVars, Busy, Loading, SwDecoding, Posting, Submitting

(* Only cv_.wait puts a thread to sleep. *)
LEMMA MethodsWake ==
  ASSUME asleep \subseteq Workers, NEW t,
         \/ AcquirePostProcess(t) \/ AcquireSoftwareDecode(t) \/ AcquireLoad(t)
         \/ AcquireHardwareSubmit(t) \/ AcquireNoHardwareSubmit
         \/ CompleteLoad(t) \/ CompleteSoftwareDecode(t) \/ CompleteHardwareDecode(t)
         \/ CompleteHardwareSubmit(t) \/ CompletePostProcess(t)
         \/ Fail(t)
  PROVE  asleep' \subseteq Workers
BY DEF AcquirePostProcess, AcquireSoftwareDecode, AcquireLoad, AcquireHardwareSubmit,
       AcquireNoHardwareSubmit, CompleteLoad, LoadCompleted, CompleteSoftwareDecode,
       CompleteHardwareDecode, DecodeCompleted, CompleteHardwareSubmit,
       CompletePostProcess, PostProcessCompleted, Fail, Ignored, Rejected, NotifyAll

-----------------------------------------------------------------------------
(* The CPU workers *)

LEMMA SoundWorker ==
  ASSUME DriverSound, NEW w \in Workers, Worker(w)
  PROVE  DriverSound'
<1>1. /\ SchedulerSound /\ DeviceTypeOK /\ ThreadsTypeOK
      /\ asleep \subseteq Workers /\ workers_ok \in BOOLEAN
      /\ pc \in [Workers -> WorkerPcs]
      /\ job \in [Workers -> Tasks \union {NoTask}]
      /\ pc[w] \in {"load", "loaded", "decode", "decoded", "post", "posted"}
           => job[w] \in Tasks
  BY DEF DriverSound, ThreadsTypeOK, Busy, Loading, SwDecoding, Posting
<1>2. DeviceTypeOK'
  <2>1. UNCHANGED deviceVars
    BY DEF Worker, AcquireCpuJob, LoadImageToDma, SoftwareDecodeJpeg, PostProcess,
           CompleteJob, WorkerLeaves
  <2>2. QED
    BY <2>1, <1>1 DEF deviceVars, DeviceTypeOK
<1>3. CASE AcquireCpuJob(w)
  <2>1. UNCHANGED <<managerVars, workers_ok, hw_ok, exit_status>>
    BY <1>3 DEF AcquireCpuJob, mainVars
  <2>2. CASE AcquireNothing /\ Goto(w, "leave") /\ UNCHANGED job
    <3>1. UNCHANGED schedulerVars /\ UNCHANGED asleep
      BY <2>2 DEF AcquireNothing
    <3>2. job' = [job EXCEPT ![w] = job[w]] /\ pc' = [pc EXCEPT ![w] = "leave"]
      BY <2>2, <1>1 DEF Goto
    <3>3. SchedulerSound'
      BY <3>1, <1>1, SoundStutter
    <3>4. ThreadsTypeOK'
      BY <3>1, <3>2, <2>1, <1>1, WorkerMoves DEF WorkerPcs
    <3>5. QED
      BY <3>3, <3>4, <1>2 DEF DriverSound
  <2>3. ASSUME NEW t \in Tasks, AcquirePostProcess(t), Begin(w, t, "post")
        PROVE  DriverSound'
    <3>1. SchedulerSound' /\ asleep' \subseteq Workers
      BY <2>3, <1>1, SoundAcquirePostProcess, MethodsWake
    <3>2. ThreadsTypeOK'
      BY <3>1, <2>1, <2>3, <1>1, WorkerMoves DEF Begin, Goto, WorkerPcs
    <3>3. QED
      BY <3>1, <3>2, <1>2 DEF DriverSound
  <2>4. ASSUME NEW t \in Tasks, AcquireSoftwareDecode(t), Begin(w, t, "decode")
        PROVE  DriverSound'
    <3>1. SchedulerSound' /\ asleep' \subseteq Workers
      BY <2>4, <1>1, SoundAcquireSoftwareDecode, MethodsWake
    <3>2. ThreadsTypeOK'
      BY <3>1, <2>1, <2>4, <1>1, WorkerMoves DEF Begin, Goto, WorkerPcs
    <3>3. QED
      BY <3>1, <3>2, <1>2 DEF DriverSound
  <2>5. ASSUME NEW t \in Tasks, AcquireLoad(t), Begin(w, t, "load")
        PROVE  DriverSound'
    <3>1. SchedulerSound' /\ asleep' \subseteq Workers
      BY <2>5, <1>1, SoundAcquireLoad, MethodsWake
    <3>2. ThreadsTypeOK'
      BY <3>1, <2>1, <2>5, <1>1, WorkerMoves DEF Begin, Goto, WorkerPcs
    <3>3. QED
      BY <3>1, <3>2, <1>2 DEF DriverSound
  <2>6. CASE AcquireWait(w) /\ UNCHANGED workerVars
    <3>1. SchedulerSound'
      BY <2>6, <1>1, SoundAcquireWait
    <3>2. asleep' \subseteq Workers
      BY <2>6, <1>1 DEF AcquireWait
    <3>3. ThreadsTypeOK'
      BY <3>2, <2>1, <2>6, <1>1 DEF ThreadsTypeOK, workerVars, managerVars, Busy,
         Loading, SwDecoding, Posting, Submitting
    <3>4. QED
      BY <3>1, <3>3, <1>2 DEF DriverSound
  <2>7. QED
    BY <2>2, <2>3, <2>4, <2>5, <2>6, <1>3 DEF AcquireCpuJob
<1>4. CASE LoadImageToDma(w) \/ SoftwareDecodeJpeg(w) \/ PostProcess(w)
  <2>1. /\ job' = [job EXCEPT ![w] = job[w]]
        /\ UNCHANGED <<managerVars, hw_ok, exit_status>>
    BY <1>1, <1>4 DEF LoadImageToDma, SoftwareDecodeJpeg, PostProcess, WorkerFails
  <2>2. ASSUME NEW message \in {"missing slot", "image load failed",
                                "software decode failed"},
               WorkerFails(w, message)
        PROVE  DriverSound'
    <3>1. Fail(message) /\ pc' = [pc EXCEPT ![w] = "stopped"] /\ workers_ok' = FALSE
      BY <2>2 DEF WorkerFails, Goto
    <3>2. SchedulerSound' /\ asleep' \subseteq Workers
      BY <3>1, <1>1, <2>2, SoundFail, MethodsWake
    <3>3. ThreadsTypeOK'
      BY <3>1, <3>2, <2>1, <1>1, WorkerMoves DEF WorkerPcs
    <3>4. QED
      BY <3>2, <3>3, <1>2 DEF DriverSound
  <2>3. ASSUME NEW to \in {"loaded", "decoded", "posted"},
               pc[w] \in {"load", "decode", "post"}, Goto(w, to),
               UNCHANGED <<schedulerVars, asleep, workers_ok>>
        PROVE  DriverSound'
    <3>1. SchedulerSound'
      BY <2>3, <1>1, SoundStutter
    <3>2. ThreadsTypeOK'
      BY <2>1, <2>3, <1>1, WorkerMoves DEF Goto, WorkerPcs
    <3>3. QED
      BY <3>1, <3>2, <1>2 DEF DriverSound
  <2>4. QED
    BY <2>2, <2>3, <1>4 DEF LoadImageToDma, SoftwareDecodeJpeg, PostProcess
<1>5. CASE CompleteJob(w)
  <2>1. /\ job[w] \in Tasks
        /\ \/ CompleteLoad(job[w])
           \/ CompleteSoftwareDecode(job[w])
           \/ CompletePostProcess(job[w])
    BY <1>1, <1>5 DEF CompleteJob
  <2>2. SchedulerSound' /\ asleep' \subseteq Workers
    BY <2>1, <1>1, SoundCompleteLoad, SoundCompleteDecode, SoundCompletePostProcess,
       MethodsWake
  <2>3. /\ job' = [job EXCEPT ![w] = job[w]] /\ pc' = [pc EXCEPT ![w] = "acquire"]
        /\ UNCHANGED <<managerVars, workers_ok, hw_ok, exit_status>>
    BY <1>1, <1>5 DEF CompleteJob, Goto, mainVars
  <2>4. ThreadsTypeOK'
    BY <2>2, <2>3, <1>1, WorkerMoves DEF WorkerPcs
  <2>5. QED
    BY <2>2, <2>4, <1>2 DEF DriverSound
<1>6. CASE WorkerLeaves(w)
  <2>1. /\ job' = [job EXCEPT ![w] = job[w]] /\ pc' = [pc EXCEPT ![w] = "stopped"]
        /\ workers_ok' \in BOOLEAN
        /\ UNCHANGED <<schedulerVars, asleep, managerVars, hw_ok, exit_status>>
    BY <1>1, <1>6 DEF WorkerLeaves, Goto
  <2>2. SchedulerSound'
    BY <2>1, <1>1, SoundStutter
  <2>3. ThreadsTypeOK'
    BY <2>1, <1>1, WorkerMoves DEF WorkerPcs
  <2>4. QED
    BY <2>2, <2>3, <1>2 DEF DriverSound
<1>7. QED
  BY <1>3, <1>4, <1>5, <1>6 DEF Worker

-----------------------------------------------------------------------------
(* The accelerator *)

(* Whatever the host and the cores do, the device's state keeps its types. *)
LEMMA DeviceTyped ==
  ASSUME DeviceTypeOK, DeviceNext
  PROVE  DeviceTypeOK'
<1> DEFINE D == Descriptors \union {NoDesc}
<1>1. /\ mmio_desc \in D /\ desc_fifo \in Seq(D) /\ cpl_fifo \in Seq(D)
      /\ slot_state \in [Decoders -> SlotStates] /\ slot_task \in [Decoders -> D]
  BY DEF DeviceTypeOK
<1>2. ASSUME NEW q \in Seq(D), q # <<>>
      PROVE  Head(q) \in D /\ Tail(q) \in Seq(D)
  BY <1>2, PopFacts
<1>3. ASSUME NEW q \in Seq(D), NEW e \in D
      PROVE  Append(q, e) \in Seq(D)
  BY PushFacts
<1> HIDE DEF D
<1> DEFINE Typed == /\ mmio_desc' \in D /\ desc_fifo' \in Seq(D) /\ cpl_fifo' \in Seq(D)
                    /\ slot_state' \in [Decoders -> SlotStates]
                    /\ slot_task' \in [Decoders -> D]
<1>4. SUFFICES Typed
  BY DEF DeviceTypeOK, D
<1>5. CASE \E d \in Descriptors : WriteDescriptor(d)
  BY <1>1, <1>5 DEF WriteDescriptor, D
<1>6. CASE DescCommit
  BY <1>1, <1>3, <1>6 DEF DescCommit
<1>7. CASE PopCompletion
  BY <1>1, <1>2, <1>7 DEF PopCompletion
<1>8. CASE MmioReset
  <2>1. slot_state' \in [Decoders -> SlotStates]
    BY <1>8 DEF MmioReset, SlotStates
  <2>2. QED
    BY <1>1, <1>8, <2>1, EmptyFacts DEF MmioReset, D
<1>9. ASSUME NEW d \in Decoders, StartDecode(d)
      PROVE  Typed
  BY <1>1, <1>2, <1>9 DEF StartDecode, SlotStates
<1>10. ASSUME NEW d \in Decoders, FinishDecode(d)
       PROVE  Typed
  BY <1>1, <1>3, <1>10 DEF FinishDecode, SlotStates
<1>11. ASSUME NEW d \in Decoders, DrainSource(d) \/ ReleaseSlot(d)
       PROVE  Typed
  BY <1>1, <1>11 DEF DrainSource, ReleaseSlot, SlotStates
<1>12. QED
  BY <1>5, <1>6, <1>7, <1>8, <1>9, <1>10, <1>11 DEF DeviceNext, HostStep, SlotStep

LEMMA SoundAccelerator ==
  ASSUME DriverSound, NEW d \in Decoders, Accelerator(d)
  PROVE  DriverSound'
<1>1. SlotStep(d) /\ UNCHANGED <<schedulerVars, asleep, workerVars, managerVars, mainVars>>
  BY DEF Accelerator, SlotStep
<1>2. DeviceTypeOK'
  BY <1>1, DeviceTyped DEF DriverSound, DeviceNext
<1>3. SchedulerSound'
  BY <1>1, SoundStutter DEF DriverSound
<1>4. ThreadsTypeOK'
  BY <1>1 DEF DriverSound, ThreadsTypeOK, workerVars, managerVars, mainVars, Busy,
              Loading, SwDecoding, Posting, Submitting
<1>5. QED
  BY <1>2, <1>3, <1>4 DEF DriverSound

-----------------------------------------------------------------------------
(* The hardware manager *)

LEMMA SoundManager ==
  ASSUME DriverSound, Manager,
         manager = "write" => HasSrc(submitting) /\ HasDst(submitting)
  PROVE  DriverSound'
<1>1. /\ SchedulerSound /\ DeviceTypeOK /\ ThreadsTypeOK
      /\ asleep \subseteq Workers
      /\ cpl \in Descriptors \union {NoDesc}
      /\ manager \in {"spurious", "complete"} => cpl.id \in Tasks
      /\ submitting \in Tasks \union {NoTask}
      /\ manager \in {"poll", "recheck", "write", "commit", "submit"}
           => submitting \in Tasks
      /\ simulation_enabled \in BOOLEAN /\ hw_ok \in BOOLEAN
  BY DEF DriverSound, ThreadsTypeOK, Submitting
(* Every step but the last leaves the workers and main() alone. *)
<1>2. CASE ~ManagerLeaves
  <2>1. UNCHANGED <<workerVars, workers_ok, hw_ok, exit_status>>
    BY <1>2 DEF Manager, EnableSimulation, ResetDevice, LoopHead, TryPopCompletion,
       LookUpTask, RejectCompletion, AcceptCompletion, CheckFailure,
       TryAcquireHardwareSubmitTask, PollDescriptors, WriteRegisters,
       CommitDescriptor, FinishSubmit, DisableSimulation, OnlyManagerMoves, mainVars
  <2>2. CASE EnableSimulation \/ LoopHead \/ LookUpTask \/ CheckFailure \/ DisableSimulation
    <3>1. UNCHANGED <<schedulerVars, asleep, deviceVars, cpl, submitting>>
      BY <2>2 DEF EnableSimulation, LoopHead, LookUpTask, CheckFailure, DisableSimulation
    <3>2. SchedulerSound' /\ DeviceTypeOK'
      BY <3>1, <1>1, SoundStutter DEF deviceVars, DeviceTypeOK
    <3>3. /\ manager' \in ManagerPcs
          /\ manager' \in {"spurious", "complete"} => cpl.id \in Tasks
          /\ manager' \in {"poll", "recheck", "write", "commit", "submit"}
               => submitting \in Tasks
          /\ simulation_enabled' \in BOOLEAN
      BY <2>2, <1>1 DEF EnableSimulation, LoopHead, LookUpTask, CheckFailure,
         DisableSimulation, At, ManagerPcs
    <3>4. ThreadsTypeOK'
      BY <3>1, <3>3, <2>1, <1>1, ManagerMoves
    <3>5. QED
      BY <3>2, <3>4 DEF DriverSound
  <2>3. CASE ResetDevice \/ WriteRegisters \/ CommitDescriptor
    <3>1. UNCHANGED <<schedulerVars, asleep, cpl, submitting, simulation_enabled>>
      BY <2>3 DEF ResetDevice, WriteRegisters, CommitDescriptor
    <3>2. SchedulerSound'
      BY <3>1, <1>1, SoundStutter
    <3>3. DeviceTypeOK'
      <4>1. CASE ResetDevice
        BY <4>1, <1>1, DeviceTyped DEF ResetDevice, DeviceNext, HostStep
      <4>2. CASE CommitDescriptor
        BY <4>2, <1>1, DeviceTyped DEF CommitDescriptor, DeviceNext, HostStep
      <4>3. CASE WriteRegisters
        <5>1. submitting \in Tasks /\ WriteDescriptor(Descriptor(submitting))
          BY <4>3, <1>1 DEF WriteRegisters, At
        <5>2. /\ mmio_desc' = Descriptor(submitting)
              /\ UNCHANGED <<desc_fifo, cpl_fifo, slot_state, slot_task>>
          BY <5>1 DEF WriteDescriptor
        <5>3. Descriptor(submitting) \in Descriptors
          <6>1. /\ HasSrc(submitting) /\ HasDst(submitting)
                /\ src_slot \in [Tasks -> SrcSlotIds \union {NoSlot}]
                /\ dst_slot \in [Tasks -> DstSlotIds \union {NoSlot}]
            BY <4>3, <1>1 DEF WriteRegisters, At, SchedulerSound, SchedulerTypeOK
          <6>2. Descriptor(submitting) \in [id : Tasks, src : SrcSlotIds, dst : DstSlotIds]
            BY <5>1, <6>1 DEF Descriptor, HasSrc, HasDst
          <6>3. [id : Tasks, src : SrcSlotIds, dst : DstSlotIds] \subseteq Descriptors
            BY DriverAssumption
          <6> HIDE DEF Descriptor
          <6>4. QED
            BY <6>2, <6>3, Zenon
        <5>4. QED
          BY <5>2, <5>3, <1>1 DEF DeviceTypeOK
      <4>4. QED
        BY <4>1, <4>2, <4>3, <2>3
    <3>4. /\ manager' \in {"loop", "commit", "submit"}
          /\ manager' \in {"commit", "submit"} => submitting \in Tasks
      BY <2>3, <1>1 DEF ResetDevice, WriteRegisters, CommitDescriptor, At
    <3>5. ThreadsTypeOK'
      BY <3>1, <3>4, <2>1, <1>1, ManagerMoves DEF ManagerPcs
    <3>6. QED
      BY <3>2, <3>3, <3>5 DEF DriverSound
  <2>4. CASE TryPopCompletion
    <3>1. /\ UNCHANGED <<schedulerVars, asleep, submitting, simulation_enabled>>
          /\ manager' \in {"lookup", "check"}
      BY <2>4 DEF TryPopCompletion, At
    <3>2. SchedulerSound'
      BY <3>1, <1>1, SoundStutter
    <3>3. DeviceTypeOK' /\ cpl' \in Descriptors \union {NoDesc}
      <4>1. CASE PopCompletion /\ cpl' = Head(cpl_fifo)
        <5>1. DeviceTypeOK'
          BY <4>1, <1>1, DeviceTyped DEF DeviceNext, HostStep
        <5>2. cpl_fifo \in Seq(Descriptors \union {NoDesc}) /\ cpl_fifo # <<>>
          BY <4>1, <1>1 DEF PopCompletion, DeviceTypeOK
        <5>3. QED
          BY <5>1, <5>2, <4>1, PopFacts
      <4>2. CASE UNCHANGED <<deviceVars, cpl>>
        BY <4>2, <1>1 DEF deviceVars, DeviceTypeOK
      <4>3. QED
        BY <4>1, <4>2, <2>4 DEF TryPopCompletion
    <3>4. ThreadsTypeOK'
      BY <3>1, <3>3, <2>1, <1>1, ManagerMoves DEF ManagerPcs
    <3>5. QED
      BY <3>2, <3>3, <3>4 DEF DriverSound
  <2>5. CASE RejectCompletion \/ PollDescriptors
    <3>1. UNCHANGED <<deviceVars, cpl, submitting, simulation_enabled>>
      BY <2>5 DEF RejectCompletion, PollDescriptors
    <3>2. /\ manager' \in {"check", "exit", "recheck"}
          /\ manager' = "recheck" => submitting \in Tasks
      BY <2>5, <1>1 DEF RejectCompletion, PollDescriptors, At
    <3>3. \/ UNCHANGED <<schedulerVars, asleep>>
          \/ \E message \in {"unknown task_id", "not in flight", "missing slot",
                             "invalid descriptor", "timed out"} : Fail(message)
      BY <2>5 DEF RejectCompletion, PollDescriptors
    <3>4. SchedulerSound' /\ asleep' \subseteq Workers
      BY <3>3, <1>1, SoundStutter, SoundFail, MethodsWake
    <3>5. DeviceTypeOK'
      BY <3>1, <1>1 DEF deviceVars, DeviceTypeOK
    <3>6. ThreadsTypeOK'
      BY <3>1, <3>2, <3>4, <2>1, <1>1, ManagerMoves DEF ManagerPcs
    <3>7. QED
      BY <3>4, <3>5, <3>6 DEF DriverSound
  <2>6. CASE AcceptCompletion \/ FinishSubmit
    <3>1. UNCHANGED <<deviceVars, cpl, submitting, simulation_enabled>>
      BY <2>6 DEF AcceptCompletion, FinishSubmit
    <3>2. manager' \in {"drain", "loop"}
      BY <2>6 DEF AcceptCompletion, FinishSubmit, At
    <3>3. \E t \in Tasks : CompleteHardwareDecode(t) \/ CompleteHardwareSubmit(t)
      BY <2>6, <1>1 DEF AcceptCompletion, FinishSubmit, At
    <3>4. SchedulerSound' /\ asleep' \subseteq Workers
      BY <3>3, <1>1, SoundCompleteDecode, SoundCompleteHardwareSubmit, MethodsWake
    <3>5. DeviceTypeOK'
      BY <3>1, <1>1 DEF deviceVars, DeviceTypeOK
    <3>6. ThreadsTypeOK'
      BY <3>1, <3>2, <3>4, <2>1, <1>1, ManagerMoves DEF ManagerPcs
    <3>7. QED
      BY <3>4, <3>5, <3>6 DEF DriverSound
  <2>7. CASE TryAcquireHardwareSubmitTask
    <3>1. UNCHANGED <<deviceVars, cpl, simulation_enabled>>
      BY <2>7 DEF TryAcquireHardwareSubmitTask
    <3>2. \/ \E t \in Tasks : /\ AcquireHardwareSubmit(t)
                             /\ manager' = "poll" /\ submitting' = t
          \/ /\ AcquireNoHardwareSubmit
             /\ manager' = "loop" /\ submitting' = submitting
      BY <2>7 DEF TryAcquireHardwareSubmitTask, At
    <3>3. SchedulerSound' /\ asleep' \subseteq Workers
      BY <3>2, <1>1, SoundAcquireHardwareSubmit, SoundAcquireNoHardwareSubmit, MethodsWake
    <3>4. DeviceTypeOK'
      BY <3>1, <1>1 DEF deviceVars, DeviceTypeOK
    <3>5. ThreadsTypeOK'
      BY <3>1, <3>2, <3>3, <2>1, <1>1, ManagerMoves DEF ManagerPcs
    <3>6. QED
      BY <3>3, <3>4, <3>5 DEF DriverSound
  <2>8. QED
    BY <1>2, <2>2, <2>3, <2>4, <2>5, <2>6, <2>7 DEF Manager
<1>3. CASE ManagerLeaves
  <2>1. /\ UNCHANGED <<schedulerVars, asleep, deviceVars, workerVars, cpl, submitting,
                       simulation_enabled, workers_ok, exit_status>>
        /\ manager' = "stopped" /\ hw_ok' \in BOOLEAN
    BY <1>3 DEF ManagerLeaves, At
  <2>2. SchedulerSound' /\ DeviceTypeOK'
    BY <2>1, <1>1, SoundStutter DEF deviceVars, DeviceTypeOK
  <2>3. ThreadsTypeOK'
    BY <2>1, <1>1, ManagerMoves DEF ManagerPcs
  <2>4. QED
    BY <2>2, <2>3 DEF DriverSound
<1>4. QED
  BY <1>2, <1>3

-----------------------------------------------------------------------------
(***************************************************************************)
(* The condition variable of the Scheduler.  NoLostWakeup is inductive as  *)
(* it stands: a sleeper means there was nothing to do, and every method    *)
(* that changes that calls notify_all.                                     *)
(***************************************************************************)

(* There is nothing to find in an empty queue. *)
LEMMA SkipToEmpty == \A valid : SkipTo(<<>>, valid) = <<>>
<1>1. DOMAIN <<>> = {}
  OBVIOUS
<1>2. QED
  BY <1>1 DEF SkipTo

(* A sleeper has looked at all this and found nothing. *)
LEMMA SleeperSaw ==
  ASSUME NoLostWakeup, asleep # {}
  PROVE  /\ ~failed /\ num_done # NumTasks
         /\ PostQueue = <<>> /\ ~SwJobPending /\ ~CanLoad
         /\ ready_post = <<>>
BY SkipToEmpty DEF NoLostWakeup, WakeCondition, AllWorkDoneLocked, HasReadyCpuJobLocked,
   PostQueue, SwQueue, SwJobPending, CanLoad

(* AcquireCpuJob: no job is found while another thread sleeps, and a thread *)
(* falls asleep only when no job is found.                                  *)
LEMMA WakeupAcquire ==
  ASSUME NoLostWakeup, NEW w \in Workers, AcquireCpuJob(w)
  PROVE  NoLostWakeup'
<1>1. CASE AcquireNothing
  BY <1>1 DEF AcquireNothing, schedulerVars, taskVars, queueVars, NoLostWakeup,
              WakeCondition, AllWorkDoneLocked, HasReadyCpuJobLocked
<1>2. CASE \E t \in Tasks : \/ AcquirePostProcess(t) \/ AcquireSoftwareDecode(t)
                            \/ AcquireLoad(t)
  <2>1. UNCHANGED asleep /\ (PostQueue # <<>> \/ SwJobPending \/ CanLoad)
    BY <1>2 DEF AcquirePostProcess, AcquireSoftwareDecode, AcquireLoad
  <2>2. asleep = {}
    BY <2>1, SleeperSaw
  <2>3. QED
    BY <2>1, <2>2 DEF NoLostWakeup
<1>3. CASE AcquireWait(w)
  <2>1. /\ ready_post' = <<>>
        /\ ready_sw_decode' = SwQueue
        /\ UNCHANGED <<num_done, next_load_index, free_src_slots, failed>>
        /\ ~failed /\ num_done # NumTasks /\ ~CanLoad
        /\ Mode = "sw" => SwQueue = <<>>
    BY <1>3 DEF AcquireWait, AcquireAllowed, AllWorkDoneLocked, taskVars, SwJobPending
  <2>2. ~WakeCondition'
    BY <2>1 DEF WakeCondition, AllWorkDoneLocked, HasReadyCpuJobLocked, CanLoad
  <2>3. QED
    BY <2>2 DEF NoLostWakeup
<1>4. QED
  BY <1>1, <1>2, <1>3 DEF AcquireCpuJob

(* The other methods of the Scheduler wake every thread, or change nothing  *)
(* that a sleeper waits for.                                                *)
LEMMA WakeupMethods ==
  ASSUME NoLostWakeup, NEW t,
         \/ AcquireHardwareSubmit(t) \/ AcquireNoHardwareSubmit
         \/ CompleteLoad(t) \/ CompleteSoftwareDecode(t) \/ CompleteHardwareDecode(t)
         \/ CompleteHardwareSubmit(t) \/ CompletePostProcess(t)
         \/ Fail(t)
  PROVE  NoLostWakeup'
<1>1. CASE AcquireHardwareSubmit(t) \/ AcquireNoHardwareSubmit
  BY <1>1 DEF AcquireHardwareSubmit, AcquireNoHardwareSubmit, taskVars, NoLostWakeup,
              WakeCondition, AllWorkDoneLocked, HasReadyCpuJobLocked
<1>2. CASE \/ CompleteLoad(t) \/ CompleteSoftwareDecode(t) \/ CompleteHardwareDecode(t)
           \/ CompletePostProcess(t) \/ Fail(t)
  <2>1. asleep' = {} \/ UNCHANGED <<schedulerVars, asleep>>
    BY <1>2 DEF CompleteLoad, LoadCompleted, CompleteSoftwareDecode,
       CompleteHardwareDecode, DecodeCompleted, CompletePostProcess,
       PostProcessCompleted, Fail, Ignored, Rejected, NotifyAll
  <2>2. QED
    BY <2>1 DEF schedulerVars, taskVars, queueVars, NoLostWakeup, WakeCondition,
                AllWorkDoneLocked, HasReadyCpuJobLocked
<1>3. CASE CompleteHardwareSubmit(t)
  <2>1. \/ asleep' = {}
        \/ UNCHANGED <<next_load_index, num_done, queueVars, failed, asleep>>
    BY <1>3 DEF CompleteHardwareSubmit, Ignored, Rejected, NotifyAll, schedulerVars,
                taskVars
  <2>2. QED
    BY <2>1 DEF queueVars, NoLostWakeup, WakeCondition, AllWorkDoneLocked,
                HasReadyCpuJobLocked
<1>4. QED
  BY <1>1, <1>2, <1>3

(* A step that leaves the Scheduler alone. *)
LEMMA WakeupStutter ==
  ASSUME NoLostWakeup, UNCHANGED <<schedulerVars, asleep>>
  PROVE  NoLostWakeup'
BY DEF schedulerVars, taskVars, queueVars, NoLostWakeup, WakeCondition,
       AllWorkDoneLocked, HasReadyCpuJobLocked

(* Every step of every thread is one of these. *)
LEMMA WakeupNext ==
  ASSUME NoLostWakeup, Next
  PROVE  NoLostWakeup'
<1>1. CASE \E w \in Workers : Worker(w)
  <2> SUFFICES ASSUME NEW w \in Workers, Worker(w)
               PROVE  NoLostWakeup'
    BY <1>1
  <2>1. CASE AcquireCpuJob(w)
    BY <2>1, WakeupAcquire
  <2>2. CASE LoadImageToDma(w) \/ SoftwareDecodeJpeg(w) \/ PostProcess(w)
    <3>1. UNCHANGED <<schedulerVars, asleep>> \/ \E message : Fail(message)
      BY <2>2 DEF LoadImageToDma, SoftwareDecodeJpeg, PostProcess, WorkerFails
    <3>2. QED
      BY <3>1, WakeupStutter, WakeupMethods
  <2>3. CASE CompleteJob(w)
    BY <2>3, WakeupMethods DEF CompleteJob
  <2>4. CASE WorkerLeaves(w)
    BY <2>4, WakeupStutter DEF WorkerLeaves
  <2>5. QED
    BY <2>1, <2>2, <2>3, <2>4 DEF Worker
<1>2. CASE Manager
  <2>1. CASE RejectCompletion \/ PollDescriptors
    <3>1. UNCHANGED <<schedulerVars, asleep>> \/ \E message : Fail(message)
      BY <2>1 DEF RejectCompletion, PollDescriptors
    <3>2. QED
      BY <3>1, WakeupStutter, WakeupMethods
  <2>2. CASE AcceptCompletion \/ FinishSubmit \/ TryAcquireHardwareSubmitTask
    <3>1. \E t : \/ CompleteHardwareDecode(t) \/ CompleteHardwareSubmit(t)
                 \/ AcquireHardwareSubmit(t) \/ AcquireNoHardwareSubmit
      BY <2>2 DEF AcceptCompletion, FinishSubmit, TryAcquireHardwareSubmitTask
    <3>2. QED
      BY <3>1, WakeupMethods
  <2>3. CASE ~(\/ RejectCompletion \/ PollDescriptors \/ AcceptCompletion
               \/ FinishSubmit \/ TryAcquireHardwareSubmitTask)
    <3>1. UNCHANGED <<schedulerVars, asleep>>
      BY <1>2, <2>3 DEF Manager, EnableSimulation, ResetDevice, LoopHead,
         TryPopCompletion, LookUpTask, CheckFailure, WriteRegisters,
         CommitDescriptor, DisableSimulation, ManagerLeaves
    <3>2. QED
      BY <3>1, WakeupStutter
  <2>4. QED
    BY <2>1, <2>2, <2>3
<1>3. CASE (\E d \in Decoders : Accelerator(d)) \/ Main \/ Exited
  BY <1>3, WakeupStutter DEF Accelerator, Main, Exited, vars
<1>4. QED
  BY <1>1, <1>2, <1>3 DEF Next

(* No wakeup is lost: while a worker is blocked in cv_.wait of              *)
(* AcquireCpuJob, no failure is recorded, work is left, and no job for a    *)
(* worker is ready; so no method forgets a notify_all that a worker needs.  *)
THEOREM WakeupsAreNotLost == Spec => []NoLostWakeup
<1>1. Init => NoLostWakeup
  BY DEF Init, SchedulerInit, NoLostWakeup
<1>2. NoLostWakeup /\ [Next]_vars => NoLostWakeup'
  BY WakeupNext, WakeupStutter DEF vars
<1>3. QED
  BY <1>1, <1>2, PTL DEF Spec
=============================================================================
