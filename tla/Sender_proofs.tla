---------------------------- MODULE Sender_proofs ----------------------------
(***************************************************************************)
(* Theorems about the sender's threads.                                    *)
(***************************************************************************)
EXTENDS Sender, CircularBuffer_proofs

(* What the assumptions say, one fact each.                                *)
LEMMA SizeAndPipe == PSize \in Nat \ {0} /\ PipeCap \in Nat \ {0}
BY SenderAssumption, Zenon

LEMMA PacketNum == \A q \in Packet : q.num \in Nat
BY SMT DEF Packet

LEMMA NumPacket == \A k \in Nat : [num |-> k] \in Packet /\ [num |-> k].num = k
BY SMT DEF Packet

LEMMA CacheSlots == RoundedCap(PSize) \in 0 .. Capacity
BY SizeAndPipe, CapBound, Zenon

-----------------------------------------------------------------------------
(***************************************************************************)
(* The job queue.  The type of left, and of the queue after a pop, rests   *)
(* on the batch being in the queue, so they are proved together.           *)
(***************************************************************************)
QueueInv == TypeOK /\ BatchInQueue /\ NoJobForgotten

LEMMA InitQueue == Init => QueueInv
<1> SUFFICES ASSUME Init PROVE QueueInv
  OBVIOUS
<1>1. RingType(cache, Packet)
  <2>1. PSize \in Nat /\ RoundedCap(PSize) \in 0 .. Capacity /\ PSize > 0
    BY SizeAndPipe, CacheSlots, SMT
  <2> QED
    BY <2>1, SMT DEF Init, Reset, NewBuffer, Clean, RingType
<1>2. nread \in 0 .. PSize /\ events \in 0 .. PipeCap
  BY SizeAndPipe, SMT DEF Init
<1>3. TypeOK
  <2>1. <<>> \in Seq(SUBSET Nat) /\ {} \in SUBSET Nat /\ 0 \in Nat
    BY SMT
  <2> QED
    BY <1>1, <1>2, <2>1, Zenon DEF Init, TypeOK
<1>4. BatchInQueue /\ NoJobForgotten
  BY SMT DEF Init, BatchInQueue, NoJobForgotten, Announced
<1> QED
  BY <1>3, <1>4, Zenon DEF QueueInv

(* A step that leaves the queue and its readers and writers alone.         *)
LEMMA QueueLeftAlone ==
  ASSUME BatchInQueue, NoJobForgotten,
         UNCHANGED <<jobs, torn, events, queueing, serving, left>>
  PROVE  BatchInQueue' /\ NoJobForgotten'
BY SMT DEF BatchInQueue, NoJobForgotten, Announced

LEMMA NextQueue == QueueInv /\ [Next]_vars => QueueInv'
<1> SUFFICES ASSUME QueueInv, [Next]_vars PROVE QueueInv'
  OBVIOUS
<1> USE DEF QueueInv
<1>0. /\ TypeOK /\ BatchInQueue /\ NoJobForgotten
      /\ PSize \in Nat /\ PipeCap \in Nat
      /\ jobs \in Seq(SUBSET Nat) /\ Len(jobs) \in Nat
      /\ left \in Nat /\ events \in Nat
  BY SizeAndPipe, SMT DEF TypeOK
<1>1. ASSUME NEW k \in 1 .. PSize, Read(k) PROVE QueueInv'
  <2>1. nread' \in 0 .. PSize
    BY <1>0, <1>1, SMT DEF Read, TypeOK
  <2>2. TypeOK'
    BY <1>0, <1>1, <2>1, SMT DEF Read, TypeOK, controller, retransmitter
  <2>3. BatchInQueue' /\ NoJobForgotten'
    BY <1>0, <1>1, QueueLeftAlone, Zenon DEF Read, controller, retransmitter
  <2> QED
    BY <2>2, <2>3, Zenon
<1>2. CASE EndOfInput
  <2>1. TypeOK'
    BY <1>0, <1>2, SMT DEF EndOfInput, TypeOK, controller, retransmitter
  <2>2. BatchInQueue' /\ NoJobForgotten'
    BY <1>0, <1>2, QueueLeftAlone, Zenon DEF EndOfInput, controller, retransmitter
  <2> QED
    BY <2>1, <2>2, Zenon
<1>3. CASE Cache
  <2>1. RingType(cache, Packet) /\ next \in Nat
    BY <1>0, Zenon DEF TypeOK
  <2>2. RingType(cache', Packet)
    BY <1>3, <2>1, PacketNum, NumPacket, TryPutType, Zenon DEF Cache
  <2>3. nread' \in 0 .. PSize /\ next' \in Nat
    BY <1>0, <1>3, <2>1, SMT DEF Cache
  <2>4. TypeOK'
    BY <1>0, <1>3, <2>2, <2>3, SMT DEF Cache, TypeOK, controller, retransmitter
  <2>5. BatchInQueue' /\ NoJobForgotten'
    BY <1>0, <1>3, QueueLeftAlone, Zenon DEF Cache, controller, retransmitter
  <2> QED
    BY <2>4, <2>5, Zenon
<1>4. ASSUME NEW w \in Wishes, Request(w) PROVE QueueInv'
  <2>1. w \in SUBSET Nat
    BY SenderAssumption, Zenon
  <2>2. TypeOK'
    BY <1>0, <1>4, <2>1, SMT DEF Request, TypeOK, audioSender, retransmitter
  <2>3. BatchInQueue'
    BY <1>0, <1>4, Zenon DEF Request, BatchInQueue, retransmitter
  <2>4. NoJobForgotten'
    BY <1>0, <1>4, SMT DEF Request, NoJobForgotten, Announced, retransmitter
  <2> QED
    BY <2>2, <2>3, <2>4, Zenon
<1>5. CASE PushJob
  <2>1. wish \in SUBSET Nat
    BY <1>0, Zenon DEF TypeOK
  <2>2. jobs' \in Seq(SUBSET Nat) /\ Len(jobs') = Len(jobs) + 1
    BY <1>0, <1>5, <2>1, SMT DEF PushJob
  <2>3. TypeOK'
    BY <1>0, <1>5, <2>2, SMT DEF PushJob, TypeOK, audioSender, retransmitter
  <2>4. BatchInQueue'
    BY <1>0, <1>5, <2>2, SMT DEF PushJob, BatchInQueue, retransmitter
  <2>5. NoJobForgotten'
    BY <1>0, <1>5, <2>2, SMT DEF PushJob, NoJobForgotten, Announced, retransmitter
  <2> QED
    BY <2>3, <2>4, <2>5, Zenon
<1>6. CASE PushEvent
  <2>1. events' \in 0 .. PipeCap
    BY <1>0, <1>6, SMT DEF PushEvent
  <2>2. TypeOK'
    BY <1>0, <1>6, <2>1, SMT DEF PushEvent, TypeOK, audioSender, retransmitter
  <2>3. BatchInQueue'
    BY <1>0, <1>6, Zenon DEF PushEvent, BatchInQueue, retransmitter
  <2>4. NoJobForgotten'
    BY <1>0, <1>6, SMT DEF PushEvent, NoJobForgotten, Announced, retransmitter
  <2> QED
    BY <2>2, <2>3, <2>4, Zenon
<1>7. CASE PopEvent
  <2>1. events' \in 0 .. PipeCap
    BY <1>0, <1>7, SMT DEF PopEvent, TypeOK
  <2>2. TypeOK'
    BY <1>0, <1>7, <2>1, SMT DEF PopEvent, TypeOK, audioSender, controller
  <2>3. BatchInQueue'
    BY <1>0, <1>7, SMT DEF PopEvent, BatchInQueue
  <2>4. NoJobForgotten'
    BY <1>0, <1>7, SMT DEF PopEvent, NoJobForgotten, Announced, controller
  <2> QED
    BY <2>2, <2>3, <2>4, Zenon
<1>8. CASE Count
  <2>1. jobs = <<>> <=> Len(jobs) = 0
    BY <1>0, SMT
  <2>2. TypeOK'
    BY <1>0, <1>8, SMT DEF Count, TypeOK, audioSender, controller
  <2>3. BatchInQueue'
    BY <1>0, <1>8, <2>1, SMT DEF Count, BatchInQueue
  <2>4. NoJobForgotten'
    BY <1>0, <1>8, SMT DEF Count, NoJobForgotten, Announced, controller
  <2> QED
    BY <2>2, <2>3, <2>4, Zenon
<1>9. CASE Answer
  <2>1. RingType(cache', Packet)
    <3>1. cache' \in {cache, Broken(cache, "overrun")}
      BY <1>9, SMT DEF Answer
    <3> QED
      BY <1>0, <3>1, BrokenType, Zenon DEF TypeOK
  <2>2. TypeOK'
    BY <1>0, <1>9, <2>1, SMT DEF Answer, TypeOK, controller
  <2>3. BatchInQueue'
    BY <1>0, <1>9, SMT DEF Answer, BatchInQueue
  <2>4. NoJobForgotten'
    BY <1>0, <1>9, SMT DEF Answer, NoJobForgotten, Announced, controller
  <2> QED
    BY <2>2, <2>3, <2>4, Zenon
<1>10. CASE PopJob
  <2>1. ~torn /\ left > 0 /\ left <= Len(jobs)
    BY <1>0, <1>10, Zenon DEF PopJob, Running, BatchInQueue
  <2>2. /\ jobs' \in Seq(SUBSET Nat)
        /\ torn' \in BOOLEAN
        /\ torn' \/ Len(jobs') = Len(jobs) - 1
        /\ left' \in Nat /\ left' = left - 1
    <3>1. Tail(jobs) \in Seq(SUBSET Nat) /\ Len(Tail(jobs)) = Len(jobs) - 1
      BY <1>0, <2>1, SMT
    <3>2. left' = left - 1 /\ left' \in Nat
      BY <1>0, <1>10, <2>1, SMT DEF PopJob
    <3> QED
      BY <1>0, <1>10, <3>1, <3>2, Zenon DEF PopJob
  <2>3. TypeOK'
    BY <1>0, <1>10, <2>2, SMT DEF PopJob, TypeOK, audioSender, controller
  <2>4. BatchInQueue'
    BY <1>0, <1>10, <2>1, <2>2, SMT DEF PopJob, BatchInQueue
  <2>5. NoJobForgotten'
    <3>1. CASE torn'
      BY <3>1, Zenon DEF NoJobForgotten
    <3>2. CASE ~torn'
      BY <1>0, <1>10, <2>1, <2>2, <3>2,
         SMT DEF PopJob, NoJobForgotten, Announced, controller
    <3> QED
      BY <3>1, <3>2, Zenon
  <2> QED
    BY <2>3, <2>4, <2>5, Zenon
<1>11. CASE FrontInPush
  <2>1. TypeOK'
    BY <1>0, <1>11, SMT DEF FrontInPush, TypeOK, audioSender, controller
  <2>2. BatchInQueue' /\ NoJobForgotten'
    BY <1>11, Zenon DEF FrontInPush, BatchInQueue, NoJobForgotten
  <2> QED
    BY <2>1, <2>2, Zenon
<1>12. CASE UNCHANGED vars
  <2>1. TypeOK'
    BY <1>0, <1>12, SMT DEF vars, TypeOK, audioSender, controller, retransmitter
  <2>2. BatchInQueue' /\ NoJobForgotten'
    BY <1>0, <1>12, QueueLeftAlone, Zenon DEF vars, controller, retransmitter
  <2> QED
    BY <2>1, <2>2, Zenon
<1> QED
  BY <1>1, <1>2, <1>3, <1>4, <1>5, <1>6, <1>7, <1>8, <1>9, <1>10, <1>11, <1>12, Zenon
     DEF Next

LEMMA QueueAlways == Spec => []QueueInv
BY InitQueue, NextQueue, PTL DEF Spec

(* The sender is type correct whatever it reads and is asked for.          *)
THEOREM SenderTypeCorrect == Spec => []TypeOK
BY QueueAlways, PTL DEF QueueInv

(* Retransmitter never takes a job from an empty queue, however its count, *)
(* its sleep and its unlocked pops interleave with Controller.             *)
THEOREM BatchStaysInQueue == Spec => []BatchInQueue
BY QueueAlways, PTL DEF QueueInv

(* There is never a job in the queue that no batch and no event stands for.*)
THEOREM JobsAreAnnounced == Spec => []NoJobForgotten
BY QueueAlways, PTL DEF QueueInv

-----------------------------------------------------------------------------
(***************************************************************************)
(* The cache.  With two slots or more it is sound in the sense of          *)
(* CircularBuffer_proofs and holds the last packets; with fewer it never   *)
(* holds any, and with none the first packet overruns it.                  *)
(***************************************************************************)
Room == IF cache.n = 0 THEN 0 ELSE cache.n - 1

CacheFull ==
  cache.n >= 2 =>
    /\ Sound(cache)
    /\ cache.absHead = next
    /\ RangeOf(cache) = IF next < Room THEN next ELSE Room
    /\ Held(cache) = {k \in 0 .. next - 1 : k >= next - Room}

CacheSmall ==
  cache.n < 2 =>
    /\ cache.tail = 0 /\ cache.head = 0
    /\ cache.fault = "none" => cache.absHead = next

CacheInv == CacheFull /\ CacheSmall

LEMMA InitCache == Init => CacheInv
<1> SUFFICES ASSUME Init PROVE CacheInv
  OBVIOUS
<1>1. RoundedCap(PSize) \in Nat /\ PSize \in Nat
  BY CacheSlots, SizeAndPipe, RingAssumption, SMT
<1>2. /\ cache.n = RoundedCap(PSize) /\ cache.absHead = 0 /\ cache.byte0 = 0
      /\ cache.tail = 0 /\ cache.head = 0 /\ cache.fault = "none"
      /\ cache.slot = [i \in 0 .. cache.n - 1 |-> Zero]
  BY Zenon DEF Init, Reset, NewBuffer, Clean
<1>3. \A i \in DOMAIN cache.slot : ~Occupied(cache, i)
  BY <1>2, Zenon DEF Occupied
<1>4. Held(cache) = {} /\ Aligned(cache)
  BY <1>3, Zenon DEF Held, Aligned
<1>5. RangeOf(cache) = 0
  BY <1>1, <1>2, SMT DEF RangeOf
<1>6. CacheFull
  <2>1. next = 0 /\ cache.n \in Nat
    BY <1>1, <1>2, Zenon DEF Init
  <2>2. cache.n >= 2 => Sound(cache)
    BY <1>1, <1>2, <1>4, <1>5, SMT DEF Sound
  <2>3. cache.n >= 2 => RangeOf(cache) = IF next < Room THEN next ELSE Room
    BY <1>5, <2>1, SMT DEF Room
  <2>4. {k \in 0 .. next - 1 : k >= next - Room} = {}
    BY <2>1, SMT
  <2> QED
    BY <1>2, <1>4, <2>1, <2>2, <2>3, <2>4, Zenon DEF CacheFull
<1>7. CacheSmall
  BY <1>2, Zenon DEF CacheSmall, Init
<1> QED
  BY <1>6, <1>7, Zenon DEF CacheInv

(* What Cache does to a ring of two slots or more.                         *)
LEMMA CachePushes ==
  ASSUME TypeOK, TypeOK', CacheInv, Cache, cache.n >= 2
  PROVE  /\ CacheFull' /\ cache'.n = cache.n
         /\ next \in Nat /\ next' = next + 1 /\ cache.absHead = next
         /\ Held(cache') = {x \in Held(cache) \cup {cache'.absHead - 1} :
                               x >= AbsTail(cache')}
<1> DEFINE p == [num |-> next]
<1>1. /\ RingType(cache, Packet) /\ RingType(cache', Packet)
      /\ next \in Nat /\ Zero \notin Packet
      /\ cache.n \in Nat
  BY SenderAssumption, RingFields, Zenon DEF TypeOK
<1>2. /\ Sound(cache) /\ cache.absHead = next
      /\ RangeOf(cache) = IF next < Room THEN next ELSE Room
      /\ Held(cache) = {k \in 0 .. next - 1 : k >= next - Room}
  BY Zenon DEF CacheInv, CacheFull
<1>3. p \in Packet /\ p.num = next
  BY <1>1, NumPacket, Zenon
<1> HIDE DEF p
<1>4. /\ p.num \in cache.absHead .. cache.absHead + 1
      /\ p.num - cache.absHead = 0 /\ p.num = cache.absHead + 0
      /\ 0 \in {0, 1}
  BY <1>1, <1>2, <1>3, SMT
<1>5. cache' = PushAt(cache, p, 0)
  <2>1. cache' = TryPut(cache, p)
    BY Zenon DEF Cache, p
  <2> QED
    BY <1>1, <1>2, <1>3, <1>4, <2>1, PushIsPushAt
<1>6. Sound(cache')
  BY <1>1, <1>2, <1>3, <1>4, <1>5, PushSound
<1>7. /\ cache'.absHead = cache.absHead + 0 + 1
      /\ cache'.n = cache.n
      /\ RangeOf(cache') = IF RangeOf(cache) + 0 + 1 < cache.n
                            THEN RangeOf(cache) + 0 + 1 ELSE cache.n - 1
  BY <1>1, <1>2, <1>3, <1>4, <1>5, PushRange
<1>8. next' = next + 1
  BY DEF Cache
<1>9. Held(cache') = {x \in Held(cache) \cup {cache'.absHead - 1} :
                        x >= AbsTail(cache')}
  BY <1>1, <1>2, <1>3, <1>4, <1>5, PushHeld
<1>10. AbsTail(cache') = cache'.absHead - RangeOf(cache')
  BY <1>1, <1>6, SoundRange, Zenon
<1>11. cache'.absHead = next' /\ Room = cache.n - 1 /\ Room' = cache.n - 1
  BY <1>1, <1>2, <1>7, <1>8, SMT DEF Room
<1>12. RangeOf(cache') = IF next' < Room' THEN next' ELSE Room'
  BY <1>1, <1>2, <1>7, <1>8, <1>11, SMT
<1>13. Held(cache') = {k \in 0 .. next' - 1 : k >= next' - Room'}
  <2>1. AbsTail(cache') = IF next' < Room' THEN 0 ELSE next' - Room'
    BY <1>1, <1>8, <1>10, <1>11, <1>12, SMT
  <2>2. \A x : x \in {k \in 0 .. next - 1 : k >= next - Room} \cup {next' - 1}
                 /\ x >= AbsTail(cache')
              <=> x \in 0 .. next' - 1 /\ x >= next' - Room'
    BY <1>1, <1>8, <1>11, <2>1, SMT
  <2> QED
    BY <1>2, <1>9, <1>11, <2>2, Zenon
<1>14. CacheFull'
  BY <1>6, <1>11, <1>12, <1>13, Zenon DEF CacheFull
<1> QED
  BY <1>1, <1>2, <1>7, <1>8, <1>9, <1>14, Zenon

(* With one slot the head comes back to it and the tail goes along.        *)
LEMMA CacheSingle ==
  ASSUME TypeOK, CacheInv, Cache, cache.n = 1
  PROVE  /\ cache'.n = 1 /\ cache'.tail = 0 /\ cache'.head = 0
         /\ cache'.absHead = next + 1 /\ cache.absHead = next
<1> DEFINE p == [num |-> next]
<1>1. cache.tail = 0 /\ cache.head = 0 /\ cache.absHead = next /\ next \in Nat
  BY SMT DEF CacheInv, CacheSmall, TypeOK, Cache, Running
<1>2. p.num = next /\ cache' = TryPut(cache, p)
  BY Zenon DEF Cache
<1> HIDE DEF p
<1>3. AbsTail(cache) = next
  BY <1>1, SMT DEF AbsTail, RangeOf, Minus
<1>4. cache' = PushAt(cache, p, 0)
  BY <1>1, <1>2, <1>3, SMT DEF TryPut, TryPushHead
<1>5. NewHead(cache, 0) = 0 /\ PushedTail(cache, 0) = 0
  BY <1>1, SMT DEF NewHead, PushedTail, Overtakes
<1>6. /\ cache'.n = cache.n /\ cache'.tail = 0 /\ cache'.head = 0
      /\ cache'.absHead = p.num + 1
  BY <1>4, <1>5, Zenon DEF PushAt, Moved
<1> QED
  BY <1>1, <1>2, <1>6, Zenon

(* With no slot the ring breaks.                                           *)
LEMMA CacheNone ==
  ASSUME TypeOK, CacheInv, Cache, cache.n = 0
  PROVE  cache' = Broken(cache, "overrun")
<1> DEFINE p == [num |-> next]
<1>1. cache.tail = 0 /\ cache.head = 0 /\ cache.absHead = next /\ next \in Nat
  BY SMT DEF CacheInv, CacheSmall, TypeOK, Cache, Running
<1>2. p.num = next /\ cache' = TryPut(cache, p)
  BY Zenon DEF Cache
<1> HIDE DEF p
<1>3. AbsTail(cache) = next
  BY <1>1, SMT DEF AbsTail, RangeOf, Minus
<1> QED
  BY <1>1, <1>2, <1>3, SMT DEF TryPut, TryPushHead, PushAfresh

(* A broken ring is as before but for its fault.                           *)
LEMMA BrokenAsBefore ==
  ASSUME NEW b, RingType(b, Packet), NEW c, c = Broken(b, "overrun")
  PROVE  /\ c.fault = "overrun"
         /\ c.n = b.n /\ c.tail = b.tail /\ c.head = b.head
         /\ c.absHead = b.absHead /\ c.slot = b.slot
BY SMT DEF RingType, Broken

(* Answer leaves the cache as it is, or breaks it when it has no slot.     *)
LEMMA AnswerAndCache ==
  ASSUME Answer
  PROVE  cache' = cache \/ (cache.n = 0 /\ cache' = Broken(cache, "overrun"))
BY SMT DEF Answer

LEMMA NextCache == TypeOK /\ TypeOK' /\ CacheInv /\ [Next]_vars => CacheInv'
<1> SUFFICES ASSUME TypeOK, TypeOK', CacheInv, [Next]_vars PROVE CacheInv'
  OBVIOUS
<1>0. cache.n \in Nat /\ RingType(cache, Packet)
  BY RingFields, Zenon DEF TypeOK
<1>1. CASE Cache
  <2>1. CASE cache.n >= 2
    <3>1. CacheFull' /\ cache'.n = cache.n
      BY <1>1, <2>1, CachePushes, Zenon
    <3>2. CacheSmall'
      BY <1>0, <2>1, <3>1, SMT DEF CacheSmall
    <3> QED
      BY <3>1, <3>2, Zenon DEF CacheInv
  <2>2. CASE cache.n = 1
    <3>1. next' = next + 1
      BY <1>1, Zenon DEF Cache
    <3> QED
      BY <1>1, <2>2, <3>1, CacheSingle, SMT DEF CacheInv, CacheFull, CacheSmall
  <2>3. CASE cache.n = 0
    <3>1. /\ cache'.n = 0 /\ cache'.fault = "overrun"
          /\ cache'.tail = cache.tail /\ cache'.head = cache.head
      BY <1>0, <1>1, <2>3, CacheNone, BrokenAsBefore, Zenon
    <3> QED
      BY <2>3, <3>1, SMT DEF CacheInv, CacheFull, CacheSmall
  <2> QED
    BY <1>0, <2>1, <2>2, <2>3, SMT
<1>2. CASE UNCHANGED <<cache, next>>
  BY <1>2, Zenon DEF CacheInv, CacheFull, CacheSmall, Room
<1>3. CASE Answer
  <2>1. next' = next
    BY <1>3, Zenon DEF Answer
  <2>2. CASE cache' = cache
    BY <1>2, <2>1, <2>2, Zenon
  <2>3. CASE cache.n = 0 /\ cache' = Broken(cache, "overrun")
    <3>1. /\ cache'.n = 0 /\ cache'.fault = "overrun"
          /\ cache'.tail = cache.tail /\ cache'.head = cache.head
      BY <1>0, <2>3, BrokenAsBefore, Zenon
    <3> QED
      BY <2>3, <3>1, SMT DEF CacheInv, CacheFull, CacheSmall
  <2> QED
    BY <1>3, <2>2, <2>3, AnswerAndCache, Zenon
<1> QED
  BY <1>1, <1>2, <1>3, Zenon
     DEF Next, vars, audioSender, Read, EndOfInput, Request, PushJob, PushEvent,
         PopEvent, Count, FrontInPush, PopJob

LEMMA CacheAlways == Spec => [](TypeOK /\ CacheInv)
BY QueueAlways, InitCache, NextCache, PTL DEF Spec, QueueInv

(* The cache holds the latest packets, as many as its slots but one, each  *)
(* in its place, and AudioSender numbers the next one as the cache does.   *)
THEOREM CacheHoldsLatest == Spec => []CacheIsLatest
<1>1. TypeOK /\ CacheInv => CacheIsLatest
  <2> SUFFICES ASSUME TypeOK, CacheInv, cache.n >= 2
               PROVE  /\ cache.absHead = next
                      /\ Held(cache) = {k \in 0 .. next - 1 : k >= next - (cache.n - 1)}
                      /\ Aligned(cache)
    BY Zenon DEF CacheIsLatest
  <2>1. cache.n \in Nat
    BY RingFields, Zenon DEF TypeOK
  <2>2. Room = cache.n - 1
    BY <2>1, SMT DEF Room
  <2> QED
    BY <2>2, Zenon DEF CacheInv, CacheFull, Sound
<1> QED
  BY <1>1, CacheAlways, PTL

-----------------------------------------------------------------------------
(***************************************************************************)
(* The cache implements the sliding window.                                *)
(***************************************************************************)
LEMMA InitCacheWindow == Init => Window!Init
<1> SUFFICES ASSUME Init PROVE Window!Init
  OBVIOUS
<1>1. RoundedCap(PSize) \in Nat
  BY CacheSlots, RingAssumption, SMT
<1>2. /\ cache.n = RoundedCap(PSize) /\ cache.absHead = 0
      /\ cache.tail = 0 /\ cache.head = 0
      /\ cache.slot = [i \in 0 .. cache.n - 1 |-> Zero]
  BY Zenon DEF Init, Reset, NewBuffer, Clean
<1>3. AbsTail(cache) = 0
  BY <1>2, SMT DEF AbsTail, RangeOf, Minus
<1>4. Held(cache) = {}
  BY <1>2, Zenon DEF Held, Occupied
<1>5. (IF cache.n = 0 THEN 0 ELSE cache.n - 1) \in Nat
  BY <1>1, <1>2, SMT
<1> QED
  BY <1>2, <1>3, <1>4, <1>5, Zenon DEF Window!Init

(* The window of a ring of fewer than two slots, whose cursors are at 0.   *)
LEMMA SmallWindow ==
  ASSUME NEW b, RingType(b, Packet), b.n \in {0, 1}, b.tail = 0, b.head = 0
  PROVE  AbsTail(b) = b.absHead /\ Held(b) = {}
<1>1. b.absHead \in Nat /\ DOMAIN b.slot = 0 .. b.n - 1
  BY RingFields, Zenon
<1>2. AbsTail(b) = b.absHead
  BY <1>1, SMT DEF AbsTail, RangeOf, Minus
<1>3. \A i \in DOMAIN b.slot : ~InWindow(b, i)
  BY <1>1, SMT DEF InWindow
<1> QED
  BY <1>2, <1>3, Zenon DEF Held

(* A packet is put into the window ...                                     *)
LEMMA CachePuts ==
  ASSUME TypeOK, TypeOK', CacheInv, CacheInv', Cache, cache.n > 0
  PROVE  Window!Put
<1>1. cache.n \in Nat /\ cache.absHead \in Nat /\ next \in Nat
  BY RingFields, Zenon DEF TypeOK
<1>2. CASE cache.n >= 2
  <2>1. /\ cache'.n = cache.n /\ next' = next + 1 /\ cache.absHead = next
        /\ Held(cache') = {x \in Held(cache) \cup {cache'.absHead - 1} :
                              x >= AbsTail(cache')}
        /\ CacheFull'
    BY <1>2, CachePushes, Zenon
  <2>2. /\ Sound(cache') /\ cache'.absHead = next'
        /\ RangeOf(cache') = IF next' < Room' THEN next' ELSE Room'
    BY <1>2, <2>1, Zenon DEF CacheFull
  <2>3. /\ Sound(cache) /\ RangeOf(cache) = IF next < Room THEN next ELSE Room
    BY <1>2, Zenon DEF CacheInv, CacheFull
  <2>4. /\ AbsTail(cache) = cache.absHead - RangeOf(cache)
        /\ AbsTail(cache') = cache'.absHead - RangeOf(cache')
    BY <2>2, <2>3, SoundRange, Zenon DEF TypeOK
  <2>5. Room = cache.n - 1 /\ Room' = cache.n - 1
    BY <1>1, <1>2, <2>1, SMT DEF Room
  <2>6. /\ cache'.absHead \in Nat /\ cache'.absHead > cache.absHead
        /\ (IF cache.n = 0 THEN 0 ELSE cache.n - 1) = cache.n - 1
    BY <1>1, <1>2, <2>1, <2>2, SMT
  <2>7. AbsTail(cache') = IF AbsTail(cache) >= cache'.absHead - (cache.n - 1)
                          THEN AbsTail(cache) ELSE cache'.absHead - (cache.n - 1)
    BY <1>1, <1>2, <2>1, <2>2, <2>3, <2>4, <2>5, SMT
  <2> QED
    BY <2>1, <2>6, <2>7, Zenon DEF Window!Put
<1>3. CASE cache.n = 1
  <2>1. /\ cache'.n = 1 /\ cache'.tail = 0 /\ cache'.head = 0
        /\ cache'.absHead = next + 1 /\ cache.absHead = next
    BY <1>3, CacheSingle, Zenon
  <2>2. AbsTail(cache') = cache'.absHead /\ Held(cache') = {}
    BY <2>1, SmallWindow, Zenon DEF TypeOK
  <2>3. cache.tail = 0 /\ cache.head = 0
    BY <1>3, SMT DEF CacheInv, CacheSmall
  <2>4. AbsTail(cache) = cache.absHead /\ Held(cache) = {}
    BY <1>3, <2>3, SmallWindow, Zenon DEF TypeOK
  <2>5. /\ (IF cache.n = 0 THEN 0 ELSE cache.n - 1) = 0
        /\ (IF cache'.n = 0 THEN 0 ELSE cache'.n - 1) = 0
    BY <1>3, <2>1, SMT
  <2>6. /\ cache'.absHead \in Nat /\ cache'.absHead > cache.absHead
        /\ AbsTail(cache') = IF AbsTail(cache) >= cache'.absHead - 0
                             THEN AbsTail(cache) ELSE cache'.absHead - 0
        /\ {x \in {} \cup {cache'.absHead - 1} : x >= AbsTail(cache')} = {}
    BY <1>1, <2>1, <2>2, <2>4, SMT
  <2> QED
    BY <2>2, <2>4, <2>5, <2>6, Zenon DEF Window!Put
<1> QED
  BY <1>1, <1>2, <1>3, SMT

(* ... and a ring that breaks leaves the window as it is.                  *)
LEMMA BreakingKeepsWindow ==
  ASSUME TypeOK, TypeOK', CacheInv, cache.n = 0, cache' = Broken(cache, "overrun")
  PROVE  UNCHANGED Window!window
<1>1. /\ cache'.n = 0 /\ cache'.tail = 0 /\ cache'.head = 0
      /\ cache.tail = 0 /\ cache.head = 0 /\ cache'.absHead = cache.absHead
  BY BrokenAsBefore, SMT DEF TypeOK, CacheInv, CacheSmall
<1>2. /\ AbsTail(cache) = cache.absHead /\ Held(cache) = {}
      /\ AbsTail(cache') = cache'.absHead /\ Held(cache') = {}
  BY <1>1, SmallWindow, Zenon DEF TypeOK
<1> QED
  BY <1>1, <1>2, Zenon DEF Window!window

LEMMA NextCacheWindow ==
  TypeOK /\ CacheInv /\ TypeOK' /\ CacheInv' /\ [Next]_vars
    => [Window!Put]_(Window!window)
<1> SUFFICES ASSUME TypeOK, CacheInv, TypeOK', CacheInv', [Next]_vars
             PROVE  Window!Put \/ UNCHANGED Window!window
  OBVIOUS
<1>1. cache.n \in Nat /\ RingType(cache, Packet)
  BY RingFields, Zenon DEF TypeOK
<1>2. CASE UNCHANGED cache
  BY <1>2, Zenon DEF Window!window
<1>3. CASE Cache
  <2>1. CASE cache.n > 0
    BY <1>3, <2>1, CachePuts, Zenon
  <2>2. CASE cache.n = 0
    BY <1>3, <2>2, CacheNone, BreakingKeepsWindow, Zenon
  <2> QED
    BY <1>1, <2>1, <2>2, SMT
<1>4. CASE Answer
  BY <1>2, <1>4, AnswerAndCache, BreakingKeepsWindow, Zenon
<1> QED
  BY <1>2, <1>3, <1>4, Zenon
     DEF Next, vars, audioSender, Read, EndOfInput, Request, PushJob, PushEvent,
         PopEvent, Count, FrontInPush, PopJob

(* Whatever the capacity, also one without room for a packet, the cache    *)
(* implements the sliding window.                                          *)
THEOREM CacheImplementsWindow == Spec => CacheIsSlidingWindow
<1>1. Init => Window!Init
  BY InitCacheWindow
<1>2. TypeOK /\ CacheInv /\ TypeOK' /\ CacheInv' /\ [Next]_vars
        => [Window!Put]_(Window!window)
  BY NextCacheWindow
<1> QED
  BY <1>1, <1>2, CacheAlways, PTL DEF Spec, CacheIsSlidingWindow, Window!PutSpec
=============================================================================
