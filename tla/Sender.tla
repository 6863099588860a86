------------------------------- MODULE Sender -------------------------------
(***************************************************************************)
(* The sender's three threads (src/sender): AudioSender multicasts packets *)
(* and keeps them in the packet cache, Controller queues the requests for  *)
(* retransmission, Retransmitter answers them in batches from the cache.   *)
(*                                                                         *)
(* The cache and the job queue have a mutex each.  Three places matter:    *)
(*   - a packet is multicast before it is put into the cache;              *)
(*   - Controller holds the queue from push() until its event is written;  *)
(*   - Retransmitter counts the jobs under the mutex, but gets at them and *)
(*     takes them out of the queue without it.                             *)
(***************************************************************************)
EXTENDS CircularBuffer, Sequences

CONSTANTS
  PSize,     \* _psize, the bytes of a packet
  PipeCap,   \* how many events the pipe holds before a write blocks
  Wishes,    \* the sets of packet numbers that requests ask for
  MaxNum,    \* bound: the last packet number that is sent
  MaxJobs,   \* bound: a request arrives when fewer jobs are queued,
  MaxEvents  \* bound: ... and fewer events are in the pipe

Packet == [num : Nat]

ASSUME SenderAssumption ==
  /\ PSize \in Nat \ {0}
  /\ PipeCap \in Nat \ {0}
  /\ Wishes \subseteq SUBSET Nat
  /\ MaxNum \in Nat
  /\ MaxJobs \in Nat
  /\ MaxEvents \in Nat
  /\ Zero \notin Packet

VARIABLES
  cache,     \* *_packet_cache, a ring of capacity FSIZE
  sending,   \* AudioSender: "reading", "caching" or "done"
  nread,     \* bytes of the packet being read
  next,      \* first_byte_num, in packets
  queueing,  \* Controller: "idle", in "push" of a job, or at its "event"
  wish,      \* the request Controller is queueing
  jobs,      \* *_rexmit_job_queue
  torn,      \* a race of push() with front() or pop() has wrecked the queue
  events,    \* NEW_JOBS events in the pipe of Retransmitter
  serving,   \* Retransmitter: "polling", "counting", "answering", "popping"
  left,      \* new_jobs
  answers    \* the packets sent in answer to the latest job

audioSender == <<cache, sending, nread, next>>
controller == <<queueing, wish>>
retransmitter == <<serving, left, answers>>
vars == <<audioSender, controller, jobs, torn, events, retransmitter>>

Init ==
  /\ cache = Reset(NewBuffer, PSize)
  /\ sending = "reading" /\ nread = 0 /\ next = 0
  /\ queueing = "idle" /\ wish = {}
  /\ jobs = <<>> /\ torn = FALSE /\ events = 0
  /\ serving = "polling" /\ left = 0 /\ answers = {}

Running == cache.fault = "none" /\ ~torn

-----------------------------------------------------------------------------
(* mutant: room for a whole packet is assumed at every read *)
ReadWholePacket(k) ==
  /\ Running
  /\ sending = "reading"
  /\ next <= MaxNum
  /\ nread' = nread + k
  /\ sending' = IF nread' >= PSize THEN "caching" ELSE "reading"
  /\ UNCHANGED <<cache, next, controller, jobs, torn, events, retransmitter>>

(* AudioSender::run(): some bytes of a packet, or the last ones, and then  *)
(* the packet is multicast                                                 *)
Read(k) ==
  /\ Running
  /\ sending = "reading"
  /\ next <= MaxNum
  /\ nread + k <= PSize
  /\ nread' = nread + k
  /\ sending' = IF nread' = PSize THEN "caching" ELSE "reading"
  /\ UNCHANGED <<cache, next, controller, jobs, torn, events, retransmitter>>

(* the end of the input, of a file or a terminal; an incomplete packet is  *)
(* dropped.  The end of a pipe is no POLLIN and need not be noticed, which *)
(* is why EndOfInput has no fairness; see Shutdown.                        *)
EndOfInput ==
  /\ Running
  /\ sending = "reading"
  /\ sending' = "done"
  /\ UNCHANGED <<cache, nread, next, controller, jobs, torn, events, retransmitter>>

(* mutant: packets are numbered in bytes, and the cache in packets *)
CacheNumberedByte ==
  /\ Running
  /\ sending = "caching"
  /\ cache' = TryPut(cache, [num |-> next])
  /\ next' = next + PSize
  /\ nread' = 0
  /\ sending' = "reading"
  /\ UNCHANGED <<controller, jobs, torn, events, retransmitter>>

(* the second half of send_packet(), under the cache's mutex               *)
Cache ==
  /\ Running
  /\ sending = "caching"
  /\ cache' = TryPut(cache, [num |-> next])
  /\ next' = next + 1
  /\ nread' = 0
  /\ sending' = "reading"
  /\ UNCHANGED <<controller, jobs, torn, events, retransmitter>>

-----------------------------------------------------------------------------
(* Controller::handle_rexmit_request() takes the mutex and calls push() ...*)
Request(w) ==
  /\ Running
  /\ queueing = "idle"
  /\ Len(jobs) < MaxJobs
  /\ events < MaxEvents
  /\ queueing' = "push"
  /\ wish' = w
  /\ UNCHANGED <<audioSender, jobs, torn, events, retransmitter>>

(* ... which returns ...                                                   *)
PushJob ==
  /\ Running
  /\ queueing = "push"
  /\ jobs' = Append(jobs, wish)
  /\ queueing' = "event"
  /\ UNCHANGED <<audioSender, wish, torn, events, retransmitter>>

(* mutant: only the first job in the queue is announced *)
PushEventIfFirst ==
  /\ Running
  /\ queueing = "event"
  /\ events < PipeCap
  /\ events' = IF Len(jobs) = 1 THEN events + 1 ELSE events
  /\ queueing' = "idle"
  /\ UNCHANGED <<audioSender, wish, jobs, torn, retransmitter>>

(* ... and an event is written, as soon as there is room for it            *)
PushEvent ==
  /\ Running
  /\ queueing = "event"
  /\ events < PipeCap
  /\ events' = events + 1
  /\ queueing' = "idle"
  /\ UNCHANGED <<audioSender, wish, jobs, torn, retransmitter>>

-----------------------------------------------------------------------------
(* Retransmitter::run() reads an event ...                                 *)
PopEvent ==
  /\ Running
  /\ serving = "polling"
  /\ events > 0
  /\ events' = events - 1
  /\ serving' = "counting"
  /\ UNCHANGED <<audioSender, controller, jobs, torn, left, answers>>

(* ... counts the jobs under the mutex, and sleeps until _rtime is over    *)
Count ==
  /\ Running
  /\ serving = "counting"
  /\ queueing = "idle"
  /\ left' = Len(jobs)
  /\ serving' = IF jobs = <<>> THEN "polling" ELSE "answering"
  /\ UNCHANGED <<audioSender, controller, jobs, torn, events, answers>>

(* handle_retransmission(), under the cache's mutex.  The numbers are in   *)
(* order; for each, the walk along the cache goes up to it, or to the head *)
(* of the cache; the walk is left for good at the first number that is in  *)
(* the cache.  What is sent otherwise is the slot at the head.             *)
Wanted(w) == {k \in w : k >= AbsTail(cache)}

Walked(k) == IF k < cache.absHead THEN k ELSE cache.absHead

Answered(w) ==
  {k \in Wanted(w) : \A j \in Wanted(w) : j <= k => Walked(j) = cache.absHead}

SlotOf(num) == (cache.tail + (num - AbsTail(cache))) % cache.n

Datagram(num) == [num |-> num, audio |-> cache.slot[SlotOf(num)]]

Answer ==
  /\ Running
  /\ serving = "answering"
  /\ serving' = "popping"
  /\ LET sent == Answered(Head(jobs))
     IN  IF cache.n = 0 /\ sent # {}
         THEN /\ cache' = Broken(cache, "overrun")
              /\ answers' = {}
         ELSE /\ cache' = cache
              /\ answers' = {Datagram(Walked(k)) : k \in sent}
  /\ UNCHANGED <<sending, nread, next, controller, jobs, torn, events, left>>

(* front() without the mutex: what it returns while Controller is in       *)
(* push() need not be a job.                                               *)
FrontInPush ==
  /\ Running
  /\ serving = "answering"
  /\ queueing = "push"
  /\ torn' = TRUE
  /\ serving' = "popping"
  /\ UNCHANGED <<audioSender, controller, jobs, events, left, answers>>

(* mutant: the job is taken out of the queue twice *)
PopJobTwice ==
  /\ Running
  /\ serving = "popping"
  /\ jobs' = IF Len(jobs) > 1 THEN Tail(Tail(jobs)) ELSE Tail(jobs)
  /\ torn' = FALSE
  /\ left' = left - 1
  /\ serving' = IF left' = 0 THEN "polling" ELSE "answering"
  /\ UNCHANGED <<audioSender, controller, events, answers>>

(* pop() without the mutex: while Controller is in push(), the queue may   *)
(* be wrecked.                                                             *)
PopJob ==
  /\ Running
  /\ serving = "popping"
  /\ \/ jobs' = Tail(jobs) /\ torn' = FALSE
     \/ queueing = "push" /\ jobs' = jobs /\ torn' = TRUE
  /\ left' = left - 1
  /\ serving' = IF left' = 0 THEN "polling" ELSE "answering"
  /\ UNCHANGED <<audioSender, controller, events, answers>>

Next ==
  \/ \E k \in 1 .. PSize : Read(k)
  \/ EndOfInput \/ Cache
  \/ \E w \in Wishes : Request(w)
  \/ PushJob \/ PushEvent
  \/ PopEvent \/ Count \/ Answer \/ FrontInPush \/ PopJob

Spec == Init /\ [][Next]_vars

(* Threads that can run do; a mutex that is free again and again is got.   *)
Fairness ==
  /\ WF_vars(PushJob) /\ WF_vars(PushEvent)
  /\ WF_vars(PopEvent) /\ SF_vars(Count) /\ WF_vars(Answer) /\ WF_vars(PopJob)

FairSpec == Spec /\ Fairness

-----------------------------------------------------------------------------
(* Type correctness of the sender.                                         *)
TypeOK ==
  /\ RingType(cache, Packet)
  /\ sending \in {"reading", "caching", "done"}
  /\ nread \in 0 .. PSize
  /\ next \in Nat
  /\ queueing \in {"idle", "push", "event"}
  /\ wish \in SUBSET Nat
  /\ jobs \in Seq(SUBSET Nat)
  /\ torn \in BOOLEAN
  /\ events \in 0 .. PipeCap
  /\ serving \in {"polling", "counting", "answering", "popping"}
  /\ left \in Nat

(* The cache holds the latest packets, each in its place, as many as it    *)
(* has slots but one; AudioSender's own number is the next one.            *)
CacheIsLatest ==
  cache.n >= 2 =>
    /\ cache.absHead = next
    /\ Held(cache) = {k \in 0 .. next - 1 : k >= next - (cache.n - 1)}
    /\ Aligned(cache)

(* front() and pop() are never called on an empty queue, although the jobs *)
(* were counted before a sleep and without the mutex since.                *)
BatchInQueue ==
  ~torn => /\ left <= Len(jobs)
           /\ serving \in {"answering", "popping"} <=> left > 0

(* No job is forgotten: each one in the queue belongs to the batch, or an  *)
(* event is in the pipe or about to be written or heeded.                  *)
Announced ==
  left + events + (IF serving = "counting" THEN 1 ELSE 0)
                + (IF queueing = "event" THEN 1 ELSE 0)

NoJobForgotten == ~torn => Len(jobs) <= Announced

(* The cache with its cursors implements the sliding window of numbers, as *)
(* one that is only put into: it never starts over.                        *)
Window == INSTANCE SlidingWindow WITH
            lo    <- AbsTail(cache),
            hi    <- cache.absHead,
            have  <- Held(cache),
            limit <- IF cache.n = 0 THEN 0 ELSE cache.n - 1

CacheIsSlidingWindow == Window!PutSpec

(* Every job is answered in the end, unless the input ends, and with it    *)
(* the program.                                                            *)
JobsAreServed ==
  jobs # <<>> ~> (serving = "popping" \/ sending = "done" \/ ~Running)

(***************************************************************************)
(* What the documentation says and the code does not do.                   *)
(***************************************************************************)

(* A packet asked for that is in the cache is sent again, as it is there. *)
RequestedIsResent ==
  [][Answer => \A k \in Head(jobs) \cap Held(cache) :
                 [num |-> k, audio |-> [num |-> k]] \in answers']_vars
=============================================================================
