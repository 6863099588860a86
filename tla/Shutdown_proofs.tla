-------------------------- MODULE Shutdown_proofs --------------------------
(***************************************************************************)
(* Theorems about the end of the two programs, for any set of workers.     *)
(***************************************************************************)
EXTENDS Shutdown, SequenceTheorems, TLAPS

Frame ==
  [signum : Signum, id : -1 .. program.n - 1, at : {"test", "lock", "locked", "push"}]

(***************************************************************************)
(* The inductive invariant.  A handler is only ever past its test for a    *)
(* worker there is; a worker that main has yet to create has not run, so   *)
(* that creating it cannot bring back one that has left; and a handler has *)
(* seen to all the workers above the one it is at, whichever handler       *)
(* marked them.                                                            *)
(***************************************************************************)
AtWorker ==
  \A k \in 1 .. Len(handlers) : handlers[k].at # "test" => handlers[k].id >= 0

NotYetCreated ==
  main = "creating" => \A w \in Worker : w >= next => worker[w] = "new"

DoneAbove ==
  \A k \in 1 .. Len(handlers) : \A w \in Worker :
    w > handlers[k].id \/ (w = handlers[k].id /\ handlers[k].at = "push") => signalled[w]

StopInv ==
  TypeOK /\ AtWorker /\ NotYetCreated /\ DoneAbove /\ MarkedIsTold /\ StopIsForAll

-----------------------------------------------------------------------------
(* What the assumption says of the program that runs.                      *)
LEMMA ProgramFacts ==
  ASSUME program \in Program
  PROVE  /\ program.n \in Nat \ {0}
         /\ program.wakes \in [Worker -> SUBSET Worker]
BY ShutdownAssumption, Zenon DEF Worker

LEMMA WorkerFacts ==
  ASSUME program \in Program
  PROVE  /\ Worker = 0 .. program.n - 1
         /\ \A w \in Worker : w \in Int /\ w >= 0 /\ w < program.n
         /\ 0 \in Worker
         /\ program.n - 1 \in Worker
<1>1. program.n \in Nat \ {0}
  BY ProgramFacts
<1> QED
  BY <1>1, SMT DEF Worker

LEMMA FrameTypes ==
  ASSUME TypeOK
  PROVE  /\ handlers \in Seq(Frame) /\ Len(handlers) \in Nat
         /\ \A k \in 1 .. Len(handlers) :
              /\ handlers[k] \in Frame
              /\ handlers[k].signum \in Signum
              /\ handlers[k].id \in Int /\ handlers[k].id >= -1
              /\ handlers[k].id <= program.n - 1
              /\ handlers[k].at \in {"test", "lock", "locked", "push"}
<1>1. handlers \in Seq(Frame) /\ program.n \in Nat \ {0}
  BY ProgramFacts DEF TypeOK, Frame
<1>2. Len(handlers) \in Nat /\ \A k \in 1 .. Len(handlers) : handlers[k] \in Frame
  BY <1>1, LenProperties, ElementOfSeq, Zenon
<1> QED
  BY <1>1, <1>2, SMT DEF Frame

(* The handler on top of a stack that is not empty.                        *)
LEMMA OnTop ==
  ASSUME TypeOK, handlers # <<>>
  PROVE  Len(handlers) \in 1 .. Len(handlers)
<1>1. handlers \in Seq(Frame)
  BY FrameTypes
<1> QED
  BY <1>1, EmptySeq, SMT

(* What GoTo does to the stack: the top handler moves, nothing else.       *)
LEMMA Moved ==
  ASSUME TypeOK, handlers # <<>>, NEW id \in -1 .. program.n - 1,
         NEW step \in {"test", "lock", "locked", "push"}, GoTo(id, step)
  PROVE  /\ handlers' \in Seq(Frame)
         /\ Len(handlers') = Len(handlers)
         /\ \A k \in 1 .. Len(handlers) :
              /\ handlers'[k].id = (IF k = Len(handlers) THEN id ELSE handlers[k].id)
              /\ handlers'[k].at = (IF k = Len(handlers) THEN step ELSE handlers[k].at)
<1> DEFINE n == Len(handlers)
           top == [signum |-> handlers[n].signum, id |-> id, at |-> step]
<1>1. n \in 1 .. n /\ handlers \in Seq(Frame)
  BY OnTop, FrameTypes
<1>2. handlers[n] \in Frame /\ handlers[n].signum \in Signum
  BY <1>1, FrameTypes, Zenon
<1>3. top \in Frame
  BY <1>2, SMT DEF Frame
<1>4. handlers' = [handlers EXCEPT ![n] = top]
  BY Zenon DEF GoTo
<1> HIDE DEF n
<1>5. /\ [handlers EXCEPT ![n] = top] \in Seq(Frame)
      /\ Len([handlers EXCEPT ![n] = top]) = Len(handlers)
      /\ \A k \in 1 .. Len(handlers) :
           [handlers EXCEPT ![n] = top][k] = IF k = n THEN top ELSE handlers[k]
  <2> HIDE DEF top
  <2>1. n \in 1 .. Len(handlers)
    BY <1>1 DEF n
  <2> QED
    BY <1>1, <1>3, <2>1, ExceptSeq
<1>6. top.id = id /\ top.at = step
  BY DEF top
<1> HIDE DEF top
<1>7. \A k \in 1 .. Len(handlers) : handlers'[k] = IF k = n THEN top ELSE handlers[k]
  BY <1>4, <1>5, Zenon
<1>8. \A k \in 1 .. Len(handlers) :
        /\ handlers'[k].id = (IF k = n THEN id ELSE handlers[k].id)
        /\ handlers'[k].at = (IF k = n THEN step ELSE handlers[k].at)
  BY <1>6, <1>7, Zenon
<1> QED
  BY <1>4, <1>5, <1>8, Zenon DEF n

-----------------------------------------------------------------------------
(* TERMINATE in a pipe, and what reading and writing do to it.             *)
Message == {"EVENT", "TERMINATE"}

Ends(q) == \E k \in 1 .. Len(q) : q[k] = "TERMINATE"

LEMMA EndsAppend ==
  ASSUME NEW q \in Seq(Message), NEW e \in Message
  PROVE  /\ Append(q, e) \in Seq(Message)
         /\ Ends(q) => Ends(Append(q, e))
         /\ e = "TERMINATE" => Ends(Append(q, e))
<1>1. /\ Append(q, e) \in Seq(Message) /\ Len(Append(q, e)) = Len(q) + 1
      /\ \A i \in 1 .. Len(q) : Append(q, e)[i] = q[i]
      /\ Append(q, e)[Len(q) + 1] = e
  BY AppendProperties
<1>2. Len(q) \in Nat
  BY LenProperties
<1> QED
  BY <1>1, <1>2, SMT DEF Ends

LEMMA EndsTail ==
  ASSUME NEW q \in Seq(Message), q # <<>>
  PROVE  /\ Tail(q) \in Seq(Message)
         /\ Ends(q) => Head(q) = "TERMINATE" \/ Ends(Tail(q))
<1>1. /\ Tail(q) \in Seq(Message) /\ Len(Tail(q)) = Len(q) - 1
      /\ \A i \in 1 .. Len(Tail(q)) : Tail(q)[i] = q[i + 1]
  BY HeadTailProperties
<1>2. Len(q) \in Nat /\ Head(q) = q[1]
  BY LenProperties, SMT
<1>3. ASSUME NEW k \in 1 .. Len(q), q[k] = "TERMINATE", Head(q) # "TERMINATE"
      PROVE  Ends(Tail(q))
  <2>1. k # 1
    BY <1>2, <1>3
  <2>2. k - 1 \in 1 .. Len(Tail(q)) /\ Tail(q)[k - 1] = q[(k - 1) + 1] /\ (k - 1) + 1 = k
    BY <1>1, <1>2, <2>1, SMT
  <2> QED
    BY <1>3, <2>2 DEF Ends
<1> QED
  BY <1>1, <1>3, Zenon DEF Ends

LEMMA QueueTypes ==
  ASSUME TypeOK
  PROVE  \A w \in Worker : queue[w] \in Seq(Message)
BY Zenon DEF TypeOK, Message

(* MarkedIsTold, for one worker.                                           *)
Told(w) ==
  \/ worker[w] = "left"
  \/ Ends(queue[w])
  \/ \E k \in 1 .. Len(handlers) : handlers[k].id = w /\ handlers[k].at = "push"

LEMMA MarkedTold == MarkedIsTold <=> \A w \in Worker : signalled[w] => Told(w)
BY Zenon DEF MarkedIsTold, Told, Ends

-----------------------------------------------------------------------------
LEMMA InitStop == Init => StopInv
<1> SUFFICES ASSUME Init PROVE StopInv
  OBVIOUS
<1>1. /\ program \in Program /\ running = TRUE /\ handlers = <<>> /\ next = 0
      /\ signalled = [w \in Worker |-> FALSE]
      /\ queue = [w \in Worker |-> <<>>]
      /\ worker = [w \in Worker |-> "new"]
      /\ main = "creating" /\ arrived = {} /\ input = "open"
  BY DEF Init
<1>2. 0 \in Worker
  BY <1>1, WorkerFacts
<1>3. TypeOK
  <2>1. handlers \in Seq(Frame) /\ <<>> \in Seq({"EVENT", "TERMINATE"})
    BY <1>1, SMT
  <2> QED
    BY <1>1, <1>2, <2>1, Zenon DEF TypeOK, Frame
<1>4. AtWorker /\ DoneAbove
  <2>1. 1 .. Len(handlers) = {}
    BY <1>1, SMT
  <2> QED
    BY <2>1, Zenon DEF AtWorker, DoneAbove
<1>5. NotYetCreated
  BY <1>1, Zenon DEF NotYetCreated
<1>6. MarkedIsTold /\ StopIsForAll
  BY <1>1, Zenon DEF MarkedIsTold, StopIsForAll
<1> QED
  BY <1>3, <1>4, <1>5, <1>6 DEF StopInv

-----------------------------------------------------------------------------
(***************************************************************************)
(* A worker goes on.  What handlers have done stays as it is; a worker     *)
(* that reads the TERMINATE in its pipe leaves.                            *)
(***************************************************************************)
LEMMA StackLeftAlone ==
  ASSUME StopInv, UNCHANGED <<program, running, signalled, handlers>>
  PROVE  AtWorker' /\ DoneAbove' /\ StopIsForAll'
BY Zenon DEF StopInv, AtWorker, DoneAbove, StopIsForAll, Worker

LEMMA ToldStays ==
  ASSUME StopInv, UNCHANGED <<program, signalled, handlers>>,
         \A w \in Worker : worker[w] = "left" => worker'[w] = "left",
         \A w \in Worker : Ends(queue[w]) => Ends(queue'[w]) \/ worker'[w] = "left"
  PROVE  MarkedIsTold'
<1>1. \A w \in Worker : signalled[w] => Told(w)
  BY MarkedTold DEF StopInv
<1>2. \A w \in Worker : Told(w) => Told(w)'
  BY Zenon DEF Told, Ends
<1>3. \A w \in Worker' : signalled'[w] => Told(w)'
  BY <1>1, <1>2, Zenon DEF Worker
<1> QED
  BY <1>3, Zenon DEF MarkedIsTold, Told, Ends

LEMMA WorkerMoves ==
  ASSUME StopInv, NEW w \in Worker, NEW s \in {"top", "poll", "work", "left"},
         worker[w] \notin {"new", "left"},
         worker' = [worker EXCEPT ![w] = s],
         queue' \in [Worker -> Seq(Message)],
         \A v \in Worker : Ends(queue[v]) => Ends(queue'[v]) \/ worker'[v] = "left",
         UNCHANGED <<program, input, running, signalled, main, next, handlers, arrived>>
  PROVE  StopInv'
<1>1. TypeOK'
  <2>1. worker' \in [Worker -> {"new", "top", "poll", "work", "left"}]
    BY Zenon DEF StopInv, TypeOK
  <2> QED
    BY <2>1, Zenon DEF StopInv, TypeOK, Worker, Message
<1>2. AtWorker' /\ DoneAbove' /\ StopIsForAll'
  BY StackLeftAlone
<1>3. NotYetCreated'
  BY Zenon DEF StopInv, NotYetCreated, TypeOK, Worker
<1>4. \A v \in Worker : worker[v] = "left" => worker'[v] = "left"
  BY Zenon DEF StopInv, TypeOK
<1>5. MarkedIsTold'
  BY <1>4, ToldStays
<1> QED
  BY <1>1, <1>2, <1>3, <1>5 DEF StopInv

LEMMA LoopStop ==
  ASSUME StopInv, NEW w \in Worker, Loop(w)
  PROVE  StopInv'
<1>0. /\ TypeOK /\ program \in Program /\ worker \in [Worker -> {"new", "top", "poll", "work", "left"}]
      /\ queue \in [Worker -> Seq(Message)]
  BY DEF StopInv, TypeOK, Message
<1>1. CASE Top(w)
  <2>1. PICK s \in {"left", "work", "poll"} : worker' = [worker EXCEPT ![w] = s]
    BY <1>1, Zenon DEF Top
  <2>2. queue' = queue /\ worker[w] = "top"
    BY <1>1 DEF Top
  <2> QED
    BY <1>0, <1>1, <2>1, <2>2, WorkerMoves, Zenon DEF Top
<1>2. CASE Pop(w)
  <2>1. /\ queue[w] \in Seq(Message) /\ queue[w] # <<>> /\ worker[w] = "poll"
        /\ queue' = [queue EXCEPT ![w] = Tail(queue[w])]
        /\ worker' = [worker EXCEPT ![w] =
                        IF Head(queue[w]) = "TERMINATE" THEN "left" ELSE "work"]
    BY <1>0, <1>2, Zenon DEF Pop
  <2>2. /\ Tail(queue[w]) \in Seq(Message)
        /\ Ends(queue[w]) => Head(queue[w]) = "TERMINATE" \/ Ends(Tail(queue[w]))
    BY <2>1, EndsTail
  <2>3. queue' \in [Worker -> Seq(Message)]
    BY <1>0, <2>1, <2>2, Zenon
  <2>4. \A v \in Worker : Ends(queue[v]) => Ends(queue'[v]) \/ worker'[v] = "left"
    BY <1>0, <2>1, <2>2, Zenon
  <2>5. PICK s \in {"left", "work"} : worker' = [worker EXCEPT ![w] = s]
    BY <2>1, Zenon
  <2> QED
    BY <1>2, <2>1, <2>3, <2>4, <2>5, WorkerMoves, Zenon DEF Pop
<1>3. CASE Readable(w)
  BY <1>0, <1>3, WorkerMoves, Zenon DEF Readable
<1>4. CASE Work(w)
  <2>1. queue' \in [Worker -> Seq(Message)]
        /\ \A v \in Worker : Ends(queue[v]) => Ends(queue'[v])
    <3>1. CASE queue' = queue
      BY <1>0, <3>1
    <3>2. ASSUME NEW v \in program.wakes[w], queue' = [queue EXCEPT ![v] = Append(queue[v], "EVENT")]
          PROVE  /\ queue' \in [Worker -> Seq(Message)]
                 /\ \A u \in Worker : Ends(queue[u]) => Ends(queue'[u])
      <4>1. v \in Worker /\ "EVENT" \in Message
        BY <1>0, ProgramFacts, Zenon DEF Message
      <4>2. queue[v] \in Seq(Message)
        BY <1>0, <4>1
      <4>3. /\ Append(queue[v], "EVENT") \in Seq(Message)
            /\ Ends(queue[v]) => Ends(Append(queue[v], "EVENT"))
        BY <4>1, <4>2, EndsAppend
      <4> QED
        BY <1>0, <3>2, <4>1, <4>3, Zenon
    <3> QED
      BY <1>4, <3>1, <3>2, Zenon DEF Work
  <2> QED
    BY <1>4, <2>1, WorkerMoves, Zenon DEF Work
<1> QED
  BY <1>1, <1>2, <1>3, <1>4 DEF Loop

LEMMA EndOfInputStop ==
  ASSUME StopInv, EndOfInput
  PROVE  StopInv'
<1>1. program.n - 1 \in Worker
  BY WorkerFacts DEF StopInv, TypeOK
<1>2. queue' \in [Worker -> Seq(Message)]
  BY DEF StopInv, TypeOK, EndOfInput, Message
<1> QED
  BY <1>1, <1>2, WorkerMoves, Zenon DEF EndOfInput

-----------------------------------------------------------------------------
(* main() goes on: it starts a worker, which has not run before, or joins  *)
(* one.                                                                    *)
LEMMA CreateStop ==
  ASSUME StopInv, Create
  PROVE  StopInv'
<1>0. /\ TypeOK /\ next \in Worker /\ program \in Program
      /\ worker \in [Worker -> {"new", "top", "poll", "work", "left"}]
      /\ Worker' = Worker
  BY DEF StopInv, TypeOK, Create, Worker
<1>1. /\ Worker = 0 .. program.n - 1 /\ program.n \in Nat
      /\ worker' = [worker EXCEPT ![next] = "top"]
      /\ \/ next + 1 < program.n /\ next' = next + 1 /\ main' = main
         \/ next' = next /\ main' = "joining"
  BY <1>0, ProgramFacts, WorkerFacts, Zenon DEF Create
<1>2. next' \in Worker /\ next' >= next /\ (main' = "creating" => next' = next + 1)
  BY <1>0, <1>1, SMT
<1>3. \A w \in Worker : w >= next => worker[w] = "new"
  BY DEF StopInv, NotYetCreated, Create
<1>4. TypeOK'
  <2>1. worker' \in [Worker -> {"new", "top", "poll", "work", "left"}]
    BY <1>0, <1>1, Zenon
  <2>2. main' \in {"creating", "joining", "raising", "returned"}
    BY <1>0, <1>1, Zenon DEF TypeOK
  <2> QED
    BY <1>0, <1>2, <2>1, <2>2, Zenon DEF TypeOK, Create
<1>5. AtWorker' /\ DoneAbove' /\ StopIsForAll'
  BY StackLeftAlone DEF Create
<1>6. NotYetCreated'
  <2> SUFFICES ASSUME main' = "creating", NEW w \in Worker, w >= next'
               PROVE  worker'[w] = "new"
    BY <1>0, Zenon DEF NotYetCreated
  <2>1. w # next /\ w >= next
    BY <1>0, <1>1, <1>2, SMT
  <2> QED
    BY <1>0, <1>1, <1>3, <2>1, Zenon
<1>7. MarkedIsTold'
  <2>1. worker[next] = "new"
    BY <1>0, <1>1, <1>3, SMT
  <2>2. \A w \in Worker : worker[w] = "left" => worker'[w] = "left"
    BY <1>0, <1>1, <2>1, Zenon
  <2> QED
    BY <2>2, ToldStays, Zenon DEF Create
<1> QED
  BY <1>4, <1>5, <1>6, <1>7 DEF StopInv

LEMMA JoinStop ==
  ASSUME StopInv, Join
  PROVE  StopInv'
<1>0. /\ TypeOK /\ next \in Worker /\ program \in Program /\ Worker' = Worker
  BY DEF StopInv, TypeOK, Join, Worker
<1>1. Worker = 0 .. program.n - 1 /\ program.n \in Nat
  BY <1>0, ProgramFacts, WorkerFacts
<1>2. /\ next' \in Worker
      /\ main' \in {"creating", "joining", "raising", "returned"} /\ main' # "creating"
  BY <1>0, <1>1, SMT DEF Join
<1>3. TypeOK'
  BY <1>0, <1>2, Zenon DEF TypeOK, Join
<1>4. AtWorker' /\ DoneAbove' /\ StopIsForAll'
  BY StackLeftAlone DEF Join
<1>5. NotYetCreated'
  BY <1>2 DEF NotYetCreated
<1>6. MarkedIsTold'
  BY ToldStays, Zenon DEF Join
<1> QED
  BY <1>3, <1>4, <1>5, <1>6 DEF StopInv

-----------------------------------------------------------------------------
(* A handler comes onto the stack; it has all the workers before it.       *)
LEMMA FramePushed ==
  ASSUME StopInv, NEW signum \in Signum,
         handlers' = Append(handlers, Handler(signum)),
         main' \in {"creating", "joining", "raising", "returned"},
         main' = "creating" => main = "creating",
         arrived' \subseteq Signum,
         UNCHANGED <<program, input, running, signalled, queue, worker, next>>
  PROVE  StopInv'
<1> DEFINE n == Len(handlers)
<1>0. /\ TypeOK /\ program \in Program /\ program.n \in Nat \ {0}
      /\ handlers \in Seq(Frame) /\ n \in Nat /\ Frame' = Frame /\ Worker' = Worker
  BY FrameTypes, ProgramFacts DEF StopInv, TypeOK, Frame, Worker
<1>1. /\ Handler(signum) \in Frame /\ Handler(signum).at = "test"
      /\ Handler(signum).id = program.n - 1
  BY <1>0, SMT DEF Handler, Frame
<1>2. /\ handlers' \in Seq(Frame) /\ Len(handlers') = n + 1
      /\ \A k \in 1 .. n : handlers'[k] = handlers[k]
      /\ handlers'[n + 1] = Handler(signum)
  BY <1>0, <1>1, AppendProperties
<1>3. \A k \in 1 .. Len(handlers') : k \in 1 .. n \/ k = n + 1
  BY <1>0, <1>2, SMT
<1>4. \A k \in 1 .. n : k \in 1 .. Len(handlers')
  BY <1>0, <1>2, SMT
<1> HIDE DEF n
<1>5. TypeOK'
  BY <1>0, <1>2, Zenon DEF TypeOK, Frame
<1>6. AtWorker'
  BY <1>1, <1>2, <1>3, Zenon DEF StopInv, AtWorker, n
<1>7. DoneAbove'
  <2>1. \A w \in Worker : ~(w > program.n - 1)
    BY <1>0, SMT DEF Worker
  <2> QED
    BY <1>0, <1>1, <1>2, <1>3, <2>1, Zenon DEF StopInv, DoneAbove, n
<1>8. NotYetCreated' /\ StopIsForAll'
  BY <1>0, Zenon DEF StopInv, NotYetCreated, StopIsForAll
<1>9. MarkedIsTold'
  <2>1. \A w \in Worker : signalled[w] => Told(w)
    BY MarkedTold DEF StopInv
  <2>2. \A w \in Worker : Told(w) => Told(w)'
    BY <1>2, <1>4, Zenon DEF Told, Ends, n
  <2> QED
    BY <1>0, <2>1, <2>2, Zenon DEF MarkedIsTold, Told, Ends
<1> QED
  BY <1>5, <1>6, <1>7, <1>8, <1>9 DEF StopInv

LEMMA RaiseStop ==
  ASSUME StopInv, Raise
  PROVE  StopInv'
<1>1. handlers' = Append(handlers, Handler("SIGINT")) /\ "SIGINT" \in Signum
  BY SMT DEF Raise, Signum
<1> QED
  BY <1>1, FramePushed, Zenon DEF Raise, StopInv, TypeOK

LEMMA SignalStop ==
  ASSUME StopInv, NEW signum \in Signum, Signal(signum)
  PROVE  StopInv'
BY FramePushed, Zenon DEF Signal, StopInv, TypeOK

-----------------------------------------------------------------------------
(***************************************************************************)
(* The handler on top moves.  The workers it has passed are marked, by it  *)
(* or by another; the one it has just marked is told by it, and when it    *)
(* leaves the push behind the message is in the pipe.                      *)
(***************************************************************************)
LEMMA HandlerMoves ==
  ASSUME StopInv, handlers # <<>>,
         NEW id \in -1 .. program.n - 1, NEW step \in {"test", "lock", "locked", "push"},
         GoTo(id, step),
         step # "test" => id >= 0,
         signalled' \in [Worker -> BOOLEAN], queue' \in [Worker -> Seq(Message)],
         \A w \in Worker : signalled[w] => signalled'[w],
         \A w \in Worker : w > id \/ (w = id /\ step = "push") => signalled'[w],
         \A w \in Worker : signalled'[w] => signalled[w] \/ (w = id /\ step = "push"),
         \A w \in Worker : Ends(queue[w]) => Ends(queue'[w]),
         Innermost.at = "push" => Ends(queue'[Innermost.id]),
         UNCHANGED <<program, input, running, worker, main, next, arrived>>
  PROVE  StopInv'
<1> DEFINE n == Len(handlers)
<1>0. TypeOK /\ Frame' = Frame /\ Worker' = Worker /\ n \in 1 .. n
  BY OnTop DEF StopInv, Frame, Worker
<1>1. /\ handlers' \in Seq(Frame)
      /\ Len(handlers') = n
      /\ \A k \in 1 .. n :
           /\ handlers'[k].id = (IF k = n THEN id ELSE handlers[k].id)
           /\ handlers'[k].at = (IF k = n THEN step ELSE handlers[k].at)
  BY <1>0, Moved
<1>2. Innermost = handlers[n]
  BY DEF Innermost
<1> HIDE DEF n
<1>3. TypeOK'
  BY <1>0, <1>1, Zenon DEF TypeOK, Frame, Message
<1>4. AtWorker'
  BY <1>0, <1>1, Zenon DEF StopInv, AtWorker, n
<1>5. DoneAbove'
  <2> SUFFICES ASSUME NEW k \in 1 .. n, NEW w \in Worker,
                      w > handlers'[k].id \/ (w = handlers'[k].id /\ handlers'[k].at = "push")
               PROVE  signalled'[w]
    BY <1>0, <1>1, Zenon DEF DoneAbove
  <2>1. CASE k = n
    BY <1>1, <2>1, Zenon
  <2>2. CASE k # n
    <3>1. handlers'[k].id = handlers[k].id /\ handlers'[k].at = handlers[k].at
      BY <1>1, <2>2, Zenon
    <3>2. signalled[w]
      BY <3>1, Zenon DEF StopInv, DoneAbove, n
    <3> QED
      BY <3>2, Zenon
  <2> QED
    BY <2>1, <2>2
<1>6. NotYetCreated'
  BY <1>0, Zenon DEF StopInv, NotYetCreated
<1>7. StopIsForAll'
  BY <1>0, Zenon DEF StopInv, StopIsForAll
<1>8. MarkedIsTold'
  <2> SUFFICES ASSUME NEW w \in Worker, signalled'[w] PROVE Told(w)'
    BY <1>0, Zenon DEF MarkedIsTold, Told, Ends
  <2>1. CASE w = id /\ step = "push"
    BY <1>0, <1>1, <2>1, Zenon DEF Told
  <2>2. CASE ~(w = id /\ step = "push")
    <3>1. Told(w)
      BY <2>2, MarkedTold, Zenon DEF StopInv
    <3>2. CASE worker[w] = "left"
      BY <3>2, Zenon DEF Told
    <3>3. CASE Ends(queue[w])
      BY <3>3, Zenon DEF Told, Ends
    <3>4. ASSUME NEW k \in 1 .. n, handlers[k].id = w, handlers[k].at = "push"
          PROVE  Told(w)'
      <4>1. CASE k = n
        BY <1>2, <3>4, <4>1, Zenon DEF Told, Ends
      <4>2. CASE k # n
        BY <1>1, <3>4, <4>2, Zenon DEF Told
      <4> QED
        BY <4>1, <4>2
    <3> QED
      BY <3>1, <3>2, <3>3, <3>4, Zenon DEF Told, n
  <2> QED
    BY <2>1, <2>2
<1> QED
  BY <1>3, <1>4, <1>5, <1>6, <1>7, <1>8 DEF StopInv

(* Where a handler on top is, and what it has done.                        *)
LEMMA InnermostFacts ==
  ASSUME StopInv, handlers # <<>>
  PROVE  /\ Innermost.id \in -1 .. program.n - 1
         /\ Innermost.id \in Int /\ program.n \in Nat
         /\ Innermost.at # "test" => Innermost.id >= 0
         /\ Innermost.id >= 0 =>
              /\ Innermost.id \in Worker
              /\ Innermost.id - 1 \in -1 .. program.n - 1
         /\ \A w \in Worker : w > Innermost.id => signalled[w]
         /\ Innermost.at = "push" => signalled[Innermost.id]
         /\ \A w \in Worker : w > Innermost.id - 1 => w > Innermost.id \/ w = Innermost.id
<1> DEFINE n == Len(handlers)
<1>1. n \in 1 .. n /\ Innermost = handlers[n] /\ program \in Program
  BY OnTop DEF StopInv, TypeOK, Innermost
<1>2. Innermost \in Frame /\ program.n \in Nat
  BY <1>1, FrameTypes, ProgramFacts, Zenon DEF StopInv
<1>3. /\ Innermost.id \in -1 .. program.n - 1 /\ Innermost.id \in Int
  BY <1>2, SMT DEF Frame
<1>4. Innermost.at # "test" => Innermost.id >= 0
  BY <1>1, Zenon DEF StopInv, AtWorker
<1>5. Innermost.id >= 0 =>
        /\ Innermost.id \in Worker
        /\ Innermost.id - 1 \in -1 .. program.n - 1
  BY <1>2, <1>3, SMT DEF Worker
<1>6. \A w \in Worker : w > Innermost.id => signalled[w]
  BY <1>1, Zenon DEF StopInv, DoneAbove
<1>7. Innermost.at = "push" => signalled[Innermost.id]
  BY <1>1, <1>4, <1>5, Zenon DEF StopInv, DoneAbove
<1>8. \A w \in Worker : w > Innermost.id - 1 => w > Innermost.id \/ w = Innermost.id
  BY <1>2, <1>3, SMT DEF Worker
<1> QED
  BY <1>2, <1>3, <1>4, <1>5, <1>6, <1>7, <1>8, Zenon

LEMMA HandlerStop ==
  ASSUME StopInv, Test \/ Lock \/ Mark \/ Push
  PROVE  StopInv'
<1> DEFINE id == Innermost.id
<1>0. /\ handlers # <<>> /\ TypeOK
      /\ signalled \in [Worker -> BOOLEAN] /\ queue \in [Worker -> Seq(Message)]
  BY DEF Test, Lock, Mark, Push, At, StopInv, TypeOK, Message
<1>1. /\ id \in -1 .. program.n - 1
      /\ Innermost.at # "test" => id >= 0
      /\ id >= 0 => id \in Worker /\ id - 1 \in -1 .. program.n - 1
      /\ \A w \in Worker : w > id => signalled[w]
      /\ Innermost.at = "push" => signalled[id]
      /\ \A w \in Worker : w > id - 1 => w > id \/ w = id
  BY <1>0, InnermostFacts
<1> HIDE DEF id
<1>2. CASE Test
  <2>1. id >= 0 /\ Innermost.at = "test" /\ UNCHANGED <<signalled, queue>>
    BY <1>2 DEF Test, At, id
  <2>2. CASE signalled[id] /\ GoTo(id - 1, "test")
    <3>1. \A w \in Worker : w > id - 1 => signalled'[w]
      BY <1>1, <2>1, <2>2, Zenon
    <3> QED
      BY <1>0, <1>1, <1>2, <2>1, <2>2, <3>1, HandlerMoves, Zenon DEF Test
  <2>3. CASE GoTo(id, "lock")
    BY <1>0, <1>1, <1>2, <2>1, <2>3, HandlerMoves, Zenon DEF Test
  <2> QED
    BY <1>2, <2>2, <2>3, Zenon DEF Test, id
<1>3. CASE Lock
  <2>1. GoTo(id, "locked") /\ Innermost.at = "lock" /\ UNCHANGED <<signalled, queue>>
    BY <1>3 DEF Lock, At, id
  <2>2. id >= 0
    BY <1>1, <2>1
  <2> QED
    BY <1>0, <1>1, <1>3, <2>1, <2>2, HandlerMoves, Zenon DEF Lock
<1>4. CASE Mark
  <2>1. /\ GoTo(id, "push") /\ Innermost.at = "locked" /\ UNCHANGED queue
        /\ signalled' = [signalled EXCEPT ![id] = TRUE]
    BY <1>4 DEF Mark, At, id
  <2>2. id >= 0 /\ id \in Worker
    BY <1>1, <2>1
  <2>3. /\ signalled' \in [Worker -> BOOLEAN]
        /\ \A w \in Worker : signalled[w] => signalled'[w]
        /\ \A w \in Worker : w > id \/ w = id => signalled'[w]
        /\ \A w \in Worker : signalled'[w] => signalled[w] \/ w = id
    BY <1>0, <1>1, <2>1, <2>2, Zenon
  <2> QED
    BY <1>0, <1>1, <1>4, <2>1, <2>2, <2>3, HandlerMoves, Zenon DEF Mark
<1>5. CASE Push
  <2>1. /\ GoTo(id - 1, "test") /\ Innermost.at = "push" /\ UNCHANGED signalled
        /\ queue' = [queue EXCEPT ![id] = Append(queue[id], "TERMINATE")]
    BY <1>5 DEF Push, At, id
  <2>2. id >= 0 /\ id \in Worker /\ queue[id] \in Seq(Message) /\ "TERMINATE" \in Message
    BY <1>0, <1>1, <2>1, Zenon DEF Message
  <2>3. Append(queue[id], "TERMINATE") \in Seq(Message) /\ Ends(Append(queue[id], "TERMINATE"))
    BY <2>2, EndsAppend
  <2>4. /\ queue' \in [Worker -> Seq(Message)]
        /\ \A w \in Worker : Ends(queue[w]) => Ends(queue'[w])
        /\ Ends(queue'[id])
    BY <1>0, <2>1, <2>2, <2>3, Zenon
  <2>5. \A w \in Worker : w > id - 1 => signalled'[w]
    BY <1>1, <2>1, Zenon
  <2>6. Ends(queue'[Innermost.id])
    BY <2>4 DEF id
  <2>7. UNCHANGED <<program, input, running, worker, main, next, arrived>>
    BY <1>5 DEF Push
  <2> QED
    BY <1>0, <1>1, <2>1, <2>2, <2>4, <2>5, <2>6, <2>7, HandlerMoves, Zenon
<1> QED
  BY <1>2, <1>3, <1>4, <1>5

(* The handler on top is through: all workers are marked, it clears        *)
(* `running` and goes.                                                     *)
LEMMA StopRunningStop ==
  ASSUME StopInv, StopRunning
  PROVE  StopInv'
<1> DEFINE n == Len(handlers)
<1>0. /\ TypeOK /\ handlers # <<>> /\ handlers \in Seq(Frame) /\ n \in Nat /\ n >= 1
      /\ Frame' = Frame /\ Worker' = Worker
      /\ handlers' = SubSeq(handlers, 1, n - 1)
      /\ Innermost = handlers[n] /\ Innermost.at = "test" /\ Innermost.id < 0
      /\ running' = FALSE
      /\ UNCHANGED <<program, input, signalled, queue, worker, main, next, arrived>>
  <2>1. TypeOK /\ handlers # <<>>
    BY DEF StopInv, StopRunning, At
  <2>2. n \in 1 .. n /\ handlers \in Seq(Frame)
    BY <2>1, OnTop, FrameTypes
  <2>3. n \in Nat /\ n >= 1
    BY <2>2, SMT
  <2> QED
    BY <2>1, <2>2, <2>3, Zenon DEF StopRunning, At, AllTold, Innermost, Frame, Worker
<1> HIDE DEF n
<1>1. /\ handlers' \in Seq(Frame) /\ Len(handlers') = n - 1
      /\ \A k \in 1 .. n - 1 : handlers'[k] = handlers[k] /\ k \in 1 .. n
      /\ \A k \in 1 .. n : k # n => k \in 1 .. n - 1
  <2>1. \A k \in 1 .. n - 1 : handlers[k] \in Frame /\ k \in 1 .. n
    BY <1>0, ElementOfSeq, SMT DEF n
  <2>2. 1 \in Int /\ n - 1 \in Int
    BY <1>0, SMT
  <2>3. /\ SubSeq(handlers, 1, n - 1) \in Seq(Frame)
        /\ Len(SubSeq(handlers, 1, n - 1)) = IF 1 <= n - 1 THEN (n - 1) - 1 + 1 ELSE 0
        /\ \A k \in 1 .. (n - 1) - 1 + 1 :
             SubSeq(handlers, 1, n - 1)[k] = handlers[1 + k - 1]
    BY <2>1, <2>2, SubSeqProperties
  <2> QED
    BY <1>0, <2>1, <2>3, SMT
<1>2. TypeOK'
  BY <1>0, <1>1, Zenon DEF TypeOK, Frame
<1>3. AtWorker'
  BY <1>0, <1>1, Zenon DEF StopInv, AtWorker, n
<1>4. DoneAbove'
  BY <1>0, <1>1, Zenon DEF StopInv, DoneAbove, n
<1>5. NotYetCreated'
  BY <1>0, Zenon DEF StopInv, NotYetCreated
<1>6. MarkedIsTold'
  <2> SUFFICES ASSUME NEW w \in Worker, signalled[w] PROVE Told(w)'
    BY <1>0, Zenon DEF MarkedIsTold, Told, Ends
  <2>1. Told(w)
    BY MarkedTold, Zenon DEF StopInv
  <2>2. ASSUME NEW k \in 1 .. n, handlers[k].at = "push"
        PROVE  k \in 1 .. n - 1
    BY <1>0, <1>1, <2>2, Zenon
  <2> QED
    BY <1>0, <1>1, <2>1, <2>2, Zenon DEF Told, Ends, n
<1>7. StopIsForAll'
  <2>1. \A w \in Worker : w > Innermost.id
    BY <1>0, InnermostFacts, SMT DEF Worker
  <2>2. \A w \in Worker : signalled[w]
    BY <1>0, <2>1, InnermostFacts, Zenon
  <2> QED
    BY <1>0, <2>2, Zenon DEF StopIsForAll
<1> QED
  BY <1>2, <1>3, <1>4, <1>5, <1>6, <1>7 DEF StopInv

-----------------------------------------------------------------------------
LEMMA NextStop == StopInv /\ [Next]_vars => StopInv'
<1> SUFFICES ASSUME StopInv, [Next]_vars PROVE StopInv'
  OBVIOUS
<1>1. CASE Main
  BY <1>1, CreateStop, JoinStop, RaiseStop, HandlerStop, StopRunningStop DEF Main
<1>2. ASSUME NEW w \in Worker, Loop(w) PROVE StopInv'
  BY <1>2, LoopStop
<1>3. CASE EndOfInput
  BY <1>3, EndOfInputStop
<1>4. ASSUME NEW signum \in Signum, Signal(signum) PROVE StopInv'
  BY <1>4, SignalStop
<1>5. CASE InputEnds
  <2>1. /\ UNCHANGED <<program, running, signalled, queue, worker, main, next, handlers, arrived>>
        /\ input' \in {"open", "over", "hangup"}
    BY <1>5, Zenon DEF InputEnds
  <2> QED
    BY <2>1, Zenon
       DEF StopInv, TypeOK, AtWorker, NotYetCreated, DoneAbove, MarkedIsTold,
           StopIsForAll, Worker
<1>6. CASE UNCHANGED vars
  BY <1>6, Zenon
     DEF vars, StopInv, TypeOK, AtWorker, NotYetCreated, DoneAbove, MarkedIsTold,
         StopIsForAll, Worker
<1> QED
  BY <1>1, <1>2, <1>3, <1>4, <1>5, <1>6, Zenon DEF Next

LEMMA StopAlways == Spec => []StopInv
BY InitStop, NextStop, PTL DEF Spec

(* The types of main(), of its workers and of the handlers on its stack,   *)
(* for any number of workers.                                              *)
THEOREM ShutdownTypeCorrect == Spec => []TypeOK
<1>1. StopInv => TypeOK
  BY DEF StopInv
<1> QED
  BY <1>1, StopAlways, PTL

(* A worker that terminate_worker() has marked has the TERMINATE event in  *)
(* its pipe, or has left, or gets it from a handler that is on the stack,  *)
(* however the handlers of the two signals interrupt each other.           *)
THEOREM MarkedAreTold == Spec => []MarkedIsTold
<1>1. StopInv => MarkedIsTold
  BY DEF StopInv
<1> QED
  BY <1>1, StopAlways, PTL

(* `running` is cleared only when every worker is marked.                  *)
THEOREM StopAfterAllMarked == Spec => []StopIsForAll
<1>1. StopInv => StopIsForAll
  BY DEF StopInv
<1> QED
  BY <1>1, StopAlways, PTL

(* And so, once `running` is cleared, nobody is left to wait for ever.     *)
THEOREM StopReachesEveryone == Spec => []StopReachesAll
BY MarkedAreTold, StopAfterAllMarked, PTL DEF StopReachesAll
=============================================================================
