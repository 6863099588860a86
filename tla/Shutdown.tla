------------------------------ MODULE Shutdown ------------------------------
(***************************************************************************)
(* How the two programs end (src/receiver/receiver.cc, src/sender/         *)
(* sender.cc, and the loops of their workers).  main() starts its workers  *)
(* and joins them; SIGINT and SIGTERM are handled on its thread, which     *)
(* tells each worker by a TERMINATE event and then clears `running`.  Each *)
(* signal is blocked during its own handler, but not during the other's.   *)
(* The sender's main also raises SIGINT itself when AudioSender has ended. *)
(***************************************************************************)
EXTENDS Integers, Sequences

CONSTANTS
  Program,   \* what may be run: records of
             \*   n         the number of workers, 0 .. n - 1
             \*   sleepers  those that sleep and look at `running` only
             \*   wakes     for each worker, those it sends events to
             \*   ends      whether the last worker ends with its input
  MaxEvents  \* bound: an event is written when fewer are in the pipe

ASSUME ShutdownAssumption ==
  /\ MaxEvents \in Nat
  /\ \A p \in Program :
       /\ p.n \in Nat \ {0}
       /\ p.sleepers \subseteq 0 .. p.n - 1
       /\ p.wakes \in [0 .. p.n - 1 -> SUBSET (0 .. p.n - 1)]
       /\ p.ends \in BOOLEAN

Signum == {"SIGINT", "SIGTERM"}

(* The receiver: RexmitSender, AudioPrinter, AudioReceiver, LookupReceiver,*)
(* LookupSender, StationRemover and UiMenu, and whose pipes each is given. *)
Receiver ==
  LET wakes == [w \in 0 .. 6 |-> {}]
  IN  [n |-> 7, sleepers |-> {0, 5}, ends |-> FALSE,
       wakes |-> [wakes EXCEPT ![2] = {1}, ![3] = {2, 6}, ![5] = {2, 6}, ![6] = {2}]]

(* The sender: Retransmitter, Controller and AudioSender.                  *)
Sender ==
  [n |-> 3, sleepers |-> {}, ends |-> TRUE,
   wakes |-> [w \in 0 .. 2 |-> IF w = 1 THEN {0} ELSE {}]]

VARIABLES
  program,    \* the one that is run
  input,      \* the standard input of a program that ends with it: "open",
              \*   "over" (a file, a terminal) or in "hangup" (a pipe)
  running,    \* running
  signalled,  \* signalled[w]
  queue,      \* the pipe of each worker
  worker,     \* "new", "top" of its loop, in "poll", at "work", or "left"
  main,       \* "creating" or "joining" worker `next`, "raising", "returned"
  next,
  handlers,   \* signal handlers on main's stack: [signum, id, at], where id
              \*   is the worker it is at, and at is how far it has come
  arrived     \* bound: signals sent from outside, each once

vars == <<program, input, running, signalled, queue, worker, main, next, handlers, arrived>>

Worker == 0 .. program.n - 1

Init ==
  /\ program \in Program
  /\ input = "open"
  /\ running = TRUE
  /\ signalled = [w \in Worker |-> FALSE]
  /\ queue = [w \in Worker |-> <<>>]
  /\ worker = [w \in Worker |-> "new"]
  /\ main = "creating" /\ next = 0
  /\ handlers = <<>> /\ arrived = {}

-----------------------------------------------------------------------------
(* All of the input has been read, and there will be no more.              *)
InputEnds ==
  /\ program.ends
  /\ input = "open"
  /\ input' \in {"over", "hangup"}
  /\ UNCHANGED <<program, running, signalled, queue, worker, main, next, handlers, arrived>>

ReadsInput(w) == program.ends /\ w = program.n - 1

-----------------------------------------------------------------------------
(* A worker.  It looks at `running` each time round (mutant: does not) ... *)
RunsOn == TRUE

Runs == running

Top(w) ==
  /\ worker[w] = "top"
  /\ worker' = [worker EXCEPT ![w] =
                  IF ~Runs THEN "left" ELSE IF w \in program.sleepers THEN "work" ELSE "poll"]
  /\ UNCHANGED <<program, input, running, signalled, queue, main, next, handlers, arrived>>

(* ... takes an event off its pipe: TERMINATE ends it ...                  *)
Pop(w) ==
  /\ worker[w] = "poll"
  /\ queue[w] # <<>>
  /\ queue' = [queue EXCEPT ![w] = Tail(@)]
  /\ worker' = [worker EXCEPT ![w] = IF Head(queue[w]) = "TERMINATE" THEN "left" ELSE "work"]
  /\ UNCHANGED <<program, input, running, signalled, main, next, handlers, arrived>>

(* ... or finds its socket or its input readable, or poll() returns with   *)
(* the hangup of a pipe, which is no POLLIN: nothing is read ...           *)
Readable(w) ==
  /\ worker[w] = "poll"
  /\ ~(ReadsInput(w) /\ input = "over")
  /\ worker' = [worker EXCEPT ![w] = "work"]
  /\ UNCHANGED <<program, input, running, signalled, queue, main, next, handlers, arrived>>

(* ... or, if it is AudioSender, the end of the input: read() returns 0.   *)
EndOfInput ==
  /\ program.ends /\ input = "over"
  /\ worker[program.n - 1] = "poll"
  /\ worker' = [worker EXCEPT ![program.n - 1] = "left"]
  /\ UNCHANGED <<program, input, running, signalled, queue, main, next, handlers, arrived>>

(* What it does may wake another worker, which may have left by then.      *)
Work(w) ==
  /\ worker[w] = "work"
  /\ worker' = [worker EXCEPT ![w] = "top"]
  /\ \/ queue' = queue
     \/ \E v \in program.wakes[w] :
          /\ Len(queue[v]) < MaxEvents
          /\ queue' = [queue EXCEPT ![v] = Append(@, "EVENT")]
  /\ UNCHANGED <<program, input, running, signalled, main, next, handlers, arrived>>

(* run() of any worker *)
Loop(w) == Top(w) \/ Pop(w) \/ Readable(w) \/ Work(w)

-----------------------------------------------------------------------------
(* main(), which only goes on when no handler is on its stack              *)
Create ==
  /\ handlers = <<>> /\ main = "creating"
  /\ worker' = [worker EXCEPT ![next] = "top"]
  /\ IF next + 1 < program.n
     THEN next' = next + 1 /\ main' = main
     ELSE next' = next /\ main' = "joining"
  /\ UNCHANGED <<program, input, running, signalled, queue, handlers, arrived>>

Join ==
  /\ handlers = <<>> /\ main = "joining"
  /\ worker[next] = "left"
  /\ IF next = 0
     THEN next' = next /\ main' = "returned"
     ELSE /\ next' = next - 1
          /\ main' = IF program.ends /\ next = program.n - 1 THEN "raising" ELSE "joining"
  /\ UNCHANGED <<program, input, running, signalled, queue, worker, handlers, arrived>>

(* signal_handler() at its start (mutant: beyond the last worker) *)
HandlerFromEnd(signum) == [signum |-> signum, id |-> program.n, at |-> "test"]

Handler(signum) == [signum |-> signum, id |-> program.n - 1, at |-> "test"]

Raise ==
  /\ handlers = <<>> /\ main = "raising"
  /\ main' = "joining"
  /\ handlers' = <<Handler("SIGINT")>>
  /\ UNCHANGED <<program, input, running, signalled, queue, worker, next, arrived>>

(* A signal interrupts main() or the handler of the other signal.          *)
Signal(signum) ==
  /\ main # "returned"
  /\ signum \notin arrived
  /\ \A k \in 1 .. Len(handlers) : handlers[k].signum # signum
  /\ arrived' = arrived \cup {signum}
  /\ handlers' = Append(handlers, Handler(signum))
  /\ UNCHANGED <<program, input, running, signalled, queue, worker, main, next>>

-----------------------------------------------------------------------------
(* signal_handler() and terminate_worker(), by the handler on top.         *)
Innermost == handlers[Len(handlers)]

At(step) == handlers # <<>> /\ Innermost.at = step

GoTo(id, step) ==
  handlers' = [handlers EXCEPT ![Len(handlers)] =
                 [signum |-> @.signum, id |-> id, at |-> step]]

(* if (!signalled[worker_id]) ... *)
Test ==
  /\ At("test") /\ Innermost.id >= 0
  /\ IF signalled[Innermost.id] THEN GoTo(Innermost.id - 1, "test")
                                ELSE GoTo(Innermost.id, "lock")
  /\ UNCHANGED <<program, input, running, signalled, queue, worker, main, next, arrived>>

(* ... lock(), whose result is dropped: the mutex is taken and let go.  A  *)
(* handler that interrupts another just there waits for its own thread.    *)
Locked(id) ==
  \E k \in 1 .. Len(handlers) : handlers[k].id = id /\ handlers[k].at = "locked"

Lock ==
  /\ At("lock")
  /\ ~Locked(Innermost.id)
  /\ GoTo(Innermost.id, "locked")
  /\ UNCHANGED <<program, input, running, signalled, queue, worker, main, next, arrived>>

Mark ==
  /\ At("locked")
  /\ signalled' = [signalled EXCEPT ![Innermost.id] = TRUE]
  /\ GoTo(Innermost.id, "push")
  /\ UNCHANGED <<program, input, running, queue, worker, main, next, arrived>>

(* mutant: nothing is sent once `running` is cleared *)
PushIfRunning ==
  /\ At("push")
  /\ queue' = IF running THEN [queue EXCEPT ![Innermost.id] = Append(@, "TERMINATE")] ELSE queue
  /\ GoTo(Innermost.id - 1, "test")
  /\ UNCHANGED <<program, input, running, signalled, worker, main, next, arrived>>

Push ==
  /\ At("push")
  /\ queue' = [queue EXCEPT ![Innermost.id] = Append(@, "TERMINATE")]
  /\ GoTo(Innermost.id - 1, "test")
  /\ UNCHANGED <<program, input, running, signalled, worker, main, next, arrived>>

AllTold == Innermost.id < 0

StopRunning ==
  /\ At("test") /\ AllTold
  /\ running' = FALSE
  /\ handlers' = SubSeq(handlers, 1, Len(handlers) - 1)
  /\ UNCHANGED <<program, input, signalled, queue, worker, main, next, arrived>>

-----------------------------------------------------------------------------
Main == Create \/ Join \/ Raise \/ Test \/ Lock \/ Mark \/ Push \/ StopRunning

Next ==
  \/ Main
  \/ \E w \in Worker : Loop(w)
  \/ EndOfInput \/ InputEnds
  \/ \E signum \in Signum : Signal(signum)

Spec == Init /\ [][Next]_vars

(* poll() returns at once, again and again, while a pipe hangs up.         *)
SeesHangup == program.ends /\ input = "hangup" /\ Readable(program.n - 1)

(* Threads that can run do; no read() or write() of a worker blocks.       *)
FairSpec ==
  /\ Spec
  /\ WF_vars(Main)
  /\ WF_vars(EndOfInput) /\ WF_vars(SeesHangup)
  /\ \A p \in Program : \A w \in 0 .. p.n - 1 :
       WF_vars(program = p /\ (Top(w) \/ Pop(w) \/ Work(w)))

-----------------------------------------------------------------------------
(* Type correctness of the two programs' threads.                          *)
TypeOK ==
  /\ program \in Program
  /\ input \in {"open", "over", "hangup"}
  /\ running \in BOOLEAN
  /\ signalled \in [Worker -> BOOLEAN]
  /\ queue \in [Worker -> Seq({"EVENT", "TERMINATE"})]
  /\ worker \in [Worker -> {"new", "top", "poll", "work", "left"}]
  /\ main \in {"creating", "joining", "raising", "returned"}
  /\ next \in Worker
  /\ handlers \in Seq([signum : Signum, id : -1 .. program.n - 1,
                       at : {"test", "lock", "locked", "push"}])
  /\ arrived \subseteq Signum

(* A worker marked as told has its TERMINATE in its pipe, or has left, or  *)
(* gets it from the handler that marked it, even if another handler has    *)
(* interrupted that one, skipped the worker and cleared `running`.         *)
MarkedIsTold ==
  \A w \in Worker :
    signalled[w] =>
      \/ worker[w] = "left"
      \/ \E k \in 1 .. Len(queue[w]) : queue[w][k] = "TERMINATE"
      \/ \E k \in 1 .. Len(handlers) : handlers[k].id = w /\ handlers[k].at = "push"

(* When `running` is cleared every worker is marked: nobody polls for ever *)
(* because it looked at `running` too early.                               *)
StopIsForAll == ~running => \A w \in Worker : signalled[w]

(* Both together: once `running` is cleared, whichever handler does it,    *)
(* each worker has left, has TERMINATE before it, or a handler still on    *)
(* the stack is about to write it.                                         *)
StopReachesAll == MarkedIsTold /\ StopIsForAll

(* Once a signal has come, or the sender's input is over, the program      *)
(* ends; unless the second signal's handler waits for the mutex that the   *)
(* first's, on the same thread, had when it was interrupted.               *)
SelfLocked == At("lock") /\ Locked(Innermost.id)

StopIsReached == arrived # {} \/ input = "over" ~> main = "returned" \/ SelfLocked
=============================================================================
