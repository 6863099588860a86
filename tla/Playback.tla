------------------------------ MODULE Playback ------------------------------
(***************************************************************************)
(* The receiver's audio path: AudioReceiver fills the playback ring, one   *)
(* NEW_JOBS event per packet wakes AudioPrinter, which writes one packet   *)
(* to stdout for each event (src/receiver/audio_receiver.cc,               *)
(* audio_printer.cc).  The two threads share the ring and the pipe of      *)
(* events; the ring has a mutex, and two places work outside it:           *)
(*   - AudioReceiver releases it between reset() and try_put();            *)
(*   - AudioPrinter takes an event off the pipe before it asks for it.     *)
(* AudioReceiver writes its event while it still holds the mutex.          *)
(***************************************************************************)
EXTENDS CircularBuffer

CONSTANTS
  Session,   \* the session ids a sender may announce, all above NO_SESSION
  PSize,     \* PSize[s]: the size in bytes of session s's packets
  MaxNum,    \* bound: the highest packet number of a session
  PipeCap,   \* how many events the pipe holds before a write blocks
  NoPacket   \* AudioReceiver is not working on a packet

NO_SESSION == 0

Packet == [session : Session, num : 0 .. MaxNum]

ASSUME PlaybackAssumption ==
  /\ Session \subseteq Nat \ {NO_SESSION}
  /\ PSize \in [Session -> Nat \ {0}]
  /\ MaxNum \in Nat
  /\ PipeCap \in Nat \ {0}
  /\ NoPacket \notin Packet
  /\ Zero \notin Packet

VARIABLES
  buf,         \* *_buffer, the playback ring
  curSession,  \* cur_session, local to AudioReceiver
  hasPrinted,  \* has_printed, local to AudioReceiver
  held,        \* the packet AudioReceiver is about to take the mutex for
  pushing,     \* AudioReceiver holds the mutex and has an event to write
  jobs,        \* NEW_JOBS events in the pipe of AudioPrinter
  printing     \* AudioPrinter has read an event and is in handle_print()

receiver == <<curSession, hasPrinted, held, pushing>>
vars == <<buf, receiver, jobs, printing>>

(* Events whose packet is not yet played, the ones in hand included.       *)
One(inHand) == IF inHand THEN 1 ELSE 0

Owed == jobs + One(printing) + One(pushing)

Init ==
  /\ buf = NewBuffer
  /\ curSession = NO_SESSION
  /\ hasPrinted = FALSE
  /\ held = NoPacket
  /\ pushing = FALSE
  /\ jobs = 0
  /\ printing = FALSE

Running == buf.fault = "none"

(* AudioReceiver is in poll() *)
Polling == Running /\ held = NoPacket /\ ~pushing

-----------------------------------------------------------------------------
(* AudioReceiver::run() on CURRENT_STATION_CHANGED; the ring is left alone *)
ChangeStation ==
  /\ Polling
  /\ curSession' = NO_SESSION
  /\ UNCHANGED <<buf, hasPrinted, held, pushing, jobs, printing>>

(* handle_audio_packet() up to the moment it wants the mutex for try_put() *)
(* An older session is ignored; so is every packet, and the session given  *)
(* up, while the ring is set to packets larger than itself.  It is the     *)
(* packet size of the session before p's that is looked at.                *)
Ignore(p) ==
  /\ Polling
  /\ p.session < curSession \/ buf.psize > Capacity
  /\ curSession' = IF p.session < curSession THEN curSession ELSE NO_SESSION
  /\ UNCHANGED <<buf, hasPrinted, held, pushing, jobs, printing>>

(* mutant: has_printed is kept *)
NewSessionStillPrinting(p) ==
  /\ Polling
  /\ buf.psize <= Capacity
  /\ p.session > curSession
  /\ curSession' = p.session
  /\ buf' = ResetAt(PSize[p.session], p.num)
  /\ held' = p
  /\ UNCHANGED <<hasPrinted, pushing, jobs, printing>>

NewSession(p) ==
  /\ Polling
  /\ buf.psize <= Capacity
  /\ p.session > curSession
  /\ curSession' = p.session
  /\ hasPrinted' = FALSE
  /\ buf' = ResetAt(PSize[p.session], p.num)
  /\ held' = p
  /\ UNCHANGED <<pushing, jobs, printing>>

(* mutant: only a newer session is told apart *)
SameSessionOrOlder(p) ==
  /\ Polling
  /\ buf.psize <= Capacity
  /\ p.session <= curSession
  /\ held' = p
  /\ UNCHANGED <<buf, curSession, hasPrinted, pushing, jobs, printing>>

SameSession(p) ==
  /\ Polling
  /\ buf.psize <= Capacity
  /\ p.session = curSession
  /\ held' = p
  /\ UNCHANGED <<buf, curSession, hasPrinted, pushing, jobs, printing>>

Receive(p) ==
  \/ Ignore(p)
  \/ NewSession(p)
  \/ SameSession(p)

Reaches(b, p) == p.num * b.psize + b.psize - 1 >= PrintingThreshold(b)

IgnoreLate ==
  /\ Running
  /\ held # NoPacket
  /\ held.num < buf.byte0
  /\ held' = NoPacket
  /\ UNCHANGED <<buf, curSession, hasPrinted, pushing, jobs, printing>>

(* mutant: BYTE0 is not looked at *)
PutLateToo ==
  /\ Running
  /\ held # NoPacket
  /\ buf' = TryPut(buf, held)
  /\ held' = NoPacket
  /\ hasPrinted' = (hasPrinted \/ Reaches(buf', held))
  /\ pushing' = hasPrinted'
  /\ UNCHANGED <<curSession, jobs, printing>>

(* the rest of handle_audio_packet(), under the mutex; try_put() may abort *)
Put ==
  /\ Running
  /\ held # NoPacket
  /\ held.num >= buf.byte0
  /\ buf' = TryPut(buf, held)
  /\ held' = NoPacket
  /\ hasPrinted' = (hasPrinted \/ Reaches(buf', held))
  /\ pushing' = hasPrinted'
  /\ UNCHANGED <<curSession, jobs, printing>>

(* mutant: the pipe takes any number of events *)
PushJobUnbounded ==
  /\ Running
  /\ pushing
  /\ pushing' = FALSE
  /\ jobs' = jobs + 1
  /\ UNCHANGED <<buf, curSession, hasPrinted, held, printing>>

(* EventQueue::push(), which blocks while the pipe is full                 *)
PushJob ==
  /\ Running
  /\ pushing
  /\ jobs < PipeCap
  /\ pushing' = FALSE
  /\ jobs' = jobs + 1
  /\ UNCHANGED <<buf, curSession, hasPrinted, held, printing>>

-----------------------------------------------------------------------------
(* mutant: the event is read and dropped *)
PopAndForget ==
  /\ Running
  /\ ~printing
  /\ jobs > 0
  /\ jobs' = jobs - 1
  /\ UNCHANGED <<buf, receiver, printing>>

(* AudioPrinter::run() reads an event.                                     *)
Pop ==
  /\ Running
  /\ ~printing
  /\ jobs > 0
  /\ jobs' = jobs - 1
  /\ printing' = TRUE
  /\ UNCHANGED <<buf, receiver>>

(* handle_print(), when the mutex is free and stdout takes the bytes       *)
Dump ==
  /\ Running
  /\ printing
  /\ ~pushing
  /\ buf' = DumpTail(buf)
  /\ printing' = FALSE
  /\ UNCHANGED <<receiver, jobs>>

Next ==
  \/ ChangeStation
  \/ \E p \in Packet : Receive(p)
  \/ IgnoreLate \/ Put \/ PushJob
  \/ Pop \/ Dump

Spec == Init /\ [][Next]_vars

-----------------------------------------------------------------------------
(***************************************************************************)
(* The orderly environment the buffer is sized for: the packets of a       *)
(* session come in order, never two lost in a row, but late ones from      *)
(* before BYTE0 may come at any time; the player keeps up, so that the     *)
(* events not yet played leave room in the ring; a session starts          *)
(* when the player has finished with the one before, and the ring has room *)
(* for two of its packets.                                                 *)
(***************************************************************************)
Orderly(p) ==
  /\ p.session > curSession =>
       /\ Owed = 0
       /\ 2 * PSize[p.session] <= Capacity
  /\ p.session = curSession =>
       \/ p.num < buf.byte0
       \/ /\ p.num \in buf.absHead .. buf.absHead + 1
          /\ Owed + 2 <= buf.n

SteadyNext ==
  \/ ChangeStation
  \/ \E p \in Packet : Orderly(p) /\ Receive(p)
  \/ IgnoreLate \/ Put \/ PushJob
  \/ Pop \/ Dump

SteadySpec == Init /\ [][SteadyNext]_vars

(* Threads that can run do; stdout takes what is written to it.            *)
Fairness ==
  /\ WF_vars(Put) /\ WF_vars(PushJob)
  /\ WF_vars(Pop) /\ WF_vars(Dump)

FairSteadySpec == SteadySpec /\ Fairness

-----------------------------------------------------------------------------
(* Type correctness of the whole audio path. *)
TypeOK ==
  /\ RingType(buf, Packet)
  /\ curSession \in Session \cup {NO_SESSION}
  /\ hasPrinted \in BOOLEAN
  /\ held \in Packet \cup {NoPacket}
  /\ pushing \in BOOLEAN
  /\ jobs \in 0 .. PipeCap
  /\ printing \in BOOLEAN

-----------------------------------------------------------------------------
(***************************************************************************)
(* What holds whatever arrives.                                            *)
(***************************************************************************)

(* The ring never mixes two sessions: reset() comes with every change of   *)
(* cur_session, although it is made in another critical section than the   *)
(* try_put() that follows it and the player may run in between.            *)
OneSession ==
  \A i, j \in DOMAIN buf.slot :
    /\ Occupied(buf, i) /\ Occupied(buf, j) =>
         buf.slot[i].session = buf.slot[j].session
    /\ Occupied(buf, i) /\ curSession # NO_SESSION =>
         buf.slot[i].session = curSession

(* Nothing from before BYTE0, the first packet of the session, is kept:    *)
(* the ring's own test (abs_tail) does not see to it once the tail has run *)
(* past the head, handle_audio_packet()'s does.                            *)
NothingBeforeByte0 ==
  \A i \in DOMAIN buf.slot :
    Occupied(buf, i) => buf.slot[i].num >= buf.byte0

(* The cursors stay inside a ring of two slots or more, so that no path    *)
(* but fill_gap() can leave the array.                                     *)
CursorsStayInRing == CursorsInRing(buf)

(* A session is only ever replaced by a newer one; an older one is taken   *)
(* up again only after the station was changed or the session given up.    *)
SessionsGoForward ==
  [][curSession' < curSession => curSession' = NO_SESSION]_vars

(***************************************************************************)
(* What holds in the orderly environment.                                  *)
(***************************************************************************)

(* No assertion of CircularBuffer fails and nothing is written outside it. *)
NoFault == buf.fault = "none"

(* Every slot holds the packet its index stands for, or nothing.           *)
AllAligned == Aligned(buf)

(* Every event not yet played has a packet, or a reserved place, to play:  *)
(* dump_tail(), which does not compare tail and head, never needs to.      *)
JobsCovered == Owed <= RangeOf(buf)

(* Nothing is to be played before the byte BYTE0 + 3/4 BSIZE has arrived,  *)
(* across sessions of different packet sizes and changes of station.       *)
NothingPlayedEarly ==
  Owed > 0 => buf.absHead * buf.psize - 1 >= PrintingThreshold(buf)

(* Within a session no packet number is played twice or late: the window's *)
(* lower end only moves up.                                                *)
WindowForward ==
  [][curSession' = curSession => AbsTail(buf') >= AbsTail(buf)]_vars

(* The ring with its cursors implements the sliding window of numbers.     *)
Window == INSTANCE SlidingWindow WITH
            lo    <- AbsTail(buf),
            hi    <- buf.absHead,
            have  <- Held(buf),
            limit <- IF buf.n = 0 THEN 0 ELSE buf.n - 1

RingIsSlidingWindow == Window!Spec

(* Every event is followed by playing: the window moves on.                *)
OwedIsPlayed ==
  \A x \in 0 .. MaxNum :
    Owed > 0 /\ AbsTail(buf) = x ~> AbsTail(buf) # x

(***************************************************************************)
(* What the documentation says and the code does not do.                   *)
(***************************************************************************)

(* A packet newer than all before it is put into the ring.                 *)
NewerPacketIsKept ==
  [][held # NoPacket /\ held' = NoPacket /\ held.num >= buf.absHead =>
       \E i \in DOMAIN buf'.slot : buf'.slot[i] = held]_vars
=============================================================================
