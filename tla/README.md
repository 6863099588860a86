# A TLA+ model of SIK-Telnet-Radio

The repository is an internet radio. `sikradio-sender` reads raw audio on stdin,
multicasts it as numbered packets and keeps the last of them for retransmission;
`sikradio-receiver` discovers senders by broadcast, buffers the packets of one of
them in a ring, plays them on stdout and offers a telnet menu to switch stations.
Both are sets of threads that share mutex-protected objects and wake each other
through pipes of events. This directory specifies those threads, model-checks the
specifications with TLC and proves theorems about them with TLAPS.

Paths below are relative to the repository root (`src/...` here is the
repository's own `src/` directory; PROJECT.json prefixes it once more).

## 1. Inventory

### Shared building blocks (`src/common`)

| component | state | operations | correct when |
|---|---|---|---|
| CircularBuffer | `_abs_head _byte0 _capacity _psize _tail _head _data _occupied _empty` | `reset` (2), `try_put` (`fill_gap`, `try_push_head`), `dump_tail`, `cnt_upto_gap`, getters | every slot holds the packet its index stands for; the window `[abs_tail, abs_head)` only moves forward; no assertion fails, no slot outside the ring is written |
| EventQueue | a pipe of event codes | `push`, `pop`, `in_fd` | FIFO; a push is never lost; a full pipe blocks the pusher |
| SyncedPtr / ProtectedResource | a value and its mutex | `lock`, `*`, `->` | every access to the value is made under the mutex (nothing enforces it) |
| Worker | a reference to `running` | `run` | leaves `run` after shutdown is asked for |
| datagrams | LOOKUP, REPLY, REXMIT texts and audio packets | parse, `to_str` | what one side writes the other reads back |
| RadioStation, StationSet | name, addresses, `last_reply` | `cmp`, `update_last_reply` | sorted by name, unique by (name, multicast address, data address) |
| sockets, log, net | file descriptors | thin wrappers | - |

### Receiver (`src/receiver`): seven threads and `main`

| thread | shared state it touches | wakes | woken by |
|---|---|---|---|
| AudioReceiver | buffer (writes), stations/current (reads) | AudioPrinter (NEW_JOBS) | its socket; CURRENT_STATION_CHANGED |
| AudioPrinter | buffer (`dump_tail`) | - | NEW_JOBS |
| RexmitSender | stations, current, buffer (reads) | - | timer RTIME |
| LookupReceiver | stations (insert), current | AudioReceiver, UiMenu | REPLY datagrams |
| LookupSender | - | - | timer 5 s |
| StationRemover | stations (erase), current | AudioReceiver, UiMenu | timer 500 ms, threshold 20 s |
| UiMenu | stations, current (menu keys), client table | AudioReceiver | STATION_*, TCP connections and keys |
| main | `running`, `signalled[]` | everyone (TERMINATE) | SIGINT, SIGTERM |

Locks are taken in the order stations, current station, buffer or event queue.
`_audio_printer_event.lock();` and the signal handler's `lock()` discard the lock
at once. UiMenu's `menu_to_str()` reads stations and current without locks when
it is called from `run` or `greet_client`.

### Sender (`src/sender`): three threads and `main`

| thread | shared state | wakes | woken by |
|---|---|---|---|
| AudioSender | packet cache (`try_put`) | - | stdin |
| Controller | job queue (push) | Retransmitter (NEW_JOBS) | LOOKUP and REXMIT datagrams |
| Retransmitter | job queue (size under the lock, front/pop without), packet cache (reads) | - | NEW_JOBS, then a sleep up to RTIME |
| main | `running`, `signalled[]` | all (TERMINATE) | SIGINT, SIGTERM, end of AudioSender |

### Hard behaviours, and what makes each component correct

- **Playback ring.** Packets are lost, doubled, late and reordered; sessions
  restart with other packet sizes; the player runs between any two critical
  sections. Correct: one session in the ring, nothing from before BYTE0, each
  slot the packet its index stands for, an event never without a packet, nothing
  played before the threshold, the whole a sliding window of packet numbers.
- **Sender.** Requests arrive while a batch is counted, slept on and answered;
  the queue is popped without its mutex; a packet is multicast before it is
  cached. Correct: `front()`/`pop()` never on an empty queue, no job forgotten,
  the cache exactly the latest packets, every job answered, what is asked for
  and cached is sent.
- **Station list.** Four threads add, remove, choose and follow stations. Correct:
  the current iterator is always valid under the mutex, every change of choice
  is announced, the choice changes for a reason, the subscription catches up.
- **Requests for retransmission.** The walk over the ring stops at the head only,
  with three mutexes held; indices are used for distances; one program writes
  the text, the other reads it. Correct: the walk ends, a request is understood,
  the numbers in it are those missing, or at least near the window.
- **UiMenu's clients.** Connections come, type, stop reading, leave and break
  between any two writes; a client may be dropped in a loop over the clients,
  or while its own key is served. Correct: a slot and its client agree whenever
  `poll()` is called, input is never overrun, slots come back, everybody comes to
  see the same menu.
- **The end.** Two signals, one handler inside the other at any point, on the
  thread that starts and joins the workers; a flag and an event for each worker.
  Correct: whoever is marked as told is told, the program ends.
- **Discovery.** Requests and answers are lost; senders stop, and start again under
  another name; others answer too; lookup, answer and sweep are not in step.
  Correct: only stations are listed, who stays is listed for good, who is gone
  is dropped for good, nobody is dropped too soon.

PROJECT.json lists every hazard at its line, with the properties that cover it.

## 2. Plan

Written, in this order, the most important behaviour first:

| module | composes | abstract specification | theorems |
|---|---|---|---|
| `CircularBuffer` | - | `SlidingWindow` | operator lemmas |
| `Playback` | the ring, AudioReceiver, AudioPrinter, a pipe | `SlidingWindow!Spec` | types, safety, refinement |
| `Sender` | the cache, AudioSender, Controller, Retransmitter, a pipe | `SlidingWindow!PutSpec` | types, safety, refinement |
| `StationDirectory` | LookupReceiver, StationRemover, UiMenu's keys, AudioReceiver, two pipes | - | types, safety, action property |
| `Datagrams` | the texts of both programs | - | what is written is read back (lemmas, beside their use) |
| `Retransmission` | `Playback`, `Datagrams`, RexmitSender | `Playback!Spec` | step simulation, safety, action property |
| `UiClients` | UiMenu's clients | `Seats!Spec` | types, safety, action property, refinement |
| `Shutdown` | main, signal handlers and the loops of all workers, of both programs | - | types, safety |
| `Discovery` | LookupSender, Controller, LookupReceiver, StationRemover's clock, `Datagrams` | - | types, safety, action property |

Every safety invariant and every action property that a passing run checks is
also a theorem. What is left to do on the side of the proofs:

1. An abstract specification of the station list and the choice, with the
   refinement proved.
2. Lemmas about `TryPut` for arrivals that `SteadySpec` does not allow: which of them
   keep the ring aligned.

Few, broad runs are kept: one passing run for each composed module, and a
violation run only for a disagreement with the documentation that no other run
shows.

## 3. The modules and the code

PROJECT.json maps each definition to its lines. In every module a critical
section is one action; where another thread can see into it (an event written
with the mutex held, a mutex released and taken again, a read before the mutex)
it is cut there and a variable says which half the thread is in.

**CircularBuffer** - a record with one field per member of the class. A slot
holds a packet, `Zero` (cleared memory) or nothing; `_occupied` is whether it
holds a packet. Sizes stay in bytes, positions and cursors are counted in
packets, so the number of slots is `Capacity \div psize` as in the code. Unsigned
differences wrap at `Width`. `TryPut` is `try_put()` with
`fill_gap()` and `try_push_head()`; `DumpTail` is `dump_tail()`. An assertion that
fails or a write outside the array puts a name in `fault`; nothing happens
afterwards, and no property is claimed of the state reached except those of the
runs that say so. A ring of `n` slots keeps `n-1` packets: the slot at the head
is always free.

**Playback** - `held` is the packet between `handle_audio_packet()`'s two critical
sections, `pushing` that the second one still holds the mutex for
`_audio_printer_event.push()`, `printing` that AudioPrinter has read its event
and not yet got the mutex. `Receive(p)` takes any packet a sender of the protocol
could have sent: loss, duplication, delay and reordering are the choice of `p`. Packets
have a positive size, one for each session, and a positive session id, and their byte
numbers are multiples of the size. Out of reach are therefore a datagram of 16 bytes, whose
packet size of 0 (`audio_receiver.cc:35`) is divided by at `circular_buffer.cc:104`, and
packets that fail the assertions on sizes and byte numbers (`circular_buffer.cc:91`, `:104`). `SteadySpec` restricts
only that choice (`Orderly`): packets in order with single losses, late ones only
from before BYTE0, at most as many unplayed events as leave room in the ring, a new
session after the old one is played and no larger than half the ring. AudioPrinter's events outlive a `reset()`, and the
ring has places reserved for what is missing; section 7 says what the code then plays. Two remarks. `Ignore` looks at the packet size of the
session *before* (`audio_receiver.cc:57`): packets too large for the ring are
rejected only once the ring has been reset to them, which the first such packet
does, and its `try_put()` then overruns the ring (fault "overrun"). A change of
station leaves the ring alone: the old contents go on playing until the first
packet of the new station.

**Sender** - packets are numbered (the code's byte number divided by PSIZE).
`Read` is a `read()` of `k` bytes. `queueing` cuts Controller's critical section
in `push` and event, because Retransmitter's `front()` and `pop()` take no mutex;
either of them beside a `push()` is a data race (`FrontInPush`, `PopJob`) and may set `torn`, after which
nothing is claimed. `Answer` is the whole walk of `handle_retransmission()`, the
inverted test included.

**StationDirectory** - stations are numbers in the order of `RadioStation::cmp`.
`holder` and `todo` are the list's mutex and what its holder still has to do
before it lets go. `stale` is the set of stations silent for 20 s. `readable`
is the `revents` of AudioReceiver's network socket, which survive the change of
station.

**Datagrams** - a text is a sequence of lexemes: words, numbers, spaces, commas,
the newline. `LookupRequest`, `LookupReply` and `RexmitText` are the three `to_str()`;
`IsLookupRequest`, `IsLookupReply` and `IsRexmitRequest` are where the parsing
constructors do not throw, `ReplyOf` and `PacketIds` what they then hold. Left out are the
values of digits beyond 64 bits and a text longer than a datagram. In front of the port
`std::stoul` skips white space, the newline included, and a plus sign, and it stops at what
follows the digits (`NumberAt`); a minus sign, which it takes too and wraps the value around, is
left out: what comes of it is beyond the largest port, unless the digits are a number just below 2^64.

**Retransmission** - extends `Playback` by RexmitSender. `Order` is
`order_retransmission()`; as it holds three mutexes from its first line to its
last, it is one action, enabled when nobody else is in the ring's critical section. `hung`
is set where its `for` would not end: from the tail on, index by index, the head
is not met. `Tune` is all that the other threads do to stations and choice, as
RexmitSender sees it: there is a station to ask, or not. What is answered never
comes back: the sender answers to the address it was asked from, and nobody
reads that socket.

**UiClients** - `peer`, `backlog` and `full` are the kernel's: connections, and those of
them whose `write()` would wait. `fd` and `revents` are `_poll_fds`; `ids`, `socket` and
`cmd` are the map `_clients`. `Poll` fills `todo` with what `run()` does in this turn of its
loop: the event, a connection to accept, then for each slot its input and its
menu. Each task is an action, and between any two of them clients act. A task
may put others before the rest: `Broadcast` is `send_to_all()`, with the bound the code has
(`MAX_CLIENTS`, not `TOTAL_POLLFDS`); `KeyArrow` is `apply_cmd()` and leaves "reset" behind it, the
`reset_client_input()` that may find its client gone and then makes an entry
without a socket. Keys typed before the client left are read before its end
is (`HasKey`, `Ended`). `ListChanges` may come with the event or after it: StationRemover writes the menu's
event before it resets the choice (`station_remover.cc:46-49`). `Killed` is SIGPIPE, which nobody handles; a write to a broken connection
may also fail with an exception, which drops the client. `fresh` and `drawn` say who
shows the menu as it is, and are there for `ClientsCatchUp` only. `Seats` is what all that
promises those who connect: they wait in line, get one of `MaxClients` seats or have to
go, and do not come back; `SeatsAreGiven` says that the slots implement it, the clients being
the sockets in the map.

**Shutdown** - one module for both `main()`s, which are the same but for the number of
workers, who sleeps instead of polling, who wakes whom, and `raise(SIGINT)` after
AudioSender is joined: the record `program`. `handlers` is main's stack. The handler is
cut between each two steps another signal may come between: the test of
`signalled`, the `lock()` whose result is dropped (taken, then let go: two steps),
the mark, the push, the next worker. `Loop(w)` is the `run()` of any worker as far as
`running` and its pipe go. `input` is the sender's: at its end a file or a terminal lets `read()` return 0,
and AudioSender leaves; an empty pipe that its writer has closed only hangs up, `poll()` reports POLLHUP
without POLLIN, which `audio_sender.cc:86` does not look for, and AudioSender goes round for ever (`SeesHangup`).

**Discovery** - a tick is the time unit; `Period` and `Threshold` are `LOOKUP_TIMEOUT` and
`REMOVAL_THRESHOLD` in ticks. `Lookup` is LookupSender's turn, `Answer` is Controller's, `Hear` is
LookupReceiver's, with `IsLookupReply` deciding what is a station; `Sweep` is
`remove_inactive()`, once in every tick. `list` is the set of stations with the age of
each one's last reply. Two things stand for the world: `Start` and `Stop` of a sender, or
of another program that answers on its port, and `Lose`.

All seven `poll()` calls are committed as `if (poll(...)) == -1)`, which does not
compile; they are read as `if (poll(...) == -1)`.

## 4. The runs

| run | module, cfg | asks | shows |
|---|---|---|---|
| playback_any | `MCRetransmission`, `PlaybackAny` | what holds whatever packets arrive? | types, one session in the ring, nothing from before BYTE0, cursors inside the ring; the walk for missing packets ends in every ring of two slots or more, a request is read back number by number, it names as many packets as are missing, near the window, and the right ones while the tail is at index 0 |
| playback_steady | `MCPlayback`, `PlaybackSteady` | what holds in the environment the ring is sized for? | no failed assertion, slots aligned, events covered, nothing played early, the window moves forward and is the abstract one, every event is played |
| sender | `MCSender`, `Sender` | what do cache, queue and pipe guarantee together? | the cache is the latest packets and implements the window, the queue is never popped empty, no job forgotten, all answered |
| station_directory | `MCStationDirectory`, `StationDirectory` | do list, choice and subscription agree? | a valid iterator, every change announced, every change justified, the subscription catches up |
| ui_clients | `UiClients`, `UiClients` | do table, map and sockets agree, whatever clients do? | they do at every `poll()`; input is never overrun; a working connection is closed only when the table is full or a leftover entry has its slot; the table implements `Seats`; if slow clients read in the end, slots come back and everybody comes to show the same menu at the same time |
| shutdown | `MCShutdown`, `Shutdown` | do the programs end? | who is marked is told, all are marked before `running` is cleared, the program ends after a signal and after the end of a file, unless a handler waits for a mutex its own thread holds |
| discovery | `MCDiscovery`, `Discovery` | is the list who is there? | only stations are listed, nobody is dropped before three lookups in a row went unanswered, who stays is listed for good, who is gone is dropped for good |
| newer_packet_dismissed | `MCPlayback`, `NewerPacketDismissed` | is a new highest packet buffered? | not after two losses in a row: `circular_buffer.cc:105` dismisses it, and every later one of the session |
| gap_assertion | `MCPlayback`, `GapAssertion` | do the assertions hold for every arrival? | no: `sideof()` is given an offset for an index (`circular_buffer.cc:92`) |
| requested_is_resent | `MCSender`, `RequestedIsResent` | is a cached packet sent on request? | no: the test at `retransmitter.cc:55` is inverted, the free slot at the head is sent |
| asks_for_missing | `MCRetransmission`, `AsksForMissing` | are the packets asked for those missing? | not once the tail has left index 0: `rexmit_sender.cc:46` adds an index for a distance |
| silent_station | `MCStationDirectory`, `SilentStation` | does the subscription catch up if a station is silent? | no: `revents` of the old socket make AudioReceiver block on the new one |

The first seven runs pass. The other five are violations: each states one
property that a line of the documentation, a comment or an assertion claims
(quoted in PROJECT.json, `findings`), and TLC shows how the code breaks it.

### Bounds, and why they are enough

- `Capacity` and `PSize` choose rings of 6, 4, 3, 2, 1 and 0 slots: wrap-around in
  one and two pieces, the smallest ring that keeps a packet (2), and the
  degenerate ones. `MaxNum` 6 and 9 take a 4- and a 6-slot ring more than once
  round.
- `Session` has four ids, one per ring size, so that every change between sizes
  happens, also down to 0. `PlaybackSteady` has three.
- `PipeCap` 3 and 5 let events pile up in `Playback`; `PlaybackSteady` shows that
  in the orderly environment they stay below the number of slots, so the real
  pipe's capacity (16384 events of 4 bytes) never matters there. In the passing runs
  of `Sender` and `StationDirectory` the bounds keep a push from ever finding the pipe full;
  section 7 says what a full one does.
- `MaxJobs` 2 and `MaxEvents` 2 give a batch of two, and a job added while the batch
  is answered. `Wishes` has the empty request, one before the tail, a run, one
  at the head and one that mixes old and future numbers.
- Three stations, two with the favourite's name: neighbours on both sides, a
  favourite that is first and one that is not, and a tie.
- UiMenu's table has `MaxClients` 2 slots from `MinClientId` 1 on, instead of 42 from 2
  on, so that `send_to_all()` reaches one of them and misses one (the code's misses the
  last two). Three connections (`NumConns`) fill the table, find it full, and come
  second to a slot; one of them (`Slow`) may stop reading.
- Shutdown runs the sender whole and the receiver with three of its workers at a
  time: one that sleeps (StationRemover) with those it wakes, and LookupReceiver
  and UiMenu with the AudioReceiver both wake. Each signal comes once from
  outside and may come inside the other's handler; the sender's main raises a
  third. With `MaxEvents` 2 events may stand before TERMINATE in a pipe, or behind it.
- Discovery: a tick stands for 2.5 s, so 5 s and 20 s are 2 and 8. Of lookups 2 ticks
  apart, two in a row may be lost (`MaxLoss`) and the third answer come a tick late
  (`MaxDelay`), which is just within 8; with one more loss the station would rightly be dropped.
  One host has a sender that is started under one of two names, the other a
  program that answers what does not parse, in two ways.
- `Width` (2^64 in the code) is 1000: no reachable counter comes near it, only
  differences below zero wrap.

`CHECK_DEADLOCK FALSE` everywhere but in `Discovery`: the bounded inputs end (no packet
number, wish, connection or key is left), programs end, and a state with a
fault, or after SIGPIPE, has no successor.

### Fairness

Weak fairness is given to the steps of threads that can run, never to the
environment: nobody has to send a packet, ask for a retransmission, press a
key, answer a lookup, connect or send a signal. Strong fairness is given to three steps that wait for a
mutex which others take and leave again and again (`Count`, `ChangeStation`,
`Move`): Linux's mutexes are not fair, but a waiter competes on every release; and to one step
of the outside: the end of a client that has left reaches UiMenu (`HangUp`), after the keys
typed before it, which are finitely many. What is assumed about the outside:

- stdout takes what is written (`Dump`); the menu's clients read (`SendToAll`,
  and in `UiClients` `ReadMenu`: a client that stops reading goes on, leaves or breaks; section 7
  says what comes of one that does not);
- `OnAirSpec` adds that a joined station sends (`AwaitPacket`), and `silent_station` is
  the same property without it;
- in `UiClients` the thread itself, `Turn`, is one fair action; which of its steps comes
  next is fixed by `todo`;
- in `Shutdown` main and every worker have weak fairness, each on its own. No worker
  blocks in a `read()` or `write()` there; that AudioReceiver can is `silent_station`. The input
  need not end; if it is over, AudioSender sees that, or its hangup, when it polls;
- in `Discovery` time passes, and a message arrives or is lost; `MaxLoss` bounds the
  losses in a row, without which no station would ever have to be listed.

## 5. What is proved

TLAPS checks every theorem to its leaves. Assumed are the named `ASSUME`s of the
modules only: a positive capacity, packet sizes and session ids, a pipe of at
least one event, `NoPacket` and `Zero` different from packets, `End` different
from stations. TLC evaluates each of them in a passing run. The bounds of the
runs (`MaxNum`, `MaxJobs`, `MaxEvents`) are parameters of the specifications; the
theorems hold for every value of them.

- **`CircularBuffer_proofs`** has no theorem of its own to show, but the lemmas the
  others rest on: the types of `TryPut` and `DumpTail`, and, for a `Sound` ring (of
  two slots or more, cursors inside, aligned, no fault), that a packet at
  the head or one beyond keeps it sound, what it does to the range, to each
  slot's number and to `Held`, and the same for `DumpTail`. The case analysis is
  the one of the code: wrap or no wrap, the tail pushed along or not.
- **`Playback_proofs`**, for `Spec`, any arrival: `TypeCorrect`; `RingHoldsOneSession`
  and `RingStartsAtByte0` from `AnyInv`, which adds that the packet in hand belongs
  to the session AudioReceiver is in (without it, the `try_put()` after a released
  mutex could bring another session's packet); `CursorsNeverLeave` from `RingFits`
  (the branch that starts the ring over recomputes its length from the packet
  size, so the two have to agree); `SessionsNeverGoBack` (a theorem that no
  run checks). Its second half is for `SteadySpec`: `SteadyNoFault`, `SteadyAligned`,
  `SteadyJobsCovered`, `SteadyNothingPlayedEarly`, and from them
  `SteadyImplementsWindow` and `SteadyWindowForward`. The inductive invariant is
  `SteadyInv`: the ring is new or sound; the packet in hand is to be ignored, or is the next or the one
  after it and has room (`HeldFits`: what was true in `poll()` must survive until
  the mutex is got, while the player runs); events do not outnumber the range;
  `has_printed` says truly that the threshold is passed. No conjunct is
  inductive alone: `dump_tail()` keeps the ring sound only if an event has a
  packet, and that needs the room `HeldFits` keeps.
- **`Sender_proofs`**: `SenderTypeCorrect`, `BatchStaysInQueue`, `JobsAreAnnounced` from
  `QueueInv`, their conjunction, in which the type of `left` (it never goes below
  zero) needs the batch to be in the queue; `CacheHoldsLatest` and `CacheImplementsWindow` from `CacheInv`, which gives the range
  and the contents exactly, for two slots and more, and what remains true of one
  slot and none. The refinement is proved for every capacity and packet size.
- **`StationDirectory_proofs`**: `DirectoryTypeCorrect` (from `OrderInv`: the plan of the
  mutex's holder is one of eight, a free mutex means an empty plan, an
  event that `poll()` found is still in the pipe); `CurrentStaysListed`, `ChangesAreAnnounced` and
  `ChoicesAreJustified` from `ChoiceInv`, which adds what the mutex hides: the
  choice may dangle only while its holder still has `reset` to do.

- **`Retransmission_proofs`**: `RexmitOnlyReads`, every behaviour of `RexmitSpec` is one of
  `Playback!Spec` (RexmitSender's steps leave its variables alone), and so
  `RingBesideRequests`, which carries its theorems over. `WalkHangsInOneSlot` needs
  `CursorsStayInRing`: the walk from the tail meets each index once before it comes
  back, and the head is one of them. `RequestsAreUnderstood` rests on `RequestReadBack`:
  for every sequence of numbers, what `to_str()` writes is accepted by the parser and
  gives the same sequence; the theorem says so of the numbers `order_retransmission()` found. `AskedIsNear`
  counts them: there are as many different ones as empty slots between tail and head (`MissingCount`, by a
  bijection of slots and distances). It adds that the head stays below `MaxNum + 2`,
  and has a hypothesis, `NumbersFit`: `MaxNum + 1` and `Capacity` are below `Width`. The numbers are
  64 bits wide in the code; the formula at `rexmit_sender.cc:46` is only claimed
  where they do not wrap. The lemma `Enumerated` (the `Nth` least elements of a
  finite set are all of it, each once) relates the list of numbers that the loop
  makes to the set of the slots it found empty.
- **`UiClients_proofs`**, for any number of slots and connections: `UiTypeCorrect`, `SlotsMatch`,
  `TypedIsCommand` and `WorkingClientsAreKept` from `UiInv`. In the middle of a turn the table and the map do
  not agree; the invariant says how far they may differ. `Entries`: a socket is
  always the one its slot polls, but a slot may be polled whose entry has no
  socket; `FreedNext`: then the very next thing done is the greeting, which fails
  and frees it. `Sockets`: a connection waits or is in one slot, never both, and is
  not closed there. `Reported`: an error that `poll()` saw is still one of the client that
  has the slot now; without it HangUp could drop a newcomer. `Input` says of each key
  what InputIsCommand says of the whole. `FreeSlotFound` is the search for the first free slot,
  from the well-foundedness of the natural numbers. `SeatsAreImplemented` is the refinement of `Seats`:
  accepting is `Seat` or `TurnAway`, dropping a client `Part`, and whatever else happens, the
  failed greeting of an entry without a socket included, changes nothing there. That a
  seat is free when a slot is takes a count of the sockets (`ClientsFit`).
- **`Shutdown_proofs`**, for any number of workers: `ShutdownTypeCorrect` and `StopReachesEveryone` (from
  `MarkedAreTold` and `StopAfterAllMarked`) from `StopInv`. It adds that a handler is at a worker there is once it is past
  its first test, that a worker still to be created has not run (creating it again
  would bring back one that has left), and `DoneAbove`: a handler on the stack has seen to every
  worker above the one it is at, whichever of the handlers marked them. That is
  what makes the inner of two handlers, which skips what the outer one has marked,
  no obstacle.
- **`Discovery_proofs`**, for any hosts, texts and times: `DiscoveryTypeCorrect`, `HeardAreKept`,
  `StationsAreListed` from `HeardInv`. `AgeIsAccounted` is what the arithmetic needs: an entry's age is at most the
  lookups since its last reply, a period each, and what LookupSender has slept
  since the last; with `(MaxLoss + 1) * Period + MaxDelay < Threshold` nobody is dropped
  whose replies were not lost `MaxLoss + 1` times. `StationsAreListed` has the hypothesis
  `ForeignIsForeign`, that what other programs answer does not parse as an announcement: one that
  does is a station to this code, whoever sent it. Its lemma `ReplyReadBack` says that the
  parser accepts what `to_str()` writes and gives group, port and name back.

Both hypotheses hold in the instances TLC checks (`MaxNum` 6 and `Capacity` 8 with `Width`
1000; two answers that do not parse). Some definitions are written the way they
are because of the proofs: `Holes` is the set of the offsets at which `order_retransmission()`
finds an empty slot and `Nth` puts them in order, where a recursive walk would
say the same; `Poll` has a task for each slot's input and menu, and the task finds
out, as the loop in the code does, that there is nothing to do.

## 6. What is only model-checked

- Liveness (`OwedIsPlayed`, `JobsAreServed`, `SubscriptionCatchesUp`, `GoneIsFreed`, `ClientsCatchUp`,
  `StopIsReached`, `UpIsListed`, `GoneIsDropped`): fairness and ENABLED are out of the prover's reach.
- Nothing else of what the passing runs check. That the lemmas of two texts'
  round trips stand in two modules (`FirstSpaceIs`, `Cut`, `NewlineDropped`) is because each is proved
  where it is used.
- The five violations, which are counterexamples.

## 7. What is not modelled, and why

- The race of `front()` and `pop()` with `push()` on the job queue is modelled up to its
  occurrence (`torn`); what a wrecked `std::queue` does afterwards is anything.
  Likewise a ring after a failed assertion or an overrun: the process is aborted
  or its memory is damaged. The unlocked walk of `menu_to_str()` over the list is
  modelled as a menu that may be old, not as a walk along freed nodes.
- `Playback` and `StationDirectory` are not composed: nothing in the code relates the
  session in the ring to the current station. RexmitSender asks the current
  station for what the ring misses, also while the ring still holds what the
  station before has sent.
- Failing system calls (`fatal()`, EINTR in `poll()` and `read()` included: it ends the
  program with an error), a blocked stdout beyond fairness, command line parsing,
  logging, socket options: no state that a property here tells apart. The C
  library: the signal handler allocates and logs, and may wait for the heap's
  lock that main held when it was interrupted (`receiver.cc:35`).
- A signal that comes again after its handler has returned, which finds everybody marked and clears
  `running` once more, and signals that the kernel delivers to a worker's thread: the handler would run
  there, beside one on main's stack, or in the middle of a worker's own `push` or `pop`.
- Byte order, and texts longer than a datagram (a request for very many packets).
- Two senders started in the same second have one session id (`time(NULL)`); sessions
  are told apart by their ids here as there.
- `cnt_upto_gap()` is called by nobody.

Met while modelling and not made runs of their own:

- A client that stops reading stops all others. UiMenu's sockets block and one thread serves them
  all, so it waits in `write()` (`ui_menu.cc:65`), for a key's menu (`:262`) with the list locked, and with
  it who needs the list. `src/task_description_pt2.md:166` says that delays in the communication with some clients
  must not affect the others. Without `WF_vars(ReadMenu(c))` TLC finds both `GoneIsFreed` and
  `ClientsCatchUp` violated.
- A packet that is missing when its turn comes does not make playing start over, as
  `src/task_description_pt2.md:74` wants: `dump_tail()` plays the place reserved for it, as zeros. The comment at
  `audio_printer.cc:21` says that this is intended; `SlidingWindow` has it so.
- Events of the session before are heeded on the new session's ring (`audio_printer.cc:42`): before its
  first packet, when the tail then runs past the head of an empty ring, or before the threshold that
  `src/task_description_pt2.md:70` asks for. `SteadySpec` has no event left at a new session.
- The packet size test of `audio_receiver.cc:57` looks at the former session's size, so the first packet of
  a session whose packets are larger than the ring is not ignored, as the message below it
  says, but resets the ring to no slots, and the next step overruns it.
- The sender does not end when its input does, if that is a pipe: `poll()` reports its hangup, which is not
  POLLIN (`audio_sender.cc:86`), and AudioSender goes round its loop. `src/task_description_pt2.md:39` wants it to end.
  `StopIsReached` asks for the end after the end of a file, and after a signal.
- What is buffered when packets stop is not played, as only an arrival makes an event.
- An event is written with a mutex held at `controller.cc:41`, `audio_receiver.cc:81` and
  `station_remover.cc:88`; when the pipe is full and its reader is on its way to that
  mutex, both wait for ever. With a larger `MaxEvents`, or a smaller `PipeCap`, TLC reaches it.
- A late packet in a wrapped ring can be put into a slot that is not its own
  (`circular_buffer.cc:94-96` subtracts the offset of the wrap only when `sideof()` of
  the wrong argument says LEFT; part of what `gap_assertion` reports).
- The cache keeps FSIZE/PSIZE-1 packets, not FSIZE bytes.
- `retransmitter.cc:34` and `:57` copy the two numbers of an audio packet in host byte
  order while AudioSender converts them.
- In a ring of one slot `try_push_head()` leaves the head at 1, and RexmitSender's walk
  never ends (`OnlyOneSlotHangs` says that this is the only case).
- A client that is dropped while its own arrow key is served leaves an entry
  without a socket (`ui_menu.cc:235`); the next connection to that slot is closed at
  once, by the `emplace()` that keeps the old entry and the failed greeting after it.
- SIGPIPE is not handled: a write to a client that has gone ends the receiver.
- The two handlers can lock out each other: the inner one, on the same thread,
  waits for the mutex the outer one was interrupted with (`SelfLocked`).
- `rexmit_sender.cc:63-64` logs a success as a failure, and formats `%s` without an argument.
