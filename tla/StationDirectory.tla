-------------------------- MODULE StationDirectory --------------------------
(***************************************************************************)
(* The receiver's list of stations and its choice among them               *)
(* (src/receiver): LookupReceiver adds stations, StationRemover removes    *)
(* the silent ones, UiMenu moves along the list, and AudioReceiver follows *)
(* the choice by joining the multicast group of the current station.       *)
(*                                                                         *)
(* Whoever changes the list or the choice keeps the mutex of the list      *)
(* until its events are written: todo is what its holder has left to do.   *)
(* The choice has a mutex too, which is only taken inside the other.       *)
(***************************************************************************)
EXTENDS Integers, Sequences

CONSTANTS
  Station,   \* stations, as numbers in the order of RadioStation::cmp
  NameOf,    \* the name of each
  Prio,      \* _prio_station_name, or something that is no name
  End,       \* _stations->end(), or no subscription
  PipeCap,   \* how many events a pipe holds before a write blocks
  MaxEvents  \* bound: something new happens when fewer events are in each pipe

ASSUME DirectoryAssumption ==
  /\ Station \subseteq Nat
  /\ End \notin Station
  /\ PipeCap \in Nat \ {0}
  /\ MaxEvents \in Nat

VARIABLES
  stations,    \* *_stations
  current,     \* *_current_station
  stale,       \* the stations silent for REMOVAL_THRESHOLD
  holder,      \* the thread that holds the list's mutex, or "none"
  todo,        \* what it does before it lets go
  audioEvents, \* CURRENT_STATION_CHANGED events in AudioReceiver's pipe
  uiEvents,    \* STATION_ADDED and _REMOVED events in UiMenu's pipe
  menu,        \* UiMenu: "polling", or the "up" or "down" key it has read
  receiver,    \* AudioReceiver: "polling", "popping", "changing", "reading"
               \*   a packet that is there, or "waiting" for one in read()
  readable,    \* poll() has found a packet in AudioReceiver's socket
  subscribed   \* the station that socket is joined to

list == <<stations, current, stale>>
mutex == <<holder, todo>>
pipes == <<audioEvents, uiEvents>>
audioReceiver == <<receiver, readable, subscribed>>
vars == <<list, mutex, pipes, menu, audioReceiver>>

Init ==
  /\ stations = {} /\ current = End /\ stale = {}
  /\ holder = "none" /\ todo = <<>>
  /\ audioEvents = 0 /\ uiEvents = 0
  /\ menu = "polling"
  /\ receiver = "polling" /\ readable = FALSE /\ subscribed = End

(* The bound on what happens while events wait. *)
Quiet == audioEvents < MaxEvents /\ uiEvents < MaxEvents

(* begin(), and the neighbours of a station in a set of them *)
IsFirst(s, S) == s \in S /\ \A t \in S : s <= t
IsLast(s, S) == s \in S /\ \A t \in S : t <= s
IsBefore(s, t, S) == s \in S /\ s < t /\ \A u \in S : u <= s \/ t <= u
IsAfter(s, t, S) == s \in S /\ t < s /\ \A u \in S : u <= t \/ s <= u

-----------------------------------------------------------------------------
(* REMOVAL_THRESHOLD passes without a reply of s *)
FallSilent(s) ==
  /\ s \in stations
  /\ stale' = stale \cup {s}
  /\ UNCHANGED <<stations, current, mutex, pipes, menu, audioReceiver>>

(* LookupReceiver::handle_lookup_reply(): a station known already ...      *)
Refresh(s) ==
  /\ holder = "none"
  /\ s \in stations
  /\ stale' = stale \ {s}
  /\ UNCHANGED <<stations, current, mutex, pipes, menu, audioReceiver>>

(* mutant: the first station is taken for one among others *)
NeverFirst(s) == NameOf[s] = Prio

(* ... or a new one, which becomes current when it is the only one or has  *)
(* the favourite's name                                                    *)
BecomesCurrent(s) == stations = {} \/ NameOf[s] = Prio

Add(s) ==
  /\ Quiet
  /\ holder = "none"
  /\ s \in Station \ stations
  /\ stations' = stations \cup {s}
  /\ holder' = "lookup"
  /\ IF BecomesCurrent(s)
     THEN current' = s /\ todo' = <<"audio", "ui">>
     ELSE current' = current /\ todo' = <<"ui">>
  /\ UNCHANGED <<stale, pipes, menu, audioReceiver>>

(* StationRemover::remove_inactive(); its event is written before the      *)
(* choice is reset                                                         *)
RemoveInactive ==
  /\ Quiet
  /\ holder = "none"
  /\ stale # {}
  /\ stations' = stations \ stale
  /\ stale' = {}
  /\ holder' = "remover"
  /\ todo' = IF current \in stale THEN <<"ui", "reset", "audio">> ELSE <<"ui">>
  /\ UNCHANGED <<current, pipes, menu, audioReceiver>>

(* mutant: the favourite is not looked for *)
ResetChoiceFirst(c) == IF stations = {} THEN c = End ELSE IsFirst(c, stations)

(* where reset_current_station() goes: to the first station of the         *)
(* favourite's name, or to the first, or nowhere                           *)
ResetChoice(c) ==
  LET favourites == {s \in stations : NameOf[s] = Prio}
  IN  IF stations = {} THEN c = End
      ELSE IF favourites # {} THEN IsFirst(c, favourites)
      ELSE IsFirst(c, stations)

ResetCurrent ==
  /\ holder = "remover"
  /\ todo # <<>> /\ Head(todo) = "reset"
  /\ current' \in Station \cup {End}
  /\ ResetChoice(current')
  /\ todo' = Tail(todo)
  /\ UNCHANGED <<stations, stale, holder, pipes, menu, audioReceiver>>

-----------------------------------------------------------------------------
(* EventQueue::push() by the holder of the mutex, to AudioReceiver ...     *)
PushAudio ==
  /\ todo # <<>> /\ Head(todo) = "audio"
  /\ audioEvents < PipeCap
  /\ audioEvents' = audioEvents + 1
  /\ todo' = Tail(todo)
  /\ UNCHANGED <<list, holder, uiEvents, menu, audioReceiver>>

(* ... and to UiMenu                                                       *)
PushUi ==
  /\ todo # <<>> /\ Head(todo) = "ui"
  /\ uiEvents < PipeCap
  /\ uiEvents' = uiEvents + 1
  /\ todo' = Tail(todo)
  /\ UNCHANGED <<list, holder, audioEvents, menu, audioReceiver>>

(* the end of a critical section *)
Unlock ==
  /\ holder # "none"
  /\ todo = <<>>
  /\ holder' = "none"
  /\ UNCHANGED <<list, todo, pipes, menu, audioReceiver>>

-----------------------------------------------------------------------------
(* mutant: an event is read whether or not poll() has found one *)
PopUiUnasked ==
  /\ menu = "polling" /\ holder # "menu"
  /\ uiEvents' = uiEvents - 1
  /\ UNCHANGED <<list, mutex, audioEvents, menu, audioReceiver>>

(* UiMenu::run(): an event, after which the menu is drawn ...              *)
PopUi ==
  /\ menu = "polling" /\ holder # "menu"
  /\ uiEvents > 0
  /\ uiEvents' = uiEvents - 1
  /\ UNCHANGED <<list, mutex, audioEvents, menu, audioReceiver>>

(* ... or an arrow key ...                                                 *)
Key(k) ==
  /\ Quiet
  /\ menu = "polling" /\ holder # "menu"
  /\ menu' = k
  /\ UNCHANGED <<list, mutex, pipes, audioReceiver>>

(* mutant: the choice moves, and AudioReceiver is not told *)
MoveQuietly(k) ==
  /\ holder = "none"
  /\ menu = k
  /\ holder' = "menu"
  /\ todo' = <<"clients">>
  /\ IF stations = {} \/ (k = "up" /\ IsFirst(current, stations))
                      \/ (k = "down" /\ IsLast(current, stations))
     THEN current' = current
     ELSE /\ current' \in stations
          /\ k = "up" => IsBefore(current', current, stations)
          /\ k = "down" => IsAfter(current', current, stations)
  /\ UNCHANGED <<stations, stale, pipes, menu, audioReceiver>>

(* ... for which cmd_move_up() and cmd_move_down() go to the neighbour     *)
Move(k) ==
  /\ holder = "none"
  /\ menu = k
  /\ holder' = "menu"
  /\ IF stations = {} \/ (k = "up" /\ IsFirst(current, stations))
                      \/ (k = "down" /\ IsLast(current, stations))
     THEN current' = current /\ todo' = <<"clients">>
     ELSE /\ current' \in stations
          /\ k = "up" => IsBefore(current', current, stations)
          /\ k = "down" => IsAfter(current', current, stations)
          /\ todo' = <<"audio", "clients">>
  /\ UNCHANGED <<stations, stale, pipes, menu, audioReceiver>>

(* and send_to_all() writes the menu, as fast as the clients read          *)
SendToAll ==
  /\ holder = "menu"
  /\ todo # <<>> /\ Head(todo) = "clients"
  /\ todo' = Tail(todo)
  /\ menu' = "polling"
  /\ UNCHANGED <<list, holder, pipes, audioReceiver>>

-----------------------------------------------------------------------------
(* AudioReceiver::run(): poll() finds an event, or a packet, or both       *)
Poll ==
  /\ receiver = "polling"
  /\ readable' \in {FALSE} \cup {r \in {TRUE} : subscribed # End}
  /\ audioEvents > 0 \/ readable'
  /\ receiver' = IF audioEvents > 0 THEN "popping" ELSE "reading"
  /\ UNCHANGED <<list, mutex, pipes, menu, subscribed>>

PopChange ==
  /\ receiver = "popping"
  /\ audioEvents' = audioEvents - 1
  /\ receiver' = "changing"
  /\ UNCHANGED <<list, mutex, uiEvents, menu, readable, subscribed>>

(* mutant: the old socket is kept when there is no station left *)
ChangeStationIfAny ==
  /\ receiver = "changing"
  /\ holder = "none"
  /\ subscribed' = IF stations # {} THEN current ELSE subscribed
  /\ receiver' = IF ~readable THEN "polling"
                 ELSE IF subscribed' = End THEN "reading" ELSE "waiting"
  /\ UNCHANGED <<list, mutex, pipes, menu, readable>>

(* change_station().  What poll() said of the old socket is believed of    *)
(* the new one: read() waits for a packet, or fails if there is no socket. *)
ChangeStation ==
  /\ receiver = "changing"
  /\ holder = "none"
  /\ subscribed' = IF stations # {} THEN current ELSE End
  /\ receiver' = IF ~readable THEN "polling"
                 ELSE IF subscribed' = End THEN "reading" ELSE "waiting"
  /\ UNCHANGED <<list, mutex, pipes, menu, readable>>

(* read_packet() of a packet that is there, or without a socket ...        *)
ReadPacket ==
  /\ receiver = "reading"
  /\ receiver' = "polling"
  /\ UNCHANGED <<list, mutex, pipes, menu, readable, subscribed>>

(* ... or of one that the station has yet to send                          *)
AwaitPacket ==
  /\ receiver = "waiting"
  /\ receiver' = "polling"
  /\ UNCHANGED <<list, mutex, pipes, menu, readable, subscribed>>

-----------------------------------------------------------------------------
Next ==
  \/ \E s \in Station : FallSilent(s) \/ Refresh(s) \/ Add(s)
  \/ RemoveInactive \/ ResetCurrent
  \/ PushAudio \/ PushUi \/ Unlock
  \/ PopUi
  \/ \E k \in {"up", "down"} : Key(k) \/ Move(k)
  \/ SendToAll
  \/ Poll \/ PopChange \/ ChangeStation \/ ReadPacket \/ AwaitPacket

Spec == Init /\ [][Next]_vars

(* Threads that can run do, a mutex that is free again and again is got,   *)
(* and the clients of the menu read it.                                    *)
Fairness ==
  /\ WF_vars(ResetCurrent) /\ WF_vars(PushAudio) /\ WF_vars(PushUi)
  /\ WF_vars(Unlock) /\ WF_vars(PopUi) /\ WF_vars(SendToAll)
  /\ \A k \in {"up", "down"} : SF_vars(Move(k))
  /\ WF_vars(Poll) /\ WF_vars(PopChange) /\ SF_vars(ChangeStation)
  /\ WF_vars(ReadPacket)

FairSpec == Spec /\ Fairness

(* Besides, every station that is joined to sends something.               *)
OnAirSpec == FairSpec /\ WF_vars(AwaitPacket)

-----------------------------------------------------------------------------
(* Type correctness of the station directory.                              *)
TypeOK ==
  /\ stations \in SUBSET Station
  /\ current \in Station \cup {End}
  /\ stale \in SUBSET stations
  /\ holder \in {"none", "lookup", "remover", "menu"}
  /\ todo \in Seq({"audio", "ui", "reset", "clients"})
  /\ audioEvents \in 0 .. PipeCap /\ uiEvents \in 0 .. PipeCap
  /\ menu \in {"polling", "up", "down"}
  /\ receiver \in {"polling", "popping", "changing", "reading", "waiting"}
  /\ readable \in BOOLEAN
  /\ subscribed \in Station \cup {End}

(* Whoever gets the mutex finds a current station exactly when there is a  *)
(* station, and finds it in the list: its iterator can be followed.        *)
Listed == IF stations = {} THEN current = End ELSE current \in stations

CurrentIsListed == holder = "none" => Listed

(* When AudioReceiver is joined to another station than the current one,   *)
(* it has been told, or is about to be.                                    *)
Has(q, x) == \E i \in 1 .. Len(q) : q[i] = x

ChangeIsAnnounced ==
  subscribed # current => audioEvents > 0 \/ receiver = "changing" \/ Has(todo, "audio")

(* A station in the list stays the current one until a key is pressed or   *)
(* the favourite is found, and a favourite in the list is what the choice  *)
(* falls back on.                                                          *)
ChoiceIsJustified ==
  [][/\ current' # current /\ current \in stations'
          => holder' = "menu" \/ NameOf[current'] = Prio
     /\ current' # current /\ current # End /\ current \notin stations'
          => \/ current' = End
             \/ NameOf[current'] = Prio
             \/ \A s \in stations' : NameOf[s] # Prio]_vars

(* AudioReceiver catches up with a choice that stays.                      *)
SubscriptionCatchesUp ==
  \A c \in Station \cup {End} : <>[](current = c) => <>[](subscribed = c)
=============================================================================
