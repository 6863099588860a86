----------------------------- MODULE UiClients -----------------------------
(***************************************************************************)
(* UiMenu's clients (src/receiver/ui_menu.cc): the poll table with a slot  *)
(* for each telnet connection, the map of clients with their sockets and   *)
(* the command each is typing, and the one thread that serves them, turn   *)
(* by turn.  Connections come, type, stop reading, leave and break at any  *)
(* moment; other threads change the list of stations and send an event.    *)
(*                                                                         *)
(* todo is what the thread has left to do in this turn of its loop: pairs  *)
(* of a task and the slot it is for (0 for none).                          *)
(***************************************************************************)
EXTENDS Integers, Sequences

CONSTANTS
  NumConns,    \* bound: how many connections are ever made
  Slow,        \* bound: those that may stop reading for a while
  MinClientId, \* MIN_CLIENT_ID: the slots before the first client's
  MaxClients   \* MAX_CLIENTS

ASSUME ClientsAssumption ==
  /\ NumConns \in Nat
  /\ Slow \subseteq 1 .. NumConns
  /\ MinClientId \in Nat \ {0}
  /\ MaxClients \in Nat \ {0}

Conn == 1 .. NumConns   \* in the order they are made
NoConn == 0             \* a file descriptor of -1

Slot == MinClientId .. MinClientId + MaxClients - 1

Key == {"ESCAPE", "DELIM", "ARROW", "OTHER"}
Arrow == <<"ESCAPE", "DELIM", "ARROW">>   \* ui::commands::UP and DOWN

VARIABLES
  peer,     \* "away", "open", "left" (the client has closed its end),
            \*   "reset" (writing fails or raises SIGPIPE), "closed" (by UiMenu)
  backlog,  \* connections made and not accepted
  full,     \* those whose send buffer is full, so that write() blocks
  fresh,    \* those that show the menu as it is
  fd,       \* _poll_fds[i].fd
  revents,  \* _poll_fds[i].revents
  ids,      \* the keys of the map _clients
  socket,   \* _clients[i].socket
  cmd,      \* _clients[i]: the nread bytes of cmd_buf
  event,    \* a STATION_ADDED or STATION_REMOVED event is in the pipe
  drawn,    \* the text being sent is the menu as it is
  todo,
  alive     \* no assertion has failed and no SIGPIPE has come

network == <<peer, backlog, full>>
table == <<fd, revents, ids, socket, cmd>>
vars == <<network, fresh, table, event, drawn, todo, alive>>

Init ==
  /\ peer = [c \in Conn |-> "away"] /\ backlog = {} /\ full = {}
  /\ fresh = {}
  /\ fd = [i \in Slot |-> NoConn] /\ revents = [i \in Slot |-> {}]
  /\ ids = {} /\ socket = [i \in Slot |-> NoConn] /\ cmd = [i \in Slot |-> <<>>]
  /\ event = FALSE /\ drawn = FALSE
  /\ todo = <<>> /\ alive = TRUE

-----------------------------------------------------------------------------
(* What the clients do.  One that has left answers the next menu with a    *)
(* reset; another may just break off.                                      *)
Connect(c) ==
  /\ peer[c] = "away" /\ \A b \in Conn : b < c => peer[b] # "away"
  /\ peer' = [peer EXCEPT ![c] = "open"]
  /\ backlog' = backlog \cup {c}
  /\ UNCHANGED <<full, fresh, table, event, drawn, todo, alive>>

Leave(c) ==
  /\ peer[c] \in {"open", "left"}
  /\ peer' \in {[peer EXCEPT ![c] = e] : e \in {"left", "reset"}}
  /\ full' = full \ {c}
  /\ UNCHANGED <<backlog, fresh, table, event, drawn, todo, alive>>

ReadMenu(c) ==
  /\ c \in full
  /\ full' = full \ {c}
  /\ UNCHANGED <<peer, backlog, fresh, table, event, drawn, todo, alive>>

(* LookupReceiver or StationRemover changes the list, or the choice in it. *)
(* It cannot while a key's menu is sent, which is done with the mutexes of *)
(* both held.  The menu is drawn for an event without them: StationRemover *)
(* resets the choice after it has written the event, which may have been   *)
(* read by then, and a change has no event to come.                        *)
ListChanges ==
  /\ \A k \in 2 .. Len(todo) : todo[k][1] # "reset"
  /\ event' \in {event, TRUE} /\ fresh' = {} /\ drawn' = FALSE
  /\ UNCHANGED <<network, table, todo, alive>>

-----------------------------------------------------------------------------
(* run(): poll() sees some of the bytes that are typed, every connection   *)
(* that has ended or broken, and who can be written to.                    *)
Ready(i, typing) ==
  {e \in {"in", "out", "err"} :
     /\ fd[i] # NoConn
     /\ \/ e = "in" /\ (i \in typing \/ peer[fd[i]] # "open")
        \/ e = "out" /\ fd[i] \notin full
        \/ e = "err" /\ peer[fd[i]] = "reset"}

Poll(typing) ==
  /\ alive /\ todo = <<>>
  /\ revents' = [i \in Slot |-> Ready(i, typing)]
  /\ event \/ backlog # {} \/ \E i \in Slot : revents'[i] # {}
  /\ todo' = (IF event THEN << <<"event", 0>> >> ELSE <<>>)
               \o (IF backlog # {} THEN << <<"accept", 0>> >> ELSE <<>>)
               \o [k \in 1 .. 2 * MaxClients |->
                     <<IF k % 2 = 1 THEN "serve" ELSE "refresh",
                       MinClientId + (k - 1) \div 2>>]
  /\ drawn' = FALSE
  /\ UNCHANGED <<network, fresh, fd, ids, socket, cmd, event, alive>>

(* The next task, and the tasks it puts before the others. *)
Doing(op, i) == alive /\ todo # <<>> /\ todo[1] = <<op, i>>
Then(tasks) == todo' = tasks \o Tail(todo)

(* mutant: the slot is not given back *)
DisconnectHalf(i) ==
  /\ ids' = ids \ {i}
  /\ socket' = [socket EXCEPT ![i] = NoConn]
  /\ cmd' = [cmd EXCEPT ![i] = <<>>]
  /\ peer' = [c \in Conn |-> IF c = socket[i] THEN "closed" ELSE peer[c]]
  /\ full' = full \ {socket[i]}
  /\ fresh' = fresh \ {socket[i]}
  /\ UNCHANGED <<backlog, fd, revents>>

(* mutant: the socket is closed and its entry stays *)
DisconnectKept(i) ==
  /\ peer' = [c \in Conn |-> IF c = socket[i] THEN "closed" ELSE peer[c]]
  /\ fd' = [fd EXCEPT ![i] = NoConn]
  /\ revents' = [revents EXCEPT ![i] = {}]
  /\ full' = full \ {socket[i]}
  /\ fresh' = fresh \ {socket[i]}
  /\ UNCHANGED <<backlog, ids, socket, cmd>>

(* disconnect_client(); erasing the client closes its socket               *)
Disconnect(i) ==
  /\ ids' = ids \ {i}
  /\ socket' = [socket EXCEPT ![i] = NoConn]
  /\ cmd' = [cmd EXCEPT ![i] = <<>>]
  /\ fd' = [fd EXCEPT ![i] = NoConn]
  /\ revents' = [revents EXCEPT ![i] = {}]
  /\ peer' = [c \in Conn |-> IF c = socket[i] THEN "closed" ELSE peer[c]]
  /\ full' = full \ {socket[i]}
  /\ fresh' = fresh \ {socket[i]}
  /\ UNCHANGED backlog

(* TcpClientSocket::write() to a slot that is in use: it works, or throws  *)
(* and the client is dropped; it waits while the buffer is full.           *)
CanWrite(i) ==
  /\ socket[i] # NoConn
  /\ peer[socket[i]] # "reset"
  /\ socket[i] \notin full

WriteTo(i, current) ==
  \/ /\ CanWrite(i)
     /\ fresh' = IF current THEN fresh \cup {socket[i]} ELSE fresh \ {socket[i]}
     /\ full' \in {full, full \cup ({socket[i]} \cap Slow)}
     /\ UNCHANGED <<peer, backlog, fd, ids, socket, cmd>>
  \/ /\ socket[i] # NoConn => peer[socket[i]] = "reset"
     /\ Disconnect(i)

(* send_msg() of the text drawn last, if the slot is in use                *)
Write(i) ==
  /\ Doing("write", i)
  /\ IF fd[i] = NoConn
     THEN UNCHANGED <<network, fresh, table>>
     ELSE WriteTo(i, drawn) /\ (CanWrite(i) => UNCHANGED revents)
  /\ Then(<<>>)
  /\ UNCHANGED <<event, drawn, alive>>

(* SIGPIPE, which the program does not handle *)
Killed ==
  /\ \E i \in Slot :
       /\ Doing("write", i) \/ Doing("refresh", i) \/ Doing("greet", i)
       /\ fd[i] # NoConn /\ socket[i] # NoConn /\ peer[socket[i]] = "reset"
  /\ alive' = FALSE
  /\ UNCHANGED <<network, fresh, table, event, drawn, todo>>

(* mutant: as many writes as clients, whatever the first id *)
BroadcastTooFar == [k \in 1 .. MaxClients + 1 |-> <<"write", MinClientId + k - 1>>]

(* send_to_all(): the ids below MAX_CLIENTS, not below TOTAL_POLLFDS       *)
Broadcast == [k \in 1 .. MaxClients - MinClientId |-> <<"write", MinClientId + k - 1>>]

Event ==
  /\ Doing("event", 0)
  /\ event' = FALSE /\ drawn' = TRUE
  /\ Then(Broadcast)
  /\ UNCHANGED <<network, fresh, table, alive>>

(* the connection TcpServerSocket::accept() takes *)
Pending(c) == c \in backlog /\ \A b \in backlog : c <= b

(* accept_new_client() and register_client(): the first free slot, or none *)
(* and the socket is closed again.  emplace() leaves an entry that is      *)
(* there as it is.  Mutant: the table is taken to end at MAX_CLIENTS.      *)
FreeSlotBelowMax(i) ==
  fd[i] = NoConn /\ i < MaxClients /\ \A j \in Slot : j < i => fd[j] # NoConn

FreeSlot(i) == fd[i] = NoConn /\ \A j \in Slot : j < i => fd[j] # NoConn

Accept(c) ==
  /\ Doing("accept", 0)
  /\ Pending(c)
  /\ backlog' = backlog \ {c}
  /\ \/ \E i \in Slot :
          /\ FreeSlot(i)
          /\ fd' = [fd EXCEPT ![i] = c]
          /\ revents' = [revents EXCEPT ![i] = {}]
          /\ ids' = ids \cup {i}
          /\ socket' = IF i \in ids THEN socket ELSE [socket EXCEPT ![i] = c]
          /\ peer' = IF i \in ids THEN [peer EXCEPT ![c] = "closed"] ELSE peer
          /\ Then(<< <<"greet", i>> >>)
          /\ UNCHANGED cmd
     \/ /\ ~\E i \in Slot : FreeSlot(i)
        /\ peer' = [peer EXCEPT ![c] = "closed"]
        /\ Then(<<>>)
        /\ UNCHANGED table
  /\ UNCHANGED <<full, fresh, event, drawn, alive>>

(* config_client() and greet_client()                                      *)
Greet(i) ==
  /\ Doing("greet", i)
  /\ WriteTo(i, TRUE) /\ (CanWrite(i) => UNCHANGED revents)
  /\ Then(<<>>)
  /\ UNCHANGED <<event, drawn, alive>>

-----------------------------------------------------------------------------
(* handle_client_input() of a connection that has ended or broken (mutant: *)
(* the end of the input is not noticed) ...                                *)
EndedOnError(i) == "err" \in revents[i]

Ended(i) ==
  \/ "err" \in revents[i]
  \/ "in" \in revents[i] /\ peer[socket[i]] # "open"

HangUp(i) ==
  /\ Doing("serve", i)
  /\ Ended(i)
  /\ Disconnect(i)
  /\ Then(<<>>)
  /\ UNCHANGED <<event, drawn, alive>>

(* ... of a key, which a client may also have typed before it left: one    *)
(* that is not the next of a command makes the command forgotten (mutant:  *)
(* what is typed stays) ...                                                *)
HasKey(i) ==
  /\ "in" \in revents[i] /\ "err" \notin revents[i]
  /\ peer[socket[i]] \in {"open", "left"}

Typing(i) ==
  /\ Doing("serve", i)
  /\ HasKey(i)
  /\ UNCHANGED <<network, fd, revents, ids, socket, event>>

Expected(i, k) == Len(cmd[i]) < Len(Arrow) /\ k = Arrow[Len(cmd[i]) + 1]

TypedKept(i, k) == Append(cmd[i], k)

Typed(i, k) == IF Expected(i, k) THEN Append(cmd[i], k) ELSE <<>>

KeyTyped(i) ==
  /\ Typing(i)
  /\ \E k \in Key :
       /\ ~(k = "ARROW" /\ Expected(i, k))
       /\ cmd' = [cmd EXCEPT ![i] = Typed(i, k)]
  /\ Then(<<>>)
  /\ UNCHANGED <<fresh, drawn, alive>>

(* ... and of the last: apply_cmd() looks the command up and runs it; the  *)
(* menu goes to all, whether or not the choice has moved, and after that   *)
(* the client's input is reset                                             *)
KeyArrow(i) ==
  /\ Typing(i)
  /\ Expected(i, "ARROW")
  /\ cmd' = [cmd EXCEPT ![i] = Append(@, "ARROW")]
  /\ alive' = (cmd'[i] = Arrow)
  /\ fresh' \in {fresh, {}}
  /\ drawn' = TRUE
  /\ Then(Broadcast \o << <<"reset", i>> >>)

(* reset_client_input(): _clients[id] makes an entry if there is none      *)
ResetInput(i) ==
  /\ Doing("reset", i)
  /\ ids' = ids \cup {i}
  /\ cmd' = [cmd EXCEPT ![i] = <<>>]
  /\ Then(<<>>)
  /\ UNCHANGED <<network, fresh, fd, revents, socket, event, drawn, alive>>

NotServed(i) ==
  /\ Doing("serve", i)
  /\ ~Ended(i) /\ ~HasKey(i)
  /\ Then(<<>>)
  /\ UNCHANGED <<network, fresh, table, event, drawn, alive>>

(* mutant: only the clients send_to_all() reaches *)
CanRefreshBelowMax(i) == "out" \in revents[i] /\ i < MaxClients

CanRefresh(i) == "out" \in revents[i]

(* the menu for each client that poll() says can be written to; drawn here *)
(* and sent later if other writes have filled the buffer since             *)
Refresh(i) ==
  /\ Doing("refresh", i)
  /\ IF ~CanRefresh(i)
     THEN Then(<<>>) /\ UNCHANGED <<network, fresh, table, drawn>>
     ELSE IF socket[i] \in full
     THEN /\ Then(<< <<"write", i>> >>)
          /\ drawn' = TRUE
          /\ UNCHANGED <<network, fresh, table>>
     ELSE /\ WriteTo(i, TRUE)
          /\ revents' = [revents EXCEPT ![i] = {}]
          /\ Then(<<>>)
          /\ UNCHANGED drawn
  /\ UNCHANGED <<event, alive>>

-----------------------------------------------------------------------------
Serve(i) ==
  \/ HangUp(i) \/ NotServed(i)
  \/ KeyTyped(i) \/ KeyArrow(i)
  \/ Refresh(i) \/ Write(i) \/ Greet(i) \/ ResetInput(i)

Turn ==
  \/ \E typing \in SUBSET Slot : Poll(typing)
  \/ Event \/ Killed
  \/ \E c \in Conn : Accept(c)
  \/ \E i \in Slot : Serve(i)

Next ==
  \/ \E c \in Conn : Connect(c) \/ Leave(c)
  \/ \E c \in Slow : ReadMenu(c)
  \/ ListChanges
  \/ Turn

Spec == Init /\ [][Next]_vars

(* UiMenu runs when it can, a client that stays reads what it is sent, and *)
(* one that has left has typed only so many keys before.                   *)
FairSpec ==
  /\ Spec
  /\ WF_vars(Turn)
  /\ \A c \in Slow : WF_vars(ReadMenu(c))
  /\ \A i \in Slot : SF_vars(HangUp(i))

-----------------------------------------------------------------------------
(* Type correctness of the client table.                                   *)
TypeOK ==
  /\ peer \in [Conn -> {"away", "open", "left", "reset", "closed"}]
  /\ backlog \subseteq Conn /\ full \subseteq Slow /\ fresh \subseteq Conn
  /\ fd \in [Slot -> Conn \cup {NoConn}]
  /\ revents \in [Slot -> SUBSET {"in", "out", "err"}]
  /\ ids \subseteq Slot
  /\ socket \in [Slot -> Conn \cup {NoConn}]
  /\ cmd \in [Slot -> Seq(Key)]
  /\ event \in BOOLEAN /\ drawn \in BOOLEAN /\ alive \in BOOLEAN
  /\ todo \in Seq({"event", "accept", "greet", "write", "serve", "refresh", "reset"}
                    \X (Slot \cup {0}))

(* Whenever poll() is called, each slot in use has the client whose socket *)
(* it polls, that socket is not closed and is in no other slot; and no     *)
(* client is left without a slot.  Entries that reset_client_input() has   *)
(* made again after their client was dropped have no socket, and the next  *)
(* client of the slot must not inherit that.                               *)
SlotsMatchClients ==
  todo = <<>> =>
    \A i \in Slot :
      /\ socket[i] = fd[i]
      /\ fd[i] # NoConn =>
           /\ i \in ids
           /\ peer[fd[i]] # "closed"
           /\ \A j \in Slot : fd[j] = fd[i] => j = i

(* cmd_buf holds the beginning of an arrow key, of at most MAX_CMD_LEN     *)
(* bytes, whatever is typed and whoever had the slot before: it is never   *)
(* overrun, and apply_cmd() only looks up commands there are.              *)
InputIsCommand ==
  \A i \in Slot :
    /\ Len(cmd[i]) <= Len(Arrow)
    /\ cmd[i] = SubSeq(Arrow, 1, Len(cmd[i]))
    /\ cmd[i] = Arrow => \E k \in 1 .. Len(todo) : todo[k] = <<"reset", i>>

(* A connection that works is only closed when every slot is taken, or     *)
(* when its slot had an entry without a socket left in it.                 *)
WorkingIsKept ==
  [][\A c \in Conn :
       peer[c] = "open" /\ peer'[c] = "closed" =>
         \/ \A i \in Slot : fd[i] # NoConn
         \/ \E i \in ids : fd[i] = NoConn]_vars

(* The clients are those who have a socket in the map; what the server     *)
(* does to them, one write or failure at a time, gives seats to those who  *)
(* wait in line: nobody has two, there are never more clients than slots,  *)
(* and a connection that was closed is nobody's client again.              *)
Clients == {socket[i] : i \in Slot} \ {NoConn}

Table == INSTANCE Seats WITH
           Visitor <- Conn,
           Places  <- MaxClients,
           waiting <- backlog,
           seated  <- Clients,
           gone    <- {c \in Conn : peer[c] = "closed"}

SeatsAreGiven == Table!Spec

(* A client that is gone does not keep its slot, or its place in line:     *)
(* again and again there is none.                                          *)
Gone(c) == peer[c] \in {"left", "reset"}

GoneIsFreed == []<>(~alive \/ \A c \in Conn : ~Gone(c))

(* Once the list has stopped changing all clients come to show the same    *)
(* at the same time, the menu as it is: those too whose ids send_to_all()  *)
(* does not reach, and those that were written to while the list changed.  *)
ClientsCatchUp ==
  <>[][~ListChanges]_vars =>
    []<>(~alive \/ \A i \in Slot :
           socket[i] # NoConn /\ peer[socket[i]] = "open" => socket[i] \in fresh)
=============================================================================
