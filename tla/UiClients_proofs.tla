-------------------------- MODULE UiClients_proofs --------------------------
(***************************************************************************)
(* Theorems about UiMenu's clients, for any number of slots and of         *)
(* connections, and whatever each connection does.                         *)
(***************************************************************************)
EXTENDS UiClients, SequenceTheorems, FiniteSetTheorems, WellFoundedInduction, TLAPS

(* The parts of TypeOK that the serving of a client changes.               *)
Typed0 ==
  /\ peer \in [Conn -> {"away", "open", "left", "reset", "closed"}]
  /\ backlog \subseteq Conn /\ full \subseteq Slow /\ fresh \subseteq Conn
  /\ fd \in [Slot -> Conn \cup {NoConn}]
  /\ revents \in [Slot -> SUBSET {"in", "out", "err"}]
  /\ ids \subseteq Slot
  /\ socket \in [Slot -> Conn \cup {NoConn}]
  /\ cmd \in [Slot -> Seq(Key)]

Task == {"event", "accept", "greet", "write", "serve", "refresh", "reset"}
          \X (Slot \cup {0})

(* A slot in use has its entry in the map, and an entry's socket is the    *)
(* one that its slot polls.                                                *)
Entries ==
  \A i \in Slot :
    /\ fd[i] # NoConn => i \in ids
    /\ i \notin ids => socket[i] = NoConn
    /\ socket[i] # NoConn => fd[i] = socket[i]

(* A slot whose entry has no socket is freed by the next thing done: the   *)
(* greeting, which fails.                                                  *)
FreedNext ==
  \A i \in Slot :
    fd[i] # NoConn /\ socket[i] = NoConn => todo # <<>> /\ todo[1] = <<"greet", i>>

(* A connection waits, or is in one slot, or neither; while it waits or is *)
(* a client's it is not closed.                                            *)
Sockets ==
  /\ \A c \in backlog : peer[c] \in {"open", "left", "reset"}
  /\ \A i \in Slot :
       /\ socket[i] # NoConn => peer[socket[i]] \in {"open", "left", "reset"}
       /\ fd[i] \notin backlog
       /\ fd[i] # NoConn => peer[fd[i]] # "away"
  /\ \A i, j \in Slot : fd[i] = fd[j] /\ fd[i] # NoConn => i = j

(* What poll() reported of a broken connection is still true when it is    *)
(* read, whoever has had the slot in between.                              *)
Reported ==
  \A i \in Slot : "err" \in revents[i] => fd[i] # NoConn /\ peer[fd[i]] = "reset"

TableInv == Typed0 /\ Entries /\ Sockets /\ Reported

(* What is typed, in words that speak of one key at a time; it is a whole  *)
(* command only until the client's input is reset.                         *)
Beginning(s) == Len(s) <= Len(Arrow) /\ \A k \in 1 .. Len(s) : s[k] = Arrow[k]

Input ==
  \A i \in Slot :
    /\ Beginning(cmd[i])
    /\ cmd[i] = Arrow => \E k \in 1 .. Len(todo) : todo[k] = <<"reset", i>>

Flags ==
  /\ event \in BOOLEAN /\ drawn \in BOOLEAN /\ alive \in BOOLEAN
  /\ todo \in Seq(Task)

UiInv == Flags /\ TableInv /\ FreedNext /\ Input

-----------------------------------------------------------------------------
(***************************************************************************)
(* The slots and the keys.                                                 *)
(***************************************************************************)
LEMMA SlotFacts == Slot \subseteq Nat /\ 0 \notin Slot /\ NoConn \notin Conn
<1>1. MinClientId \in Nat \ {0} /\ MaxClients \in Nat \ {0} /\ NumConns \in Nat
  BY ClientsAssumption
<1> QED
  BY <1>1, SMT DEF Slot, Conn, NoConn

LEMMA Least ==
  ASSUME NEW T, T \subseteq Nat, T # {}
  PROVE  \E x \in T : \A y \in T : ~(y < x)
<1> DEFINE R == {ss \in Nat \X Nat : ss[1] < ss[2]}
<1>1. IsWellFoundedOn(R, Nat)
  BY NatLessThanWellFounded, Zenon DEF OpToRel
<1>2. \A x, y \in Nat : y < x => <<y, x>> \in R
  BY SMT
<1> HIDE DEF R
<1>3. \E x \in T : \A y \in T : ~(<<y, x>> \in R)
  BY <1>1, WFMin
<1> QED
  BY <1>2, <1>3

(* register_client() finds a slot when there is one.                       *)
LEMMA FreeSlotFound ==
  ASSUME ~\E i \in Slot : FreeSlot(i)
  PROVE  \A i \in Slot : fd[i] # NoConn
<1> DEFINE T == {i \in Slot : fd[i] = NoConn}
<1>1. SUFFICES ASSUME T # {}
               PROVE  FALSE
  OBVIOUS
<1>2. T \subseteq Nat
  BY SlotFacts
<1>3. PICK i \in T : \A j \in T : ~(j < i)
  BY <1>1, <1>2, Least
<1>4. FreeSlot(i)
  BY <1>3, Zenon DEF FreeSlot
<1> QED
  BY <1>3, <1>4

(* The beginnings of an arrow key.                                         *)
LEMMA ArrowIs ==
  /\ Arrow \in Seq(Key) /\ Len(Arrow) = 3
  /\ Arrow[1] = "ESCAPE" /\ Arrow[2] = "DELIM" /\ Arrow[3] = "ARROW"
BY SMT DEF Arrow, Key

LEMMA BeginningIs ==
  ASSUME NEW s \in Seq(Key)
  PROVE  Len(s) <= Len(Arrow) /\ s = SubSeq(Arrow, 1, Len(s)) <=> Beginning(s)
<1>1. Len(s) \in Nat
  BY LenProperties
<1>2. SUFFICES ASSUME Len(s) <= Len(Arrow)
               PROVE  s = SubSeq(Arrow, 1, Len(s)) <=> Beginning(s)
  BY DEF Beginning
<1> DEFINE b == SubSeq(Arrow, 1, Len(s))
<1>3. \A k \in 1 .. Len(s) : Arrow[k] \in Key
  BY <1>1, <1>2, ArrowIs, ElementOfSeq, SMT
<1>4. /\ b \in Seq(Key)
      /\ Len(b) = IF 1 <= Len(s) THEN Len(s) - 1 + 1 ELSE 0
      /\ \A k \in 1 .. Len(s) - 1 + 1 : b[k] = Arrow[1 + k - 1]
  <2>1. 1 \in Int /\ Len(s) \in Int
    BY <1>1, SMT
  <2> QED
    BY <1>3, <2>1, SubSeqProperties
<1> HIDE DEF b
<1>5. Len(b) = Len(s) /\ \A k \in 1 .. Len(s) : b[k] = Arrow[k]
  BY <1>1, <1>4, SMT
<1>6. ASSUME Beginning(s)
      PROVE  s = b
  BY <1>4, <1>5, <1>6, SeqEqual, Zenon DEF Beginning
<1>7. ASSUME s = b
      PROVE  Beginning(s)
  BY <1>2, <1>5, <1>7, Zenon DEF Beginning
<1> QED
  BY <1>6, <1>7 DEF b

(* One key more: a beginning again, and the whole only with its last key.  *)
LEMMA KeyAfter ==
  ASSUME NEW s \in Seq(Key), Beginning(s), NEW k \in Key,
         Len(s) < Len(Arrow), k = Arrow[Len(s) + 1]
  PROVE  /\ Append(s, k) \in Seq(Key)
         /\ Beginning(Append(s, k))
         /\ Append(s, k) = Arrow => k = "ARROW"
<1>1. Len(s) \in Nat
  BY LenProperties
<1>2. PICK t : t = Append(s, k)
  OBVIOUS
<1>3. /\ t \in Seq(Key) /\ Len(t) = Len(s) + 1
      /\ \A j \in 1 .. Len(s) : t[j] = s[j]
      /\ t[Len(s) + 1] = k
  BY <1>2, AppendProperties
<1>4. Beginning(t)
  BY <1>1, <1>3, ArrowIs, SMT DEF Beginning
<1>5. t = Arrow => k = "ARROW"
  BY <1>1, <1>3, ArrowIs, SMT
<1> QED
  BY <1>2, <1>3, <1>4, <1>5

-----------------------------------------------------------------------------
(***************************************************************************)
(* What is left to do.                                                     *)
(***************************************************************************)
LEMMA TasksInOrder ==
  ASSUME NEW n \in Int, NEW f \in [1 .. n -> Task]
  PROVE  f \in Seq(Task)
<1>1. CASE n \in Nat
  BY <1>1, SeqDef
<1>2. CASE n \notin Nat
  <2>1. 1 .. n = 1 .. 0 /\ 0 \in Nat
    BY <1>2, SMT
  <2> QED
    BY <2>1, SeqDef
<1> QED
  BY <1>1, <1>2

LEMMA BroadcastTasks == Broadcast \in Seq(Task)
<1> DEFINE n == MaxClients - MinClientId
<1>1. n \in Int /\ \A k \in 1 .. n : MinClientId + k - 1 \in Slot
  BY ClientsAssumption, SMT DEF Slot
<1>2. Broadcast = [k \in 1 .. n |-> <<"write", MinClientId + k - 1>>]
  BY DEF Broadcast
<1> HIDE DEF n
<1>3. \A k \in 1 .. n : <<"write", MinClientId + k - 1>> \in Task
  BY <1>1, Zenon DEF Task
<1>4. Broadcast \in [1 .. n -> Task]
  BY <1>2, <1>3, Zenon
<1> QED
  BY <1>1, <1>4, TasksInOrder

(* Then() puts the new tasks before those that were left.                  *)
LEMMA NextTasks ==
  ASSUME todo \in Seq(Task), NEW op, NEW i, Doing(op, i),
         NEW tasks \in Seq(Task), Then(tasks)
  PROVE  /\ todo' \in Seq(Task)
         /\ \A k \in 1 .. Len(tasks) : \E m \in 1 .. Len(todo') : todo'[m] = tasks[k]
         /\ Len(tasks) # 0 => todo' # <<>> /\ todo'[1] = tasks[1]
         /\ \A k \in 1 .. Len(todo) :
              todo[k] = <<op, i>> \/ \E m \in 1 .. Len(todo') : todo'[m] = todo[k]
<1>1. todo # <<>> /\ todo[1] = <<op, i>>
  BY DEF Doing
<1>2. PICK rest : rest = Tail(todo)
  OBVIOUS
<1>3. /\ rest \in Seq(Task) /\ Len(rest) = Len(todo) - 1
      /\ \A k \in 1 .. Len(rest) : rest[k] = todo[k + 1]
  BY <1>1, <1>2, HeadTailProperties
<1>4. Len(todo) \in Nat /\ Len(tasks) \in Nat /\ Len(rest) \in Nat
  BY <1>3, LenProperties
<1>5. todo' = tasks \o rest
  BY <1>2 DEF Then
<1>6. /\ todo' \in Seq(Task) /\ Len(todo') = Len(tasks) + Len(rest)
      /\ \A k \in 1 .. Len(tasks) + Len(rest) :
           todo'[k] = IF k <= Len(tasks) THEN tasks[k] ELSE rest[k - Len(tasks)]
  BY <1>3, <1>5, ConcatProperties
<1>7. ASSUME NEW k \in 1 .. Len(tasks)
      PROVE  \E m \in 1 .. Len(todo') : todo'[m] = tasks[k]
  <2>1. k \in 1 .. Len(todo') /\ todo'[k] = tasks[k]
    BY <1>4, <1>6, SMT
  <2> QED
    BY <2>1
<1>8. ASSUME NEW k \in 1 .. Len(todo), k # 1
      PROVE  \E m \in 1 .. Len(todo') : todo'[m] = todo[k]
  <2>1. PICK m : m = Len(tasks) + (k - 1)
    OBVIOUS
  <2>2. m \in 1 .. Len(todo') /\ m - Len(tasks) = k - 1 /\ ~(m <= Len(tasks))
    BY <1>3, <1>4, <1>6, <1>8, <2>1, SMT
  <2>3. k - 1 \in 1 .. Len(rest) /\ (k - 1) + 1 = k
    BY <1>3, <1>4, <1>8, SMT
  <2>4. todo'[m] = rest[k - 1]
    BY <1>6, <2>2, Zenon
  <2>5. rest[k - 1] = todo[k]
    BY <1>3, <2>3, Zenon
  <2> QED
    BY <2>2, <2>4, <2>5
<1>9. ASSUME Len(tasks) # 0
      PROVE  todo' # <<>> /\ todo'[1] = tasks[1]
  <2>1. Len(todo') # 0 /\ todo'[1] = tasks[1]
    BY <1>4, <1>6, <1>9, SMT
  <2> QED
    BY <2>1, EmptySeq
<1> QED
  BY <1>1, <1>6, <1>7, <1>8, <1>9

(* While another task than the greeting is done, every slot in use has its *)
(* client's socket.                                                        *)
LEMMA NoneUngreeted ==
  ASSUME FreedNext, Entries, NEW op, NEW i, Doing(op, i), op # "greet"
  PROVE  \A j \in Slot : socket[j] = fd[j]
<1>1. todo[1] = <<op, i>>
  BY DEF Doing
<1>2. \A j \in Slot : ~(fd[j] # NoConn /\ socket[j] = NoConn)
  <2>1. \A j : todo[1] # <<"greet", j>>
    BY <1>1
  <2> QED
    BY <2>1, Zenon DEF FreedNext
<1> QED
  BY <1>2, Zenon DEF Entries

-----------------------------------------------------------------------------
(***************************************************************************)
(* What is done to a client.                                               *)
(***************************************************************************)
(* What disconnect_client() and a write may do to the other slots, to the  *)
(* slots in use and to the connections: no slot gets a client by it, and   *)
(* none of the commands grows.                                             *)
Lessens ==
  /\ \A j \in Slot : fd'[j] # NoConn => fd'[j] = fd[j] /\ socket'[j] = socket[j]
  /\ \A j \in Slot : cmd'[j] \in {cmd[j], <<>>}

ClosesOnly(i) ==
  \A c \in Conn : peer[c] # "closed" /\ peer'[c] = "closed" => socket[i] = c

LEMMA Disconnecting ==
  ASSUME TableInv, NEW i \in Slot, Disconnect(i)
  PROVE  TableInv' /\ Lessens /\ ClosesOnly(i) /\ fd'[i] = NoConn
<1>1. /\ ids' = ids \ {i} /\ backlog' = backlog
      /\ full' = full \ {socket[i]} /\ fresh' = fresh \ {socket[i]}
      /\ \A c \in Conn : peer'[c] = IF c = socket[i] THEN "closed" ELSE peer[c]
      /\ \A j \in Slot :
           /\ socket'[j] = IF j = i THEN NoConn ELSE socket[j]
           /\ cmd'[j] = IF j = i THEN <<>> ELSE cmd[j]
           /\ fd'[j] = IF j = i THEN NoConn ELSE fd[j]
           /\ revents'[j] = IF j = i THEN {} ELSE revents[j]
  BY DEF TableInv, Typed0, Disconnect
<1>2. Typed0'
  <2>1. /\ peer' \in [Conn -> {"away", "open", "left", "reset", "closed"}]
        /\ backlog' \subseteq Conn /\ full' \subseteq Slow /\ fresh' \subseteq Conn
        /\ ids' \subseteq Slot
    BY DEF TableInv, Typed0, Disconnect
  <2>2. fd' \in [Slot -> Conn \cup {NoConn}] /\ socket' \in [Slot -> Conn \cup {NoConn}]
    BY DEF TableInv, Typed0, Disconnect
  <2>3. revents' \in [Slot -> SUBSET {"in", "out", "err"}]
    BY Zenon DEF TableInv, Typed0, Disconnect
  <2>4. cmd' \in [Slot -> Seq(Key)]
    <3>1. <<>> \in Seq(Key)
      BY EmptySeq
    <3> QED
      BY <3>1, Zenon DEF TableInv, Typed0, Disconnect
  <2> QED
    BY <2>1, <2>2, <2>3, <2>4, Zenon DEF Typed0
<1>3. Entries'
  BY <1>1, Zenon DEF TableInv, Entries
<1>4. /\ socket[i] \notin backlog
      /\ \A j \in Slot : j # i /\ fd[j] = socket[i] => fd[j] = NoConn
  <2>1. NoConn \notin backlog
    BY SlotFacts DEF TableInv, Typed0
  <2> QED
    BY <2>1, Zenon DEF TableInv, Entries, Sockets
<1>5. Sockets'
  <2>1. /\ \A c \in backlog : c \in Conn
        /\ \A j \in Slot : fd[j] # NoConn => fd[j] \in Conn
        /\ \A j \in Slot : socket[j] # NoConn => socket[j] \in Conn
    BY DEF TableInv, Typed0
  <2>2. \A c \in backlog' : peer'[c] \in {"open", "left", "reset"}
    BY <1>1, <1>4, <2>1, Zenon DEF TableInv, Sockets
  <2>3. ASSUME NEW j \in Slot
        PROVE  /\ socket'[j] # NoConn => peer'[socket'[j]] \in {"open", "left", "reset"}
               /\ fd'[j] \notin backlog'
               /\ fd'[j] # NoConn => peer'[fd'[j]] # "away"
    <3>1. CASE j = i
      <4>1. NoConn \notin backlog
        BY SlotFacts DEF TableInv, Typed0
      <4> QED
        BY <1>1, <3>1, <4>1, Zenon
    <3>2. CASE j # i
      <4>1. socket'[j] = socket[j] /\ fd'[j] = fd[j]
        BY <1>1, <3>2
      <4>2. fd[j] # NoConn => peer'[fd[j]] = peer[fd[j]]
        BY <1>1, <1>4, <2>1, <3>2, Zenon
      <4>3. socket[j] # NoConn => socket[j] = fd[j]
        BY DEF TableInv, Entries
      <4> QED
        BY <1>1, <4>1, <4>2, <4>3, Zenon DEF TableInv, Sockets
    <3> QED
      BY <3>1, <3>2
  <2>4. \A j, k \in Slot : fd'[j] = fd'[k] /\ fd'[j] # NoConn => j = k
    BY <1>1, Zenon DEF TableInv, Sockets
  <2> QED
    BY <2>2, <2>3, <2>4, Zenon DEF Sockets
<1>6. Reported'
  <2>1. ASSUME NEW j \in Slot, "err" \in revents'[j]
        PROVE  fd'[j] # NoConn /\ peer'[fd'[j]] = "reset"
    <3>1. j # i /\ revents'[j] = revents[j] /\ fd'[j] = fd[j]
      BY <1>1, <2>1
    <3>2. fd[j] # NoConn /\ peer[fd[j]] = "reset"
      BY <2>1, <3>1, Zenon DEF TableInv, Reported
    <3>3. fd[j] \in Conn /\ fd[j] # socket[i]
      BY <1>4, <3>1, <3>2 DEF TableInv, Typed0
    <3> QED
      BY <1>1, <3>1, <3>2, <3>3, Zenon
  <2> QED
    BY <2>1, Zenon DEF Reported
<1>7. Lessens
  BY <1>1, Zenon DEF Lessens
<1>8. ClosesOnly(i)
  BY <1>1, Zenon DEF ClosesOnly
<1> QED
  BY <1>1, <1>2, <1>3, <1>5, <1>6, <1>7, <1>8, Zenon DEF TableInv

(* A write works and changes the table in nothing but what poll() said, or *)
(* drops the client whose connection has broken.                           *)
LEMMA Writing ==
  ASSUME TableInv, NEW i \in Slot, NEW b \in BOOLEAN, WriteTo(i, b),
         \/ CanWrite(i) => revents' = revents
         \/ revents' = [revents EXCEPT ![i] = {}]
  PROVE  /\ TableInv' /\ Lessens
         /\ \A c \in Conn : peer[c] = "open" => peer'[c] # "closed"
         /\ fd'[i] # NoConn => socket[i] # NoConn
<1>1. CASE Disconnect(i) /\ (socket[i] # NoConn => peer[socket[i]] = "reset")
  <2>1. TableInv' /\ Lessens /\ ClosesOnly(i) /\ fd'[i] = NoConn
    BY <1>1, Disconnecting
  <2>2. ASSUME NEW c \in Conn, peer[c] = "open", peer'[c] = "closed"
        PROVE  FALSE
    <3>1. socket[i] = c
      BY <2>1, <2>2 DEF ClosesOnly
    <3> QED
      BY <1>1, <2>2, <3>1, SlotFacts
  <2> QED
    BY <2>1, <2>2
<1>2. CASE /\ CanWrite(i)
           /\ fresh' = IF b THEN fresh \cup {socket[i]} ELSE fresh \ {socket[i]}
           /\ full' \in {full, full \cup ({socket[i]} \cap Slow)}
           /\ UNCHANGED <<peer, backlog, fd, ids, socket, cmd>>
  <2>1. socket[i] # NoConn /\ socket[i] \in Conn
    BY <1>2 DEF CanWrite, TableInv, Typed0
  <2>2. revents' = revents \/ revents' = [revents EXCEPT ![i] = {}]
    BY <1>2
  <2>3. \A j \in Slot : revents'[j] \in SUBSET revents[j]
    BY <2>2, Zenon DEF TableInv, Typed0
  <2>4. Typed0'
    <3>1. fresh' \subseteq Conn /\ full' \subseteq Slow
      <4>1. fresh \subseteq Conn /\ full \subseteq Slow
        BY DEF TableInv, Typed0
      <4> QED
        BY <1>2, <2>1, <4>1, Zenon
    <3>2. revents' \in [Slot -> SUBSET {"in", "out", "err"}]
      BY <2>2, Zenon DEF TableInv, Typed0
    <3> QED
      BY <1>2, <3>1, <3>2, Zenon DEF TableInv, Typed0
  <2>5. Entries' /\ Sockets'
    BY <1>2, Zenon DEF TableInv, Entries, Sockets
  <2>6. Reported'
    BY <1>2, <2>3, Zenon DEF TableInv, Reported
  <2>7. Lessens
    BY <1>2, Zenon DEF Lessens
  <2> QED
    BY <1>2, <2>1, <2>4, <2>5, <2>6, <2>7, Zenon DEF TableInv
<1> QED
  BY <1>1, <1>2, Zenon DEF WriteTo

-----------------------------------------------------------------------------
(***************************************************************************)
(* The steps.                                                              *)
(***************************************************************************)
LEMMA NothingTyped == <<>> \in Seq(Key) /\ Beginning(<<>>) /\ <<>> # Arrow
<1>1. <<>> \in Seq(Key) /\ Len(<<>>) = 0
  BY EmptySeq
<1> QED
  BY <1>1, ArrowIs, SMT DEF Beginning

LEMMA InputAfter ==
  ASSUME UiInv, NEW op, NEW i, Doing(op, i), NEW tasks \in Seq(Task), Then(tasks),
         \A j \in Slot :
           \/ cmd'[j] = <<>>
           \/ cmd'[j] = cmd[j] /\ <<op, i>> # <<"reset", j>>
           \/ /\ Beginning(cmd'[j])
              /\ cmd'[j] = Arrow => \E k \in 1 .. Len(tasks) : tasks[k] = <<"reset", j>>
  PROVE  Input'
<1>1. /\ \A k \in 1 .. Len(tasks) : \E m \in 1 .. Len(todo') : todo'[m] = tasks[k]
      /\ \A k \in 1 .. Len(todo) :
           todo[k] = <<op, i>> \/ \E m \in 1 .. Len(todo') : todo'[m] = todo[k]
  BY NextTasks DEF UiInv, Flags
<1>2. ASSUME NEW j \in Slot
      PROVE  /\ Beginning(cmd'[j])
             /\ cmd'[j] = Arrow => \E m \in 1 .. Len(todo') : todo'[m] = <<"reset", j>>
  <2>1. CASE cmd'[j] = <<>>
    BY <2>1, NothingTyped, Zenon
  <2>2. CASE cmd'[j] = cmd[j] /\ <<op, i>> # <<"reset", j>>
    <3>1. /\ Beginning(cmd[j])
          /\ cmd[j] = Arrow => \E k \in 1 .. Len(todo) : todo[k] = <<"reset", j>>
      BY Zenon DEF UiInv, Input
    <3> QED
      BY <1>1, <2>2, <3>1, Zenon
  <2>3. CASE /\ Beginning(cmd'[j])
             /\ cmd'[j] = Arrow => \E k \in 1 .. Len(tasks) : tasks[k] = <<"reset", j>>
    BY <1>1, <2>3, Zenon
  <2> QED
    BY <2>1, <2>2, <2>3
<1> QED
  BY <1>2, Zenon DEF Input

(* A task that gives no slot to anybody.                                   *)
LEMMA TaskDone ==
  ASSUME UiInv, NEW op, NEW i, Doing(op, i), NEW tasks \in Seq(Task), Then(tasks),
         TableInv', Input',
         \A j \in Slot : fd'[j] # NoConn => fd'[j] = fd[j] /\ socket'[j] = socket[j],
         op = "greet" /\ fd'[i] # NoConn => socket[i] # NoConn,
         event' \in BOOLEAN, drawn' \in BOOLEAN, alive' \in BOOLEAN
  PROVE  UiInv'
<1>1. Flags'
  BY NextTasks DEF UiInv, Flags
<1>2. FreedNext'
  <2>1. SUFFICES ASSUME NEW j \in Slot, fd'[j] # NoConn
                 PROVE  socket'[j] # NoConn
    BY Zenon DEF FreedNext
  <2>2. fd[j] # NoConn /\ socket'[j] = socket[j]
    BY <2>1
  <2>3. CASE op # "greet"
    BY <2>2, <2>3, NoneUngreeted DEF UiInv, TableInv
  <2>4. CASE op = "greet" /\ j = i
    BY <2>1, <2>2, <2>4
  <2>5. CASE op = "greet" /\ j # i
    <3>1. todo[1] # <<"greet", j>>
      BY <2>5 DEF Doing
    <3> QED
      BY <2>2, <3>1, Zenon DEF UiInv, FreedNext
  <2> QED
    BY <2>3, <2>4, <2>5
<1> QED
  BY <1>1, <1>2 DEF UiInv

(* The same for a task that takes clients away, at most.                   *)
LEMMA TaskLessens ==
  ASSUME UiInv, NEW op, NEW i \in Slot, Doing(op, i), op # "reset",
         NEW tasks \in Seq(Task), Then(tasks), TableInv', Lessens,
         op = "greet" /\ fd'[i] # NoConn => socket[i] # NoConn,
         event' \in BOOLEAN, drawn' \in BOOLEAN, alive' \in BOOLEAN
  PROVE  UiInv'
<1>1. \A j \in Slot : cmd'[j] = <<>> \/ (cmd'[j] = cmd[j] /\ <<op, i>> # <<"reset", j>>)
  BY DEF Lessens
<1>2. Input'
  BY <1>1, InputAfter
<1> QED
  BY <1>2, TaskDone DEF Lessens

(* Nothing but what is about the clients changes.                          *)
LEMMA TableKept ==
  ASSUME TableInv, UNCHANGED <<network, fresh, table>>
  PROVE  TableInv' /\ Lessens
BY Zenon DEF TableInv, Typed0, Entries, Sockets, Reported, Lessens, network, table

LEMMA TaskSkipped ==
  ASSUME UiInv, NEW op, NEW i, Doing(op, i), op \notin {"reset", "greet"},
         NEW tasks \in Seq(Task), Then(tasks), UNCHANGED <<network, fresh, table>>,
         event' \in BOOLEAN, drawn' \in BOOLEAN, alive' \in BOOLEAN
  PROVE  UiInv'
<1>1. TableInv' /\ Lessens
  BY TableKept DEF UiInv
<1>2. \A j \in Slot : cmd'[j] = <<>> \/ (cmd'[j] = cmd[j] /\ <<op, i>> # <<"reset", j>>)
  BY <1>1 DEF Lessens
<1>3. Input'
  BY <1>2, InputAfter
<1> QED
  BY <1>1, <1>3, TaskDone DEF Lessens

(***************************************************************************)
(* Nobody whose connection works is dropped, but for a table that is full  *)
(* or a leftover entry.                                                    *)
(***************************************************************************)
KeptOpen ==
  \A c \in Conn :
    peer[c] = "open" /\ peer'[c] = "closed" =>
      \/ \A i \in Slot : fd[i] # NoConn
      \/ \E i \in ids : fd[i] = NoConn

StepOk == UiInv' /\ KeptOpen

LEMMA ConnectStep ==
  ASSUME UiInv, NEW c \in Conn, Connect(c)
  PROVE  StepOk
<1>1. /\ peer[c] = "away" /\ backlog' = backlog \cup {c}
      /\ peer' = [peer EXCEPT ![c] = "open"]
      /\ \A b \in Conn : peer'[b] = IF b = c THEN "open" ELSE peer[b]
      /\ UNCHANGED <<full, fresh, fd, revents, ids, socket, cmd, event, drawn, todo, alive>>
  BY DEF Connect, table, UiInv, TableInv, Typed0
<1>2. /\ \A j \in Slot : fd[j] # NoConn => fd[j] \in Conn
      /\ \A j \in Slot : socket[j] # NoConn => socket[j] \in Conn
      /\ \A b \in backlog : b \in Conn
      /\ c # NoConn
  BY SlotFacts DEF UiInv, TableInv, Typed0
<1>3. Typed0'
  BY <1>1, Zenon DEF UiInv, TableInv, Typed0
<1>4. Entries' /\ FreedNext' /\ Input' /\ Flags'
  BY <1>1, Zenon DEF UiInv, TableInv, Entries, FreedNext, Input, Flags
<1>5. \A j \in Slot : fd[j] # c /\ socket[j] # c
  <2>1. \A j \in Slot : fd[j] # c
    BY <1>1, <1>2, Zenon DEF UiInv, TableInv, Sockets
  <2> QED
    BY <1>2, <2>1, Zenon DEF UiInv, TableInv, Entries
<1>6. Sockets'
  <2>1. \A b \in backlog' : peer'[b] \in {"open", "left", "reset"}
    BY <1>1, <1>2, Zenon DEF UiInv, TableInv, Sockets
  <2>2. ASSUME NEW j \in Slot
        PROVE  /\ socket[j] # NoConn => peer'[socket[j]] \in {"open", "left", "reset"}
               /\ fd[j] \notin backlog'
               /\ fd[j] # NoConn => peer'[fd[j]] # "away"
    BY <1>1, <1>2, <1>5, Zenon DEF UiInv, TableInv, Sockets
  <2>3. \A j, k \in Slot : fd[j] = fd[k] /\ fd[j] # NoConn => j = k
    BY Zenon DEF UiInv, TableInv, Sockets
  <2> QED
    BY <1>1, <2>1, <2>2, <2>3, Zenon DEF Sockets
<1>7. Reported'
  BY <1>1, <1>2, <1>5, Zenon DEF UiInv, TableInv, Reported
<1>8. KeptOpen
  BY <1>1 DEF KeptOpen
<1> QED
  BY <1>3, <1>4, <1>6, <1>7, <1>8 DEF StepOk, UiInv, TableInv

LEMMA LeaveStep ==
  ASSUME UiInv, NEW c \in Conn, Leave(c)
  PROVE  StepOk
<1>1. /\ peer[c] \in {"open", "left"}
      /\ UNCHANGED <<backlog, fresh, fd, revents, ids, socket, cmd, event, drawn, todo, alive>>
      /\ full' \subseteq full
  BY DEF Leave, table
<1>2. PICK e \in {"left", "reset"} : peer' = [peer EXCEPT ![c] = e]
  BY DEF Leave
<1>3. \A b \in Conn : peer'[b] = IF b = c THEN e ELSE peer[b]
  BY <1>2 DEF UiInv, TableInv, Typed0
<1>4. /\ \A j \in Slot : fd[j] # NoConn => fd[j] \in Conn
      /\ \A j \in Slot : socket[j] # NoConn => socket[j] \in Conn
      /\ \A b \in backlog : b \in Conn
  BY DEF UiInv, TableInv, Typed0
<1>5. Typed0'
  BY <1>1, <1>2, Zenon DEF UiInv, TableInv, Typed0
<1>6. Entries' /\ FreedNext' /\ Input' /\ Flags'
  BY <1>1, Zenon DEF UiInv, TableInv, Entries, FreedNext, Input, Flags
<1>7. Sockets'
  <2>1. \A b \in backlog : peer'[b] \in {"open", "left", "reset"}
    BY <1>3, <1>4, Zenon DEF UiInv, TableInv, Sockets
  <2>2. ASSUME NEW j \in Slot
        PROVE  /\ socket[j] # NoConn => peer'[socket[j]] \in {"open", "left", "reset"}
               /\ fd[j] \notin backlog
               /\ fd[j] # NoConn => peer'[fd[j]] # "away"
    <3>1. e # "away"
      OBVIOUS
    <3> QED
      BY <1>3, <1>4, <3>1, Zenon DEF UiInv, TableInv, Sockets
  <2>3. \A j, k \in Slot : fd[j] = fd[k] /\ fd[j] # NoConn => j = k
    BY Zenon DEF UiInv, TableInv, Sockets
  <2> QED
    BY <1>1, <2>1, <2>2, <2>3, Zenon DEF Sockets
<1>8. Reported'
  <2>1. \A b \in Conn : peer[b] = "reset" => peer'[b] = "reset"
    BY <1>1, <1>3
  <2> QED
    BY <1>1, <1>4, <2>1, Zenon DEF UiInv, TableInv, Reported
<1>9. KeptOpen
  BY <1>3 DEF KeptOpen
<1> QED
  BY <1>5, <1>6, <1>7, <1>8, <1>9 DEF StepOk, UiInv, TableInv

(* What leaves the connections and the table as they are.                  *)
LEMMA OthersStep ==
  ASSUME UiInv, UNCHANGED <<peer, backlog, table, todo>>,
         full' \subseteq full, fresh' \subseteq fresh,
         event' \in BOOLEAN, drawn' \in BOOLEAN, alive' \in BOOLEAN
  PROVE  StepOk
<1>1. TableInv'
  BY Zenon DEF UiInv, TableInv, Typed0, Entries, Sockets, Reported, table
<1>2. Flags' /\ FreedNext' /\ Input'
  BY Zenon DEF UiInv, Flags, FreedNext, Input, table
<1>3. KeptOpen
  BY DEF KeptOpen
<1> QED
  BY <1>1, <1>2, <1>3 DEF StepOk, UiInv

LEMMA PollStep ==
  ASSUME UiInv, NEW typing \in SUBSET Slot, Poll(typing)
  PROVE  StepOk
<1>1. /\ todo = <<>>
      /\ revents' = [i \in Slot |-> Ready(i, typing)]
      /\ UNCHANGED <<peer, backlog, full, fresh, fd, ids, socket, cmd, event, alive>>
      /\ drawn' = FALSE
  BY DEF Poll, network
<1>2. \A i \in Slot : revents'[i] \in SUBSET {"in", "out", "err"}
  BY <1>1 DEF Ready
<1>3. TableInv'
  <2>1. Typed0' /\ Entries' /\ Sockets'
    <3>1. revents' \in [Slot -> SUBSET {"in", "out", "err"}]
      BY <1>1, <1>2
    <3> QED
      BY <1>1, <3>1, Zenon DEF UiInv, TableInv, Typed0, Entries, Sockets
  <2>2. Reported'
    <3>1. \A i \in Slot : "err" \in revents'[i] => fd[i] # NoConn /\ peer[fd[i]] = "reset"
      BY <1>1 DEF Ready
    <3> QED
      BY <1>1, <3>1, Zenon DEF Reported
  <2> QED
    BY <2>1, <2>2 DEF TableInv
<1>4. todo' \in Seq(Task)
  <2>1. PICK a : a = IF event THEN << <<"event", 0>> >> ELSE <<>>
    OBVIOUS
  <2>2. PICK b : b = IF backlog # {} THEN << <<"accept", 0>> >> ELSE <<>>
    OBVIOUS
  <2>3. PICK f : f = [k \in 1 .. 2 * MaxClients |->
                        <<IF k % 2 = 1 THEN "serve" ELSE "refresh",
                          MinClientId + (k - 1) \div 2>>]
    OBVIOUS
  <2>4. a \in Seq(Task) /\ b \in Seq(Task)
    BY <2>1, <2>2 DEF Task
  <2>5. f \in Seq(Task)
    <3>1. 2 * MaxClients \in Int /\ \A k \in 1 .. 2 * MaxClients : MinClientId + (k - 1) \div 2 \in Slot
      BY ClientsAssumption, SMT DEF Slot
    <3>2. \A k \in 1 .. 2 * MaxClients :
            <<IF k % 2 = 1 THEN "serve" ELSE "refresh", MinClientId + (k - 1) \div 2>> \in Task
      BY <3>1, Zenon DEF Task
    <3>3. f \in [1 .. 2 * MaxClients -> Task]
      BY <2>3, <3>2, Zenon
    <3> QED
      BY <3>1, <3>3, TasksInOrder
  <2>6. todo' = a \o b \o f
    BY <2>1, <2>2, <2>3, Zenon DEF Poll
  <2>7. a \o b \in Seq(Task)
    BY <2>4, ConcatProperties
  <2> QED
    BY <2>5, <2>6, <2>7, ConcatProperties
<1>5. FreedNext'
  BY <1>1, Zenon DEF UiInv, FreedNext
<1>6. Input'
  <2>1. ~\E k : k \in 1 .. Len(todo)
    BY <1>1
  <2> QED
    BY <1>1, <2>1, Zenon DEF UiInv, Input
<1>7. KeptOpen
  BY <1>1 DEF KeptOpen
<1> QED
  BY <1>1, <1>3, <1>4, <1>5, <1>6, <1>7 DEF StepOk, UiInv, Flags

LEMMA AcceptStep ==
  ASSUME UiInv, NEW c \in Conn, Accept(c)
  PROVE  StepOk
<1>1. /\ Doing("accept", 0) /\ c \in backlog /\ backlog' = backlog \ {c}
      /\ UNCHANGED <<full, fresh, event, drawn, alive>>
  BY DEF Accept, Pending
<1>2. \A j \in Slot : socket[j] = fd[j]
  BY <1>1, NoneUngreeted DEF UiInv, TableInv
<1>3. c # NoConn /\ \A j \in Slot : fd[j] # c
  BY <1>1, SlotFacts, Zenon DEF UiInv, TableInv, Sockets
<1>4. /\ \A j \in Slot : fd[j] # NoConn => fd[j] \in Conn
      /\ \A b \in backlog : b \in Conn
  BY DEF UiInv, TableInv, Typed0
<1>5. CASE \E i \in Slot :
             /\ FreeSlot(i)
             /\ fd' = [fd EXCEPT ![i] = c]
             /\ revents' = [revents EXCEPT ![i] = {}]
             /\ ids' = ids \cup {i}
             /\ socket' = IF i \in ids THEN socket ELSE [socket EXCEPT ![i] = c]
             /\ peer' = IF i \in ids THEN [peer EXCEPT ![c] = "closed"] ELSE peer
             /\ Then(<< <<"greet", i>> >>)
             /\ UNCHANGED cmd
  <2>1. PICK i \in Slot :
          /\ fd[i] = NoConn
          /\ fd' = [fd EXCEPT ![i] = c]
          /\ revents' = [revents EXCEPT ![i] = {}]
          /\ ids' = ids \cup {i}
          /\ socket' = IF i \in ids THEN socket ELSE [socket EXCEPT ![i] = c]
          /\ peer' = IF i \in ids THEN [peer EXCEPT ![c] = "closed"] ELSE peer
          /\ Then(<< <<"greet", i>> >>)
          /\ cmd' = cmd
    BY <1>5 DEF FreeSlot
  <2>2. /\ \A j \in Slot :
             /\ fd'[j] = IF j = i THEN c ELSE fd[j]
             /\ revents'[j] = IF j = i THEN {} ELSE revents[j]
             /\ socket'[j] = IF j = i /\ i \notin ids THEN c ELSE fd[j]
        /\ \A b \in Conn : peer'[b] = IF b = c /\ i \in ids THEN "closed" ELSE peer[b]
    BY <1>2, <2>1 DEF UiInv, TableInv, Typed0
  <2>3. Typed0'
    <3>1. /\ fd' \in [Slot -> Conn \cup {NoConn}]
          /\ revents' \in [Slot -> SUBSET {"in", "out", "err"}]
      BY <2>1, Zenon DEF UiInv, TableInv, Typed0
    <3>2. socket' \in [Slot -> Conn \cup {NoConn}]
      BY <2>1, Zenon DEF UiInv, TableInv, Typed0
    <3>3. peer' \in [Conn -> {"away", "open", "left", "reset", "closed"}]
      BY <2>1, Zenon DEF UiInv, TableInv, Typed0
    <3>4. backlog' \subseteq Conn /\ ids' \subseteq Slot
      BY <1>1, <2>1 DEF UiInv, TableInv, Typed0
    <3> QED
      BY <1>1, <2>1, <3>1, <3>2, <3>3, <3>4, Zenon DEF UiInv, TableInv, Typed0
  <2>4. Entries'
    <3>1. \A j \in Slot : j \notin ids => fd[j] = NoConn
      BY Zenon DEF UiInv, TableInv, Entries
    <3>2. ASSUME NEW j \in Slot
          PROVE  /\ fd'[j] # NoConn => j \in ids'
                 /\ j \notin ids' => socket'[j] = NoConn
                 /\ socket'[j] # NoConn => fd'[j] = socket'[j]
      <4>1. CASE j = i
        BY <2>1, <2>2, <4>1
      <4>2. CASE j # i
        BY <2>1, <2>2, <3>1, <4>2
      <4> QED
        BY <4>1, <4>2
    <3> QED
      BY <3>2, Zenon DEF Entries
  <2>5. Sockets'
    <3>1. \A b \in backlog' : peer'[b] \in {"open", "left", "reset"}
      <4>1. \A b \in backlog' : b \in backlog /\ b \in Conn /\ b # c
        BY <1>1, <1>4
      <4> QED
        BY <2>2, <4>1, Zenon DEF UiInv, TableInv, Sockets
    <3>2. ASSUME NEW j \in Slot
          PROVE  /\ socket'[j] # NoConn => peer'[socket'[j]] \in {"open", "left", "reset"}
                 /\ fd'[j] \notin backlog'
                 /\ fd'[j] # NoConn => peer'[fd'[j]] # "away"
      <4>1. CASE j = i
        <5>1. fd'[j] = c /\ c \notin backlog'
          BY <1>1, <2>2, <4>1
        <5>2. peer[c] \in {"open", "left", "reset"}
          BY <1>1, Zenon DEF UiInv, TableInv, Sockets
        <5>3. peer'[c] # "away"
          BY <2>2, <5>2
        <5>4. socket'[j] # NoConn => socket'[j] = c /\ peer'[c] = peer[c]
          BY <2>1, <2>2, <4>1, Zenon
        <5> QED
          BY <5>1, <5>2, <5>3, <5>4
      <4>2. CASE j # i
        <5>1. fd'[j] = fd[j] /\ socket'[j] = fd[j] /\ socket[j] = fd[j]
          BY <1>2, <2>2, <4>2
        <5>2. fd[j] # NoConn => peer'[fd[j]] = peer[fd[j]]
          BY <1>3, <1>4, <2>2, Zenon
        <5>3. fd[j] \notin backlog'
          BY <1>1, Zenon DEF UiInv, TableInv, Sockets
        <5> QED
          BY <5>1, <5>2, <5>3, Zenon DEF UiInv, TableInv, Sockets
      <4> QED
        BY <4>1, <4>2
    <3>3. \A j, k \in Slot : fd'[j] = fd'[k] /\ fd'[j] # NoConn => j = k
      <4>1. \A j, k \in Slot : fd[j] = fd[k] /\ fd[j] # NoConn => j = k
        BY Zenon DEF UiInv, TableInv, Sockets
      <4> QED
        BY <1>3, <2>2, <4>1, Zenon
    <3> QED
      BY <3>1, <3>2, <3>3, Zenon DEF Sockets
  <2>6. Reported'
    <3>1. ASSUME NEW j \in Slot, "err" \in revents'[j]
          PROVE  fd'[j] # NoConn /\ peer'[fd'[j]] = "reset"
      <4>1. j # i /\ fd'[j] = fd[j] /\ "err" \in revents[j]
        BY <2>2, <3>1
      <4>2. fd[j] # NoConn /\ peer[fd[j]] = "reset"
        BY <4>1, Zenon DEF UiInv, TableInv, Reported
      <4> QED
        BY <1>3, <1>4, <2>2, <4>1, <4>2
    <3> QED
      BY <3>1, Zenon DEF Reported
  <2>7. /\ << <<"greet", i>> >> \in Seq(Task)
        /\ Len(<< <<"greet", i>> >>) # 0 /\ << <<"greet", i>> >>[1] = <<"greet", i>>
    BY DEF Task
  <2>8. todo' # <<>> /\ todo'[1] = <<"greet", i>> /\ todo' \in Seq(Task)
    <3>1. PICK tasks : tasks = << <<"greet", i>> >>
      OBVIOUS
    <3>2. /\ tasks \in Seq(Task) /\ Len(tasks) # 0 /\ tasks[1] = <<"greet", i>>
          /\ Then(tasks) /\ todo \in Seq(Task)
      BY <2>1, <2>7, <3>1 DEF UiInv, Flags
    <3> QED
      BY <1>1, <3>2, NextTasks
  <2>9. FreedNext'
    <3>1. \A j \in Slot : j # i => fd'[j] = socket'[j]
      BY <2>2
    <3> QED
      BY <2>8, <3>1, Zenon DEF FreedNext
  <2>10. Input'
    <3>1. \A j \in Slot : cmd'[j] = cmd[j] /\ <<"accept", 0>> # <<"reset", j>>
      BY <2>1
    <3> QED
      BY <1>1, <2>1, <2>7, <3>1, InputAfter
  <2>11. KeptOpen
    <3>1. \A b \in Conn : peer[b] = "open" /\ peer'[b] = "closed" => i \in ids /\ fd[i] = NoConn
      BY <2>1, <2>2
    <3> QED
      BY <3>1, Zenon DEF KeptOpen
  <2> QED
    BY <1>1, <2>3, <2>4, <2>5, <2>6, <2>8, <2>9, <2>10, <2>11
    DEF StepOk, UiInv, TableInv, Flags
<1>6. CASE /\ ~\E i \in Slot : FreeSlot(i)
           /\ peer' = [peer EXCEPT ![c] = "closed"]
           /\ Then(<<>>)
           /\ UNCHANGED table
  <2>1. /\ \A b \in Conn : peer'[b] = IF b = c THEN "closed" ELSE peer[b]
        /\ UNCHANGED <<fd, revents, ids, socket, cmd>>
    BY <1>6 DEF UiInv, TableInv, Typed0, table
  <2>2. TableInv'
    <3>1. Typed0'
      <4>1. backlog' \subseteq Conn
        BY <1>1 DEF UiInv, TableInv, Typed0
      <4>2. peer' \in [Conn -> {"away", "open", "left", "reset", "closed"}]
        BY <1>6, Zenon DEF UiInv, TableInv, Typed0
      <4> QED
        BY <1>1, <2>1, <4>1, <4>2, Zenon DEF UiInv, TableInv, Typed0
    <3>2. Entries'
      BY <2>1, Zenon DEF UiInv, TableInv, Entries
    <3>3. \A j \in Slot : fd[j] # NoConn => peer'[fd[j]] = peer[fd[j]]
      BY <1>3, <1>4, <2>1, Zenon
    <3>4. Sockets'
      <4>1. \A b \in backlog' : b \in backlog /\ peer'[b] = peer[b]
        BY <1>1, <1>4, <2>1
      <4>2. \A b \in backlog' : peer'[b] \in {"open", "left", "reset"}
        BY <4>1, Zenon DEF UiInv, TableInv, Sockets
      <4>3. ASSUME NEW j \in Slot
            PROVE  /\ socket[j] # NoConn => peer'[socket[j]] \in {"open", "left", "reset"}
                   /\ fd[j] \notin backlog'
                   /\ fd[j] # NoConn => peer'[fd[j]] # "away"
        BY <1>2, <3>3, <4>1, Zenon DEF UiInv, TableInv, Sockets
      <4>4. \A j, k \in Slot : fd[j] = fd[k] /\ fd[j] # NoConn => j = k
        BY Zenon DEF UiInv, TableInv, Sockets
      <4> QED
        BY <2>1, <4>2, <4>3, <4>4, Zenon DEF Sockets
    <3>5. Reported'
      BY <2>1, <3>3, Zenon DEF UiInv, TableInv, Reported
    <3> QED
      BY <3>1, <3>2, <3>4, <3>5 DEF TableInv
  <2>3. <<>> \in Seq(Task)
    BY EmptySeq
  <2>4. Input'
    <3>1. \A j \in Slot : cmd'[j] = cmd[j] /\ <<"accept", 0>> # <<"reset", j>>
      BY <2>1
    <3> QED
      BY <1>1, <1>6, <2>3, <3>1, InputAfter
  <2>5. event' \in BOOLEAN /\ drawn' \in BOOLEAN /\ alive' \in BOOLEAN
    BY <1>1 DEF UiInv, Flags
  <2>6. UiInv'
    <3>1. /\ \A j \in Slot : fd'[j] = fd[j] /\ socket'[j] = socket[j]
          /\ "accept" # "greet"
      BY <2>1
    <3>2. Doing("accept", 0) /\ Then(<<>>)
      BY <1>1, <1>6
    <3> QED
      BY <2>2, <2>3, <2>4, <2>5, <3>1, <3>2, TaskDone
  <2>7. KeptOpen
    BY <1>6, FreeSlotFound DEF KeptOpen
  <2> QED
    BY <2>6, <2>7 DEF StepOk
<1> QED
  BY <1>5, <1>6, Zenon DEF Accept

LEMMA EventStep ==
  ASSUME UiInv, Event
  PROVE  StepOk
<1>1. /\ Doing("event", 0) /\ Then(Broadcast) /\ UNCHANGED <<network, fresh, table>>
      /\ event' \in BOOLEAN /\ drawn' \in BOOLEAN /\ alive' \in BOOLEAN
  BY DEF Event, UiInv, Flags
<1>2. "event" \notin {"reset", "greet"}
  OBVIOUS
<1>3. UiInv'
  BY <1>1, <1>2, BroadcastTasks, TaskSkipped
<1>4. KeptOpen
  BY <1>1 DEF KeptOpen, network
<1> QED
  BY <1>3, <1>4 DEF StepOk

(* A task of one slot that writes, or does nothing.                        *)
LEMMA WriteStep ==
  ASSUME UiInv, NEW i \in Slot, Write(i)
  PROVE  StepOk
<1>1. /\ Doing("write", i) /\ Then(<<>>) /\ <<>> \in Seq(Task)
      /\ event' \in BOOLEAN /\ drawn' \in BOOLEAN /\ alive' \in BOOLEAN
      /\ drawn \in BOOLEAN
      /\ "write" # "reset" /\ "write" # "greet" /\ "write" \notin {"reset", "greet"}
  BY EmptySeq DEF Write, UiInv, Flags
<1>2. CASE fd[i] = NoConn
  <2>1. UNCHANGED <<network, fresh, table>>
    BY <1>2 DEF Write
  <2>2. UiInv'
    BY <1>1, <2>1, TaskSkipped
  <2>3. KeptOpen
    BY <2>1 DEF KeptOpen, network
  <2> QED
    BY <2>2, <2>3 DEF StepOk
<1>3. CASE fd[i] # NoConn
  <2>1. WriteTo(i, drawn) /\ (CanWrite(i) => revents' = revents)
    BY <1>3 DEF Write
  <2>2. TableInv' /\ Lessens /\ \A c \in Conn : peer[c] = "open" => peer'[c] # "closed"
    BY <1>1, <2>1, Writing DEF UiInv
  <2>3. UiInv'
    BY <1>1, <2>2, TaskLessens
  <2> QED
    BY <2>2, <2>3 DEF StepOk, KeptOpen
<1> QED
  BY <1>2, <1>3

LEMMA GreetStep ==
  ASSUME UiInv, NEW i \in Slot, Greet(i)
  PROVE  StepOk
<1>1. /\ Doing("greet", i) /\ Then(<<>>) /\ <<>> \in Seq(Task)
      /\ event' \in BOOLEAN /\ drawn' \in BOOLEAN /\ alive' \in BOOLEAN
      /\ TRUE \in BOOLEAN /\ "greet" # "reset"
      /\ WriteTo(i, TRUE) /\ (CanWrite(i) => revents' = revents)
  BY EmptySeq DEF Greet, UiInv, Flags
<1>2. /\ TableInv' /\ Lessens
      /\ \A c \in Conn : peer[c] = "open" => peer'[c] # "closed"
      /\ fd'[i] # NoConn => socket[i] # NoConn
  BY <1>1, Writing DEF UiInv
<1>3. UiInv'
  BY <1>1, <1>2, TaskLessens
<1> QED
  BY <1>2, <1>3 DEF StepOk, KeptOpen

LEMMA RefreshStep ==
  ASSUME UiInv, NEW i \in Slot, Refresh(i)
  PROVE  StepOk
<1>1. /\ Doing("refresh", i) /\ <<>> \in Seq(Task) /\ << <<"write", i>> >> \in Seq(Task)
      /\ event' \in BOOLEAN /\ drawn' \in BOOLEAN /\ alive' \in BOOLEAN
      /\ TRUE \in BOOLEAN
      /\ "refresh" # "reset" /\ "refresh" # "greet" /\ "refresh" \notin {"reset", "greet"}
  <2>1. Doing("refresh", i) /\ event' = event /\ alive' = alive
    BY DEF Refresh
  <2>2. drawn' = drawn \/ drawn' = TRUE
    BY Zenon DEF Refresh
  <2>3. event' \in BOOLEAN /\ drawn' \in BOOLEAN /\ alive' \in BOOLEAN
    BY <2>1, <2>2, Zenon DEF UiInv, Flags
  <2>4. <<>> \in Seq(Task) /\ << <<"write", i>> >> \in Seq(Task)
    BY EmptySeq DEF Task
  <2> QED
    BY <2>1, <2>3, <2>4
<1>2. CASE UNCHANGED <<network, fresh, table>> /\ (Then(<<>>) \/ Then(<< <<"write", i>> >>))
  <2>1. UiInv'
    <3>1. CASE Then(<<>>)
      BY <1>1, <1>2, <3>1, TaskSkipped
    <3>2. CASE Then(<< <<"write", i>> >>)
      BY <1>1, <1>2, <3>2, TaskSkipped
    <3> QED
      BY <1>2, <3>1, <3>2
  <2>2. KeptOpen
    BY <1>2 DEF KeptOpen, network
  <2> QED
    BY <2>1, <2>2 DEF StepOk
<1>3. CASE WriteTo(i, TRUE) /\ revents' = [revents EXCEPT ![i] = {}] /\ Then(<<>>)
  <2>1. TableInv' /\ Lessens /\ \A c \in Conn : peer[c] = "open" => peer'[c] # "closed"
    BY <1>1, <1>3, Writing DEF UiInv
  <2>2. UiInv'
    BY <1>1, <1>3, <2>1, TaskLessens
  <2> QED
    BY <2>1, <2>2 DEF StepOk, KeptOpen
<1> QED
  BY <1>2, <1>3, Zenon DEF Refresh

LEMMA HangUpStep ==
  ASSUME UiInv, NEW i \in Slot, HangUp(i)
  PROVE  StepOk
<1>1. /\ Doing("serve", i) /\ Then(<<>>) /\ <<>> \in Seq(Task)
      /\ event' \in BOOLEAN /\ drawn' \in BOOLEAN /\ alive' \in BOOLEAN
      /\ "serve" # "reset" /\ "serve" # "greet"
      /\ Ended(i) /\ Disconnect(i)
  BY EmptySeq DEF HangUp, UiInv, Flags
<1>2. TableInv' /\ Lessens /\ ClosesOnly(i)
  BY <1>1, Disconnecting DEF UiInv
<1>3. UiInv'
  BY <1>1, <1>2, TaskLessens
<1>4. \A c \in Conn : peer[c] = "open" => peer'[c] # "closed"
  <2>1. SUFFICES ASSUME NEW c \in Conn, peer[c] = "open", peer'[c] = "closed"
                 PROVE  FALSE
    OBVIOUS
  <2>2. socket[i] = c /\ c # NoConn
    BY <1>2, <2>1, SlotFacts DEF ClosesOnly
  <2>3. fd[i] = c
    BY <2>2, Zenon DEF UiInv, TableInv, Entries
  <2>4. "err" \notin revents[i]
    BY <2>1, <2>3, Zenon DEF UiInv, TableInv, Reported
  <2> QED
    BY <1>1, <2>1, <2>2, <2>4, Zenon DEF Ended
<1> QED
  BY <1>3, <1>4 DEF StepOk, KeptOpen

LEMMA NotServedStep ==
  ASSUME UiInv, NEW i \in Slot, NotServed(i)
  PROVE  StepOk
<1>1. /\ Doing("serve", i) /\ Then(<<>>) /\ <<>> \in Seq(Task)
      /\ event' \in BOOLEAN /\ drawn' \in BOOLEAN /\ alive' \in BOOLEAN
      /\ "serve" \notin {"reset", "greet"} /\ UNCHANGED <<network, fresh, table>>
  BY EmptySeq DEF NotServed, UiInv, Flags
<1>2. UiInv'
  BY <1>1, TaskSkipped
<1>3. KeptOpen
  BY <1>1 DEF KeptOpen, network
<1> QED
  BY <1>2, <1>3 DEF StepOk

(* A key changes what its client has typed, and nothing else of the table. *)
LEMMA OnlyTyped ==
  ASSUME UiInv, NEW i \in Slot, NEW s \in Seq(Key), cmd' = [cmd EXCEPT ![i] = s],
         UNCHANGED <<network, fd, revents, socket>>, fresh' \subseteq fresh,
         ids' = ids \/ ids' = ids \cup {i}
  PROVE  /\ TableInv' /\ KeptOpen
         /\ \A j \in Slot : fd'[j] = fd[j] /\ socket'[j] = socket[j]
         /\ \A j \in Slot : cmd'[j] = IF j = i THEN s ELSE cmd[j]
<1>1. UNCHANGED <<peer, backlog, full, fd, revents, socket>>
  BY DEF network
<1>2. ids \subseteq ids' /\ ids' \subseteq Slot
  BY DEF UiInv, TableInv, Typed0
<1>3. Typed0'
  BY <1>1, <1>2, Zenon DEF UiInv, TableInv, Typed0
<1>4. Entries'
  BY <1>1, <1>2, Zenon DEF UiInv, TableInv, Entries
<1>5. Sockets' /\ Reported'
  BY <1>1, Zenon DEF UiInv, TableInv, Sockets, Reported
<1>6. KeptOpen
  BY <1>1 DEF KeptOpen
<1>7. \A j \in Slot : cmd'[j] = IF j = i THEN s ELSE cmd[j]
  BY DEF UiInv, TableInv, Typed0
<1> QED
  BY <1>1, <1>3, <1>4, <1>5, <1>6, <1>7 DEF TableInv

LEMMA KeyTypedStep ==
  ASSUME UiInv, NEW i \in Slot, KeyTyped(i)
  PROVE  StepOk
<1>1. /\ Doing("serve", i) /\ Then(<<>>) /\ <<>> \in Seq(Task)
      /\ event' \in BOOLEAN /\ drawn' \in BOOLEAN /\ alive' \in BOOLEAN
      /\ "serve" # "greet" /\ \A j : <<"serve", i>> # <<"reset", j>>
      /\ UNCHANGED <<network, fd, revents, socket, fresh, ids>>
  BY EmptySeq DEF KeyTyped, Typing, UiInv, Flags
<1>2. PICK k \in Key : /\ ~(k = "ARROW" /\ Expected(i, k))
                       /\ cmd' = [cmd EXCEPT ![i] = Typed(i, k)]
  BY DEF KeyTyped
<1>3. PICK s : s = Typed(i, k)
  OBVIOUS
<1>4. cmd[i] \in Seq(Key) /\ Beginning(cmd[i])
  BY DEF UiInv, TableInv, Typed0, Input
<1>5. s \in Seq(Key) /\ Beginning(s) /\ s # Arrow
  <2>1. CASE Expected(i, k)
    <3>1. /\ Append(cmd[i], k) \in Seq(Key) /\ Beginning(Append(cmd[i], k))
          /\ Append(cmd[i], k) = Arrow => k = "ARROW"
      BY <1>4, <2>1, KeyAfter DEF Expected
    <3> QED
      BY <1>2, <1>3, <2>1, <3>1 DEF Typed
  <2>2. CASE ~Expected(i, k)
    BY <1>3, <2>2, NothingTyped DEF Typed
  <2> QED
    BY <2>1, <2>2
<1>6. /\ TableInv' /\ KeptOpen
      /\ \A j \in Slot : fd'[j] = fd[j] /\ socket'[j] = socket[j]
      /\ \A j \in Slot : cmd'[j] = IF j = i THEN s ELSE cmd[j]
  BY <1>1, <1>2, <1>3, <1>5, OnlyTyped
<1>7. Input'
  <2>1. \A j \in Slot :
          \/ cmd'[j] = cmd[j] /\ <<"serve", i>> # <<"reset", j>>
          \/ Beginning(cmd'[j]) /\ cmd'[j] # Arrow
    BY <1>1, <1>5, <1>6
  <2> QED
    BY <1>1, <2>1, InputAfter
<1> QED
  BY <1>1, <1>6, <1>7, TaskDone DEF StepOk

LEMMA KeyArrowStep ==
  ASSUME UiInv, NEW i \in Slot, KeyArrow(i)
  PROVE  StepOk
<1> DEFINE tasks == Broadcast \o << <<"reset", i>> >>
           s == Append(cmd[i], "ARROW")
<1>1. /\ Doing("serve", i) /\ Then(tasks) /\ Expected(i, "ARROW")
      /\ event' \in BOOLEAN /\ drawn' \in BOOLEAN /\ alive' \in BOOLEAN
      /\ "serve" # "greet" /\ \A j : <<"serve", i>> # <<"reset", j>>
      /\ UNCHANGED <<network, fd, revents, socket, ids>> /\ fresh' \subseteq fresh
      /\ cmd' = [cmd EXCEPT ![i] = s]
  BY DEF KeyArrow, Typing, UiInv, Flags
<1>2. cmd[i] \in Seq(Key) /\ Beginning(cmd[i]) /\ "ARROW" \in Key
  BY DEF UiInv, TableInv, Typed0, Input, Key
<1>3. s \in Seq(Key) /\ Beginning(s)
  BY <1>1, <1>2, KeyAfter DEF Expected
<1> HIDE DEF s
<1>4. tasks \in Seq(Task) /\ \E k \in 1 .. Len(tasks) : tasks[k] = <<"reset", i>>
  <2>1. PICK r : r = << <<"reset", i>> >>
    OBVIOUS
  <2>2. r \in Seq(Task) /\ Len(r) = 1 /\ r[1] = <<"reset", i>>
    BY <2>1 DEF Task
  <2>3. Len(Broadcast) \in Nat
    BY BroadcastTasks, LenProperties
  <2>4. /\ tasks \in Seq(Task) /\ Len(tasks) = Len(Broadcast) + Len(r)
        /\ \A k \in 1 .. Len(Broadcast) + Len(r) :
             tasks[k] = IF k <= Len(Broadcast) THEN Broadcast[k] ELSE r[k - Len(Broadcast)]
    BY <2>1, <2>2, BroadcastTasks, ConcatProperties
  <2> HIDE DEF tasks
  <2>5. Len(Broadcast) + 1 \in 1 .. Len(tasks) /\ tasks[Len(Broadcast) + 1] = r[1]
    <3>1. /\ Len(Broadcast) + 1 \in 1 .. Len(Broadcast) + Len(r)
          /\ ~(Len(Broadcast) + 1 <= Len(Broadcast))
          /\ (Len(Broadcast) + 1) - Len(Broadcast) = 1
      BY <2>2, <2>3, SMT
    <3> QED
      BY <2>4, <3>1, Zenon
  <2> QED
    BY <2>2, <2>4, <2>5
<1> HIDE DEF tasks
<1>5. /\ TableInv' /\ KeptOpen
      /\ \A j \in Slot : fd'[j] = fd[j] /\ socket'[j] = socket[j]
      /\ \A j \in Slot : cmd'[j] = IF j = i THEN s ELSE cmd[j]
  BY <1>1, <1>3, OnlyTyped
<1>6. Input'
  <2>1. \A j \in Slot :
          \/ cmd'[j] = cmd[j] /\ <<"serve", i>> # <<"reset", j>>
          \/ /\ Beginning(cmd'[j])
             /\ \E k \in 1 .. Len(tasks) : tasks[k] = <<"reset", j>>
    BY <1>1, <1>3, <1>4, <1>5
  <2> QED
    BY <1>1, <1>4, <2>1, InputAfter
<1> QED
  BY <1>1, <1>4, <1>5, <1>6, TaskDone DEF StepOk

LEMMA ResetInputStep ==
  ASSUME UiInv, NEW i \in Slot, ResetInput(i)
  PROVE  StepOk
<1>1. /\ Doing("reset", i) /\ Then(<<>>) /\ <<>> \in Seq(Task) /\ <<>> \in Seq(Key)
      /\ event' \in BOOLEAN /\ drawn' \in BOOLEAN /\ alive' \in BOOLEAN
      /\ "reset" # "greet"
      /\ UNCHANGED <<network, fd, revents, socket, fresh>> /\ ids' = ids \cup {i}
      /\ cmd' = [cmd EXCEPT ![i] = <<>>]
  BY EmptySeq DEF ResetInput, UiInv, Flags
<1>2. /\ TableInv' /\ KeptOpen
      /\ \A j \in Slot : fd'[j] = fd[j] /\ socket'[j] = socket[j]
      /\ \A j \in Slot : cmd'[j] = IF j = i THEN <<>> ELSE cmd[j]
  BY <1>1, OnlyTyped
<1>3. Input'
  <2>1. \A j \in Slot :
          cmd'[j] = <<>> \/ (cmd'[j] = cmd[j] /\ <<"reset", i>> # <<"reset", j>>)
    BY <1>2
  <2> QED
    BY <1>1, <2>1, InputAfter
<1> QED
  BY <1>1, <1>2, <1>3, TaskDone DEF StepOk

(* The turn and its tasks, and everything else that happens.               *)
LEMMA NextStep ==
  ASSUME UiInv, [Next]_vars
  PROVE  StepOk
<1>1. Flags
  BY DEF UiInv
<1>2. ASSUME NEW c \in Conn, Connect(c) \/ Leave(c)
      PROVE  StepOk
  BY <1>2, ConnectStep, LeaveStep
<1>3. ASSUME NEW c \in Slow, ReadMenu(c)
      PROVE  StepOk
  <2>1. /\ UNCHANGED <<peer, backlog, table, todo>> /\ full' \subseteq full
        /\ fresh' \subseteq fresh /\ UNCHANGED <<event, drawn, alive>>
    BY <1>3 DEF ReadMenu
  <2> QED
    BY <1>1, <2>1, OthersStep DEF Flags
<1>4. ASSUME ListChanges
      PROVE  StepOk
  <2>1. /\ UNCHANGED <<peer, backlog, table, todo>> /\ full' \subseteq full
        /\ fresh' \subseteq fresh /\ event' \in BOOLEAN /\ drawn' = FALSE /\ alive' = alive
    BY <1>1, <1>4 DEF ListChanges, network, Flags
  <2> QED
    BY <1>1, <2>1, OthersStep DEF Flags
<1>5. ASSUME Killed
      PROVE  StepOk
  <2>1. /\ UNCHANGED <<peer, backlog, table, todo>> /\ full' \subseteq full
        /\ fresh' \subseteq fresh /\ UNCHANGED <<event, drawn>> /\ alive' = FALSE
    BY <1>5 DEF Killed, network
  <2> QED
    BY <1>1, <2>1, OthersStep DEF Flags
<1>6. ASSUME NEW typing \in SUBSET Slot, Poll(typing)
      PROVE  StepOk
  BY <1>6, PollStep
<1>7. ASSUME NEW c \in Conn, Accept(c)
      PROVE  StepOk
  BY <1>7, AcceptStep
<1>8. ASSUME NEW i \in Slot, Serve(i)
      PROVE  StepOk
  BY <1>8, HangUpStep, NotServedStep, KeyTypedStep, KeyArrowStep, RefreshStep,
     WriteStep, GreetStep, ResetInputStep DEF Serve
<1>9. ASSUME Event
      PROVE  StepOk
  BY <1>9, EventStep
<1>10. ASSUME UNCHANGED vars
       PROVE  StepOk
  <2>1. /\ UNCHANGED <<peer, backlog, table, todo>> /\ full' \subseteq full
        /\ fresh' \subseteq fresh /\ UNCHANGED <<event, drawn, alive>>
    BY <1>10 DEF vars, network
  <2> QED
    BY <1>1, <2>1, OthersStep DEF Flags
<1> QED
  BY <1>2, <1>3, <1>4, <1>5, <1>6, <1>7, <1>8, <1>9, <1>10, Zenon DEF Next, Turn

LEMMA UiInit == Init => UiInv
<1> SUFFICES ASSUME Init
             PROVE  UiInv
  OBVIOUS
<1>1. <<>> \in Seq(Key) /\ <<>> \in Seq(Task)
  BY EmptySeq
<1>2. Flags
  BY <1>1 DEF Init, Flags
<1>3. Typed0
  <2>1. cmd \in [Slot -> Seq(Key)]
    BY <1>1, Zenon DEF Init
  <2>2. revents \in [Slot -> SUBSET {"in", "out", "err"}]
    BY DEF Init
  <2> QED
    BY <2>1, <2>2 DEF Init, Typed0
<1>4. \A i \in Slot : fd[i] = NoConn /\ socket[i] = NoConn /\ revents[i] = {} /\ cmd[i] = <<>>
  BY DEF Init
<1>5. Entries /\ FreedNext /\ Reported
  BY <1>4 DEF Entries, FreedNext, Reported
<1>6. Sockets
  BY <1>4 DEF Init, Sockets
<1>7. Input
  BY <1>4, NothingTyped, Zenon DEF Input
<1> QED
  BY <1>2, <1>3, <1>5, <1>6, <1>7 DEF UiInv, TableInv

(* The table of clients, in every state that is reached.                   *)
THEOREM UiInvariant == Spec => []UiInv
<1>1. UiInv /\ [Next]_vars => UiInv'
  BY NextStep DEF StepOk
<1> QED
  BY <1>1, UiInit, PTL DEF Spec

(***************************************************************************)
(* The variables keep their types: what poll() reports, the map of clients *)
(* and the tasks of a turn are always of slots that there are.             *)
(***************************************************************************)
THEOREM UiTypeCorrect == Spec => []TypeOK
<1>1. UiInv => TypeOK
  BY Zenon DEF UiInv, TableInv, Flags, Typed0, Task, TypeOK
<1> QED
  BY <1>1, UiInvariant, PTL

(***************************************************************************)
(* Whenever poll() is called the slots and the clients match: the poll     *)
(* table, the map and the sockets, which register_client(),                *)
(* disconnect_client() and reset_client_input() each change in part, agree *)
(* again at the end of each turn, whatever failed in it.                   *)
(***************************************************************************)
THEOREM SlotsMatch == Spec => []SlotsMatchClients
<1>1. UiInv => SlotsMatchClients
  <2> SUFFICES ASSUME UiInv, todo = <<>>, NEW i \in Slot
               PROVE  /\ socket[i] = fd[i]
                      /\ fd[i] # NoConn =>
                           /\ i \in ids
                           /\ peer[fd[i]] # "closed"
                           /\ \A j \in Slot : fd[j] = fd[i] => j = i
    BY Zenon DEF SlotsMatchClients
  <2>1. socket[i] = fd[i]
    BY Zenon DEF UiInv, TableInv, FreedNext, Entries
  <2>2. fd[i] # NoConn => peer[fd[i]] \in {"open", "left", "reset"}
    BY <2>1, Zenon DEF UiInv, TableInv, Sockets
  <2>3. fd[i] # NoConn => peer[fd[i]] # "closed"
    BY <2>2
  <2>4. fd[i] # NoConn => i \in ids /\ \A j \in Slot : fd[j] = fd[i] => j = i
    BY Zenon DEF UiInv, TableInv, Entries, Sockets
  <2> QED
    BY <2>1, <2>3, <2>4
<1> QED
  BY <1>1, UiInvariant, PTL

(***************************************************************************)
(* What a client has typed is always the beginning of an arrow key: the    *)
(* four bytes of cmd_buf are enough, and apply_cmd() finds its command.    *)
(***************************************************************************)
THEOREM TypedIsCommand == Spec => []InputIsCommand
<1>1. UiInv => InputIsCommand
  <2> SUFFICES ASSUME UiInv, NEW i \in Slot
               PROVE  /\ Len(cmd[i]) <= Len(Arrow)
                      /\ cmd[i] = SubSeq(Arrow, 1, Len(cmd[i]))
                      /\ cmd[i] = Arrow => \E k \in 1 .. Len(todo) : todo[k] = <<"reset", i>>
    BY Zenon DEF InputIsCommand
  <2>1. cmd[i] \in Seq(Key)
    BY DEF UiInv, TableInv, Typed0
  <2>2. Beginning(cmd[i])
    BY Zenon DEF UiInv, Input
  <2>3. cmd[i] = Arrow => \E k \in 1 .. Len(todo) : todo[k] = <<"reset", i>>
    BY Zenon DEF UiInv, Input
  <2> QED
    BY <2>1, <2>2, <2>3, BeginningIs, Zenon
<1> QED
  BY <1>1, UiInvariant, PTL

(***************************************************************************)
(* UiMenu never closes a connection that works, but for want of a slot, or *)
(* when the first free slot still has an entry in the map.                 *)
(***************************************************************************)
THEOREM WorkingClientsAreKept == Spec => WorkingIsKept
<1>1. UiInv /\ [Next]_vars =>
        [\A c \in Conn :
           peer[c] = "open" /\ peer'[c] = "closed" =>
             \/ \A i \in Slot : fd[i] # NoConn
             \/ \E i \in ids : fd[i] = NoConn]_vars
  BY NextStep DEF StepOk, KeptOpen
<1> QED
  BY <1>1, UiInvariant, PTL DEF Spec, WorkingIsKept

-----------------------------------------------------------------------------
(***************************************************************************)
(* The refinement.  Each step is one of Seats, or changes nothing there:   *)
(* accepting is Seat or TurnAway, dropping a client is Part.               *)
(***************************************************************************)
Closed == {c \in Conn : peer[c] = "closed"}

SeatStep == [Table!Next]_(Table!seats)

LEMMA Counted == \A S : Table!Cardinality(S) = Cardinality(S)
BY Zenon DEF Table!Cardinality, Cardinality

LEMMA NobodySeated ==
  ASSUME UNCHANGED <<backlog, socket>>,
         \A c \in Conn : peer'[c] = "closed" <=> peer[c] = "closed"
  PROVE  SeatStep
<1>1. Clients' = Clients
  BY DEF Clients
<1>2. Closed' = Closed
  BY Zenon DEF Closed
<1> QED
  BY <1>1, <1>2 DEF SeatStep, Table!seats, Closed

LEMMA SlotsAreFinite ==
  /\ IsFiniteSet(Slot) /\ Cardinality(Slot) = MaxClients
  /\ MaxClients \in Nat
<1>1. MinClientId \in Int /\ MinClientId + MaxClients - 1 \in Int /\ MaxClients \in Nat
  BY ClientsAssumption, SMT
<1>2. PICK last : last = MinClientId + MaxClients - 1
  OBVIOUS
<1>3. /\ IsFiniteSet(MinClientId .. last)
      /\ Cardinality(MinClientId .. last) =
           IF MinClientId > last THEN 0 ELSE last - MinClientId + 1
  BY <1>1, <1>2, FS_Interval
<1>4. Cardinality(MinClientId .. last) = MaxClients
  BY <1>1, <1>2, <1>3, ClientsAssumption, SMT
<1> QED
  BY <1>1, <1>2, <1>3, <1>4 DEF Slot

(* There are never more clients than slots, and fewer when one is free.    *)
LEMMA ClientsFit ==
  ASSUME NEW i \in Slot, socket[i] = NoConn
  PROVE  Cardinality(Clients) < MaxClients
<1> DEFINE Others == Slot \ {i}
           Sockets0 == {socket[j] : j \in Others}
<1>1. IsFiniteSet(Others) /\ Cardinality(Others) = MaxClients - 1
  BY SlotsAreFinite, FS_RemoveElement
<1>2. IsFiniteSet(Sockets0) /\ Cardinality(Sockets0) <= Cardinality(Others)
  <2> DEFINE f == [j \in Others |-> socket[j]]
  <2>1. f \in Surjection(Others, Sockets0)
    BY Zenon DEF Surjection
  <2> HIDE DEF f, Others, Sockets0
  <2> QED
    BY <1>1, <2>1, FS_Surjection
<1>3. Clients \in SUBSET Sockets0
  BY DEF Clients
<1>4. IsFiniteSet(Clients) /\ Cardinality(Clients) <= Cardinality(Sockets0)
  BY <1>2, <1>3, FS_Subset
<1>5. Cardinality(Clients) \in Nat /\ Cardinality(Sockets0) \in Nat
  BY <1>2, <1>4, FS_CardinalityType
<1> HIDE DEF Others, Sockets0
<1> QED
  BY <1>1, <1>2, <1>4, <1>5, SlotsAreFinite, SMT

LEMMA Parting ==
  ASSUME TableInv, NEW i \in Slot, Disconnect(i)
  PROVE  SeatStep
<1>1. /\ backlog' = backlog
      /\ \A c \in Conn : peer'[c] = IF c = socket[i] THEN "closed" ELSE peer[c]
      /\ \A j \in Slot : socket'[j] = IF j = i THEN NoConn ELSE socket[j]
      /\ socket[i] = NoConn \/ socket[i] \in Conn
  BY DEF TableInv, Typed0, Disconnect
<1>2. CASE socket[i] = NoConn
  <2>1. \A c \in Conn : peer'[c] = peer[c]
    BY <1>1, <1>2, SlotFacts
  <2>2. socket' = socket
    BY <1>1, <1>2, Zenon DEF Disconnect, TableInv, Typed0
  <2> QED
    BY <1>1, <2>1, <2>2, NobodySeated
<1>3. CASE socket[i] # NoConn
  <2>1. PICK c \in Conn : c = socket[i]
    BY <1>1, <1>3
  <2>2. \A j \in Slot : j # i => socket[j] # c
    BY <1>3, <2>1, Zenon DEF TableInv, Entries, Sockets
  <2>3. Clients' = Clients \ {c}
    BY <1>1, <2>1, <2>2 DEF Clients
  <2>4. c \in Clients
    BY <1>3, <2>1 DEF Clients
  <2>5. Closed' = Closed \cup {c}
    BY <1>1, <2>1 DEF Closed
  <2>6. Table!Part(c)
    BY <1>1, <2>3, <2>4, <2>5 DEF Table!Part, Closed
  <2> QED
    BY <2>6 DEF SeatStep, Table!Next
<1> QED
  BY <1>2, <1>3

LEMMA WritingSeats ==
  ASSUME TableInv, NEW i \in Slot, NEW b, WriteTo(i, b)
  PROVE  SeatStep
<1>1. Disconnect(i) \/ UNCHANGED <<peer, backlog, socket>>
  BY Zenon DEF WriteTo
<1> QED
  BY <1>1, Parting, NobodySeated

LEMMA Arriving ==
  ASSUME UiInv, NEW c \in Conn, Connect(c)
  PROVE  SeatStep
<1>1. /\ peer[c] = "away" /\ backlog' = backlog \cup {c} /\ socket' = socket
      /\ \A b \in Conn : peer'[b] = IF b = c THEN "open" ELSE peer[b]
  BY DEF Connect, table, UiInv, TableInv, Typed0
<1>2. c \notin backlog
  <2>1. c \in backlog => peer[c] \in {"open", "left", "reset"}
    BY Zenon DEF UiInv, TableInv, Sockets
  <2> QED
    BY <1>1, <2>1
<1>3. c \notin Clients
  <2>1. \A j \in Slot : socket[j] # NoConn => peer[socket[j]] \in {"open", "left", "reset"}
    BY Zenon DEF UiInv, TableInv, Sockets
  <2> QED
    BY <1>1, <2>1 DEF Clients
<1>4. c \notin Closed /\ Closed' = Closed /\ Clients' = Clients
  BY <1>1 DEF Closed, Clients
<1>5. Table!Arrive(c)
  BY <1>1, <1>2, <1>3, <1>4, Zenon DEF Table!Arrive, Closed
<1> QED
  BY <1>5 DEF SeatStep, Table!Next

LEMMA Accepting ==
  ASSUME UiInv, NEW c \in Conn, Accept(c)
  PROVE  SeatStep
<1>1. Doing("accept", 0) /\ Pending(c) /\ backlog' = backlog \ {c}
  BY DEF Accept
<1>2. \A j \in Slot : socket[j] = fd[j]
  BY <1>1, NoneUngreeted DEF UiInv, TableInv
<1>3. Table!First(c)
  BY <1>1, Zenon DEF Pending, Table!First
<1>4. CASE \E i \in Slot :
             /\ fd[i] = NoConn
             /\ i \notin ids
             /\ socket' = [socket EXCEPT ![i] = c]
             /\ peer' = peer
  <2>1. PICK i \in Slot : /\ fd[i] = NoConn
                          /\ socket' = [socket EXCEPT ![i] = c]
                          /\ peer' = peer
    BY <1>4
  <2>2. /\ socket[i] = NoConn /\ c # NoConn
        /\ \A j \in Slot : socket'[j] = IF j = i THEN c ELSE socket[j]
    BY <1>2, <2>1, SlotFacts DEF UiInv, TableInv, Typed0
  <2>3. Clients' = Clients \cup {c}
    BY <2>2 DEF Clients
  <2>4. Cardinality(Clients) < MaxClients
    BY <2>2, ClientsFit
  <2>5. Closed' = Closed
    BY <2>1 DEF Closed
  <2>6. Table!Seat(c)
    BY <1>1, <1>3, <2>3, <2>4, <2>5, Counted, Zenon DEF Table!Seat, Closed
  <2> QED
    BY <2>6 DEF SeatStep, Table!Next
<1>5. CASE socket' = socket /\ peer' = [peer EXCEPT ![c] = "closed"]
  <2>1. Clients' = Clients
    BY <1>5 DEF Clients
  <2>2. Closed' = Closed \cup {c}
    BY <1>5 DEF Closed, UiInv, TableInv, Typed0
  <2>3. Table!TurnAway(c)
    BY <1>1, <1>3, <2>1, <2>2, Zenon DEF Table!TurnAway, Closed
  <2> QED
    BY <2>3 DEF SeatStep, Table!Next
<1>6. \/ \E i \in Slot :
            /\ fd[i] = NoConn
            /\ socket' = IF i \in ids THEN socket ELSE [socket EXCEPT ![i] = c]
            /\ peer' = IF i \in ids THEN [peer EXCEPT ![c] = "closed"] ELSE peer
      \/ socket' = socket /\ peer' = [peer EXCEPT ![c] = "closed"]
  BY Zenon DEF Accept, FreeSlot, table
<1>7. ASSUME NEW i \in Slot, fd[i] = NoConn,
             socket' = IF i \in ids THEN socket ELSE [socket EXCEPT ![i] = c],
             peer' = IF i \in ids THEN [peer EXCEPT ![c] = "closed"] ELSE peer
      PROVE  SeatStep
  <2>1. CASE i \in ids
    BY <1>5, <1>7, <2>1
  <2>2. CASE i \notin ids
    BY <1>4, <1>7, <2>2
  <2> QED
    BY <2>1, <2>2
<1> QED
  BY <1>5, <1>6, <1>7

LEMMA SeatsNext ==
  ASSUME UiInv, [Next]_vars
  PROVE  SeatStep
<1>1. ASSUME NEW c \in Conn, Connect(c)
      PROVE  SeatStep
  BY <1>1, Arriving
<1>2. ASSUME NEW c \in Conn, Leave(c)
      PROVE  SeatStep
  <2>1. PICK e \in {"left", "reset"} : peer' = [peer EXCEPT ![c] = e]
    BY <1>2 DEF Leave
  <2>2. peer[c] # "closed" /\ \A b \in Conn : peer'[b] = IF b = c THEN e ELSE peer[b]
    BY <1>2, <2>1 DEF Leave, UiInv, TableInv, Typed0
  <2>3. \A b \in Conn : peer'[b] = "closed" <=> peer[b] = "closed"
    BY <2>1, <2>2
  <2>4. UNCHANGED <<backlog, socket>>
    BY <1>2 DEF Leave, table
  <2> QED
    BY <2>3, <2>4, NobodySeated
<1>3. ASSUME NEW c \in Conn, Accept(c)
      PROVE  SeatStep
  BY <1>3, Accepting
<1>4. ASSUME NEW i \in Slot, HangUp(i)
      PROVE  SeatStep
  BY <1>4, Parting DEF HangUp, UiInv
<1>5. ASSUME NEW i \in Slot, Write(i) \/ Greet(i) \/ Refresh(i)
      PROVE  SeatStep
  <2>1. (\E b : WriteTo(i, b)) \/ UNCHANGED <<peer, backlog, socket>>
    BY <1>5, Zenon DEF Write, Greet, Refresh, network, table
  <2> QED
    BY <2>1, WritingSeats, NobodySeated DEF UiInv
<1>6. ASSUME NEW i \in Slot,
             NotServed(i) \/ KeyTyped(i) \/ KeyArrow(i) \/ ResetInput(i)
      PROVE  SeatStep
  <2>1. UNCHANGED <<peer, backlog, socket>>
    BY <1>6, Zenon DEF NotServed, KeyTyped, KeyArrow, Typing, ResetInput, network, table
  <2> QED
    BY <2>1, NobodySeated
<1>7. ASSUME \/ \E c \in Slow : ReadMenu(c)
             \/ ListChanges
             \/ \E typing \in SUBSET Slot : Poll(typing)
             \/ Event
             \/ Killed
             \/ UNCHANGED vars
      PROVE  SeatStep
  <2>1. UNCHANGED <<peer, backlog, socket>>
    BY <1>7, Zenon DEF ReadMenu, ListChanges, Poll, Event, Killed, vars, network, table
  <2> QED
    BY <2>1, NobodySeated
<1> QED
  BY <1>1, <1>2, <1>3, <1>4, <1>5, <1>6, <1>7, Zenon DEF Next, Turn, Serve

(***************************************************************************)
(* UiMenu's table, map and sockets implement Seats, for any number of      *)
(* slots and of connections.                                               *)
(***************************************************************************)
THEOREM SeatsAreImplemented == Spec => SeatsAreGiven
<1>1. Init => Table!Init
  <2>1. Init => Clients = {} /\ Closed = {}
    BY DEF Init, Clients, Closed
  <2> QED
    BY <2>1 DEF Init, Table!Init, Closed
<1>2. UiInv /\ [Next]_vars => [Table!Next]_(Table!seats)
  BY SeatsNext DEF SeatStep
<1> QED
  BY <1>1, <1>2, UiInvariant, PTL DEF Spec, SeatsAreGiven, Table!Spec

=============================================================================
