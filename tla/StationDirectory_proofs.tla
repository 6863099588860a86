---------------------- MODULE StationDirectory_proofs ----------------------
(***************************************************************************)
(* Theorems about the receiver's list of stations and its choice.          *)
(***************************************************************************)
EXTENDS StationDirectory, TLAPS

(* What is on a list of things to do, and what is left of it.              *)
LEMMA HasNothing == \A x : ~Has(<<>>, x)
BY SMT DEF Has

LEMMA HasOne == \A a, x : Has(<<a>>, x) <=> x = a
BY SMT DEF Has

LEMMA HasTwo ==
  ASSUME NEW a, NEW b, NEW x
  PROVE  Has(<<a, b>>, x) <=> x = a \/ x = b
<1> DEFINE q == <<a, b>>
<1>1. Len(q) = 2 /\ q[1] = a /\ q[2] = b
  OBVIOUS
<1> HIDE DEF q
<1>2. Has(q, x) <=> x = a \/ x = b
  <2>1. Has(q, x) => x = a \/ x = b
    BY <1>1, SMT DEF Has
  <2>2. x = a \/ x = b => Has(q, x)
    <3>1. 1 \in 1 .. Len(q) /\ 2 \in 1 .. Len(q)
      BY <1>1, SMT
    <3> QED
      BY <1>1, <3>1, Zenon DEF Has
  <2> QED
    BY <2>1, <2>2, Zenon
<1> QED
  BY <1>2, Zenon DEF q

LEMMA HasThree ==
  ASSUME NEW a, NEW b, NEW c, NEW x
  PROVE  Has(<<a, b, c>>, x) <=> x = a \/ x = b \/ x = c
<1> DEFINE q == <<a, b, c>>
<1>1. Len(q) = 3 /\ q[1] = a /\ q[2] = b /\ q[3] = c
  OBVIOUS
<1> HIDE DEF q
<1>2. Has(q, x) <=> x = a \/ x = b \/ x = c
  <2>1. Has(q, x) => x = a \/ x = b \/ x = c
    BY <1>1, SMT DEF Has
  <2>2. x = a \/ x = b \/ x = c => Has(q, x)
    <3>1. 1 \in 1 .. Len(q) /\ 2 \in 1 .. Len(q) /\ 3 \in 1 .. Len(q)
      BY <1>1, SMT
    <3> QED
      BY <1>1, <3>1, Zenon DEF Has
  <2> QED
    BY <2>1, <2>2, Zenon
<1> QED
  BY <1>2, Zenon DEF q

LEMMA HasInTail ==
  ASSUME NEW S, NEW q \in Seq(S), q # <<>>
  PROVE  /\ Tail(q) \in Seq(S)
         /\ \A x : Has(q, x) <=> x = Head(q) \/ Has(Tail(q), x)
<1>1. /\ Len(q) \in Nat /\ Len(q) >= 1
      /\ Tail(q) \in Seq(S) /\ Len(Tail(q)) = Len(q) - 1
      /\ Head(q) = q[1]
      /\ \A i \in 1 .. Len(q) - 1 : Tail(q)[i] = q[i + 1]
  BY SMT
<1>2. ASSUME NEW x, Has(q, x) PROVE x = Head(q) \/ Has(Tail(q), x)
  <2>1. PICK i \in 1 .. Len(q) : q[i] = x
    BY <1>2, Zenon DEF Has
  <2>2. CASE i = 1
    BY <1>1, <2>1, <2>2, Zenon
  <2>3. CASE i # 1
    <3>1. i - 1 \in 1 .. Len(Tail(q)) /\ Tail(q)[i - 1] = q[i]
      BY <1>1, <2>1, <2>3, SMT
    <3> QED
      BY <2>1, <3>1, SMT DEF Has
  <2> QED
    BY <2>2, <2>3, Zenon
<1>3. ASSUME NEW x, x = Head(q) PROVE Has(q, x)
  BY <1>1, <1>3, SMT DEF Has
<1>4. ASSUME NEW x, Has(Tail(q), x) PROVE Has(q, x)
  <2>1. PICK i \in 1 .. Len(Tail(q)) : Tail(q)[i] = x
    BY <1>4, Zenon DEF Has
  <2>2. i + 1 \in 1 .. Len(q) /\ q[i + 1] = x
    BY <1>1, <2>1, SMT
  <2> QED
    BY <2>2, SMT DEF Has
<1> QED
  BY <1>1, <1>2, <1>3, <1>4, Zenon

-----------------------------------------------------------------------------
(***************************************************************************)
(* The inductive invariant.  The choice may be off the list only while the *)
(* remover has yet to reset it, and then AudioReceiver is told afterwards. *)
(***************************************************************************)
FreeMeansDone == holder = "none" => todo = <<>>

EventFound == receiver = "popping" => audioEvents > 0

ResetPending ==
  IF Has(todo, "reset")
  THEN holder = "remover" /\ current \notin stations /\ Has(todo, "audio")
  ELSE Listed

(* What a holder of the mutex may have left to do.                         *)
Plans ==
  {<<>>, <<"audio">>, <<"ui">>, <<"clients">>, <<"audio", "ui">>,
   <<"reset", "audio">>, <<"audio", "clients">>, <<"ui", "reset", "audio">>}

(* The reset comes once, and AudioReceiver is told after it.               *)
LEMMA PlanType == \A q \in Plans : q \in Seq({"audio", "ui", "reset", "clients"})
<1> DEFINE S == {"audio", "ui", "reset", "clients"}
<1>1. "audio" \in S /\ "ui" \in S /\ "reset" \in S /\ "clients" \in S
  OBVIOUS
<1> HIDE DEF S
<1>2. <<>> \in Seq(S)
  OBVIOUS
<1>3. \A a \in S : <<a>> \in Seq(S)
  OBVIOUS
<1>4. \A a, b \in S : <<a, b>> \in Seq(S)
  OBVIOUS
<1>5. \A a, b, c \in S : <<a, b, c>> \in Seq(S)
  OBVIOUS
<1> QED
  BY <1>1, <1>2, <1>3, <1>4, <1>5, Zenon DEF Plans, S

LEMMA PlanReset ==
  ASSUME NEW q \in Plans, Has(q, "reset")
  PROVE  q = <<"reset", "audio">> \/ q = <<"ui", "reset", "audio">>
<1>1. "audio" # "reset" /\ "ui" # "reset" /\ "clients" # "reset"
  OBVIOUS
<1>2. /\ ~Has(<<>>, "reset") /\ ~Has(<<"audio">>, "reset")
      /\ ~Has(<<"ui">>, "reset") /\ ~Has(<<"clients">>, "reset")
  BY <1>1, HasNothing, HasOne, Zenon
<1>3. ~Has(<<"audio", "ui">>, "reset") /\ ~Has(<<"audio", "clients">>, "reset")
  BY <1>1, HasTwo, Zenon
<1> QED
  BY <1>2, <1>3, Zenon DEF Plans

LEMMA PlanTail ==
  ASSUME NEW q \in Plans, q # <<>>
  PROVE  /\ Tail(q) \in Plans
         /\ Head(q) \in {"audio", "ui", "reset", "clients"}
         /\ Head(q) \in {"audio", "clients"} => ~Has(q, "reset")
         /\ Head(q) = "reset" => /\ ~Has(Tail(q), "reset")
                                 /\ Has(Tail(q), "audio")
         /\ \A x : Has(q, x) <=> x = Head(q) \/ Has(Tail(q), x)
<1>1. \A x : Has(q, x) <=> x = Head(q) \/ Has(Tail(q), x)
  BY PlanType, HasInTail, Zenon
<1>2. \/ q = <<"audio">> /\ Head(q) = "audio" /\ Tail(q) = <<>>
      \/ q = <<"ui">> /\ Head(q) = "ui" /\ Tail(q) = <<>>
      \/ q = <<"clients">> /\ Head(q) = "clients" /\ Tail(q) = <<>>
      \/ q = <<"audio", "ui">> /\ Head(q) = "audio" /\ Tail(q) = <<"ui">>
      \/ q = <<"reset", "audio">> /\ Head(q) = "reset" /\ Tail(q) = <<"audio">>
      \/ q = <<"audio", "clients">> /\ Head(q) = "audio" /\ Tail(q) = <<"clients">>
      \/ q = <<"ui", "reset", "audio">> /\ Head(q) = "ui"
           /\ Tail(q) = <<"reset", "audio">>
  <2>1. \A a : Head(<<a>>) = a /\ Tail(<<a>>) = <<>>
    OBVIOUS
  <2>2. \A a, b : Head(<<a, b>>) = a /\ Tail(<<a, b>>) = <<b>>
    OBVIOUS
  <2>3. \A a, b, c : Head(<<a, b, c>>) = a /\ Tail(<<a, b, c>>) = <<b, c>>
    OBVIOUS
  <2>4. CASE q \in {<<"audio">>, <<"ui">>, <<"clients">>}
    BY <2>1, <2>4, Zenon
  <2>5. CASE q \in {<<"audio", "ui">>, <<"reset", "audio">>, <<"audio", "clients">>}
    BY <2>2, <2>5, Zenon
  <2>6. CASE q = <<"ui", "reset", "audio">>
    BY <2>3, <2>6, Zenon
  <2> QED
    BY <2>4, <2>5, <2>6, Zenon DEF Plans
<1>3. Tail(q) \in Plans
  BY <1>2, Zenon DEF Plans
<1>4. Head(q) \in {"audio", "ui", "reset", "clients"}
  BY <1>2, Zenon
<1>5. Head(q) \in {"audio", "clients"} => ~Has(q, "reset")
  <2> SUFFICES ASSUME Head(q) \in {"audio", "clients"}, Has(q, "reset") PROVE FALSE
    OBVIOUS
  <2> QED
    BY <1>2, PlanReset, SMT
<1>6. Head(q) = "reset" => ~Has(Tail(q), "reset") /\ Has(Tail(q), "audio")
  <2> SUFFICES ASSUME Head(q) = "reset"
               PROVE  ~Has(Tail(q), "reset") /\ Has(Tail(q), "audio")
    OBVIOUS
  <2>1. Tail(q) = <<"audio">> /\ "reset" # "audio"
    BY <1>2, SMT
  <2>2. ~Has(<<"audio">>, "reset") /\ Has(<<"audio">>, "audio")
    BY <2>1, HasOne, Zenon
  <2> QED
    BY <2>1, <2>2, Zenon
<1> QED
  BY <1>1, <1>3, <1>4, <1>5, <1>6, Zenon

-----------------------------------------------------------------------------
(* Types, what is left to do, and who waits for what.                      *)
OrderInv == TypeOK /\ todo \in Plans /\ FreeMeansDone /\ EventFound

LEMMA InitOrder == Init => OrderInv
<1> SUFFICES ASSUME Init PROVE OrderInv
  OBVIOUS
<1>1. <<>> \in Plans
  BY Zenon DEF Plans
<1>2. todo \in Plans /\ todo \in Seq({"audio", "ui", "reset", "clients"})
  BY <1>1, PlanType, Zenon DEF Init
<1>3. 0 \in 0 .. PipeCap
  BY DirectoryAssumption, SMT
<1>4. receiver # "popping"
  BY SMT DEF Init
<1> QED
  BY <1>2, <1>3, <1>4, Zenon DEF Init, OrderInv, TypeOK, FreeMeansDone, EventFound

LEMMA NextOrder == OrderInv /\ [Next]_vars => OrderInv'
<1> SUFFICES ASSUME OrderInv, [Next]_vars PROVE OrderInv'
  OBVIOUS
<1> USE DEF OrderInv
<1>0. /\ TypeOK /\ todo \in Plans /\ FreeMeansDone /\ EventFound
      /\ PipeCap \in Nat
  BY DirectoryAssumption, Zenon
<1>1. /\ <<"ui">> \in Plans /\ <<"audio", "ui">> \in Plans
      /\ <<"clients">> \in Plans /\ <<"audio", "clients">> \in Plans
      /\ <<"ui", "reset", "audio">> \in Plans
  BY Zenon DEF Plans
<1>2. ASSUME NEW s \in Station, FallSilent(s) PROVE OrderInv'
  BY <1>0, <1>2, SMT DEF FallSilent, TypeOK, FreeMeansDone, EventFound,
                         mutex, pipes, audioReceiver
<1>3. ASSUME NEW s \in Station, Refresh(s) PROVE OrderInv'
  BY <1>0, <1>3, SMT DEF Refresh, TypeOK, FreeMeansDone, EventFound,
                         mutex, pipes, audioReceiver
<1>4. ASSUME NEW s \in Station, Add(s) PROVE OrderInv'
  <2>1. todo' \in Plans /\ current' \in Station \cup {End}
    BY <1>0, <1>1, <1>4, Zenon DEF Add, TypeOK
  <2>2. todo' \in Seq({"audio", "ui", "reset", "clients"})
    BY <2>1, PlanType, Zenon
  <2>3. stations' \in SUBSET Station /\ stale' \in SUBSET stations' /\ holder' = "lookup"
    BY <1>0, <1>4, SMT DEF Add, TypeOK
  <2>4. UNCHANGED <<pipes, menu, audioReceiver>>
    BY <1>4, Zenon DEF Add
  <2> QED
    BY <1>0, <2>1, <2>2, <2>3, <2>4, SMT
       DEF TypeOK, FreeMeansDone, EventFound, pipes, audioReceiver
<1>5. CASE RemoveInactive
  <2>1. todo' \in Plans
    BY <1>0, <1>1, <1>5, Zenon DEF RemoveInactive
  <2>2. todo' \in Seq({"audio", "ui", "reset", "clients"})
    BY <2>1, PlanType, Zenon
  <2>3. /\ stations' \in SUBSET Station /\ stale' \in SUBSET stations'
        /\ holder' = "remover" /\ current' = current
    BY <1>0, <1>5, SMT DEF RemoveInactive, TypeOK
  <2>4. UNCHANGED <<pipes, menu, audioReceiver>>
    BY <1>5, Zenon DEF RemoveInactive
  <2> QED
    BY <1>0, <2>1, <2>2, <2>3, <2>4, SMT
       DEF TypeOK, FreeMeansDone, EventFound, pipes, audioReceiver
<1>6. ASSUME todo # <<>>, todo' = Tail(todo)
      PROVE  todo' \in Plans /\ todo' \in Seq({"audio", "ui", "reset", "clients"})
  BY <1>0, <1>6, PlanTail, PlanType, Zenon
<1>7. CASE ResetCurrent
  <2>1. todo' \in Plans /\ todo' \in Seq({"audio", "ui", "reset", "clients"})
    BY <1>6, <1>7, Zenon DEF ResetCurrent
  <2> QED
    BY <1>0, <1>7, <2>1, SMT DEF ResetCurrent, TypeOK, FreeMeansDone, EventFound,
                                 pipes, audioReceiver
<1>8. CASE PushAudio
  <2>1. todo' \in Plans /\ todo' \in Seq({"audio", "ui", "reset", "clients"})
    BY <1>6, <1>8, Zenon DEF PushAudio
  <2>2. holder # "none"
    BY <1>0, <1>8, Zenon DEF PushAudio, FreeMeansDone
  <2> QED
    BY <1>0, <1>8, <2>1, <2>2, SMT DEF PushAudio, TypeOK, FreeMeansDone, EventFound,
                                       list, audioReceiver
<1>9. CASE PushUi
  <2>1. todo' \in Plans /\ todo' \in Seq({"audio", "ui", "reset", "clients"})
    BY <1>6, <1>9, Zenon DEF PushUi
  <2>2. holder # "none"
    BY <1>0, <1>9, Zenon DEF PushUi, FreeMeansDone
  <2> QED
    BY <1>0, <1>9, <2>1, <2>2, SMT DEF PushUi, TypeOK, FreeMeansDone, EventFound,
                                       list, audioReceiver
<1>10. CASE Unlock
  BY <1>0, <1>10, SMT DEF Unlock, TypeOK, FreeMeansDone, EventFound,
                          list, pipes, audioReceiver
<1>11. CASE PopUi
  BY <1>0, <1>11, SMT DEF PopUi, TypeOK, FreeMeansDone, EventFound,
                          list, mutex, audioReceiver
<1>12. ASSUME NEW k \in {"up", "down"}, Key(k) PROVE OrderInv'
  BY <1>0, <1>12, SMT DEF Key, TypeOK, FreeMeansDone, EventFound,
                          list, mutex, pipes, audioReceiver
<1>13. ASSUME NEW k \in {"up", "down"}, Move(k) PROVE OrderInv'
  <2>1. todo' \in Plans
    BY <1>0, <1>1, <1>13, Zenon DEF Move
  <2>2. todo' \in Seq({"audio", "ui", "reset", "clients"})
    BY <2>1, PlanType, Zenon
  <2>3. current' \in Station \cup {End} /\ holder' = "menu"
    BY <1>0, <1>13, SMT DEF Move, TypeOK
  <2>4. UNCHANGED <<stations, stale, pipes, menu, audioReceiver>>
    BY <1>13, Zenon DEF Move
  <2> QED
    BY <1>0, <2>1, <2>2, <2>3, <2>4, SMT
       DEF TypeOK, FreeMeansDone, EventFound, pipes, audioReceiver
<1>14. CASE SendToAll
  <2>1. todo' \in Plans /\ todo' \in Seq({"audio", "ui", "reset", "clients"})
    BY <1>6, <1>14, Zenon DEF SendToAll
  <2> QED
    BY <1>0, <1>14, <2>1, SMT DEF SendToAll, TypeOK, FreeMeansDone, EventFound,
                                  list, pipes, audioReceiver
<1>15. CASE Poll
  <2>1. readable' \in BOOLEAN
    BY <1>15, Zenon DEF Poll
  <2>2. audioEvents \in Nat
    BY <1>0, SMT DEF TypeOK
  <2>3. /\ receiver' \in {"polling", "popping", "changing", "reading", "waiting"}
        /\ receiver' = "popping" => audioEvents > 0
    BY <1>15, <2>2, SMT DEF Poll
  <2>4. UNCHANGED <<stations, current, stale, holder, todo, audioEvents, uiEvents,
                    menu, subscribed>>
    BY <1>15, Zenon DEF Poll, list, mutex, pipes
  <2> QED
    BY <1>0, <2>1, <2>3, <2>4, Zenon DEF TypeOK, FreeMeansDone, EventFound
<1>16. CASE PopChange
  BY <1>0, <1>16, SMT DEF PopChange, TypeOK, FreeMeansDone, EventFound,
                          list, mutex, audioReceiver
<1>17. CASE ChangeStation
  <2>1. subscribed' \in Station \cup {End}
    BY <1>0, <1>17, Zenon DEF ChangeStation, TypeOK
  <2>2. receiver' \in {"polling", "reading", "waiting"}
    BY <1>17, Zenon DEF ChangeStation
  <2> QED
    BY <1>0, <1>17, <2>1, <2>2, SMT DEF ChangeStation, TypeOK, FreeMeansDone,
                          EventFound, list, mutex, pipes
<1>18. CASE ReadPacket
  BY <1>0, <1>18, SMT DEF ReadPacket, TypeOK, FreeMeansDone, EventFound,
                          list, mutex, pipes
<1>19. CASE AwaitPacket
  BY <1>0, <1>19, SMT DEF AwaitPacket, TypeOK, FreeMeansDone, EventFound,
                          list, mutex, pipes
<1>20. CASE UNCHANGED vars
  BY <1>0, <1>20, SMT DEF vars, TypeOK, FreeMeansDone, EventFound,
                          list, mutex, pipes, audioReceiver
<1> QED
  BY <1>2, <1>3, <1>4, <1>5, <1>7, <1>8, <1>9, <1>10, <1>11, <1>12, <1>13, <1>14,
     <1>15, <1>16, <1>17, <1>18, <1>19, <1>20, Zenon DEF Next

LEMMA OrderAlways == Spec => []OrderInv
BY InitOrder, NextOrder, PTL DEF Spec

(* The station directory is type correct whatever stations come and go.    *)
THEOREM DirectoryTypeCorrect == Spec => []TypeOK
BY OrderAlways, PTL DEF OrderInv

-----------------------------------------------------------------------------
(* The choice, and what AudioReceiver knows of it.                         *)
ChoiceInv == ResetPending /\ ChangeIsAnnounced

LEMMA InitChoice == Init => ChoiceInv
BY HasNothing, Zenon DEF Init, ChoiceInv, ResetPending, Listed, ChangeIsAnnounced

(* With the mutex free the choice is in the list ...                       *)
LEMMA FreeMeansListed == OrderInv /\ ResetPending /\ holder = "none" => Listed
BY HasNothing, Zenon DEF OrderInv, FreeMeansDone, ResetPending

(* ... and nothing is left to be done.                                     *)
LEMMA FreeMeansNothing == OrderInv /\ holder = "none" => \A x : ~Has(todo, x)
BY HasNothing, Zenon DEF OrderInv, FreeMeansDone

(* Where a step that changes the list or the choice may lead.              *)
LEMMA AddChoice ==
  ASSUME OrderInv, ResetPending, NEW s \in Station, Add(s)
  PROVE  /\ Listed' /\ ~Has(todo', "reset")
         /\ current' # current => Has(todo', "audio")
         /\ current \in stations' => current' = current \/ NameOf[current'] = Prio
         /\ current # End => current \in stations'
<1>1. Listed
  BY FreeMeansListed, Zenon DEF Add
<1>2. /\ Has(<<"audio", "ui">>, "audio") /\ ~Has(<<"audio", "ui">>, "reset")
      /\ ~Has(<<"ui">>, "reset")
  <2>1. "audio" # "reset" /\ "ui" # "reset"
    OBVIOUS
  <2> QED
    BY <2>1, HasOne, HasTwo, Zenon
<1>3. stations' = stations \cup {s} /\ stations' # {}
  BY SMT DEF Add
<1>4. current # End => current \in stations'
  BY <1>1, <1>3, Zenon DEF Listed
<1>5. CASE BecomesCurrent(s)
  <2>1. current' = s /\ todo' = <<"audio", "ui">>
    BY <1>5, Zenon DEF Add
  <2>2. current \in stations' => current' = current \/ NameOf[current'] = Prio
    BY <1>1, <1>3, <1>5, <2>1, Zenon DEF BecomesCurrent, Listed
  <2> QED
    BY <1>2, <1>3, <1>4, <2>1, <2>2, Zenon DEF Listed
<1>6. CASE ~BecomesCurrent(s)
  <2>1. current' = current /\ todo' = <<"ui">>
    BY <1>6, Zenon DEF Add
  <2>2. current \in stations
    BY <1>1, <1>6, Zenon DEF BecomesCurrent, Listed
  <2> QED
    BY <1>2, <1>3, <1>4, <2>1, <2>2, Zenon DEF Listed
<1> QED
  BY <1>5, <1>6, Zenon

LEMMA MoveChoice ==
  ASSUME OrderInv, ResetPending, NEW k, Move(k)
  PROVE  /\ Listed' /\ ~Has(todo', "reset") /\ holder' = "menu"
         /\ current' # current => Has(todo', "audio")
         /\ current # End => current \in stations'
<1>1. Listed
  BY FreeMeansListed, Zenon DEF Move
<1>2. /\ Has(<<"audio", "clients">>, "audio") /\ ~Has(<<"audio", "clients">>, "reset")
      /\ ~Has(<<"clients">>, "reset")
  <2>1. "audio" # "reset" /\ "clients" # "reset"
    OBVIOUS
  <2> QED
    BY <2>1, HasOne, HasTwo, Zenon
<1>3. stations' = stations /\ holder' = "menu"
  BY Zenon DEF Move
<1>4. \/ current' = current /\ todo' = <<"clients">>
      \/ current' \in stations /\ todo' = <<"audio", "clients">>
  BY Zenon DEF Move
<1>5. current # End => current \in stations'
  BY <1>1, <1>3, Zenon DEF Listed
<1>6. Listed'
  BY <1>1, <1>3, <1>4, Zenon DEF Listed
<1> QED
  BY <1>2, <1>3, <1>4, <1>5, <1>6, Zenon

LEMMA ResetPicks ==
  ASSUME OrderInv, ResetPending, ResetCurrent
  PROVE  /\ Listed' /\ ~Has(todo', "reset") /\ Has(todo', "audio")
         /\ current \notin stations'
         /\ \/ current' = End
            \/ NameOf[current'] = Prio
            \/ \A s \in stations' : NameOf[s] # Prio
<1>1. todo \in Plans /\ todo # <<>> /\ Head(todo) = "reset" /\ todo' = Tail(todo)
  BY Zenon DEF OrderInv, ResetCurrent
<1>2. ~Has(todo', "reset") /\ Has(todo', "audio") /\ Has(todo, "reset")
  BY <1>1, PlanTail, Zenon
<1>3. current \notin stations /\ stations' = stations
  BY <1>2, Zenon DEF ResetPending, ResetCurrent
<1>4. ResetChoice(current')
  BY Zenon DEF ResetCurrent
<1>5. CASE stations = {}
  BY <1>2, <1>3, <1>4, <1>5, Zenon DEF ResetChoice, Listed
<1>6. CASE stations # {} /\ {s \in stations : NameOf[s] = Prio} # {}
  <2>1. current' \in {s \in stations : NameOf[s] = Prio}
    BY <1>4, <1>6, Zenon DEF ResetChoice, IsFirst
  <2> QED
    BY <1>2, <1>3, <1>6, <2>1, Zenon DEF Listed
<1>7. CASE stations # {} /\ {s \in stations : NameOf[s] = Prio} = {}
  <2>1. current' \in stations
    BY <1>4, <1>7, Zenon DEF ResetChoice, IsFirst
  <2> QED
    BY <1>2, <1>3, <1>7, <2>1, Zenon DEF Listed
<1> QED
  BY <1>5, <1>6, <1>7, Zenon

LEMMA RemoveChoice ==
  ASSUME OrderInv, ResetPending, RemoveInactive
  PROVE  ResetPending' /\ current' = current
<1>1. Listed /\ current' = current /\ holder' = "remover" /\ stations' = stations \ stale
  BY FreeMeansListed, Zenon DEF RemoveInactive
<1>2. CASE current \in stale
  <2>1. todo' = <<"ui", "reset", "audio">> /\ current' \notin stations'
    BY <1>1, <1>2, Zenon DEF RemoveInactive
  <2>2. Has(todo', "reset") /\ Has(todo', "audio")
    BY <2>1, HasThree, Zenon
  <2> QED
    BY <1>1, <2>1, <2>2, Zenon DEF ResetPending
<1>3. CASE current \notin stale
  <2>1. todo' = <<"ui">> /\ "ui" # "reset"
    BY <1>3, SMT DEF RemoveInactive
  <2>2. ~Has(todo', "reset")
    BY <2>1, HasOne, Zenon
  <2>3. stations # {}
    BY SMT DEF OrderInv, TypeOK, RemoveInactive
  <2>4. current' \in stations'
    BY <1>1, <1>3, <2>3, Zenon DEF Listed
  <2> QED
    BY <1>1, <2>2, <2>4, Zenon DEF ResetPending, Listed
<1> QED
  BY <1>2, <1>3, Zenon

(* A step that leaves the choice and the list to do alone, and tells       *)
(* AudioReceiver of nothing less.                                          *)
LEMMA ChoiceLeftAlone ==
  ASSUME ChoiceInv,
         UNCHANGED <<stations, current, holder, todo, audioEvents, receiver, subscribed>>
  PROVE  ChoiceInv'
BY Zenon DEF ChoiceInv, ResetPending, Listed, ChangeIsAnnounced

LEMMA PushKeepsReset ==
  ASSUME OrderInv, ResetPending, todo # <<>>, todo' = Tail(todo), Head(todo) # "reset",
         UNCHANGED <<stations, current, holder>>
  PROVE  ResetPending'
<1>1. todo \in Plans
  BY Zenon DEF OrderInv
<1>2. /\ Has(todo', "reset") <=> Has(todo, "reset")
      /\ Has(todo, "reset") => Head(todo) # "audio"
  BY <1>1, PlanTail, Zenon
<1>3. Has(todo, "reset") /\ Has(todo, "audio") => Has(todo', "audio")
  BY <1>1, <1>2, PlanTail, Zenon
<1> QED
  BY <1>2, <1>3, Zenon DEF ResetPending, Listed

LEMMA NextChoice == OrderInv /\ ChoiceInv /\ [Next]_vars => ChoiceInv'
<1> SUFFICES ASSUME OrderInv, ChoiceInv, [Next]_vars PROVE ChoiceInv'
  OBVIOUS
<1>0. /\ ResetPending /\ ChangeIsAnnounced /\ todo \in Plans
      /\ audioEvents \in Nat
  BY SMT DEF ChoiceInv, OrderInv, TypeOK
<1>1. ASSUME NEW s \in Station, FallSilent(s) \/ Refresh(s) PROVE ChoiceInv'
  BY <1>1, ChoiceLeftAlone, Zenon DEF FallSilent, Refresh, mutex, pipes, audioReceiver
<1>2. ASSUME NEW s \in Station, Add(s) PROVE ChoiceInv'
  <2>1. ResetPending'
    BY <1>0, <1>2, AddChoice, Zenon DEF ResetPending
  <2>2. UNCHANGED <<audioEvents, receiver, subscribed>>
    BY <1>2, Zenon DEF Add, pipes, audioReceiver
  <2>3. ~Has(todo, "audio") /\ (current' # current => Has(todo', "audio"))
    BY <1>0, <1>2, FreeMeansNothing, AddChoice, Zenon DEF Add
  <2> QED
    BY <1>0, <2>1, <2>2, <2>3, Zenon DEF ChoiceInv, ChangeIsAnnounced
<1>3. CASE RemoveInactive
  <2>1. ResetPending' /\ current' = current
    BY <1>0, <1>3, RemoveChoice, Zenon
  <2>2. UNCHANGED <<audioEvents, receiver, subscribed>> /\ ~Has(todo, "audio")
    BY <1>3, FreeMeansNothing, Zenon DEF RemoveInactive, pipes, audioReceiver
  <2> QED
    BY <1>0, <2>1, <2>2, Zenon DEF ChoiceInv, ChangeIsAnnounced
<1>4. CASE ResetCurrent
  BY <1>0, <1>4, ResetPicks, Zenon DEF ChoiceInv, ResetPending, ChangeIsAnnounced
<1>5. CASE PushAudio
  <2>1. /\ todo # <<>> /\ Head(todo) = "audio" /\ todo' = Tail(todo)
        /\ UNCHANGED <<stations, current, holder, receiver, subscribed>>
    BY <1>5, Zenon DEF PushAudio, list, audioReceiver
  <2>2. audioEvents' > 0 /\ "audio" # "reset"
    BY <1>0, <1>5, SMT DEF PushAudio
  <2>3. ResetPending'
    BY <1>0, <2>1, <2>2, PushKeepsReset, Zenon
  <2> QED
    BY <2>2, <2>3, Zenon DEF ChoiceInv, ChangeIsAnnounced
<1>6. CASE PushUi
  <2>1. /\ todo # <<>> /\ Head(todo) = "ui" /\ todo' = Tail(todo)
        /\ UNCHANGED <<stations, current, holder, audioEvents, receiver, subscribed>>
    BY <1>6, Zenon DEF PushUi, list, audioReceiver
  <2>2. "ui" # "reset" /\ "ui" # "audio"
    OBVIOUS
  <2>3. ResetPending'
    BY <1>0, <2>1, <2>2, PushKeepsReset, Zenon
  <2>4. Has(todo, "audio") => Has(todo', "audio")
    BY <1>0, <2>1, <2>2, PlanTail, Zenon
  <2> QED
    BY <1>0, <2>1, <2>3, <2>4, Zenon DEF ChoiceInv, ChangeIsAnnounced
<1>7. CASE Unlock
  <2>1. ~Has(todo, "reset") /\ UNCHANGED todo
    BY <1>7, HasNothing, Zenon DEF Unlock
  <2> QED
    BY <1>0, <1>7, <2>1, Zenon DEF Unlock, list, pipes, audioReceiver,
       ChoiceInv, ResetPending, Listed, ChangeIsAnnounced
<1>8. CASE PopUi
  BY <1>8, ChoiceLeftAlone, Zenon DEF PopUi, list, mutex, audioReceiver
<1>9. ASSUME NEW k \in {"up", "down"}, Key(k) PROVE ChoiceInv'
  BY <1>9, ChoiceLeftAlone, Zenon DEF Key, list, mutex, pipes, audioReceiver
<1>10. ASSUME NEW k \in {"up", "down"}, Move(k) PROVE ChoiceInv'
  <2>1. ResetPending'
    BY <1>0, <1>10, MoveChoice, Zenon DEF ResetPending
  <2>2. UNCHANGED <<audioEvents, receiver, subscribed>>
    BY <1>10, Zenon DEF Move, pipes, audioReceiver
  <2>3. ~Has(todo, "audio") /\ (current' # current => Has(todo', "audio"))
    BY <1>0, <1>10, FreeMeansNothing, MoveChoice, Zenon DEF Move
  <2> QED
    BY <1>0, <2>1, <2>2, <2>3, Zenon DEF ChoiceInv, ChangeIsAnnounced
<1>11. CASE SendToAll
  <2>1. /\ todo # <<>> /\ Head(todo) = "clients" /\ todo' = Tail(todo)
        /\ UNCHANGED <<stations, current, holder, audioEvents, receiver, subscribed>>
    BY <1>11, Zenon DEF SendToAll, list, pipes, audioReceiver
  <2>2. "clients" # "reset" /\ "clients" # "audio"
    OBVIOUS
  <2>3. ResetPending'
    BY <1>0, <2>1, <2>2, PushKeepsReset, Zenon
  <2>4. Has(todo, "audio") => Has(todo', "audio")
    BY <1>0, <2>1, <2>2, PlanTail, Zenon
  <2> QED
    BY <1>0, <2>1, <2>3, <2>4, Zenon DEF ChoiceInv, ChangeIsAnnounced
<1>12. ASSUME receiver # "changing",
              UNCHANGED <<stations, current, holder, todo, audioEvents, subscribed>>
       PROVE  ChoiceInv'
  BY <1>0, <1>12, Zenon DEF ChoiceInv, ResetPending, Listed, ChangeIsAnnounced
<1>13. CASE Poll
  <2>1. receiver # "changing"
    BY <1>13, SMT DEF Poll
  <2> QED
    BY <1>12, <1>13, <2>1, Zenon DEF Poll, list, mutex, pipes
<1>14. CASE PopChange
  <2>1. /\ UNCHANGED <<stations, current, holder, todo>> /\ receiver' = "changing"
    BY <1>14, Zenon DEF PopChange, list, mutex
  <2> QED
    BY <1>0, <2>1, Zenon DEF ChoiceInv, ResetPending, Listed, ChangeIsAnnounced
<1>15. CASE ChangeStation
  <2>1. Listed
    BY <1>0, <1>15, FreeMeansListed, Zenon DEF ChangeStation
  <2>2. subscribed' = current
    BY <1>15, <2>1, Zenon DEF ChangeStation, Listed
  <2>3. UNCHANGED <<stations, current, holder, todo>>
    BY <1>15, Zenon DEF ChangeStation, list, mutex
  <2> QED
    BY <1>0, <2>2, <2>3, Zenon DEF ChoiceInv, ResetPending, Listed, ChangeIsAnnounced
<1>16. CASE ReadPacket \/ AwaitPacket
  <2>1. receiver # "changing"
    BY <1>16, SMT DEF ReadPacket, AwaitPacket
  <2> QED
    BY <1>12, <1>16, <2>1, Zenon DEF ReadPacket, AwaitPacket, list, mutex, pipes
<1>17. CASE UNCHANGED vars
  BY <1>17, ChoiceLeftAlone, Zenon DEF vars, list, mutex, pipes, audioReceiver
<1> QED
  BY <1>1, <1>2, <1>3, <1>4, <1>5, <1>6, <1>7, <1>8, <1>9, <1>10, <1>11, <1>13,
     <1>14, <1>15, <1>16, <1>17, Zenon DEF Next

LEMMA ChoiceAlways == Spec => [](OrderInv /\ ChoiceInv)
BY OrderAlways, InitChoice, NextChoice, PTL DEF Spec

(* Whoever gets the list's mutex finds the current station in the list, or *)
(* no station at all.                                                      *)
THEOREM CurrentStaysListed == Spec => []CurrentIsListed
<1>1. OrderInv /\ ChoiceInv => CurrentIsListed
  BY FreeMeansListed, Zenon DEF ChoiceInv, CurrentIsListed
<1> QED
  BY <1>1, ChoiceAlways, PTL

(* AudioReceiver is told of every change it has not followed yet.          *)
THEOREM ChangesAreAnnounced == Spec => []ChangeIsAnnounced
BY ChoiceAlways, PTL DEF ChoiceInv

(* A listed station is only left for a key or a favourite, and one that is *)
(* removed is replaced by a favourite if there is any.                     *)
THEOREM ChoicesAreJustified == Spec => ChoiceIsJustified
<1> DEFINE Justified ==
      /\ current' # current /\ current \in stations'
          => holder' = "menu" \/ NameOf[current'] = Prio
      /\ current' # current /\ current # End /\ current \notin stations'
          => \/ current' = End
             \/ NameOf[current'] = Prio
             \/ \A s \in stations' : NameOf[s] # Prio
<1>1. ASSUME OrderInv, ChoiceInv, [Next]_vars PROVE Justified \/ UNCHANGED vars
  <2>0. ResetPending
    BY <1>1, Zenon DEF ChoiceInv
  <2>1. ASSUME current' = current PROVE Justified
    BY <2>1, Zenon
  <2>2. ASSUME NEW s \in Station, Add(s) PROVE Justified
    BY <1>1, <2>0, <2>2, AddChoice, Zenon
  <2>3. ASSUME NEW k \in {"up", "down"}, Move(k) PROVE Justified
    BY <1>1, <2>0, <2>3, MoveChoice, Zenon
  <2>4. CASE ResetCurrent
    BY <1>1, <2>0, <2>4, ResetPicks, Zenon
  <2> HIDE DEF Justified
  <2> QED
    BY <1>1, <2>1, <2>2, <2>3, <2>4, Zenon
       DEF Next, FallSilent, Refresh, RemoveInactive, PushAudio, PushUi, Unlock, PopUi,
           Key, SendToAll, Poll, PopChange, ChangeStation, ReadPacket, AwaitPacket, list
<1> QED
  BY <1>1, ChoiceAlways, PTL DEF Spec, ChoiceIsJustified
=============================================================================
