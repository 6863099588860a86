-------------------------- MODULE Playback_proofs --------------------------
(***************************************************************************)
(* Theorems about the audio path of the receiver.                          *)
(***************************************************************************)
EXTENDS Playback, CircularBuffer_proofs

(* What the assumptions say of packets and of the pipe, one fact each.     *)
LEMMA PacketNum ==
  \A q \in Packet : q.num \in Nat /\ q.session \in Session
BY PlaybackAssumption, SMT DEF Packet

LEMMA PacketSession ==
  \A q \in Packet : q.session \in Nat \ {0} /\ PSize[q.session] \in Nat \ {0}
<1>1. Session \subseteq Nat \ {0} /\ PSize \in [Session -> Nat \ {0}]
  BY PlaybackAssumption, Zenon DEF NO_SESSION
<1> QED
  BY <1>1, PacketNum, Zenon

LEMMA PipeCapNat == PipeCap \in Nat \ {0}
BY PlaybackAssumption, Zenon

LEMMA InitType == Init => TypeOK
<1> SUFFICES ASSUME Init PROVE TypeOK
  OBVIOUS
<1>1. RingType(NewBuffer, Packet)
  BY RingAssumption, SMT DEF NewBuffer, Clean, RingType
<1>2. jobs \in 0 .. PipeCap
  BY PipeCapNat, SMT DEF Init
<1> QED
  BY <1>1, <1>2, Zenon DEF Init, TypeOK

LEMMA NextType == TypeOK /\ [Next]_vars => TypeOK'
<1> SUFFICES ASSUME TypeOK, [Next]_vars PROVE TypeOK'
  OBVIOUS
<1> USE DEF TypeOK
<1>1. CASE ChangeStation
  BY <1>1, SMT DEF ChangeStation
<1>2. ASSUME NEW p \in Packet, Ignore(p)
      PROVE  TypeOK'
  BY <1>2, SMT DEF Ignore
<1>3. ASSUME NEW p \in Packet, NewSession(p)
      PROVE  TypeOK'
  <2>1. PSize[p.session] \in Nat \ {0} /\ p.num \in Nat /\ p.session \in Session
    BY PacketNum, PacketSession, Zenon
  <2>2. RingType(buf', Packet)
    BY <1>3, <2>1, ResetAtType, Zenon DEF NewSession
  <2> QED
    BY <1>3, <2>1, <2>2, Zenon DEF NewSession
<1>4. ASSUME NEW p \in Packet, SameSession(p)
      PROVE  TypeOK'
  BY <1>4, SMT DEF SameSession
<1>5. CASE IgnoreLate
  BY <1>5, SMT DEF IgnoreLate
<1>6. CASE Put
  <2>1. held \in Packet
    BY <1>6, SMT DEF Put
  <2>2. RingType(buf', Packet)
    BY <1>6, <2>1, PacketNum, TryPutType, Zenon DEF Put
  <2> QED
    BY <1>6, <2>2, SMT DEF Put
<1>7. CASE PushJob
  <2>1. jobs' \in 0 .. PipeCap
    BY <1>7, PipeCapNat, SMT DEF PushJob
  <2> QED
    BY <1>7, <2>1, Zenon DEF PushJob
<1>8. CASE Pop
  BY <1>8, PipeCapNat, SMT DEF Pop, receiver
<1>9. CASE Dump
  <2>1. RingType(buf', Packet)
    BY <1>9, DumpTailType, Zenon DEF Dump
  <2> QED
    BY <1>9, <2>1, Zenon DEF Dump, receiver
<1>10. CASE UNCHANGED vars
  BY <1>10, SMT DEF vars, receiver
<1> QED
  BY <1>1, <1>2, <1>3, <1>4, <1>5, <1>6, <1>7, <1>8, <1>9, <1>10, Zenon
     DEF Next, Receive

(* The audio path is type correct whatever packets arrive.                 *)
THEOREM TypeCorrect == Spec => []TypeOK
<1>1. Init => TypeOK
  BY InitType
<1>2. TypeOK /\ [Next]_vars => TypeOK'
  BY NextType
<1> QED
  BY <1>1, <1>2, PTL DEF Spec

-----------------------------------------------------------------------------
(***************************************************************************)
(* The ring holds one session and nothing from before its BYTE0.  What has *)
(* to be added for induction is that the packet AudioReceiver works on     *)
(* belongs to the session it thinks it is in.                              *)
(***************************************************************************)
HeldIsCurrent ==
  held # NoPacket => held.session = curSession /\ curSession # NO_SESSION

AnyInv == OneSession /\ NothingBeforeByte0 /\ HeldIsCurrent

(* A step after which every slot is free or as before, with BYTE0 and      *)
(* cur_session as before, keeps the ring's part of the invariant.          *)
LEMMA FreeingKeepsRing ==
  ASSUME OneSession, NothingBeforeByte0, curSession' \in {curSession, NO_SESSION},
         buf'.byte0 = buf.byte0,
         \A i \in DOMAIN buf'.slot :
           \/ buf'.slot[i] = Zero
           \/ i \in DOMAIN buf.slot /\ buf'.slot[i] = buf.slot[i]
  PROVE  OneSession' /\ NothingBeforeByte0'
BY Zenon DEF OneSession, NothingBeforeByte0, Occupied

LEMMA InitAny == Init => AnyInv
BY SMT DEF Init, AnyInv, OneSession, NothingBeforeByte0, HeldIsCurrent,
           NewBuffer, Clean, Occupied

LEMMA NextAny == TypeOK /\ AnyInv /\ [Next]_vars => AnyInv'
<1> SUFFICES ASSUME TypeOK, AnyInv, [Next]_vars PROVE AnyInv'
  OBVIOUS
<1> USE DEF AnyInv
<1>0. RingType(buf, Packet) /\ NoPacket \notin Packet
  BY PlaybackAssumption, Zenon DEF TypeOK
<1>1. ASSUME UNCHANGED buf, curSession' \in {curSession, NO_SESSION}
      PROVE  OneSession' /\ NothingBeforeByte0'
  BY <1>1, Zenon DEF OneSession, NothingBeforeByte0, Occupied
<1>2. CASE ChangeStation
  BY <1>1, <1>2, Zenon DEF ChangeStation, Polling, HeldIsCurrent
<1>3. ASSUME NEW p \in Packet, Ignore(p)
      PROVE  AnyInv'
  BY <1>1, <1>3, Zenon DEF Ignore, Polling, HeldIsCurrent
<1>4. ASSUME NEW p \in Packet, NewSession(p)
      PROVE  AnyInv'
  <2>1. \A i \in DOMAIN buf'.slot : buf'.slot[i] = Zero
    BY <1>4, SMT DEF NewSession, ResetAt, Clean
  <2>2. OneSession' /\ NothingBeforeByte0'
    BY <2>1, Zenon DEF OneSession, NothingBeforeByte0, Occupied
  <2>3. p.session # NO_SESSION
    BY PacketSession, SMT DEF NO_SESSION
  <2> QED
    BY <1>4, <2>2, <2>3, Zenon DEF NewSession, HeldIsCurrent
<1>5. ASSUME NEW p \in Packet, SameSession(p)
      PROVE  AnyInv'
  <2>1. p.session # NO_SESSION
    BY PacketSession, SMT DEF NO_SESSION
  <2> QED
    BY <1>1, <1>5, <2>1, Zenon DEF SameSession, HeldIsCurrent
<1>6. CASE IgnoreLate
  BY <1>1, <1>6, Zenon DEF IgnoreLate, HeldIsCurrent
<1>7. CASE Put
  <2>1. held \in Packet /\ held.session = curSession /\ curSession # NO_SESSION
    BY <1>7, Zenon DEF Put, HeldIsCurrent, TypeOK
  <2>2. buf' = TryPut(buf, held) /\ held.num >= buf.byte0
    BY <1>7, Zenon DEF Put
  <2>3. /\ buf'.byte0 = buf.byte0
        /\ \A i \in DOMAIN buf'.slot :
             \/ buf'.slot[i] = Zero
             \/ buf'.slot[i] = held
             \/ i \in DOMAIN buf.slot /\ buf'.slot[i] = buf.slot[i]
    <3>1. held.num \in Nat
      BY <2>1, PacketNum, Zenon
    <3>2. /\ TryPut(buf, held).byte0 = buf.byte0
          /\ \A i \in DOMAIN TryPut(buf, held).slot :
               \/ TryPut(buf, held).slot[i] = Zero
               \/ TryPut(buf, held).slot[i] = held
               \/ /\ i \in DOMAIN buf.slot
                  /\ TryPut(buf, held).slot[i] = buf.slot[i]
      BY <1>0, <2>1, <3>1, TryPutSlots, SMT
    <3> QED
      BY <2>2, <3>2
  <2>4. \A i \in DOMAIN buf'.slot :
          Occupied(buf', i) => /\ buf'.slot[i].session = curSession
                               /\ buf'.slot[i].num >= buf.byte0
    BY <2>1, <2>2, <2>3, Zenon DEF OneSession, NothingBeforeByte0, Occupied
  <2>5. curSession' = curSession
    BY <1>7 DEF Put
  <2>6. OneSession' /\ NothingBeforeByte0'
    BY <2>3, <2>4, <2>5, Zenon DEF OneSession, NothingBeforeByte0
  <2> QED
    BY <1>7, <2>6, Zenon DEF Put, HeldIsCurrent
<1>8. CASE PushJob
  BY <1>1, <1>8, Zenon DEF PushJob, HeldIsCurrent
<1>9. CASE Pop
  BY <1>1, <1>9, Zenon DEF Pop, receiver, HeldIsCurrent
<1>10. CASE Dump
  <2>1. buf' = DumpTail(buf) /\ UNCHANGED receiver
    BY <1>10 DEF Dump
  <2>2. /\ buf'.byte0 = buf.byte0
        /\ \A i \in DOMAIN buf'.slot :
             \/ buf'.slot[i] = Zero
             \/ i \in DOMAIN buf.slot /\ buf'.slot[i] = buf.slot[i]
    BY <1>0, <2>1, DumpTailSlots, Zenon
  <2>3. UNCHANGED <<curSession, held>>
    BY <2>1 DEF receiver
  <2> QED
    BY <2>2, <2>3, FreeingKeepsRing, Zenon DEF HeldIsCurrent
<1>11. CASE UNCHANGED vars
  BY <1>1, <1>11, Zenon DEF vars, receiver, HeldIsCurrent
<1> QED
  BY <1>2, <1>3, <1>4, <1>5, <1>6, <1>7, <1>8, <1>9, <1>10, <1>11, Zenon
     DEF Next, Receive

(* The ring never mixes sessions, however packets of several sessions, the *)
(* player and changes of station interleave.                               *)
THEOREM RingHoldsOneSession == Spec => []OneSession
<1>1. Init => AnyInv
  BY InitAny
<1>2. TypeOK /\ AnyInv /\ [Next]_vars => AnyInv'
  BY NextAny
<1>3. AnyInv => OneSession
  BY DEF AnyInv
<1> QED
  BY <1>1, <1>2, <1>3, TypeCorrect, PTL DEF Spec

(* Nothing older than the first packet of the session is in the ring.      *)
THEOREM RingStartsAtByte0 == Spec => []NothingBeforeByte0
<1>1. Init => AnyInv
  BY InitAny
<1>2. TypeOK /\ AnyInv /\ [Next]_vars => AnyInv'
  BY NextAny
<1>3. AnyInv => NothingBeforeByte0
  BY DEF AnyInv
<1> QED
  BY <1>1, <1>2, <1>3, TypeCorrect, PTL DEF Spec

-----------------------------------------------------------------------------
(***************************************************************************)
(* Every operation leaves the cursors inside the ring.  The ring being as  *)
(* long as its packet size says is what starting it over relies on.        *)
(***************************************************************************)
RingFits(b) == CursorsInRing(b) /\ (b.n > 0 => b.n = RoundedCap(b.psize))

LEMMA BrokenFits ==
  ASSUME NEW b, RingType(b, Packet), RingFits(b), NEW f
  PROVE  RingFits(Broken(b, f))
<1>1. /\ Broken(b, f).n = b.n /\ Broken(b, f).psize = b.psize
      /\ Broken(b, f).tail = b.tail /\ Broken(b, f).head = b.head
  BY SMT DEF RingType, Broken
<1> QED
  BY <1>1, Zenon DEF RingFits, CursorsInRing

LEMMA PushAtFits ==
  ASSUME NEW b, RingType(b, Packet), RingFits(b), NEW p \in Packet,
         NEW off \in Nat, off < b.n
  PROVE  RingFits(PushAt(b, p, off))
<1>1. b.n \in Nat \ {0} /\ b.tail \in Nat /\ b.head \in Nat
  BY RingFields, SMT
<1>2. ASSUME NEW x \in Nat PROVE x % b.n \in 0 .. b.n - 1
  BY <1>1, ModRange
<1>3. b.head + off + 1 \in Nat
  BY <1>1, SMT
<1>4. NewHead(b, off) \in 0 .. b.n - 1
  BY <1>2, <1>3, Zenon DEF NewHead
<1>5. NewHead(b, off) + 1 \in Nat
  BY <1>1, <1>4, SMT
<1>6. PushedTail(b, off) \in 0 .. b.n - 1 \/ PushedTail(b, off) = b.tail
  BY <1>2, <1>5, Zenon DEF PushedTail
<1>7. /\ PushAt(b, p, off).n = b.n /\ PushAt(b, p, off).psize = b.psize
      /\ PushAt(b, p, off).head = NewHead(b, off)
      /\ PushAt(b, p, off).tail = PushedTail(b, off)
  BY Zenon DEF PushAt, Moved
<1> QED
  BY <1>4, <1>6, <1>7, Zenon DEF RingFits, CursorsInRing

LEMMA PushAfreshFits ==
  ASSUME NEW b, RingType(b, Packet), RingFits(b), b.n <= 1, NEW p
  PROVE  RingFits(PushAfresh(b, p))
<1>1. b.n \in Nat /\ (b.n = 0 \/ (b.n = 1 /\ RoundedCap(b.psize) = 1))
  BY RingFields, SMT DEF RingFits
<1>2. CASE b.n = 0
  BY <1>2, BrokenFits, Zenon DEF PushAfresh
<1>3. CASE b.n = 1 /\ RoundedCap(b.psize) = 1
  <2>1. b.n # 0
    BY <1>3, SMT
  <2>2. PushAfresh(b, p).n = 1 /\ PushAfresh(b, p).psize = b.psize
    BY <1>3, <2>1, Zenon DEF PushAfresh, Moved, Reset, Clean
  <2> QED
    BY <1>3, <2>2, SMT DEF RingFits, CursorsInRing
<1> QED
  BY <1>1, <1>2, <1>3

LEMMA TryPutFits ==
  ASSUME NEW b, RingType(b, Packet), RingFits(b), NEW p \in Packet
  PROVE  RingFits(TryPut(b, p))
<1>1. b.n \in Nat /\ b.absHead \in Nat /\ p.num \in Nat
  BY RingFields, PacketNum, Zenon
<1>2. RingFits(FillGap(b, p))
  <2>1. ASSUME NEW slot
        PROVE  RingFits(Moved(b, b.absHead, b.tail, b.head, slot, FALSE))
    BY Zenon DEF Moved, RingFits, CursorsInRing
  <2> QED
    BY <2>1, BrokenFits, Zenon DEF FillGap
<1>3. ASSUME p.num >= b.absHead
      PROVE  RingFits(TryPushHead(b, p))
  <2> DEFINE off == p.num - b.absHead
  <2>1. off \in Nat
    BY <1>1, <1>3, SMT
  <2> HIDE DEF off
  <2>2. CASE off > 1
    BY <2>2, Zenon DEF TryPushHead, off
  <2>3. CASE ~(off > 1) /\ off >= b.n
    <3>1. b.n <= 1
      BY <1>1, <2>1, <2>3, SMT
    <3> QED
      BY <2>3, <3>1, PushAfreshFits, Zenon DEF TryPushHead, off
  <2>4. CASE ~(off > 1) /\ ~(off >= b.n)
    <3>1. off < b.n
      BY <1>1, <2>1, <2>4, SMT
    <3>2. RingFits(PushAt(b, p, off))
      BY <2>1, <3>1, PushAtFits
    <3> QED
      BY <2>4, <3>2, Zenon DEF TryPushHead, off
  <2> QED
    BY <2>2, <2>3, <2>4
<1> QED
  BY <1>2, <1>3, Zenon DEF TryPut

LEMMA DumpTailFits ==
  ASSUME NEW b, RingType(b, Packet), RingFits(b)
  PROVE  RingFits(DumpTail(b))
<1>1. CASE b.n = 0
  BY <1>1, BrokenFits, Zenon DEF DumpTail
<1>2. CASE b.n # 0
  <2>1. b.n \in Nat \ {0} /\ b.tail + 1 \in Nat
    BY <1>2, RingFields, SMT
  <2>2. (b.tail + 1) % b.n \in 0 .. b.n - 1
    BY <2>1, ModRange
  <2>3. /\ DumpTail(b).n = b.n /\ DumpTail(b).psize = b.psize
        /\ DumpTail(b).head = b.head /\ DumpTail(b).tail = (b.tail + 1) % b.n
    BY <1>2, Zenon DEF DumpTail, Moved
  <2> QED
    BY <2>2, <2>3, Zenon DEF RingFits, CursorsInRing
<1> QED
  BY <1>1, <1>2

LEMMA ResetAtFits ==
  ASSUME NEW psize \in Nat \ {0}, NEW k \in Nat
  PROVE  RingFits(ResetAt(psize, k))
<1>1. /\ ResetAt(psize, k).n = RoundedCap(psize) /\ ResetAt(psize, k).psize = psize
      /\ ResetAt(psize, k).tail = 0 /\ ResetAt(psize, k).head = 0
  BY Zenon DEF ResetAt, Clean
<1>2. RoundedCap(psize) \in Int
  BY CapBound, RingAssumption, SMT
<1>3. RoundedCap(psize) >= 2 => 0 \in 0 .. RoundedCap(psize) - 1
  BY <1>2, SMT
<1> QED
  BY <1>1, <1>3, Zenon DEF RingFits, CursorsInRing

(* Whatever arrives, no cursor of a ring of two slots or more leaves it.   *)
THEOREM CursorsNeverLeave == Spec => []CursorsStayInRing
<1>1. Init => RingFits(buf)
  BY SMT DEF Init, NewBuffer, Clean, RingFits, CursorsInRing
<1>2. TypeOK /\ RingFits(buf) /\ [Next]_vars => RingFits(buf)'
  <2> SUFFICES ASSUME TypeOK, RingFits(buf), [Next]_vars PROVE RingFits(buf')
    OBVIOUS
  <2>0. RingType(buf, Packet)
    BY DEF TypeOK
  <2>1. ASSUME NEW p \in Packet, NewSession(p) PROVE RingFits(buf')
    <3>1. PSize[p.session] \in Nat \ {0} /\ p.num \in Nat
      BY PacketNum, PacketSession, Zenon
    <3> QED
      BY <2>1, <3>1, ResetAtFits, Zenon DEF NewSession
  <2>2. CASE Put
    <3>1. held \in Packet
      BY <2>2, Zenon DEF Put, TypeOK
    <3> QED
      BY <2>0, <2>2, <3>1, TryPutFits, Zenon DEF Put
  <2>3. CASE Dump
    BY <2>0, <2>3, DumpTailFits, Zenon DEF Dump
  <2>4. CASE UNCHANGED buf
    BY <2>4
  <2> QED
    BY <2>1, <2>2, <2>3, <2>4, Zenon
       DEF Next, Receive, ChangeStation, Ignore, SameSession, IgnoreLate,
           PushJob, Pop, vars
<1>3. RingFits(buf) => CursorsStayInRing
  BY DEF RingFits, CursorsStayInRing
<1> QED
  BY <1>1, <1>2, <1>3, TypeCorrect, PTL DEF Spec

(* A session gives way only to a newer one, or to none.                    *)
THEOREM SessionsNeverGoBack == Spec => SessionsGoForward
<1>1. ASSUME TypeOK, [Next]_vars, curSession' < curSession
      PROVE  curSession' = NO_SESSION
  <2>1. curSession \in Nat
    BY <1>1, PlaybackAssumption, SMT DEF TypeOK, NO_SESSION
  <2>2. CASE curSession' = curSession
    BY <1>1, <2>1, <2>2, SMT
  <2>3. ASSUME NEW p \in Packet, NewSession(p) PROVE FALSE
    <3>1. p.session \in Nat /\ p.session = curSession' /\ p.session > curSession
      BY <2>3, PacketSession, SMT DEF NewSession
    <3> QED
      BY <1>1, <2>1, <3>1, SMT
  <2>4. ASSUME NEW p \in Packet, Receive(p)
        PROVE  curSession' = NO_SESSION
    BY <2>2, <2>3, <2>4, Zenon DEF Receive, Ignore, SameSession
  <2> QED
    BY <1>1, <2>2, <2>4, Zenon
       DEF Next, ChangeStation, IgnoreLate, Put, PushJob, Pop, Dump, vars, receiver
<1>2. TypeOK /\ [Next]_vars => [curSession' < curSession => curSession' = NO_SESSION]_vars
  BY <1>1
<1> QED
  BY <1>2, TypeCorrect, PTL DEF Spec, SessionsGoForward

-----------------------------------------------------------------------------
(***************************************************************************)
(* Theorems about the audio path in the orderly environment, SteadySpec.   *)
(***************************************************************************)
(***************************************************************************)
(* The inductive invariant.  That the ring stays sound needs the packet    *)
(* AudioReceiver works on to be the next or the next but one; that an      *)
(* event always has a packet needs room in the ring for that packet; that  *)
(* nothing is played early needs has_printed to say what arrived.          *)
(***************************************************************************)
RingInOrder == buf = NewBuffer \/ Sound(buf)

HeldFits ==
  held # NoPacket =>
    /\ ~pushing
    /\ held.num >= buf.byte0 =>
         /\ Sound(buf)
         /\ held.num \in buf.absHead .. buf.absHead + 1
         /\ Owed + 2 <= buf.n

ThresholdPassed == buf.absHead * buf.psize - 1 >= PrintingThreshold(buf)

PrintedInTime ==
  /\ Owed > 0 => hasPrinted
  /\ hasPrinted => ThresholdPassed

SteadyInv == RingInOrder /\ HeldFits /\ JobsCovered /\ PrintedInTime

-----------------------------------------------------------------------------
LEMMA OneOf == \A x : (x => One(x) = 1) /\ (~x => One(x) = 0)
BY Zenon DEF One

LEMMA OneRange == \A x : One(x) \in Nat /\ One(x) <= 1
<1> TAKE x
<1>1. One(x) = 0 \/ One(x) = 1
  BY OneOf, Zenon
<1> QED
  BY <1>1, SMT

LEMMA OwedNat == TypeOK => Owed \in Nat
<1> SUFFICES ASSUME TypeOK PROVE Owed \in Nat
  OBVIOUS
<1>1. jobs \in Nat
  BY PipeCapNat, SMT DEF TypeOK
<1>2. One(printing) \in Nat /\ One(pushing) \in Nat
  BY OneRange
<1> QED
  BY <1>1, <1>2, SMT DEF Owed

(* The events in hand or in the pipe, step by step.                        *)
LEMMA OwedSteps ==
  ASSUME TypeOK
  PROVE  /\ PushJob => Owed' = Owed
         /\ Pop => Owed' = Owed
         /\ Dump => Owed' = Owed - 1 /\ Owed > 0
         /\ Put /\ ~pushing => Owed' = Owed + One(hasPrinted')
         /\ UNCHANGED <<jobs, printing, pushing>> => Owed' = Owed
<1>1. jobs \in Nat
  BY PipeCapNat, SMT DEF TypeOK
<1>2. One(printing) \in Nat /\ One(pushing) \in Nat /\ One(hasPrinted') \in Nat
  BY OneRange
<1>3. ASSUME PushJob PROVE Owed' = Owed
  <2>1. jobs' = jobs + 1 /\ printing' = printing /\ One(pushing) = 1 /\ One(pushing') = 0
    BY <1>3, OneOf DEF PushJob, TypeOK
  <2> QED
    BY <1>1, <1>2, <2>1, SMT DEF Owed
<1>4. ASSUME Pop PROVE Owed' = Owed
  <2>1. /\ jobs' = jobs - 1 /\ pushing' = pushing
        /\ One(printing) = 0 /\ One(printing') = 1
    BY <1>4, OneOf DEF Pop, TypeOK, receiver
  <2> QED
    BY <1>1, <1>2, <2>1, SMT DEF Owed
<1>5. ASSUME Dump PROVE Owed' = Owed - 1 /\ Owed > 0
  <2>1. /\ jobs' = jobs /\ pushing' = pushing
        /\ One(printing) = 1 /\ One(printing') = 0
    BY <1>5, OneOf DEF Dump, TypeOK, receiver
  <2> QED
    BY <1>1, <1>2, <2>1, SMT DEF Owed
<1>6. ASSUME Put, ~pushing PROVE Owed' = Owed + One(hasPrinted')
  <2>1. /\ jobs' = jobs /\ printing' = printing
        /\ One(pushing) = 0 /\ One(pushing') = One(hasPrinted')
    BY <1>6, OneOf DEF Put, TypeOK
  <2> QED
    BY <1>1, <1>2, <2>1, SMT DEF Owed
<1>7. ASSUME UNCHANGED <<jobs, printing, pushing>> PROVE Owed' = Owed
  BY <1>7, Zenon DEF Owed
<1> QED
  BY <1>3, <1>4, <1>5, <1>6, <1>7, Zenon

-----------------------------------------------------------------------------
(* What a ring in order is like, sound or not yet set up.                  *)
LEMMA InOrder ==
  ASSUME TypeOK, RingInOrder
  PROVE  /\ NoFault /\ AllAligned
         /\ buf.absHead \in Nat /\ buf.psize \in Nat /\ buf.n \in Nat
         /\ RangeOf(buf) \in Nat /\ AbsTail(buf) \in Nat
<1>1. RingType(buf, Packet)
  BY DEF TypeOK
<1>2. CASE Sound(buf)
  <2>1. RangeOf(buf) \in Nat /\ AbsTail(buf) \in Nat
    BY <1>1, <1>2, SoundRange, RingFields, SMT
  <2> QED
    BY <1>1, <1>2, <2>1, RingFields, Zenon DEF Sound, NoFault, AllAligned
<1>3. CASE buf = NewBuffer
  <2>1. RangeOf(buf) = 0 /\ AbsTail(buf) = 0
    BY <1>3, SMT DEF NewBuffer, Clean, RangeOf, AbsTail, Minus
  <2>2. NoFault /\ AllAligned
    BY <1>3, SMT DEF NewBuffer, Clean, NoFault, AllAligned, Aligned, Occupied
  <2> QED
    BY <1>1, <2>1, <2>2, RingFields, SMT
<1> QED
  BY <1>2, <1>3 DEF RingInOrder

(* Multiplication is monotone; a packet's last byte.                       *)
LEMMA Monotone ==
  ASSUME NEW a \in Nat, NEW b \in Nat, NEW c \in Nat, a <= b
  PROVE  a * c <= b * c
BY SMT

LEMMA LastByte ==
  ASSUME NEW a \in Nat, NEW c \in Nat
  PROVE  a * c + c - 1 = (a + 1) * c - 1
BY SMT

-----------------------------------------------------------------------------
LEMMA InitSteady == Init => SteadyInv
<1> SUFFICES ASSUME Init PROVE SteadyInv
  OBVIOUS
<1>1. Owed = 0
  BY OneOf, SMT DEF Init, Owed
<1>2. RangeOf(buf) = 0
  BY SMT DEF Init, NewBuffer, Clean, RangeOf
<1>3. JobsCovered
  BY <1>1, <1>2, SMT DEF JobsCovered
<1>4. RingInOrder /\ HeldFits
  BY Zenon DEF Init, RingInOrder, HeldFits
<1>5. PrintedInTime
  BY <1>1, SMT DEF Init, PrintedInTime
<1> QED
  BY <1>3, <1>4, <1>5 DEF SteadyInv

LEMMA SteadyIsNext == [SteadyNext]_vars => [Next]_vars
BY Zenon DEF SteadyNext, Next

(* A step that leaves the ring, the events and has_printed alone.          *)
LEMMA QuietStep ==
  ASSUME SteadyInv, UNCHANGED <<buf, hasPrinted>>, Owed' = Owed,
         held' = NoPacket \/ UNCHANGED <<held, pushing>>
  PROVE  SteadyInv'
<1>1. RingInOrder' /\ JobsCovered' /\ PrintedInTime'
  BY Zenon DEF SteadyInv, RingInOrder, JobsCovered, PrintedInTime, ThresholdPassed
<1>2. HeldFits'
  BY Zenon DEF SteadyInv, HeldFits
<1> QED
  BY <1>1, <1>2 DEF SteadyInv

(* The first packet of a new session.                                      *)
LEMMA NewSessionSteady ==
  ASSUME TypeOK, SteadyInv, NEW p \in Packet, Orderly(p), NewSession(p)
  PROVE  SteadyInv'
<1>1. /\ PSize[p.session] \in Nat \ {0} /\ p.num \in Nat
      /\ Owed = 0 /\ 2 * PSize[p.session] <= Capacity
  BY PacketNum, PacketSession, Zenon DEF Orderly, NewSession
<1>2. Sound(buf') /\ RangeOf(buf') = 0
  BY <1>1, ResetSound, Zenon DEF NewSession
<1>3. Owed' = Owed /\ ~pushing'
  BY OwedSteps, Zenon DEF NewSession, Polling
<1>4. buf'.absHead = p.num /\ held' = p /\ hasPrinted' = FALSE
  BY Zenon DEF NewSession, ResetAt, Clean
<1>5. buf'.n >= 2
  BY <1>2 DEF Sound
<1>6. HeldFits'
  <2>1. held'.num \in buf'.absHead .. buf'.absHead + 1
    BY <1>1, <1>4, SMT
  <2>2. Owed' + 2 <= buf'.n
    BY <1>1, <1>3, <1>5, SMT
  <2> QED
    BY <1>2, <1>3, <2>1, <2>2, Zenon DEF HeldFits
<1>7. JobsCovered' /\ PrintedInTime'
  <2>1. Owed' <= RangeOf(buf') /\ ~(Owed' > 0)
    BY <1>1, <1>2, <1>3, SMT
  <2> QED
    BY <1>4, <2>1, Zenon DEF JobsCovered, PrintedInTime
<1> QED
  BY <1>2, <1>6, <1>7 DEF SteadyInv, RingInOrder

(* A further packet of the session.                                        *)
LEMMA SameSessionSteady ==
  ASSUME TypeOK, SteadyInv, NEW p \in Packet, Orderly(p), SameSession(p)
  PROVE  SteadyInv'
<1>1. /\ \/ p.num < buf.byte0
         \/ p.num \in buf.absHead .. buf.absHead + 1 /\ Owed + 2 <= buf.n
      /\ ~pushing' /\ held' = p /\ buf' = buf /\ hasPrinted' = hasPrinted
  BY Zenon DEF Orderly, SameSession, Polling
<1>2. Owed' = Owed
  BY OwedSteps, Zenon DEF SameSession
<1>3. Owed \in Nat
  BY OwedNat
<1>4. Sound(buf)
  <2>1. p.num \in Nat
    BY PacketNum
  <2>2. buf # NewBuffer
    BY <1>1, <1>3, <2>1, SMT DEF NewBuffer, Clean
  <2> QED
    BY <2>2 DEF SteadyInv, RingInOrder
<1>5. HeldFits'
  <2>1. p.num >= buf.byte0 =>
          p.num \in buf.absHead .. buf.absHead + 1 /\ Owed + 2 <= buf.n
    BY <1>1, RingFields, PacketNum, SMT DEF TypeOK
  <2> QED
    BY <1>1, <1>2, <1>4, <2>1, Zenon DEF HeldFits
<1>6. RingInOrder' /\ JobsCovered' /\ PrintedInTime'
  BY <1>1, <1>2, Zenon
     DEF SteadyInv, RingInOrder, JobsCovered, PrintedInTime, ThresholdPassed
<1> QED
  BY <1>5, <1>6 DEF SteadyInv

(* try_put() and the decision to play.                                     *)
LEMMA PutIsPush ==
  ASSUME TypeOK, SteadyInv, Put
  PROVE  /\ held \in Packet /\ Sound(buf) /\ RingType(buf, Packet)
         /\ Owed + 2 <= buf.n /\ ~pushing
         /\ \E off \in {0, 1} : held.num = buf.absHead + off
                              /\ buf' = PushAt(buf, held, off)
<1>1. /\ held \in Packet /\ Sound(buf) /\ RingType(buf, Packet)
      /\ Owed + 2 <= buf.n /\ ~pushing
      /\ held.num \in buf.absHead .. buf.absHead + 1
      /\ buf' = TryPut(buf, held)
  BY Zenon DEF Put, SteadyInv, HeldFits, TypeOK
<1>2. buf' = PushAt(buf, held, held.num - buf.absHead)
  BY <1>1, PushIsPushAt, Zenon
<1>3. /\ held.num - buf.absHead \in {0, 1}
      /\ held.num = buf.absHead + (held.num - buf.absHead)
  BY <1>1, RingFields, PacketNum, SMT
<1> QED
  BY <1>1, <1>2, <1>3, Zenon

LEMMA PutSteady ==
  ASSUME TypeOK, SteadyInv, Put
  PROVE  SteadyInv'
<1>1. /\ held \in Packet /\ Sound(buf) /\ RingType(buf, Packet)
      /\ Owed + 2 <= buf.n /\ ~pushing
  BY PutIsPush
<1>2. PICK off \in {0, 1} : /\ held.num = buf.absHead + off
                            /\ buf' = PushAt(buf, held, off)
  BY PutIsPush, Zenon
<1>3. Zero \notin Packet
  BY PlaybackAssumption
<1>4. Sound(buf')
  BY <1>1, <1>2, <1>3, PushSound, Zenon
<1>5. /\ buf'.absHead = buf.absHead + off + 1
      /\ buf'.byte0 = buf.byte0 /\ buf'.psize = buf.psize /\ buf'.n = buf.n
      /\ RangeOf(buf') = IF RangeOf(buf) + off + 1 < buf.n
                        THEN RangeOf(buf) + off + 1 ELSE buf.n - 1
  <2> DEFINE c == PushAt(buf, held, off)
  <2>1. /\ c.absHead = buf.absHead + off + 1
        /\ c.byte0 = buf.byte0 /\ c.psize = buf.psize /\ c.n = buf.n
        /\ RangeOf(c) = IF RangeOf(buf) + off + 1 < buf.n
                       THEN RangeOf(buf) + off + 1 ELSE buf.n - 1
    BY <1>1, <1>2, PushRange
  <2> HIDE DEF c
  <2>2. buf' = c
    BY <1>2 DEF c
  <2> QED
    BY <2>1, <2>2, Zenon
<1>6. /\ buf.absHead \in Nat /\ buf.n \in Nat /\ RangeOf(buf) \in Nat
      /\ buf.psize \in Nat /\ Owed \in Nat
      /\ Owed <= RangeOf(buf) /\ off \in Nat
  BY InOrder, OwedNat, SMT DEF SteadyInv, JobsCovered
<1>7. Owed' = Owed + One(hasPrinted')
  BY <1>1, OwedSteps, Zenon
<1>8. One(hasPrinted') \in Nat /\ One(hasPrinted') <= 1
  BY OneRange
<1>9. JobsCovered'
  <2>1. Owed' <= RangeOf(buf')
    BY <1>1, <1>5, <1>6, <1>7, <1>8, SMT
  <2> QED
    BY <2>1 DEF JobsCovered
<1>10. HeldFits'
  BY Zenon DEF Put, HeldFits
<1>11. Owed' > 0 => hasPrinted'
  <2>1. CASE hasPrinted'
    BY <2>1
  <2>2. CASE ~hasPrinted'
    <3>1. ~hasPrinted
      BY <2>2, Zenon DEF Put
    <3>2. ~(Owed > 0)
      BY <3>1, Zenon DEF SteadyInv, PrintedInTime
    <3>3. One(hasPrinted') = 0
      BY <2>2, OneOf
    <3> QED
      BY <1>6, <1>7, <3>2, <3>3, SMT
  <2> QED
    BY <2>1, <2>2
<1>12. hasPrinted' => ThresholdPassed'
  <2> SUFFICES ASSUME hasPrinted' PROVE ThresholdPassed'
    OBVIOUS
  <2>1. PrintingThreshold(buf') = PrintingThreshold(buf)
    BY <1>5, Zenon DEF PrintingThreshold
  <2>2. CASE hasPrinted
    <3>1. buf.absHead * buf.psize - 1 >= PrintingThreshold(buf)
      BY <2>2, Zenon DEF SteadyInv, PrintedInTime, ThresholdPassed
    <3>2. buf'.absHead \in Nat /\ buf.absHead <= buf'.absHead
      BY <1>5, <1>6, SMT
    <3>3. buf.absHead * buf.psize <= buf'.absHead * buf.psize
      BY <1>6, <3>2, Monotone, Zenon
    <3>4. PrintingThreshold(buf) \in Int
      BY <1>1, <1>6, RingFields, RingAssumption, SMT DEF PrintingThreshold
    <3>5. buf'.absHead * buf.psize - 1 >= PrintingThreshold(buf)
      BY <1>6, <3>1, <3>2, <3>3, <3>4, SMT
    <3> QED
      BY <1>5, <2>1, <3>5, Zenon DEF ThresholdPassed
  <2>3. CASE ~hasPrinted
    <3>1. Reaches(buf', held)
      BY <2>3, Zenon DEF Put
    <3>2. held.num * buf.psize + buf.psize - 1 >= PrintingThreshold(buf)
      BY <1>5, <2>1, <3>1, Zenon DEF Reaches
    <3>3. held.num \in Nat /\ buf'.absHead = held.num + 1
      BY <1>1, <1>2, <1>5, <1>6, PacketNum, SMT
    <3>4. held.num * buf.psize + buf.psize - 1 = buf'.absHead * buf.psize - 1
      BY <1>6, <3>3, LastByte, Zenon
    <3> QED
      BY <1>5, <2>1, <3>2, <3>4, Zenon DEF ThresholdPassed
  <2> QED
    BY <2>2, <2>3
<1> QED
  BY <1>4, <1>9, <1>10, <1>11, <1>12 DEF SteadyInv, RingInOrder, PrintedInTime

(* Playing one packet: there is one, since there was an event for it.      *)
LEMMA DumpIsTake ==
  ASSUME TypeOK, SteadyInv, Dump
  PROVE  /\ Sound(buf) /\ RingType(buf, Packet) /\ RangeOf(buf) > 0
         /\ buf' = DumpTail(buf)
<1>1. RangeOf(buf) > 0
  <2>1. Owed > 0 /\ Owed <= RangeOf(buf) /\ Owed \in Nat /\ RangeOf(buf) \in Nat
    BY OwedSteps, OwedNat, InOrder, Zenon DEF SteadyInv, JobsCovered
  <2> QED
    BY <2>1, SMT
<1>2. buf # NewBuffer
  BY <1>1, SMT DEF NewBuffer, Clean, RangeOf
<1> QED
  BY <1>1, <1>2 DEF SteadyInv, RingInOrder, TypeOK, Dump

LEMMA DumpSteady ==
  ASSUME TypeOK, SteadyInv, Dump
  PROVE  SteadyInv'
<1>1. /\ Sound(buf') /\ RangeOf(buf') = RangeOf(buf) - 1
      /\ buf'.absHead = buf.absHead /\ buf'.byte0 = buf.byte0
      /\ buf'.psize = buf.psize /\ buf'.n = buf.n
  BY DumpIsTake, DumpSound, Zenon
<1>2. /\ Owed' = Owed - 1 /\ Owed \in Nat /\ RangeOf(buf) \in Nat
      /\ Owed <= RangeOf(buf)
  BY OwedSteps, OwedNat, InOrder, Zenon DEF SteadyInv, JobsCovered
<1>3. UNCHANGED <<hasPrinted, held, pushing>>
  BY DEF Dump, receiver
<1>4. JobsCovered'
  <2>1. Owed' <= RangeOf(buf')
    BY <1>1, <1>2, SMT
  <2> QED
    BY <2>1 DEF JobsCovered
<1>5. HeldFits'
  <2>3. held' # NoPacket => ~pushing'
    BY <1>3, Zenon DEF SteadyInv, HeldFits
  <2> SUFFICES ASSUME held' # NoPacket, held'.num >= buf'.byte0
               PROVE  /\ Sound(buf')
                      /\ held'.num \in buf'.absHead .. buf'.absHead + 1
                      /\ Owed' + 2 <= buf'.n
    BY <2>3, Zenon DEF HeldFits
  <2>1. /\ held.num \in buf.absHead .. buf.absHead + 1
        /\ Owed + 2 <= buf.n
    BY <1>1, <1>3, Zenon DEF SteadyInv, HeldFits
  <2>2. Owed' + 2 <= buf'.n
    BY <1>1, <1>2, <2>1, InOrder, SMT DEF SteadyInv
  <2> QED
    BY <1>1, <1>3, <2>1, <2>2, Zenon
<1>6. PrintedInTime'
  <2>1. Owed' > 0 => Owed > 0
    BY <1>2, SMT
  <2>2. ThresholdPassed' <=> ThresholdPassed
    BY <1>1, Zenon DEF ThresholdPassed, PrintingThreshold
  <2> QED
    BY <1>3, <2>1, <2>2, Zenon DEF SteadyInv, PrintedInTime
<1> QED
  BY <1>1, <1>4, <1>5, <1>6 DEF SteadyInv, RingInOrder

LEMMA NextSteady == TypeOK /\ SteadyInv /\ [SteadyNext]_vars => SteadyInv'
<1> SUFFICES ASSUME TypeOK, SteadyInv, [SteadyNext]_vars PROVE SteadyInv'
  OBVIOUS
<1>1. CASE ChangeStation
  BY <1>1, QuietStep, OwedSteps, Zenon DEF ChangeStation
<1>2. ASSUME NEW p \in Packet, Orderly(p), Receive(p)
      PROVE  SteadyInv'
  <2>1. CASE Ignore(p)
    BY <2>1, QuietStep, OwedSteps, Zenon DEF Ignore
  <2>2. CASE NewSession(p)
    BY <1>2, <2>2, NewSessionSteady
  <2>3. CASE SameSession(p)
    BY <1>2, <2>3, SameSessionSteady
  <2> QED
    BY <1>2, <2>1, <2>2, <2>3 DEF Receive
<1>3. CASE IgnoreLate
  BY <1>3, QuietStep, OwedSteps, Zenon DEF IgnoreLate
<1>4. CASE Put
  BY <1>4, PutSteady
<1>5. CASE PushJob
  <2>1. Owed' = Owed /\ UNCHANGED <<buf, hasPrinted, held>> /\ held = NoPacket
    BY <1>5, OwedSteps, Zenon DEF PushJob, SteadyInv, HeldFits
  <2> QED
    BY <2>1, QuietStep, Zenon
<1>6. CASE Pop
  BY <1>6, QuietStep, OwedSteps, Zenon DEF Pop, receiver
<1>7. CASE Dump
  BY <1>7, DumpSteady
<1>8. CASE UNCHANGED vars
  BY <1>8, QuietStep, OwedSteps, Zenon DEF vars, receiver
<1> QED
  BY <1>1, <1>2, <1>3, <1>4, <1>5, <1>6, <1>7, <1>8, Zenon DEF SteadyNext

LEMMA SteadyAlways == SteadySpec => [](TypeOK /\ SteadyInv)
<1>1. Init => TypeOK /\ SteadyInv
  BY InitType, InitSteady
<1>2. TypeOK /\ SteadyInv /\ [SteadyNext]_vars => TypeOK' /\ SteadyInv'
  BY SteadyIsNext, NextType, NextSteady, Zenon
<1> QED
  BY <1>1, <1>2, PTL DEF SteadySpec

-----------------------------------------------------------------------------
(* In the orderly environment no assertion of the ring fails and no write  *)
(* leaves its array.                                                       *)
THEOREM SteadyNoFault == SteadySpec => []NoFault
<1>1. TypeOK /\ SteadyInv => NoFault
  BY InOrder, Zenon DEF SteadyInv
<1> QED
  BY <1>1, SteadyAlways, PTL

(* There every slot holds the packet its index stands for, or nothing.     *)
THEOREM SteadyAligned == SteadySpec => []AllAligned
<1>1. TypeOK /\ SteadyInv => AllAligned
  BY InOrder, Zenon DEF SteadyInv
<1> QED
  BY <1>1, SteadyAlways, PTL

(* There dump_tail(), which does not look at the head, is never called     *)
(* with nothing between the tail and the head.                             *)
THEOREM SteadyJobsCovered == SteadySpec => []JobsCovered
<1>1. TypeOK /\ SteadyInv => JobsCovered
  BY DEF SteadyInv
<1> QED
  BY <1>1, SteadyAlways, PTL

(* There no event exists before 3/4 of the buffer's size has arrived.      *)
THEOREM SteadyNothingPlayedEarly == SteadySpec => []NothingPlayedEarly
<1>1. TypeOK /\ SteadyInv => NothingPlayedEarly
  BY Zenon DEF SteadyInv, PrintedInTime, ThresholdPassed, NothingPlayedEarly
<1> QED
  BY <1>1, SteadyAlways, PTL

-----------------------------------------------------------------------------
(***************************************************************************)
(* The ring implements the sliding window of numbers: what the cursors and *)
(* slots do is, seen from outside, a restart, the arrival of a number or   *)
(* the taking of the oldest.                                               *)
(***************************************************************************)
LEMMA InitWindow == Init => Window!Init
<1> SUFFICES ASSUME Init PROVE Window!Init
  OBVIOUS
<1>1. AbsTail(buf) = 0 /\ buf.absHead = 0 /\ buf.n = 0
  BY SMT DEF Init, NewBuffer, Clean, AbsTail, RangeOf, Minus
<1>2. Held(buf) = {}
  BY SMT DEF Init, NewBuffer, Clean, Held, Occupied
<1> QED
  BY <1>1, <1>2, Zenon DEF Window!Init

LEMMA NewSessionRestarts ==
  ASSUME TypeOK, TypeOK', SteadyInv', NEW p \in Packet, Orderly(p), NewSession(p)
  PROVE  Window!Restart
<1>1. /\ PSize[p.session] \in Nat \ {0} /\ p.num \in Nat
      /\ 2 * PSize[p.session] <= Capacity
  BY PacketNum, PacketSession, Zenon DEF Orderly, NewSession
<1>2. buf' = ResetAt(PSize[p.session], p.num)
  BY DEF NewSession
<1>3. Sound(buf') /\ RangeOf(buf') = 0
  BY <1>1, <1>2, ResetSound, Zenon
<1>4. buf'.absHead = p.num /\ \A i \in DOMAIN buf'.slot : buf'.slot[i] = Zero
  BY <1>2, Zenon DEF ResetAt, Clean
<1>5. RingType(buf', Packet)
  BY DEF TypeOK
<1>6. AbsTail(buf') = p.num - 0
  BY <1>3, <1>4, <1>5, SoundRange, Zenon
<1>7. AbsTail(buf') = p.num
  BY <1>1, <1>6, SMT
<1>8. Held(buf') = {}
  BY <1>4, Zenon DEF Held, Occupied
<1>9. (IF buf'.n = 0 THEN 0 ELSE buf'.n - 1) \in Nat
  BY <1>5, RingFields, SMT
<1> QED
  BY <1>1, <1>4, <1>7, <1>8, <1>9, Zenon DEF Window!Restart

LEMMA PutPuts ==
  ASSUME TypeOK, TypeOK', SteadyInv, Put
  PROVE  Window!Put
<1>1. /\ held \in Packet /\ Sound(buf) /\ RingType(buf, Packet)
      /\ RingType(buf', Packet)
  BY PutIsPush DEF TypeOK
<1>2. PICK off \in {0, 1} : /\ held.num = buf.absHead + off
                            /\ buf' = PushAt(buf, held, off)
  BY PutIsPush, Zenon
<1>3. Zero \notin Packet
  BY PlaybackAssumption
<1>4. Held(buf') = {x \in Held(buf) \cup {buf'.absHead - 1} : x >= AbsTail(buf')}
  BY <1>1, <1>2, <1>3, PushHeld
<1>5. Sound(buf')
  BY <1>1, <1>2, <1>3, PushSound, Zenon
<1>6. /\ buf'.absHead = buf.absHead + off + 1 /\ buf'.n = buf.n
      /\ RangeOf(buf') = IF RangeOf(buf) + off + 1 < buf.n
                        THEN RangeOf(buf) + off + 1 ELSE buf.n - 1
  <2> DEFINE c == PushAt(buf, held, off)
  <2>1. /\ c.absHead = buf.absHead + off + 1 /\ c.n = buf.n
        /\ RangeOf(c) = IF RangeOf(buf) + off + 1 < buf.n
                       THEN RangeOf(buf) + off + 1 ELSE buf.n - 1
    BY <1>1, <1>2, PushRange
  <2> HIDE DEF c
  <2>2. buf' = c
    BY <1>2 DEF c
  <2> QED
    BY <2>1, <2>2, Zenon
<1>7. /\ AbsTail(buf) = buf.absHead - RangeOf(buf) /\ RangeOf(buf) \in 0 .. buf.n - 1
      /\ AbsTail(buf') = buf'.absHead - RangeOf(buf')
  BY <1>1, <1>5, SoundRange, Zenon
<1>8. /\ buf.absHead \in Nat /\ buf.n \in Nat /\ buf.n >= 2 /\ off \in Nat
  BY <1>1, RingFields, SMT DEF Sound
<1>9. buf'.absHead \in Nat /\ buf'.absHead > buf.absHead
  BY <1>6, <1>8, SMT
<1>10. AbsTail(buf') = IF AbsTail(buf) >= buf'.absHead - (buf.n - 1)
                       THEN AbsTail(buf) ELSE buf'.absHead - (buf.n - 1)
  BY <1>6, <1>7, <1>8, SMT
<1>11. (IF buf.n = 0 THEN 0 ELSE buf.n - 1) = buf.n - 1
  BY <1>8, SMT
<1> QED
  BY <1>4, <1>6, <1>9, <1>10, <1>11, Zenon DEF Window!Put

LEMMA DumpTakes ==
  ASSUME TypeOK, TypeOK', SteadyInv, Dump
  PROVE  Window!Take
<1>1. /\ Sound(buf) /\ RingType(buf, Packet) /\ RangeOf(buf) > 0
      /\ buf' = DumpTail(buf) /\ RingType(buf', Packet)
  BY DumpIsTake DEF TypeOK
<1>2. /\ AbsTail(buf') = AbsTail(buf) + 1
      /\ Held(buf') = Held(buf) \ {AbsTail(buf)}
  BY <1>1, DumpHeld, Zenon
<1>3. buf'.absHead = buf.absHead /\ buf'.n = buf.n
  BY <1>1, DumpSound, Zenon
<1>4. AbsTail(buf) < buf.absHead
  BY <1>1, SoundRange, RingFields, SMT
<1> QED
  BY <1>2, <1>3, <1>4, Zenon DEF Window!Take

LEMMA QuietWindow == UNCHANGED buf => UNCHANGED Window!window
BY Zenon DEF Window!window

(* Every step of the audio path leaves the window alone or is one of its.  *)
LEMMA NextWindow ==
  TypeOK /\ SteadyInv /\ TypeOK' /\ SteadyInv' /\ [SteadyNext]_vars
    => [Window!Next]_(Window!window)
<1> SUFFICES ASSUME TypeOK, SteadyInv, TypeOK', SteadyInv', [SteadyNext]_vars
             PROVE  Window!Next \/ UNCHANGED Window!window
  OBVIOUS
<1>1. ASSUME NEW p \in Packet, Orderly(p), Receive(p)
      PROVE  Window!Next \/ UNCHANGED Window!window
  <2>1. CASE Ignore(p) \/ SameSession(p)
    BY <2>1, QuietWindow DEF Ignore, SameSession
  <2>2. CASE NewSession(p)
    BY <1>1, <2>2, NewSessionRestarts DEF Window!Next
  <2> QED
    BY <1>1, <2>1, <2>2 DEF Receive
<1>2. CASE ChangeStation \/ IgnoreLate \/ PushJob \/ Pop \/ UNCHANGED vars
  BY <1>2, QuietWindow DEF ChangeStation, IgnoreLate, PushJob, Pop, vars
<1>3. CASE Put
  BY <1>3, PutPuts DEF Window!Next
<1>4. CASE Dump
  BY <1>4, DumpTakes DEF Window!Next
<1> QED
  BY <1>1, <1>2, <1>3, <1>4, Zenon DEF SteadyNext

(* In the orderly environment the ring, its cursors and its slots          *)
(* implement the sliding window: no number is kept twice, out of place or  *)
(* past its turn, and none is lost but to make room for newer ones.        *)
THEOREM SteadyImplementsWindow == SteadySpec => RingIsSlidingWindow
<1>1. Init => Window!Init
  BY InitWindow
<1>2. TypeOK /\ SteadyInv /\ TypeOK' /\ SteadyInv' /\ [SteadyNext]_vars
        => [Window!Next]_(Window!window)
  BY NextWindow
<1> QED
  BY <1>1, <1>2, SteadyAlways, PTL DEF SteadySpec, RingIsSlidingWindow, Window!Spec

(* In the orderly environment the window only moves up within a session.   *)
THEOREM SteadyWindowForward == SteadySpec => WindowForward
<1>1. ASSUME TypeOK, SteadyInv, TypeOK', [SteadyNext]_vars,
             curSession' = curSession
      PROVE  AbsTail(buf') >= AbsTail(buf)
  <2>1. AbsTail(buf) \in Nat /\ buf.absHead \in Nat /\ buf.n \in Nat
    BY <1>1, InOrder, Zenon DEF SteadyInv
  <2>2. CASE UNCHANGED buf
    BY <2>1, <2>2, SMT
  <2>3. ASSUME NEW p \in Packet, NewSession(p)
        PROVE  FALSE
    <3>1. p.session \in Nat /\ p.session = curSession' /\ p.session > curSession
      BY <2>3, PacketSession, SMT DEF NewSession
    <3> QED
      BY <1>1, <3>1, SMT
  <2>4. CASE Put
    <3>1. /\ AbsTail(buf') = IF AbsTail(buf) >= buf'.absHead - (IF buf.n = 0 THEN 0 ELSE buf.n - 1)
                             THEN AbsTail(buf)
                             ELSE buf'.absHead - (IF buf.n = 0 THEN 0 ELSE buf.n - 1)
          /\ buf'.absHead \in Nat
      BY <1>1, <2>4, PutPuts, Zenon DEF Window!Put
    <3> QED
      BY <2>1, <3>1, SMT
  <2>5. CASE Dump
    <3>1. AbsTail(buf') = AbsTail(buf) + 1
      BY <1>1, <2>5, DumpTakes, Zenon DEF Window!Take
    <3> QED
      BY <2>1, <3>1, SMT
  <2>6. CASE ChangeStation \/ IgnoreLate \/ PushJob \/ Pop \/ UNCHANGED vars
    BY <2>2, <2>6 DEF ChangeStation, IgnoreLate, PushJob, Pop, vars
  <2>7. ASSUME NEW p \in Packet, Orderly(p), Receive(p)
        PROVE  AbsTail(buf') >= AbsTail(buf)
    BY <2>2, <2>3, <2>7, Zenon DEF Receive, Ignore, SameSession
  <2> QED
    BY <1>1, <2>4, <2>5, <2>6, <2>7, Zenon DEF SteadyNext
<1>2. TypeOK /\ SteadyInv /\ TypeOK' /\ [SteadyNext]_vars
        => [curSession' = curSession => AbsTail(buf') >= AbsTail(buf)]_vars
  BY <1>1
<1> QED
  BY <1>2, SteadyAlways, PTL DEF SteadySpec, WindowForward
=============================================================================
