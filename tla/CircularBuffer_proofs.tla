----------------------- MODULE CircularBuffer_proofs -----------------------
(***************************************************************************)
(* Lemmas about the ring of CircularBuffer: its operations keep its type,  *)
(* and what they do to the window of numbers when packets come in order.   *)
(***************************************************************************)
EXTENDS CircularBuffer, TLAPS

(* A ring never has more slots than bytes ...                              *)
LEMMA CapBound ==
  ASSUME NEW psize \in Nat \ {0}
  PROVE  RoundedCap(psize) \in 0 .. Capacity
BY RingAssumption, SMT DEF RoundedCap

(* ... and room for two packets is two slots.                              *)
LEMMA CapTwo ==
  ASSUME NEW psize \in Nat \ {0}, 2 * psize <= Capacity
  PROVE  RoundedCap(psize) >= 2
BY RingAssumption, SMT DEF RoundedCap

(* An index that has run over the end once comes back at the other end.    *)
LEMMA WrapAround ==
  ASSUME NEW x \in Nat, NEW n \in Nat \ {0}, x < 2 * n
  PROVE  x % n = IF x < n THEN x ELSE x - n
BY SMT

LEMMA ModRange ==
  ASSUME NEW x \in Nat, NEW n \in Nat \ {0}
  PROVE  x % n \in 0 .. n - 1
BY SMT

(* Rewriting one slot keeps the type of the slots.                         *)
LEMMA ExceptType ==
  ASSUME NEW S, NEW V, NEW f \in [S -> V], NEW i, NEW v \in V
  PROVE  [f EXCEPT ![i] = v] \in [S -> V]
BY Zenon

-----------------------------------------------------------------------------
(* reset(psize, abs_head) yields a well-typed, empty ring.                 *)
LEMMA ResetAtType ==
  ASSUME NEW P, NEW psize \in Nat \ {0}, NEW k \in Nat
  PROVE  RingType(ResetAt(psize, k), P)
BY CapBound, SMT DEF RingType, ResetAt, Clean

(* Moving the cursors and rewriting the slots of a ring keeps its type ... *)
LEMMA MovedType ==
  ASSUME NEW P, NEW b, RingType(b, P),
         NEW absHead \in Nat, NEW tail \in Nat, NEW head \in Nat,
         NEW slot \in [0 .. b.n - 1 -> P \cup {Zero}], NEW empty \in BOOLEAN
  PROVE  RingType(Moved(b, absHead, tail, head, slot, empty), P)
BY SMT DEF RingType, Moved

(* ... and so does a fault.                                                *)
LEMMA BrokenType ==
  ASSUME NEW P, NEW b, RingType(b, P), NEW f \in {"assert", "overrun"}
  PROVE  RingType(Broken(b, f), P)
BY SMT DEF RingType, Broken

(* dump_tail() keeps the type, whatever the cursors are.                   *)
LEMMA DumpTailType ==
  ASSUME NEW P, NEW b, RingType(b, P)
  PROVE  RingType(DumpTail(b), P)
<1>1. CASE b.n = 0
  BY <1>1, BrokenType, SMT DEF DumpTail
<1>2. CASE b.n # 0
  <2>1. b.n \in Nat \ {0} /\ b.tail + 1 \in Nat
    BY <1>2, SMT DEF RingType
  <2>2. (b.tail + 1) % b.n \in Nat
    BY <2>1, ModRange, SMT
  <2>3. [b.slot EXCEPT ![b.tail] = Zero] \in [0 .. b.n - 1 -> P \cup {Zero}]
    BY ExceptType, Zenon DEF RingType
  <2>4. b.absHead \in Nat /\ b.head \in Nat /\ b.empty \in BOOLEAN
    BY Zenon DEF RingType
  <2> QED
    BY <1>2, <2>2, <2>3, <2>4, MovedType, Zenon DEF DumpTail
<1> QED
  BY <1>1, <1>2

(* try_put() keeps the type, whatever packet it is given.                  *)
LEMMA TryPutType ==
  ASSUME NEW P, \A q \in P : q.num \in Nat,
         NEW b, RingType(b, P), NEW p \in P
  PROVE  RingType(TryPut(b, p), P)
<1> DEFINE off == p.num - b.absHead
<1>0. /\ b.absHead \in Nat /\ b.tail \in Nat /\ b.head \in Nat
      /\ b.n \in Nat /\ b.psize \in Nat /\ b.byte0 \in Nat
      /\ b.slot \in [0 .. b.n - 1 -> P \cup {Zero}]
      /\ p.num \in Nat
  BY SMT DEF RingType
<1>1. RingType(FillGap(b, p), P)
  <2>1. \A pos : [b.slot EXCEPT ![pos] = p] \in [0 .. b.n - 1 -> P \cup {Zero}]
    BY <1>0, ExceptType, Zenon
  <2> QED
    BY <1>0, <2>1, MovedType, BrokenType, SMT DEF FillGap
<1>2. ASSUME p.num >= b.absHead, off < b.n
      PROVE  RingType(PushAt(b, p, off), P)
  <2>1. b.n \in Nat \ {0} /\ off \in Nat /\ p.num + 1 \in Nat
    BY <1>0, <1>2, SMT
  <2>2. NewHead(b, off) \in Nat
    <3>1. b.head + off + 1 \in Nat
      BY <1>0, <2>1, SMT
    <3>2. NewHead(b, off) \in 0 .. b.n - 1
      BY <2>1, <3>1, ModRange, Zenon DEF NewHead
    <3> QED
      BY <1>0, <3>2, SMT
  <2>3. PushedTail(b, off) \in Nat
    <3>1. NewHead(b, off) + 1 \in Nat
      BY <2>2, SMT
    <3>2. (NewHead(b, off) + 1) % b.n \in 0 .. b.n - 1
      BY <2>1, <3>1, ModRange, Zenon
    <3>3. (NewHead(b, off) + 1) % b.n \in Nat
      BY <1>0, <3>2, SMT
    <3> QED
      BY <1>0, <3>3, Zenon DEF PushedTail
  <2>4. PushedSlots(b, p, off) \in [0 .. b.n - 1 -> P \cup {Zero}]
    BY <1>0, SMT DEF PushedSlots
  <2> QED
    BY <2>1, <2>2, <2>3, <2>4, MovedType, Zenon DEF PushAt
<1>3. RingType(PushAfresh(b, p), P)
  <2>1. CASE b.n = 0
    BY <2>1, BrokenType, SMT DEF PushAfresh
  <2>2. CASE b.n # 0
    <3> DEFINE clean == Reset(b, b.psize)
    <3>1. b.psize \in Nat \ {0} /\ b.n \in Nat \ {0}
      BY <1>0, <2>2, SMT DEF RingType
    <3>2. RingType(clean, P)
      BY <1>0, <3>1, CapBound, SMT DEF RingType, Reset, Clean
    <3>3. 2 % b.n \in Nat /\ p.num + 1 \in Nat /\ 1 \in Nat
      BY <1>0, <3>1, SMT
    <3>4. [clean.slot EXCEPT ![0] = p] \in [0 .. clean.n - 1 -> P \cup {Zero}]
      BY <3>2, ExceptType, Zenon DEF RingType
    <3> HIDE DEF clean
    <3>5. RingType(Moved(clean, p.num + 1, 2 % b.n, 1,
                         [clean.slot EXCEPT ![0] = p], FALSE), P)
      BY <3>2, <3>3, <3>4, MovedType, Zenon
    <3> QED
      BY <2>2, <3>5, Zenon DEF PushAfresh, clean
  <2> QED
    BY <2>1, <2>2
<1>4. ASSUME p.num >= b.absHead
      PROVE  RingType(TryPushHead(b, p), P)
  BY <1>0, <1>2, <1>3, <1>4, SMT DEF TryPushHead
<1> QED
  BY <1>1, <1>4, SMT DEF TryPut

-----------------------------------------------------------------------------
(* A slot after try_put() is free, holds the packet put, or is as before;  *)
(* BYTE0, the packet size and the number of slots stay.                    *)
LEMMA TryPutSlots ==
  ASSUME NEW P, NEW b, RingType(b, P), NEW p \in P, p.num \in Nat
  PROVE  /\ TryPut(b, p).byte0 = b.byte0
         /\ TryPut(b, p).psize = b.psize
         /\ \A i \in DOMAIN TryPut(b, p).slot :
              \/ TryPut(b, p).slot[i] = Zero
              \/ TryPut(b, p).slot[i] = p
              \/ i \in DOMAIN b.slot /\ TryPut(b, p).slot[i] = b.slot[i]
<1> DEFINE off == p.num - b.absHead
           Kept(d) == /\ d.byte0 = b.byte0 /\ d.psize = b.psize
                      /\ \A i \in DOMAIN d.slot :
                           \/ d.slot[i] = Zero
                           \/ d.slot[i] = p
                           \/ i \in DOMAIN b.slot /\ d.slot[i] = b.slot[i]
<1>0. /\ b.absHead \in Nat /\ b.n \in Nat
      /\ b.slot \in [0 .. b.n - 1 -> P \cup {Zero}]
  BY SMT DEF RingType
<1>1. \A f : Kept(Broken(b, f))
  BY SMT DEF RingType, Broken
<1>2. \A pos : Kept(Moved(b, b.absHead, b.tail, b.head, [b.slot EXCEPT ![pos] = p], FALSE))
  BY <1>0, SMT DEF Moved
<1>3. Kept(PushAt(b, p, off))
  BY <1>0, SMT DEF PushAt, Moved, PushedSlots
<1>4. Kept(PushAfresh(b, p))
  <2> DEFINE clean == Reset(b, b.psize)
  <2>1. /\ clean.byte0 = b.byte0 /\ clean.psize = b.psize
        /\ \A i \in DOMAIN clean.slot : clean.slot[i] = Zero
    BY SMT DEF Reset, Clean
  <2>2. Kept(Moved(clean, p.num + 1, 2 % b.n, 1, [clean.slot EXCEPT ![0] = p], FALSE))
    BY <2>1, SMT DEF Moved
  <2> QED
    BY <1>1, <2>2, Zenon DEF PushAfresh
<1>5. Kept(b)
  OBVIOUS
<1>6. Kept(FillGap(b, p))
  BY <1>1, <1>2, Zenon DEF FillGap
<1>7. Kept(TryPushHead(b, p))
  BY <1>3, <1>4, <1>5, Zenon DEF TryPushHead
<1>8. Kept(TryPut(b, p))
  BY <1>5, <1>6, <1>7, Zenon DEF TryPut
<1> QED
  BY <1>8

(* dump_tail() only frees slots. *)
LEMMA DumpTailSlots ==
  ASSUME NEW P, NEW b, RingType(b, P)
  PROVE  /\ DumpTail(b).byte0 = b.byte0
         /\ DumpTail(b).psize = b.psize
         /\ DOMAIN DumpTail(b).slot = DOMAIN b.slot
         /\ \A i \in DOMAIN b.slot :
              DumpTail(b).slot[i] = Zero \/ DumpTail(b).slot[i] = b.slot[i]
BY SMT DEF RingType, DumpTail, Moved, Broken

-----------------------------------------------------------------------------
(***************************************************************************)
(* A ring in good order: at least two slots, the cursors inside it, the    *)
(* window not reaching below BYTE0, every packet in the slot of its number.*)
(***************************************************************************)
Sound(b) ==
  /\ b.fault = "none"
  /\ b.n >= 2
  /\ b.tail < b.n /\ b.head < b.n
  /\ b.byte0 + RangeOf(b) <= b.absHead
  /\ Aligned(b)

LEMMA RingFields ==
  ASSUME NEW P, NEW b, RingType(b, P)
  PROVE  /\ b.absHead \in Nat /\ b.byte0 \in Nat /\ b.psize \in Nat
         /\ b.n \in Nat /\ b.tail \in Nat /\ b.head \in Nat
         /\ b.slot \in [0 .. b.n - 1 -> P \cup {Zero}]
         /\ DOMAIN b.slot = 0 .. b.n - 1
BY SMT DEF RingType

(* The window of a sound ring has fewer numbers than the ring has slots,   *)
(* and its lower end is where subtraction puts it, without wrapping.       *)
LEMMA SoundRange ==
  ASSUME NEW P, NEW b, RingType(b, P), Sound(b)
  PROVE  /\ RangeOf(b) \in 0 .. b.n - 1
         /\ AbsTail(b) = b.absHead - RangeOf(b)
         /\ AbsTail(b) \in Nat
         /\ b.byte0 <= AbsTail(b) /\ AbsTail(b) <= b.absHead
<1>1. /\ b.n \in Nat /\ b.tail \in Nat /\ b.head \in Nat
      /\ b.absHead \in Nat /\ b.byte0 \in Nat
  BY RingFields
<1>2. /\ b.n >= 2 /\ b.tail < b.n /\ b.head < b.n
      /\ b.byte0 + RangeOf(b) <= b.absHead
  BY DEF Sound
<1>3. RangeOf(b) \in 0 .. b.n - 1
  BY <1>1, <1>2, SMT DEF RangeOf
<1>4. RangeOf(b) <= b.absHead
  BY <1>1, <1>2, <1>3, SMT
<1>5. AbsTail(b) = b.absHead - RangeOf(b)
  BY <1>4, Zenon DEF AbsTail, Minus
<1> QED
  BY <1>1, <1>2, <1>3, <1>5, SMT

(* A packet that comes next, or next but one, is pushed at the head.       *)
LEMMA PushIsPushAt ==
  ASSUME NEW P, NEW b, RingType(b, P), Sound(b),
         NEW p \in P, p.num \in b.absHead .. b.absHead + 1
  PROVE  TryPut(b, p) = PushAt(b, p, p.num - b.absHead)
<1>1. b.absHead \in Nat /\ b.n \in Nat /\ p.num \in Nat /\ b.n >= 2
  BY RingFields, SMT DEF Sound
<1>2. AbsTail(b) \in Nat /\ AbsTail(b) <= b.absHead
  BY SoundRange
<1>3. ~(p.num < AbsTail(b)) /\ p.num >= b.absHead
  BY <1>1, <1>2, SMT
<1>4. ~(p.num - b.absHead > 1) /\ ~(p.num - b.absHead >= b.n)
  BY <1>1, SMT
<1> QED
  BY <1>3, <1>4, Zenon DEF TryPut, TryPushHead

(* An index that has run over the end. *)
Wrap(n, x) == IF x < n THEN x ELSE x - n

(* Where such a push writes and where it leaves the cursors.               *)
LEMMA PushCursors ==
  ASSUME NEW P, NEW b, RingType(b, P), Sound(b), NEW off \in {0, 1}
  PROVE  /\ WritePos(b, off) = Wrap(b.n, b.head + off)
         /\ NewHead(b, off) = Wrap(b.n, b.head + off + 1)
         /\ PushedTail(b, off) = IF Overtakes(b, off)
                                THEN Wrap(b.n, NewHead(b, off) + 1) ELSE b.tail
<1>1. /\ b.n \in Nat \ {0} /\ b.n >= 2
      /\ b.head \in Nat /\ b.tail \in Nat /\ b.head < b.n
      /\ off \in Nat /\ off <= 1
  BY RingFields, SMT DEF Sound
<1>2. ASSUME NEW y \in Nat, y < 2 * b.n
      PROVE  y % b.n = Wrap(b.n, y)
  <2> DEFINE n == b.n
  <2>1. n \in Nat \ {0} /\ y < 2 * n
    BY <1>1, <1>2
  <2> HIDE DEF n
  <2>2. y % n = Wrap(n, y)
    BY <2>1, SMT DEF Wrap
  <2> QED
    BY <2>2, Zenon DEF n
<1>3. /\ b.head + off \in Nat /\ b.head + off < 2 * b.n
      /\ b.head + off + 1 \in Nat /\ b.head + off + 1 < 2 * b.n
  BY <1>1, SMT
<1>4. WritePos(b, off) = Wrap(b.n, b.head + off)
  BY <1>2, <1>3, Zenon DEF WritePos
<1>5. NewHead(b, off) = Wrap(b.n, b.head + off + 1)
  BY <1>2, <1>3, Zenon DEF NewHead
<1>6. NewHead(b, off) + 1 \in Nat /\ NewHead(b, off) + 1 < 2 * b.n
  BY <1>1, <1>5, SMT DEF Wrap
<1>7. (NewHead(b, off) + 1) % b.n = Wrap(b.n, NewHead(b, off) + 1)
  BY <1>2, <1>6, Zenon
<1> QED
  BY <1>4, <1>5, <1>7, Zenon DEF PushedTail

(* It widens the window by the numbers it adds, up to one slot less than   *)
(* the ring has.                                                           *)
LEMMA PushRange ==
  ASSUME NEW P, NEW b, RingType(b, P), Sound(b),
         NEW p \in P, NEW off \in {0, 1}, p.num = b.absHead + off
  PROVE  /\ PushAt(b, p, off).absHead = b.absHead + off + 1
         /\ PushAt(b, p, off).byte0 = b.byte0
         /\ PushAt(b, p, off).psize = b.psize
         /\ PushAt(b, p, off).n = b.n
         /\ PushAt(b, p, off).fault = "none"
         /\ PushAt(b, p, off).tail \in 0 .. b.n - 1
         /\ PushAt(b, p, off).head \in 0 .. b.n - 1
         /\ RangeOf(PushAt(b, p, off)) =
              IF RangeOf(b) + off + 1 < b.n THEN RangeOf(b) + off + 1 ELSE b.n - 1
<1> DEFINE t == PushedTail(b, off)
           h == NewHead(b, off)
<1>1. /\ b.n \in Nat /\ b.n >= 2 /\ b.absHead \in Nat
      /\ b.head \in 0 .. b.n - 1 /\ b.tail \in 0 .. b.n - 1
      /\ off \in Nat /\ off <= 1
  BY RingFields, SMT DEF Sound
<1>2. h = Wrap(b.n, b.head + off + 1)
  BY PushCursors, Zenon
<1>3. t = IF Overtakes(b, off) THEN Wrap(b.n, h + 1) ELSE b.tail
  BY PushCursors, Zenon
<1>4. /\ t \in 0 .. b.n - 1 /\ h \in 0 .. b.n - 1
      /\ (IF t <= h THEN h - t ELSE h + (b.n - t)) =
           IF RangeOf(b) + off + 1 < b.n THEN RangeOf(b) + off + 1 ELSE b.n - 1
  <2>1. Overtakes(b, off) <=>
          \/ /\ b.head + off + 1 >= b.n
             /\ b.tail <= b.head => b.tail <= h
          \/ /\ b.head < b.tail
             /\ b.tail <= h
    BY Zenon DEF Overtakes
  <2> HIDE DEF t, h
  <2>2. CASE Overtakes(b, off)
    BY <1>1, <1>2, <1>3, <2>1, <2>2, SMT DEF RangeOf, Wrap
  <2>3. CASE ~Overtakes(b, off)
    BY <1>1, <1>2, <1>3, <2>1, <2>3, SMT DEF RangeOf, Wrap
  <2> QED
    BY <2>2, <2>3
<1>5. /\ p.num + 1 = b.absHead + off + 1
      /\ b.fault = "none"
  BY <1>1, SMT DEF Sound
<1> QED
  BY <1>4, <1>5, Zenon DEF PushAt, Moved, RangeOf

(* In plain numbers: the number slot i stands for when the head is h and   *)
(* the next number is a.                                                   *)
NumberFor(n, a, h, i) == IF i < h THEN a - (h - i) ELSE a - (h + n - i)

(* Pushing 1 + o numbers at the head writes the last of them ...           *)
LEMMA NumberAtWrite ==
  ASSUME NEW n \in Nat, n >= 2, NEW a \in Nat, NEW h \in 0 .. n - 1,
         NEW o \in {0, 1}
  PROVE  NumberFor(n, a + o + 1, Wrap(n, h + o + 1), Wrap(n, h + o)) = a + o
<1>1. CASE h + o + 1 < n
  BY <1>1, SMT DEF NumberFor, Wrap
<1>2. CASE h + o + 1 = n
  BY <1>2, SMT DEF NumberFor, Wrap
<1>3. CASE h + o + 1 > n
  BY <1>3, SMT DEF NumberFor, Wrap
<1> QED
  BY <1>1, <1>2, <1>3, SMT

(* ... and a slot that is not skipped stands for the number it did before. *)
Jumped(n, h, w) ==
  IF w >= h THEN h .. w - 1 ELSE (h .. n - 1) \cup (0 .. w - 1)

LEMMA NumberElsewhere ==
  ASSUME NEW n \in Nat, n >= 2, NEW a \in Nat, NEW h \in 0 .. n - 1,
         NEW o \in {0, 1}, NEW i \in 0 .. n - 1,
         i # Wrap(n, h + o), i \notin Jumped(n, h, Wrap(n, h + o))
  PROVE  NumberFor(n, a + o + 1, Wrap(n, h + o + 1), i) = NumberFor(n, a, h, i)
<1>1. CASE h + o + 1 < n
  BY <1>1, SMT DEF NumberFor, Wrap, Jumped
<1>2. CASE h + o + 1 = n
  BY <1>2, SMT DEF NumberFor, Wrap, Jumped
<1>3. CASE h + o + 1 > n
  BY <1>3, SMT DEF NumberFor, Wrap, Jumped
<1> QED
  BY <1>1, <1>2, <1>3, SMT

(* It leaves every slot with the packet its index then stands for.         *)
LEMMA PushAligned ==
  ASSUME NEW P, Zero \notin P, NEW b, RingType(b, P), Sound(b),
         NEW p \in P, NEW off \in {0, 1}, p.num = b.absHead + off
  PROVE  Aligned(PushAt(b, p, off))
<1> DEFINE c == PushAt(b, p, off)
           w == WritePos(b, off)
           h == NewHead(b, off)
<1>1. /\ b.n \in Nat /\ b.n >= 2 /\ b.absHead \in Nat
      /\ b.head \in 0 .. b.n - 1 /\ b.tail \in 0 .. b.n - 1
      /\ off \in Nat /\ off <= 1
  BY RingFields, SMT DEF Sound
<1>2. w = Wrap(b.n, b.head + off)
  BY PushCursors, Zenon
<1>8. h = Wrap(b.n, b.head + off + 1)
  BY PushCursors, Zenon
<1>3. c.head = h /\ c.n = b.n /\ c.slot = PushedSlots(b, p, off)
  BY Zenon DEF PushAt, Moved
<1>4. c.absHead = b.absHead + off + 1
  <2>1. c.absHead = p.num + 1
    BY Zenon DEF PushAt, Moved
  <2> HIDE DEF c
  <2> QED
    BY <2>1, <1>1, SMT
<1> HIDE DEF c, w, h
<1>5. DOMAIN c.slot = 0 .. b.n - 1
  BY <1>3, Zenon DEF PushedSlots
<1>6. ASSUME NEW i \in 0 .. b.n - 1, Occupied(c, i)
      PROVE  c.slot[i].num = NumAt(c, i)
  <2>1. /\ NumAt(c, i) = NumberFor(b.n, b.absHead + off + 1, h, i)
        /\ NumAt(b, i) = NumberFor(b.n, b.absHead, b.head, i)
    BY <1>3, <1>4, Zenon DEF NumAt, NumberFor
  <2>2. c.slot[i] = IF i = w THEN p
                    ELSE IF i \in Skipped(b, off) THEN Zero ELSE b.slot[i]
    BY <1>3, Zenon DEF PushedSlots, w
  <2>3. CASE i = w
    <3>1. NumAt(c, i) = b.absHead + off
      BY <1>1, <1>2, <1>8, <2>1, <2>3, NumberAtWrite, Zenon
    <3> QED
      BY <2>2, <2>3, <3>1, Zenon
  <2>4. CASE i # w
    <3>1. c.slot[i] = b.slot[i] /\ i \notin Skipped(b, off)
      BY <1>6, <2>2, <2>4, Zenon DEF Occupied
    <3>2. b.slot[i].num = NumAt(b, i)
      BY <1>6, <3>1, RingFields, Zenon DEF Sound, Aligned, Occupied
    <3>3. i \notin Jumped(b.n, b.head, w)
      BY <3>1, Zenon DEF Skipped, Jumped, w
    <3>4. NumAt(c, i) = NumAt(b, i)
      <4>0. /\ i # Wrap(b.n, b.head + off)
            /\ i \notin Jumped(b.n, b.head, Wrap(b.n, b.head + off))
        BY <1>2, <2>4, <3>3, Zenon
      <4>1. NumberFor(b.n, b.absHead + off + 1, Wrap(b.n, b.head + off + 1), i) =
            NumberFor(b.n, b.absHead, b.head, i)
        BY <1>1, <4>0, NumberElsewhere
      <4> QED
        BY <1>8, <2>1, <4>1, Zenon
    <3> QED
      BY <3>1, <3>2, <3>4, Zenon
  <2> QED
    BY <2>3, <2>4
<1> QED
  BY <1>5, <1>6, Zenon DEF Aligned, c

(* So a packet that comes next, or next but one, leaves the ring sound.    *)
LEMMA PushSound ==
  ASSUME NEW P, Zero \notin P, NEW b, RingType(b, P), Sound(b),
         NEW p \in P, NEW off \in {0, 1}, p.num = b.absHead + off
  PROVE  Sound(PushAt(b, p, off))
<1> DEFINE c == PushAt(b, p, off)
<1>1. /\ c.absHead = b.absHead + off + 1
      /\ c.byte0 = b.byte0 /\ c.n = b.n /\ c.fault = "none"
      /\ c.tail \in 0 .. b.n - 1 /\ c.head \in 0 .. b.n - 1
      /\ RangeOf(c) = IF RangeOf(b) + off + 1 < b.n
                      THEN RangeOf(b) + off + 1 ELSE b.n - 1
  BY PushRange
<1>2. Aligned(c)
  BY PushAligned, Zenon
<1> HIDE DEF c
<1>3. /\ b.n \in Nat /\ b.n >= 2 /\ b.absHead \in Nat /\ b.byte0 \in Nat
      /\ RangeOf(b) \in 0 .. b.n - 1 /\ b.byte0 + RangeOf(b) <= b.absHead
      /\ off \in Nat
  BY RingFields, SoundRange, SMT DEF Sound
<1>4. /\ c.tail < c.n /\ c.head < c.n
      /\ c.byte0 + RangeOf(c) <= c.absHead
  BY <1>1, <1>3, SMT
<1> QED
  BY <1>1, <1>2, <1>3, <1>4 DEF Sound, c

(* In plain numbers: how far tail t is behind head h, and that a tail not  *)
(* at the head moves towards it.                                           *)
Span(n, t, h) == IF t <= h THEN h - t ELSE h + (n - t)

LEMMA SpanAfterDump ==
  ASSUME NEW n \in Nat, NEW t \in 0 .. n - 1, NEW h \in 0 .. n - 1,
         Span(n, t, h) > 0
  PROVE  /\ Wrap(n, t + 1) \in 0 .. n - 1
         /\ Span(n, Wrap(n, t + 1), h) = Span(n, t, h) - 1
BY SMT DEF Span, Wrap

(* Playing the oldest packet, when there is one, keeps the ring sound and  *)
(* takes one number off the lower end of its window.                       *)
LEMMA DumpSound ==
  ASSUME NEW P, NEW b, RingType(b, P), Sound(b), RangeOf(b) > 0
  PROVE  /\ Sound(DumpTail(b))
         /\ RangeOf(DumpTail(b)) = RangeOf(b) - 1
         /\ DumpTail(b).absHead = b.absHead
         /\ DumpTail(b).byte0 = b.byte0 /\ DumpTail(b).psize = b.psize
         /\ DumpTail(b).n = b.n
<1> DEFINE c == DumpTail(b)
           t == (b.tail + 1) % b.n
<1>1. /\ b.n \in Nat /\ b.n >= 2 /\ b.absHead \in Nat /\ b.byte0 \in Nat
      /\ b.head \in 0 .. b.n - 1 /\ b.tail \in 0 .. b.n - 1
      /\ b.byte0 + RangeOf(b) <= b.absHead
      /\ b.slot \in [0 .. b.n - 1 -> P \cup {Zero}]
      /\ b.fault = "none"
  BY RingFields, SMT DEF Sound
<1>2. t = Wrap(b.n, b.tail + 1)
  <2> DEFINE x == b.tail + 1
             n == b.n
  <2>1. x \in Nat /\ n \in Nat \ {0} /\ x <= n
    BY <1>1, SMT
  <2> HIDE DEF x, n
  <2>2. x % n = Wrap(n, x)
    BY <2>1, SMT DEF Wrap
  <2> QED
    BY <2>2, Zenon DEF x, n
<1>3. b.n # 0
  BY <1>1, SMT
<1>4. /\ c.absHead = b.absHead /\ c.byte0 = b.byte0 /\ c.psize = b.psize
      /\ c.n = b.n /\ c.tail = t /\ c.head = b.head /\ c.fault = b.fault
      /\ c.slot = [b.slot EXCEPT ![b.tail] = Zero]
  BY <1>3, Zenon DEF DumpTail, Moved
<1> HIDE DEF c, t
<1>8. RangeOf(b) = Span(b.n, b.tail, b.head) /\ RangeOf(c) = Span(b.n, t, b.head)
  BY <1>4, Zenon DEF RangeOf, Span
<1>9. /\ t \in 0 .. b.n - 1
      /\ Span(b.n, t, b.head) = Span(b.n, b.tail, b.head) - 1
  BY <1>1, <1>2, <1>8, SpanAfterDump, Zenon
<1>5. RangeOf(c) = RangeOf(b) - 1
  BY <1>8, <1>9, Zenon
<1>6. Aligned(c)
  <2> SUFFICES ASSUME NEW i \in DOMAIN c.slot, Occupied(c, i)
               PROVE  c.slot[i].num = NumAt(c, i)
    BY DEF Aligned
  <2>1. i \in DOMAIN b.slot /\ c.slot[i] = b.slot[i] /\ Occupied(b, i)
    BY <1>1, <1>4, Zenon DEF Occupied
  <2>2. b.slot[i].num = NumAt(b, i)
    BY <2>1, Zenon DEF Sound, Aligned
  <2>3. NumAt(c, i) = NumAt(b, i)
    BY <1>4, Zenon DEF NumAt
  <2> QED
    BY <2>1, <2>2, <2>3, Zenon
<1>7. /\ c.tail < c.n /\ c.head < c.n /\ c.n >= 2
      /\ c.byte0 + RangeOf(c) <= c.absHead
  <2>1. RangeOf(b) \in Nat /\ b.n \in Nat /\ b.n >= 2 /\ b.head < b.n
    BY SoundRange, RingFields, SMT DEF Sound
  <2> QED
    BY <1>1, <1>4, <1>5, <1>9, <2>1, SMT
<1> QED
  BY <1>1, <1>4, <1>5, <1>6, <1>7 DEF Sound, c

(* A ring that starts over with room for two packets is sound.             *)
LEMMA ResetSound ==
  ASSUME NEW psize \in Nat \ {0}, NEW k \in Nat, 2 * psize <= Capacity
  PROVE  /\ Sound(ResetAt(psize, k))
         /\ RangeOf(ResetAt(psize, k)) = 0
<1> DEFINE c == ResetAt(psize, k)
<1>1. /\ c.absHead = k /\ c.byte0 = k /\ c.n = RoundedCap(psize)
      /\ c.tail = 0 /\ c.head = 0 /\ c.fault = "none"
      /\ c.slot = [i \in 0 .. c.n - 1 |-> Zero]
  BY Zenon DEF ResetAt, Clean
<1>2. RoundedCap(psize) >= 2 /\ RoundedCap(psize) \in 0 .. Capacity
  BY CapTwo, CapBound
<1> HIDE DEF c
<1>3. Aligned(c)
  BY <1>1, Zenon DEF Aligned, Occupied
<1>4. RangeOf(c) = 0
  BY <1>1, SMT DEF RangeOf
<1>5. c.n >= 2 /\ c.tail < c.n /\ c.head < c.n /\ c.byte0 + RangeOf(c) <= c.absHead
  BY <1>1, <1>2, <1>4, RingAssumption, SMT
<1> QED
  BY <1>1, <1>3, <1>4, <1>5 DEF Sound, c

-----------------------------------------------------------------------------
(***************************************************************************)
(* The numbers a sound ring holds: the indices of its window are those     *)
(* whose number is not below the tail's.                                   *)
(***************************************************************************)
Between(t, h, i) == IF t <= h THEN t <= i /\ i < h ELSE t <= i \/ i < h

LEMMA NumberInWindow ==
  ASSUME NEW n \in Nat, n >= 2, NEW a \in Nat, NEW h \in 0 .. n - 1,
         NEW t \in 0 .. n - 1, NEW i \in 0 .. n - 1
  PROVE  /\ NumberFor(n, a, h, i) \in Int
         /\ Between(t, h, i) <=> NumberFor(n, a, h, i) >= a - Span(n, t, h)
         /\ Span(n, t, h) > 0 => NumberFor(n, a, h, t) = a - Span(n, t, h)
BY SMT DEF NumberFor, Span, Between

LEMMA WindowByNumber ==
  ASSUME NEW P, NEW b, RingType(b, P), Sound(b), NEW i \in DOMAIN b.slot
  PROVE  /\ NumAt(b, i) \in Int
         /\ InWindow(b, i) <=> NumAt(b, i) >= AbsTail(b)
         /\ RangeOf(b) > 0 => NumAt(b, b.tail) = AbsTail(b)
<1>1. /\ b.n \in Nat /\ b.n >= 2 /\ b.absHead \in Nat
      /\ b.head \in 0 .. b.n - 1 /\ b.tail \in 0 .. b.n - 1
  BY RingFields, SMT DEF Sound
<1>2. i \in 0 .. b.n - 1
  BY RingFields
<1>3. \A j : NumAt(b, j) = NumberFor(b.n, b.absHead, b.head, j)
  BY Zenon DEF NumAt, NumberFor
<1>4. AbsTail(b) = b.absHead - Span(b.n, b.tail, b.head)
  BY SoundRange, Zenon DEF RangeOf, Span
<1>5. RangeOf(b) = Span(b.n, b.tail, b.head)
  BY Zenon DEF RangeOf, Span
<1>6. InWindow(b, i) <=> Between(b.tail, b.head, i)
  BY Zenon DEF InWindow, Between
<1>7. /\ NumberFor(b.n, b.absHead, b.head, i) \in Int
      /\ Between(b.tail, b.head, i) <=>
           NumberFor(b.n, b.absHead, b.head, i) >= b.absHead - Span(b.n, b.tail, b.head)
      /\ Span(b.n, b.tail, b.head) > 0 =>
           NumberFor(b.n, b.absHead, b.head, b.tail) =
             b.absHead - Span(b.n, b.tail, b.head)
  BY <1>1, <1>2, NumberInWindow
<1>8. InWindow(b, i) <=> NumAt(b, i) >= AbsTail(b)
  BY <1>3, <1>4, <1>6, <1>7, Zenon
<1>9. RangeOf(b) > 0 => NumAt(b, b.tail) = AbsTail(b)
  BY <1>3, <1>4, <1>5, <1>7, Zenon
<1> QED
  BY <1>3, <1>7, <1>8, <1>9, Zenon

(* The numbers that were a whole ring ago are those of the slots written   *)
(* and skipped by a push.                                                  *)
LEMMA NumberJumped ==
  ASSUME NEW n \in Nat, n >= 2, NEW a \in Nat, NEW h \in 0 .. n - 1,
         NEW o \in {0, 1}, NEW i \in 0 .. n - 1,
         i = Wrap(n, h + o) \/ i \in Jumped(n, h, Wrap(n, h + o))
  PROVE  NumberFor(n, a, h, i) <= a + o - n
<1>1. CASE h + o < n
  BY <1>1, SMT DEF NumberFor, Wrap, Jumped
<1>2. CASE h + o >= n
  BY <1>2, SMT DEF NumberFor, Wrap, Jumped
<1> QED
  BY <1>1, <1>2, SMT

(* A push adds the packet's number and drops those below the new tail.     *)
LEMMA PushHeld ==
  ASSUME NEW P, Zero \notin P, NEW b, RingType(b, P), Sound(b),
         NEW p \in P, NEW off \in {0, 1}, p.num = b.absHead + off,
         NEW c, c = PushAt(b, p, off), RingType(c, P)
  PROVE  Held(c) = {x \in Held(b) \cup {c.absHead - 1} : x >= AbsTail(c)}
<1> DEFINE w == WritePos(b, off)
<1>1. /\ b.n \in Nat /\ b.n >= 2 /\ b.absHead \in Nat
      /\ b.head \in 0 .. b.n - 1 /\ b.tail \in 0 .. b.n - 1
      /\ off \in Nat /\ off <= 1 /\ RangeOf(b) \in 0 .. b.n - 1
  BY RingFields, SoundRange, SMT DEF Sound
<1>2. w = Wrap(b.n, b.head + off)
  BY PushCursors, Zenon
<1>3. /\ c.n = b.n /\ c.slot = PushedSlots(b, p, off)
      /\ c.head = Wrap(b.n, b.head + off + 1)
  BY PushCursors, Zenon DEF PushAt, Moved
<1>4. Sound(c)
  BY PushSound, Zenon
<1>5. c.absHead = b.absHead + off + 1
  BY PushRange
<1>6. RangeOf(c) = IF RangeOf(b) + off + 1 < b.n THEN RangeOf(b) + off + 1 ELSE b.n - 1
  BY PushRange
<1>7. /\ AbsTail(c) = c.absHead - RangeOf(c) /\ AbsTail(b) = b.absHead - RangeOf(b)
  BY <1>4, SoundRange, Zenon
<1>8. /\ AbsTail(b) <= AbsTail(c) /\ AbsTail(c) <= b.absHead + off
      /\ b.absHead + off - b.n < AbsTail(c)
      /\ AbsTail(b) \in Int /\ AbsTail(c) \in Int
  BY <1>1, <1>5, <1>6, <1>7, SMT
<1>9. /\ DOMAIN b.slot = 0 .. b.n - 1 /\ DOMAIN c.slot = 0 .. b.n - 1
  BY <1>3, RingFields
<1> HIDE DEF w
<1>10. w \in 0 .. b.n - 1
  BY <1>1, <1>2, SMT DEF Wrap
<1>11. c.slot[w] = p /\ Occupied(c, w)
  BY <1>3, <1>10, Zenon DEF PushedSlots, Occupied, w
<1>12. NumAt(c, w) = b.absHead + off
  <2>1. c.slot[w].num = NumAt(c, w)
    BY <1>4, <1>9, <1>10, <1>11, Zenon DEF Sound, Aligned
  <2> QED
    BY <1>11, <2>1
<1>13. ASSUME NEW i \in 0 .. b.n - 1, i # w, i \notin Skipped(b, off)
       PROVE  c.slot[i] = b.slot[i] /\ NumAt(c, i) = NumAt(b, i)
  <2>1. c.slot[i] = b.slot[i]
    BY <1>3, <1>13, Zenon DEF PushedSlots, w
  <2>2. i # Wrap(b.n, b.head + off) /\ i \notin Jumped(b.n, b.head, Wrap(b.n, b.head + off))
    BY <1>2, <1>13, Zenon DEF Skipped, Jumped, w
  <2>3. NumberFor(b.n, b.absHead + off + 1, Wrap(b.n, b.head + off + 1), i) =
        NumberFor(b.n, b.absHead, b.head, i)
    BY <1>1, <2>2, NumberElsewhere
  <2> QED
    BY <1>3, <1>5, <2>1, <2>3, Zenon DEF NumAt, NumberFor
<1>14. ASSUME NEW i \in 0 .. b.n - 1, i = w \/ i \in Skipped(b, off)
       PROVE  NumAt(b, i) < AbsTail(c)
  <2>1. \/ i = Wrap(b.n, b.head + off)
        \/ i \in Jumped(b.n, b.head, Wrap(b.n, b.head + off))
    BY <1>2, <1>14, Zenon DEF Skipped, Jumped, w
  <2>2. NumberFor(b.n, b.absHead, b.head, i) <= b.absHead + off - b.n
    BY <1>1, <2>1, NumberJumped, Zenon
  <2>3. NumAt(b, i) = NumberFor(b.n, b.absHead, b.head, i)
    BY Zenon DEF NumAt, NumberFor
  <2>4. NumAt(b, i) \in Int
    BY <1>9, WindowByNumber, Zenon
  <2> QED
    BY <1>1, <1>8, <2>2, <2>3, <2>4, SMT
<1>15. ASSUME NEW x \in Held(c)
       PROVE  x \in Held(b) \cup {c.absHead - 1} /\ x >= AbsTail(c)
  <2>1. PICK i \in 0 .. b.n - 1 : InWindow(c, i) /\ Occupied(c, i) /\ x = NumAt(c, i)
    BY <1>9, Zenon DEF Held
  <2>2. x >= AbsTail(c) /\ x \in Int
    BY <1>4, <1>9, <2>1, WindowByNumber, Zenon
  <2>3. CASE i = w
    BY <1>1, <1>5, <1>12, <2>1, <2>2, <2>3, SMT
  <2>4. CASE i # w
    <3>1. i \notin Skipped(b, off)
      BY <1>3, <2>1, <2>4, Zenon DEF PushedSlots, Occupied, w
    <3>2. Occupied(b, i) /\ x = NumAt(b, i)
      BY <1>13, <2>1, <2>4, <3>1, Zenon DEF Occupied
    <3>3. x >= AbsTail(b)
      BY <1>8, <2>2, SMT
    <3>4. InWindow(b, i)
      BY <1>9, <3>2, <3>3, WindowByNumber, Zenon
    <3> QED
      BY <1>9, <2>2, <3>2, <3>4, Zenon DEF Held
  <2> QED
    BY <2>3, <2>4
<1>16. ASSUME NEW x \in Held(b) \cup {c.absHead - 1}, x >= AbsTail(c)
       PROVE  x \in Held(c)
  <2>1. CASE x = c.absHead - 1
    <3>1. x = NumAt(c, w)
      BY <1>1, <1>5, <1>12, <2>1, SMT
    <3>2. InWindow(c, w)
      BY <1>4, <1>9, <1>10, <1>16, <3>1, WindowByNumber, Zenon
    <3> QED
      BY <1>9, <1>10, <1>11, <3>1, <3>2, Zenon DEF Held
  <2>2. CASE x \in Held(b)
    <3>1. PICK i \in 0 .. b.n - 1 : Occupied(b, i) /\ x = NumAt(b, i)
      BY <1>9, <2>2, Zenon DEF Held
    <3>2. NumAt(b, i) \in Int
      BY <1>9, WindowByNumber, Zenon
    <3>3. ~(NumAt(b, i) < AbsTail(c))
      BY <1>8, <1>16, <3>1, <3>2, SMT
    <3>4. i # w /\ i \notin Skipped(b, off)
      BY <1>14, <3>3, Zenon
    <3>5. Occupied(c, i) /\ x = NumAt(c, i)
      BY <1>13, <3>1, <3>4, Zenon DEF Occupied
    <3>6. InWindow(c, i)
      BY <1>4, <1>9, <1>16, <3>5, WindowByNumber, Zenon
    <3> QED
      BY <1>9, <3>5, <3>6, Zenon DEF Held
  <2> QED
    BY <1>16, <2>1, <2>2, Zenon
<1> QED
  BY <1>15, <1>16, Zenon

(* Playing the oldest packet drops the lowest number.                      *)
LEMMA DumpHeld ==
  ASSUME NEW P, NEW b, RingType(b, P), Sound(b), RangeOf(b) > 0,
         NEW c, c = DumpTail(b), RingType(c, P)
  PROVE  /\ AbsTail(c) = AbsTail(b) + 1
         /\ Held(c) = Held(b) \ {AbsTail(b)}
<1>1. Sound(c) /\ RangeOf(c) = RangeOf(b) - 1 /\ c.absHead = b.absHead /\ c.n = b.n
  BY DumpSound, Zenon
<1>2. /\ b.n \in Nat /\ b.n >= 2 /\ b.absHead \in Nat
      /\ b.tail \in 0 .. b.n - 1 /\ RangeOf(b) \in 0 .. b.n - 1
      /\ AbsTail(b) \in Int /\ AbsTail(b) = b.absHead - RangeOf(b)
  BY RingFields, SoundRange, SMT DEF Sound
<1>3. AbsTail(c) = c.absHead - RangeOf(c)
  BY <1>1, SoundRange, Zenon
<1>4. AbsTail(c) = AbsTail(b) + 1
  BY <1>1, <1>2, <1>3, SMT
<1>5. /\ DOMAIN b.slot = 0 .. b.n - 1 /\ DOMAIN c.slot = 0 .. b.n - 1
      /\ b.slot \in [0 .. b.n - 1 -> P \cup {Zero}]
  BY <1>1, RingFields
<1>6. b.n # 0
  BY <1>2, SMT
<1>7. c.slot = [b.slot EXCEPT ![b.tail] = Zero] /\ c.head = b.head
  BY <1>6, Zenon DEF DumpTail, Moved
<1>8. ASSUME NEW i \in 0 .. b.n - 1
      PROVE  /\ NumAt(c, i) = NumAt(b, i) /\ NumAt(b, i) \in Int
             /\ Occupied(c, i) <=> Occupied(b, i) /\ i # b.tail
             /\ InWindow(b, i) <=> NumAt(b, i) >= AbsTail(b)
             /\ InWindow(c, i) <=> NumAt(b, i) >= AbsTail(b) + 1
  <2>1. NumAt(c, i) = NumAt(b, i)
    BY <1>1, <1>7, Zenon DEF NumAt
  <2>2. Occupied(c, i) <=> Occupied(b, i) /\ i # b.tail
    BY <1>5, <1>7, Zenon DEF Occupied
  <2>3. /\ NumAt(b, i) \in Int
        /\ InWindow(b, i) <=> NumAt(b, i) >= AbsTail(b)
    BY <1>5, WindowByNumber, Zenon
  <2>4. InWindow(c, i) <=> NumAt(c, i) >= AbsTail(c)
    BY <1>1, <1>5, WindowByNumber, Zenon
  <2> QED
    BY <1>4, <2>1, <2>2, <2>3, <2>4, Zenon
<1>9. NumAt(b, b.tail) = AbsTail(b)
  BY <1>2, <1>5, WindowByNumber, Zenon
<1>10. ASSUME NEW x \in Held(c)
       PROVE  x \in Held(b) /\ x # AbsTail(b)
  <2>1. PICK i \in 0 .. b.n - 1 : InWindow(c, i) /\ Occupied(c, i) /\ x = NumAt(c, i)
    BY <1>5, Zenon DEF Held
  <2>2. x = NumAt(b, i) /\ x \in Int /\ x >= AbsTail(b) + 1 /\ Occupied(b, i)
    BY <1>8, <2>1, Zenon
  <2>3. x >= AbsTail(b) /\ x # AbsTail(b)
    BY <1>2, <2>2, SMT
  <2>4. InWindow(b, i)
    BY <1>8, <2>2, <2>3, Zenon
  <2> QED
    BY <1>5, <2>2, <2>3, <2>4, Zenon DEF Held
<1>11. ASSUME NEW x \in Held(b), x # AbsTail(b)
       PROVE  x \in Held(c)
  <2>1. PICK i \in 0 .. b.n - 1 : InWindow(b, i) /\ Occupied(b, i) /\ x = NumAt(b, i)
    BY <1>5, Zenon DEF Held
  <2>2. x >= AbsTail(b) /\ x \in Int /\ i # b.tail
    BY <1>8, <1>9, <1>11, <2>1, Zenon
  <2>3. x >= AbsTail(b) + 1
    BY <1>2, <1>11, <2>2, SMT
  <2>4. InWindow(c, i) /\ Occupied(c, i) /\ x = NumAt(c, i)
    BY <1>8, <2>1, <2>2, <2>3, Zenon
  <2> QED
    BY <1>5, <2>4, Zenon DEF Held
<1> QED
  BY <1>4, <1>10, <1>11, Zenon
=============================================================================
