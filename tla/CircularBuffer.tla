--------------------------- MODULE CircularBuffer ---------------------------
(***************************************************************************)
(* The ring of audio packets (src/common/circular_buffer.cc), as operators *)
(* on a record: the receiver's playback buffer and the sender's packet     *)
(* cache are both such a ring.                                             *)
(*                                                                         *)
(* Positions are counted in packets.  In the code _tail, _head and every   *)
(* first_byte_num are multiples of _psize (it asserts so), and _psize only *)
(* changes in reset(), which empties the ring; one packet here is _psize   *)
(* bytes there.  _data and _occupied are cleared and filled together on    *)
(* every path, so a slot is either the packet stored in it or Zero.        *)
(***************************************************************************)
EXTENDS Integers

CONSTANTS
  Capacity,  \* _capacity, in bytes
  Width,     \* how many absolute positions a uint64_t can tell apart
  Zero       \* the content of a slot whose _occupied flag is false

ASSUME RingAssumption ==
  /\ Capacity \in Nat \ {0}
  /\ Width \in Nat \ {0}

(* Unsigned subtraction: wraps around below zero. *)
Minus(a, b) == IF b <= a THEN a - b ELSE a - b + Width

(* rounded_cap(), in packets of psize bytes *)
RoundedCap(psize) == Capacity \div psize

(***************************************************************************)
(* fault is "none" while the object is sound; "assert" once a failed       *)
(* assert() has aborted the process; "overrun" once it has written outside *)
(* its array.  Nothing is claimed of a ring past its first fault.          *)
(***************************************************************************)
Clean(absHead, byte0, psize, n) ==
  [absHead |-> absHead, byte0 |-> byte0, psize |-> psize, n |-> n,
   tail |-> 0, head |-> 0, slot |-> [i \in 0 .. n - 1 |-> Zero],
   empty |-> TRUE, fault |-> "none"]

NewBuffer == Clean(0, 0, 0, 0)

(* reset(psize); n caches rounded_cap() *)
Reset(b, psize) == Clean(b.absHead, b.byte0, psize, RoundedCap(psize))

(* reset(psize, abs_head), which leaves nothing as it was *)
ResetAt(psize, absHead) == Clean(absHead, absHead, psize, RoundedCap(psize))

(* b with its cursors moved and its slots rewritten *)
Moved(b, absHead, tail, head, slot, empty) ==
  [absHead |-> absHead, byte0 |-> b.byte0, psize |-> b.psize, n |-> b.n,
   tail |-> tail, head |-> head, slot |-> slot,
   empty |-> empty, fault |-> b.fault]

Broken(b, fault) == [b EXCEPT !.fault = fault]

(* range(), abs_tail(), occupied(), printing_threshold() (in bytes) *)
RangeOf(b) ==
  IF b.tail <= b.head THEN b.head - b.tail ELSE b.head + (b.n - b.tail)

AbsTail(b) == Minus(b.absHead, RangeOf(b))

Occupied(b, i) == b.slot[i] # Zero

PrintingThreshold(b) == b.byte0 * b.psize + (Capacity \div 4) * 3

(* sideof() *)
SideOf(b, idx) ==
  CASE b.tail <= b.head /\ b.tail <= idx /\ idx <= b.head -> "LEFT"
    [] b.head < b.tail /\ idx <= b.head                   -> "LEFT"
    [] b.head < b.tail /\ b.tail <= idx /\ idx < b.n      -> "RIGHT"
    [] OTHER                                              -> "NONE"

-----------------------------------------------------------------------------
(* fill_gap(): the offset from the tail is what sideof() is asked about.   *)
FillGap(b, p) ==
  LET offset == Minus(p.num, AbsTail(b))
      side   == SideOf(b, offset)
      pos    == IF b.head < b.tail /\ side = "LEFT"
                THEN b.tail + offset - (b.n - b.tail)
                ELSE b.tail + offset
  IN  IF side = "NONE" THEN Broken(b, "assert")
      ELSE IF pos \notin 0 .. b.n - 1 THEN Broken(b, "overrun")
      ELSE Moved(b, b.absHead, b.tail, b.head, [b.slot EXCEPT ![pos] = p], FALSE)

(* Of try_push_head(): the write position, the slots it skips and clears,  *)
(* and whether the new head pushes the tail along; mutants between them.   *)
WritePosAtHead(b, offset) == b.head

WritePos(b, offset) == (b.head + offset) % b.n

SkippedUncleared(b, offset) == {}

Skipped(b, offset) ==
  IF WritePos(b, offset) >= b.head
  THEN b.head .. WritePos(b, offset) - 1
  ELSE (b.head .. b.n - 1) \cup (0 .. WritePos(b, offset) - 1)

NewHeadUnwrapped(b, offset) == b.head + offset + 1

NewHead(b, offset) == (b.head + offset + 1) % b.n

OvertakesLate(b, offset) ==
  \/ b.head + offset + 1 >= b.n /\ (b.tail <= b.head => b.tail < NewHead(b, offset))
  \/ b.head < b.tail /\ b.tail < NewHead(b, offset)

OvertakesOnWrap(b, offset) ==
  \/ b.head + offset + 1 >= b.n
  \/ b.head < b.tail /\ b.tail <= NewHead(b, offset)

Overtakes(b, offset) ==
  \/ /\ b.head + offset + 1 >= b.n
     /\ b.tail <= b.head => b.tail <= NewHead(b, offset)
  \/ /\ b.head < b.tail
     /\ b.tail <= NewHead(b, offset)

PushedSlots(b, p, offset) ==
  [i \in 0 .. b.n - 1 |->
     IF i = WritePos(b, offset) THEN p
     ELSE IF i \in Skipped(b, offset) THEN Zero ELSE b.slot[i]]

PushedTail(b, offset) ==
  IF Overtakes(b, offset) THEN (NewHead(b, offset) + 1) % b.n ELSE b.tail

PushAt(b, p, offset) ==
  Moved(b, p.num + 1, PushedTail(b, offset), NewHead(b, offset),
        PushedSlots(b, p, offset), FALSE)

(* the branch of try_push_head() that starts the ring over: with one slot, *)
(* a jump leaves _head one past the array; with none, memcpy() overruns it *)
PushAfresh(b, p) ==
  IF b.n = 0
  THEN Broken(b, "overrun")
  ELSE LET clean == Reset(b, b.psize)
       IN  Moved(clean, p.num + 1, 2 % b.n, 1, [clean.slot EXCEPT ![0] = p], FALSE)

TryPushHead(b, p) ==
  LET offset == p.num - b.absHead
  IN  IF offset > 1 THEN b    \* too far ahead: dismissed
      ELSE IF offset >= b.n THEN PushAfresh(b, p)
      ELSE PushAt(b, p, offset)

(* mutant: the next packet is taken for a missing one *)
TryPutOffByOne(b, p) ==
  IF p.num < AbsTail(b) THEN b
  ELSE IF p.num > b.absHead THEN TryPushHead(b, p)
  ELSE FillGap(b, p)

(* try_put() *)
TryPut(b, p) ==
  IF p.num < AbsTail(b) THEN b    \* too far behind: dismissed
  ELSE IF p.num >= b.absHead THEN TryPushHead(b, p)
  ELSE FillGap(b, p)

(* dump_tail() of one packet, the only size it is ever called with; what   *)
(* it writes to stdout is b.slot[b.tail].  It does not look at the head.   *)
(* A packet larger than the array is read and cleared past the array's end *)
(* before the division by rounded_cap() = 0.                               *)
DumpTail(b) ==
  IF b.n = 0
  THEN Broken(b, "overrun")
  ELSE Moved(b, b.absHead, (b.tail + 1) % b.n, b.head,
             [b.slot EXCEPT ![b.tail] = Zero], b.empty)

-----------------------------------------------------------------------------
(* A ring that holds packets of the set P. *)
RingType(b, P) ==
  /\ b \in [absHead : Nat, byte0 : Nat, psize : Nat, n : 0 .. Capacity,
            tail : Nat, head : Nat, slot : [0 .. b.n - 1 -> P \cup {Zero}],
            empty : BOOLEAN, fault : {"none", "assert", "overrun"}]
  /\ b.n > 0 => b.psize > 0

(* The number whose packet belongs in slot i, counted back from the head,  *)
(* and the slots between tail and head.                                    *)
NumAt(b, i) ==
  IF i < b.head THEN b.absHead - (b.head - i)
                ELSE b.absHead - (b.head + b.n - i)

InWindow(b, i) ==
  IF b.tail <= b.head THEN b.tail <= i /\ i < b.head
                      ELSE b.tail <= i \/ i < b.head

Held(b) ==
  {NumAt(b, i) : i \in {j \in DOMAIN b.slot : InWindow(b, j) /\ Occupied(b, j)}}

(* No slot holds a packet that is not the one its index stands for. *)
Aligned(b) ==
  \A i \in DOMAIN b.slot : Occupied(b, i) => b.slot[i].num = NumAt(b, i)

(* The cursors are indices of the ring. *)
CursorsInRing(b) ==
  b.n >= 2 => b.tail \in 0 .. b.n - 1 /\ b.head \in 0 .. b.n - 1
=============================================================================
