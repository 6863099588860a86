--------------------------- MODULE Retransmission ---------------------------
(***************************************************************************)
(* RexmitSender (src/receiver/rexmit_sender.cc) over the receiver's ring:  *)
(* every RTIME it walks from the tail to the head, and asks the current    *)
(* station for the packets of the slots found empty.  It holds the mutexes *)
(* of the stations, of the choice and of the ring while it does.           *)
(***************************************************************************)
EXTENDS Playback, Datagrams, FiniteSets

VARIABLES
  tuned,    \* *_current_station # _stations->end()
  request,  \* the text the last step has sent to the station, or <<>>
  hung      \* the walk has left the head behind and goes round for ever

rexmit == <<tuned, request, hung>>
rexmitVars == <<vars, rexmit>>

RexmitInit ==
  /\ Init
  /\ tuned = FALSE
  /\ request = <<>>
  /\ hung = FALSE

(* The walk: how it ends, how far from the tail it comes, and the steps at *)
(* which the slot is empty.                                                *)
WalkEnds(b) == b.empty \/ b.tail = b.head \/ b.head \in 0 .. b.n - 1

WalkOf(b) == IF b.empty THEN {} ELSE 0 .. RangeOf(b) - 1

IndexAt(b, k) == (b.tail + k) % b.n

Holes(b) == {k \in WalkOf(b) : ~Occupied(b, IndexAt(b, k))}

(* The element of S that k elements do not exceed, itself included.        *)
Nth(S, k) == CHOOSE x \in S : Cardinality({y \in S : y <= x}) = k

(* the index of the k-th empty slot that the walk meets                    *)
HoleIndex(b, k) == IndexAt(b, Nth(Holes(b), k))

(* mutant: counted from the head *)
IdsFromHead(b) ==
  [k \in 1 .. Cardinality(Holes(b)) |-> (HoleIndex(b, k) + b.absHead) % Width]

(* packet_ids: the index is added to abs_tail() as if it were an offset    *)
(* from the tail                                                           *)
IdsToAsk(b) ==
  [k \in 1 .. Cardinality(Holes(b)) |-> (HoleIndex(b, k) + AbsTail(b)) % Width]

(* order_retransmission() *)
Order ==
  /\ Running /\ ~pushing /\ ~hung
  /\ tuned
  /\ hung' = ~WalkEnds(buf)
  /\ request' = IF ~hung' /\ Holes(buf) # {} THEN RexmitText(IdsToAsk(buf)) ELSE <<>>
  /\ UNCHANGED <<vars, tuned>>

(* The stations come and go (StationDirectory says how).                   *)
Tune ==
  /\ Running /\ ~hung
  /\ tuned' = ~tuned
  /\ request' = <<>>
  /\ UNCHANGED <<vars, hung>>

(* The other two threads go on.  Whether the request arrives or is lost,   *)
(* the ring never hears of it: answers go to the socket it was sent from,  *)
(* and nobody reads that one.                                              *)
RexmitNext ==
  \/ Order \/ Tune
  \/ ~hung /\ Next /\ request' = <<>> /\ UNCHANGED <<tuned, hung>>

RexmitSpec == RexmitInit /\ [][RexmitNext]_rexmitVars

(* The same in the orderly environment of Playback.                        *)
RexmitSteadyNext ==
  \/ Order \/ Tune
  \/ ~hung /\ SteadyNext /\ request' = <<>> /\ UNCHANGED <<tuned, hung>>

RexmitSteadySpec == RexmitInit /\ [][RexmitSteadyNext]_rexmitVars

-----------------------------------------------------------------------------
(* The numbers of the packets between tail and head that are not there.    *)
Missing(b) ==
  {NumAt(b, i) : i \in {j \in DOMAIN b.slot : InWindow(b, j) /\ ~Occupied(b, j)}}

Asked(text) == {PacketIds(text)[k] : k \in DOMAIN PacketIds(text)}

Asking == request' # <<>> /\ request' # request

(* The walk ends in every ring of two slots or more, whatever has arrived, *)
(* been dismissed and been played before, the tail run past the head       *)
(* included: rexmit_sender.cc:44 stops at the head only.                   *)
OnlyOneSlotHangs == hung => buf.n < 2

(* What goes out is what Controller takes in: it is not mistaken for a     *)
(* lookup, it asks for something, and the numbers read back are those that *)
(* the walk has put together, each of them and in the same order.          *)
RequestIsUnderstood ==
  request # <<>> =>
    /\ ~IsLookupRequest(request)
    /\ IsRexmitRequest(request)
    /\ Len(PacketIds(request)) > 0
    /\ PacketIds(request) = IdsToAsk(buf)

(* A request is right while the tail is at index 0, and in any case has as *)
(* many numbers, all different, as packets are missing, none behind the    *)
(* tail and none further ahead of it than the ring is long.                *)
AskedNearWindow ==
  [][Asking =>
       /\ buf.tail = 0 => Asked(request') = {x % Width : x \in Missing(buf)}
       /\ \A x \in Asked(request') : Minus(x, AbsTail(buf)) < buf.n
       /\ Cardinality(Asked(request')) = Cardinality(Missing(buf))
       /\ Len(PacketIds(request')) = Cardinality(Missing(buf))]_rexmitVars

(* What the task description says: the packets asked for are those missing. *)
AsksForMissing == [][Asking => Asked(request') = Missing(buf)]_rexmitVars
=============================================================================
