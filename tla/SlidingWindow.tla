---------------------------- MODULE SlidingWindow ----------------------------
(***************************************************************************)
(* What a CircularBuffer promises its users, without cursors or slots: the *)
(* numbers lo .. hi-1 are buffered or reserved, have is the set of those   *)
(* that have arrived, and at most limit numbers are kept.                  *)
(***************************************************************************)
EXTENDS Integers

VARIABLES lo, hi, have, limit
window == <<lo, hi, have, limit>>

Init == lo = 0 /\ hi = 0 /\ have = {} /\ limit \in Nat

(* Playback starts over at some number, with room for some numbers.        *)
Restart ==
  /\ lo' \in Nat
  /\ hi' = lo'
  /\ have' = {}
  /\ limit' \in Nat

(* A number k not met before arrives: the numbers it jumps over are        *)
(* reserved, and the oldest numbers make room when there is none left.     *)
Put ==
  /\ hi' \in Nat
  /\ hi' > hi
  /\ lo' = IF lo >= hi' - limit THEN lo ELSE hi' - limit
  /\ have' = {x \in have \cup {hi' - 1} : x >= lo'}
  /\ UNCHANGED limit

(* The oldest number is played; it exists. *)
Take ==
  /\ lo < hi
  /\ lo' = lo + 1
  /\ have' = have \ {lo}
  /\ UNCHANGED <<hi, limit>>

Next == Restart \/ Put \/ Take

Spec == Init /\ [][Next]_window

(* A window that is only put into. *)
PutSpec == Init /\ [][Put]_window
=============================================================================
