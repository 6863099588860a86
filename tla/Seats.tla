------------------------------- MODULE Seats -------------------------------
(***************************************************************************)
(* What UiMenu promises those who connect, without a poll table, a map or  *)
(* a turn: they wait in line, there is a seat for so many of them, and     *)
(* whoever has had one, or was turned away, is gone for good.              *)
(***************************************************************************)
EXTENDS Integers, FiniteSets

CONSTANTS
  Visitor,  \* numbers, in the order in which they come
  Places

VARIABLES waiting, seated, gone
seats == <<waiting, seated, gone>>

Init == waiting = {} /\ seated = {} /\ gone = {}

Arrive(v) ==
  /\ v \notin waiting \cup seated \cup gone
  /\ waiting' = waiting \cup {v}
  /\ UNCHANGED <<seated, gone>>

(* The first in line gets a seat, if there is one, or has to go.           *)
First(v) == v \in waiting /\ \A w \in waiting : v <= w

Seat(v) ==
  /\ First(v)
  /\ Cardinality(seated) < Places
  /\ waiting' = waiting \ {v}
  /\ seated' = seated \cup {v}
  /\ UNCHANGED gone

TurnAway(v) ==
  /\ First(v)
  /\ waiting' = waiting \ {v}
  /\ gone' = gone \cup {v}
  /\ UNCHANGED seated

Part(v) ==
  /\ v \in seated
  /\ seated' = seated \ {v}
  /\ gone' = gone \cup {v}
  /\ UNCHANGED waiting

Next == \E v \in Visitor : Arrive(v) \/ Seat(v) \/ TurnAway(v) \/ Part(v)

Spec == Init /\ [][Next]_seats
=============================================================================
