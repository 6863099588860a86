-------------------------- MODULE MCRetransmission --------------------------
(* Instances of Retransmission for TLC: packet sizes of the sessions.      *)
EXTENDS Retransmission

(* With a Capacity of 8 bytes: rings of 4, 2, 1 and no slots.              *)
SizesAny == <<2, 3, 5, 9>>

(* With a Capacity of 12 bytes: a ring of 6 slots.                         *)
SizesOne == <<2>>
=============================================================================
