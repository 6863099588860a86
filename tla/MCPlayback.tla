----------------------------- MODULE MCPlayback -----------------------------
(* Instances of Playback for TLC: packet sizes of the sessions.            *)
EXTENDS Playback

(* With a Capacity of 8 bytes: rings of 4 and 2 slots.                     *)
SizesFit == <<2, 3>>

(* With a Capacity of 12 bytes: rings of 6, 3 and 2 slots.                 *)
SizesWide == <<2, 4, 6>>
=============================================================================
