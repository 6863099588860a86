------------------------------ MODULE MCSender ------------------------------
(* Instances of Sender for TLC: what the receivers ask for.                *)
EXTENDS Sender

(* Nothing, the start of the stream, a run, something to come, and old and *)
(* new numbers in one request.                                             *)
WishesMixed == {{}, {0}, {1, 2}, {3}, {0, 6}}

WishesOne == {{1, 2}}
=============================================================================
