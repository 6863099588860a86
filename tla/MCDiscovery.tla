---------------------------- MODULE MCDiscovery ----------------------------
(* An instance of Discovery for TLC: a host with a sender that is started  *)
(* under one name or another, and a host where another program answers.    *)
EXTENDS Discovery

Classics == [group |-> "239.10.11.12", port |-> 28422, name |-> <<Word("Classics")>>]

RadioOne ==
  [group |-> "239.10.11.12", port |-> 28422, name |-> <<Word("Radio"), Space, Number(1)>>]

Given == [h \in {"a", "b"} |-> IF h = "a" THEN {Classics, RadioOne} ELSE {}]

(* A name with a tab in it, and a port whose sign comes before white space.*)
Answers ==
  [h \in {"a", "b"} |->
     IF h = "a" THEN {}
     ELSE {LookupReply([Classics EXCEPT !.name = <<Word("a"), Blank, Word("b")>>]),
           <<Word("BOREWICZ_HERE"), Space, Group("239.10.11.12"), Space, Word("+"), Blank,
             Number(28422), Space, Word("Classics"), Newline>>}]
=============================================================================
