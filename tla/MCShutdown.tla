----------------------------- MODULE MCShutdown -----------------------------
(* Instances of Shutdown for TLC: the sender, and the receiver with three  *)
(* of its workers at a time.                                               *)
EXTENDS Shutdown

(* p with the workers ws[1] < ws[2] < ... only. *)
Part(p, ws) ==
  LET at == 0 .. Len(ws) - 1
  IN  [n |-> Len(ws),
       sleepers |-> {k \in at : ws[k + 1] \in p.sleepers},
       ends |-> p.ends /\ ws[Len(ws)] = p.n - 1,
       wakes |-> [k \in at |-> {j \in at : ws[j + 1] \in p.wakes[ws[k + 1]]}]]

(* AudioPrinter, AudioReceiver, StationRemover; and AudioReceiver,         *)
(* LookupReceiver, UiMenu.                                                 *)
Programs == {Part(Receiver, <<1, 2, 5>>), Part(Receiver, <<2, 3, 6>>), Sender}
=============================================================================
