----------------------------- MODULE Discovery -----------------------------
(***************************************************************************)
(* How a receiver learns of the stations (src/receiver/lookup_sender.cc,   *)
(* lookup_receiver.cc, station_remover.cc; src/sender/controller.cc): it   *)
(* broadcasts a lookup every LOOKUP_TIMEOUT, senders answer, each answer   *)
(* renews its station's entry, and entries that nothing renews for         *)
(* REMOVAL_THRESHOLD are dropped.  A request or an answer may be lost;     *)
(* senders stop and start again, under another name if they like, and      *)
(* programs of other make answer too, in their own way.                    *)
(*                                                                         *)
(* Time goes in ticks.  What the threads do takes none, and a tick waits   *)
(* for everything that is due.                                             *)
(***************************************************************************)
EXTENDS Datagrams, FiniteSets

CONSTANTS
  Host,       \* where senders run: the source addresses of answers
  Announced,  \* for each, the group, port and name its senders may be given
  Foreign,    \* and the texts that programs of others answer with there
  Period,     \* LOOKUP_TIMEOUT
  Threshold,  \* REMOVAL_THRESHOLD
  MaxDelay,   \* bound: how long a message is on its way
  MaxLoss     \* bound: how many exchanges in a row with a sender may be lost

(* what SenderParams lets a sender be started with *)
Announceable(r) ==
  /\ r.name \in Seq({r.name[i] : i \in DOMAIN r.name}) /\ IsValidName(r.name)
  /\ r.port \in 0 .. MaxPort

ASSUME DiscoveryAssumption ==
  /\ MaxDelay \in Nat /\ MaxLoss \in Nat
  /\ Period \in Nat /\ Threshold \in Nat
  /\ MaxDelay < Period
  /\ (MaxLoss + 1) * Period + MaxDelay < Threshold
  /\ \A h \in Host : \A r \in Announced[h] : Announceable(r)

Off == <<>>   \* no program, or no message

(* RadioStation as far as cmp orders it: the name, the group, and the      *)
(* source address with the data port                                       *)
Entry(h, r) == [from |-> h, group |-> r.group, port |-> r.port, name |-> r.name]

Reply == [r \in UNION {Announced[h] : h \in Host} |-> LookupReply(r)]

Texts == [h \in Host |-> Foreign[h] \cup {Reply[r] : r \in Announced[h]}]

VARIABLES
  up,      \* what the program that runs on a host answers a lookup with
  asked,   \* hosts the request is on its way to
  answer,  \* the answer that is on its way from each
  lost,    \* how many exchanges with the program of each were lost in a row
  list,    \* *_stations: for each entry `age`, ticks since its last_reply,
           \*   and `lookups`, how many were sent since it was last heard
  since,   \* ticks since LookupSender's prev_sleep
  swept    \* remove_inactive() has run in this tick

net == <<up, asked, answer, lost>>
vars == <<net, list, since, swept>>

Init ==
  /\ up \in [Host -> {Off}]
  /\ asked = {}
  /\ answer = [h \in Host |-> Off] /\ lost = [h \in Host |-> 0]
  /\ list = <<>>
  /\ since = 0
  /\ swept = FALSE

-----------------------------------------------------------------------------
Start(h, text) ==
  /\ up[h] = Off
  /\ up' = [up EXCEPT ![h] = text]
  /\ lost' = [lost EXCEPT ![h] = 0]
  /\ UNCHANGED <<asked, answer, list, since, swept>>

Stop(h) ==
  /\ up[h] # Off
  /\ up' = [up EXCEPT ![h] = Off]
  /\ UNCHANGED <<asked, answer, lost, list, since, swept>>

(* LookupSender::run() *)
Lookup ==
  /\ since = Period
  /\ since' = 0
  /\ asked' = Host
  /\ list' =
       [e \in DOMAIN list |-> [age |-> list[e].age, lookups |-> list[e].lookups + 1]]
  /\ UNCHANGED <<up, answer, lost, swept>>

(* ControllerWorker::run() and handle_lookup_request() *)
Answer(h) ==
  /\ h \in asked /\ up[h] # Off
  /\ IsLookupRequest(LookupRequest)
  /\ asked' = asked \ {h}
  /\ answer' = [answer EXCEPT ![h] = up[h]]
  /\ UNCHANGED <<up, lost, list, since, swept>>

(* The request or the answer is lost: if nobody is there any more, or the  *)
(* network has not lost too many for the same sender yet.                  *)
Lose(h) ==
  /\ h \in asked \/ answer[h] # Off
  /\ up[h] # Off => lost[h] < MaxLoss
  /\ asked' = asked \ {h}
  /\ answer' = [answer EXCEPT ![h] = Off]
  /\ lost' = [lost EXCEPT ![h] = IF up[h] = Off THEN 0 ELSE @ + 1]
  /\ UNCHANGED <<up, list, since, swept>>

(* mutants: an entry that is there is not renewed; the stations of a host  *)
(* are taken for one                                                       *)
InsertOnly(e) ==
  [d \in DOMAIN list \cup {e} |->
     IF d # e THEN list[d]
     ELSE [age |-> IF e \in DOMAIN list THEN list[e].age ELSE 0, lookups |-> 0]]

RenewSameHost(e) ==
  [d \in IF \E x \in DOMAIN list : x.from = e.from THEN DOMAIN list ELSE DOMAIN list \cup {e} |->
     IF d.from = e.from THEN [age |-> 0, lookups |-> 0] ELSE list[d]]

(* update_last_reply() of the entry that is found, or insert()             *)
Renew(e) ==
  [d \in DOMAIN list \cup {e} |-> IF d = e THEN [age |-> 0, lookups |-> 0] ELSE list[d]]

(* LookupReceiver::run() and handle_lookup_reply(): what does not parse is *)
(* dropped                                                                 *)
Hear(h) ==
  /\ answer[h] # Off
  /\ answer' = [answer EXCEPT ![h] = Off]
  /\ list' = IF IsLookupReply(answer[h]) THEN Renew(Entry(h, ReplyOf(answer[h]))) ELSE list
  /\ lost' = [lost EXCEPT ![h] = 0]
  /\ UNCHANGED <<up, asked, since, swept>>

(* mutant: one tick late *)
SilentLate(e) == list[e].age > Threshold

(* StationRemover::remove_inactive() *)
Silent(e) == list[e].age >= Threshold

Sweep ==
  /\ ~swept
  /\ swept' = TRUE
  /\ list' = [e \in {d \in DOMAIN list : ~Silent(d)} |-> list[e]]
  /\ UNCHANGED <<net, since>>

Tick ==
  /\ since < Period /\ swept
  /\ since < MaxDelay \/ (asked = {} /\ \A h \in Host : answer[h] = Off)
  /\ since' = since + 1
  /\ swept' = FALSE
  /\ list' =
       [e \in DOMAIN list |-> [age |-> list[e].age + 1, lookups |-> list[e].lookups]]
  /\ UNCHANGED net

-----------------------------------------------------------------------------
Next ==
  \/ \E h \in Host : Stop(h) \/ \E text \in Texts[h] : Start(h, text)
  \/ \E h \in Host : Answer(h) \/ Lose(h) \/ Hear(h)
  \/ Lookup \/ Sweep \/ Tick

Spec == Init /\ [][Next]_vars

(* Time passes, and what is sent arrives or is lost. *)
FairSpec ==
  /\ Spec
  /\ WF_vars(Lookup \/ Sweep \/ Tick)
  /\ WF_vars(\E h \in Host : Answer(h) \/ Lose(h) \/ Hear(h))

-----------------------------------------------------------------------------
Stations == UNION {{Entry(h, r) : r \in Announced[h]} : h \in Host}

(* Type correctness of the discovery of stations.  An entry is never older *)
(* than the threshold, and younger when StationRemover has been there.     *)
TypeOK ==
  /\ \A h \in Host : up[h] \in Texts[h] \cup {Off} /\ answer[h] \in Texts[h] \cup {Off}
  /\ asked \subseteq Host
  /\ lost \in [Host -> 0 .. MaxLoss]
  /\ \A e \in DOMAIN list :
       /\ list[e].age \in 0 .. IF swept THEN Threshold - 1 ELSE Threshold
       /\ list[e].lookups \in Nat
  /\ since \in 0 .. Period
  /\ swept \in BOOLEAN

(* The list holds only stations as their senders announce them: what the   *)
(* receiver reads out of an answer is what was written into it, and the    *)
(* answers of others are not taken for stations.                           *)
OnlyStationsListed == DOMAIN list \subseteq Stations

(* A station is dropped only after more than MaxLoss lookups in a row have *)
(* gone without an answer from it.                                         *)
HeardIsKept ==
  [][\A e \in DOMAIN list \ DOMAIN list' : list[e].lookups > MaxLoss]_vars

(* A sender that stays comes to be in the list and to remain there,        *)
(* whatever is lost on the way, and whoever had its host before ...        *)
UpIsListed ==
  \A h \in Host : \A r \in Announced[h] :
    <>[](up[h] = Reply[r]) => <>[](Entry(h, r) \in DOMAIN list)

(* ... and one that does not come back is gone from the list for good.     *)
GoneIsDropped ==
  \A h \in Host : \A r \in Announced[h] :
    <>[](up[h] # Reply[r]) => <>[](Entry(h, r) \notin DOMAIN list)
=============================================================================
