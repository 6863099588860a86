----------------------------- MODULE Datagrams -----------------------------
(***************************************************************************)
(* The texts receivers and senders exchange (src/common/datagram.cc): what *)
(* to_str() writes and what the parsing constructors take from it.  A text *)
(* is a sequence of lexemes; a lexeme is a pair of a kind and a value:     *)
(*   <<"space", 0>>, <<"comma", 0>>, <<"newline", 0>>                      *)
(*   <<"blank", 0>>    a run of tabs and other white space                 *)
(*   <<"number", n>>   digits that fit 64 bits                             *)
(*   <<"group", g>>    the dotted form of a multicast address              *)
(*   <<"word", w>>     any other run of printable characters, as a plus    *)
(*   <<"noise", w>>    one with a character that is not printable          *)
(***************************************************************************)
EXTENDS Integers, Sequences

Space == <<"space", 0>>
Comma == <<"comma", 0>>
Newline == <<"newline", 0>>
Blank == <<"blank", 0>>
Word(w) == <<"word", w>>
Number(n) == <<"number", n>>
Group(g) == <<"group", g>>

MaxPort == 65535
STATION_NAME_MAX_LEN == 64   \* counted in lexemes here

(* mutant: the end of the line is left on *)
Untrimmed(t) == t

(* trimmed(): one newline at the end is dropped *)
Trimmed(t) ==
  IF t # <<>> /\ t[Len(t)] = Newline THEN SubSeq(t, 1, Len(t) - 1) ELSE t

(* find(FIELD_SEPARATOR), and the two parts it cuts a text into            *)
HasSpace(t) == \E i \in 1 .. Len(t) : t[i] = Space

FirstSpace(t) ==
  CHOOSE i \in 1 .. Len(t) : t[i] = Space /\ \A j \in 1 .. i - 1 : t[j] # Space

Before(t) == SubSeq(t, 1, FirstSpace(t) - 1)
After(t) == SubSeq(t, FirstSpace(t) + 1, Len(t))

StartsWith(t, prefix) == HasSpace(t) /\ Before(t) = <<Word(prefix)>>

-----------------------------------------------------------------------------
(* LookupRequest *)
LookupRequest == <<Word("ZERO_SEVEN_COME_IN"), Newline>>

IsLookupRequest(t) == Trimmed(t) = <<Word("ZERO_SEVEN_COME_IN")>>

(* LookupReply: the multicast group, the port and the name of a station    *)
LookupReply(r) ==
  <<Word("BOREWICZ_HERE"), Space, Group(r.group), Space, Number(r.port), Space>>
    \o r.name \o <<Newline>>

(* mutant: the name is not looked at *)
AnyName(name) == TRUE

(* RadioStation::is_valid_name() *)
IsValidName(name) ==
  /\ name # <<>>
  /\ name[1] # Space /\ name[Len(name)] # Space
  /\ Len(name) <= STATION_NAME_MAX_LEN
  /\ \A i \in 1 .. Len(name) : name[i][1] \notin {"newline", "blank", "noise"}

(* std::stoul() skips white space and a plus; the digits it reads are      *)
(* next, and what follows them it leaves.                                  *)
StoulSkips == {b \o s : b \in {<<>>, <<Blank>>, <<Newline>>}, s \in {<<>>, <<Word("+")>>}}

NumberAt(field) ==
  {k \in 1 .. Len(field) : field[k][1] = "number" /\ SubSeq(field, 1, k - 1) \in StoulSkips}

IsPort(field) == \E k \in NumberAt(field) : field[k][2] <= MaxPort

PortOf(t) ==
  LET field == Before(After(After(t)))
  IN  field[CHOOSE k \in NumberAt(field) : TRUE][2]

IsGroup(field) == Len(field) = 1 /\ field[1][1] = "group"

NameOf(t) == After(After(After(t)))

IsLookupReply(text) ==
  LET t == Trimmed(text)
  IN  /\ StartsWith(t, "BOREWICZ_HERE")
      /\ HasSpace(After(t)) /\ IsGroup(Before(After(t)))
      /\ HasSpace(After(After(t))) /\ IsPort(Before(After(After(t))))
      /\ IsValidName(NameOf(t))

ReplyOf(text) ==
  LET t == Trimmed(text)
  IN  [group |-> Before(After(t))[1][2], port |-> PortOf(t), name |-> NameOf(t)]

-----------------------------------------------------------------------------
(* mutant: the loop over the numbers ends one too early *)
RexmitTextShort(ids) ==
  <<Word("LOUDER_PLEASE"), Space>>
    \o [i \in 1 .. IF Len(ids) > 1 THEN 2 * Len(ids) - 3 ELSE 1 |->
          IF i % 2 = 1 THEN Number(ids[(i + 1) \div 2]) ELSE Comma]
    \o <<Newline>>

(* RexmitRequest: packet numbers with commas between them *)
RexmitText(ids) ==
  <<Word("LOUDER_PLEASE"), Space>>
    \o [i \in 1 .. 2 * Len(ids) - 1 |->
          IF i % 2 = 1 THEN Number(ids[(i + 1) \div 2]) ELSE Comma]
    \o <<Newline>>

(* One number between any two commas: an empty token passes is_numeric(),  *)
(* but std::stoull() refuses it.                                           *)
IsList(p) ==
  \/ p = <<>>
  \/ /\ Len(p) % 2 = 1
     /\ \A i \in 1 .. Len(p) : IF i % 2 = 1 THEN p[i][1] = "number" ELSE p[i] = Comma

IsRexmitRequest(text) ==
  StartsWith(Trimmed(text), "LOUDER_PLEASE") /\ IsList(After(Trimmed(text)))

PacketIds(text) ==
  LET p == After(Trimmed(text))
  IN  [i \in 1 .. (Len(p) + 1) \div 2 |-> p[2 * i - 1][2]]
=============================================================================
