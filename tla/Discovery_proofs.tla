-------------------------- MODULE Discovery_proofs --------------------------
(***************************************************************************)
(* Theorems about the discovery of stations, for any hosts, announcements, *)
(* foreign answers and times.                                              *)
(***************************************************************************)
EXTENDS Discovery, SequenceTheorems, TLAPS

(***************************************************************************)
(* What is written is read back.  A text that begins with one lexeme and a *)
(* space is cut there, and a newline at its end is dropped.                *)
(***************************************************************************)
LEMMA FirstSpaceIs ==
  ASSUME NEW S, NEW t \in Seq(S), NEW i \in 1 .. Len(t),
         t[i] = Space, \A j \in 1 .. i - 1 : t[j] # Space
  PROVE  HasSpace(t) /\ FirstSpace(t) = i
<1> DEFINE First(k) == t[k] = Space /\ \A j \in 1 .. k - 1 : t[j] # Space
<1>1. First(i)
  OBVIOUS
<1>2. ASSUME NEW k \in 1 .. Len(t), First(k)
      PROVE  k = i
  <2>1. Len(t) \in Nat
    BY LenProperties
  <2>2. ~(k < i) /\ ~(i < k)
    BY <1>1, <1>2, <2>1, SMT
  <2> QED
    BY <2>1, <2>2, SMT
<1>3. FirstSpace(t) = CHOOSE k \in 1 .. Len(t) : First(k)
  BY Zenon DEF FirstSpace
<1> QED
  BY <1>1, <1>2, <1>3, Zenon DEF HasSpace

LEMMA Cut ==
  ASSUME NEW S, Space \in S, NEW a \in S, a # Space, NEW s \in Seq(S)
  PROVE  /\ <<a, Space>> \o s \in Seq(S)
         /\ HasSpace(<<a, Space>> \o s)
         /\ Before(<<a, Space>> \o s) = <<a>>
         /\ After(<<a, Space>> \o s) = s
<1> DEFINE t == <<a, Space>> \o s
<1>1. <<a, Space>> \in Seq(S) /\ Len(<<a, Space>>) = 2 /\ Len(s) \in Nat
  BY LenProperties, SMT
<1>2. /\ t \in Seq(S) /\ Len(t) = 2 + Len(s)
      /\ \A i \in 1 .. 2 + Len(s) : t[i] = IF i <= 2 THEN <<a, Space>>[i] ELSE s[i - 2]
  BY <1>1, ConcatProperties
<1> HIDE DEF t
<1>3. t[1] = a /\ t[2] = Space
  BY <1>1, <1>2, SMT
<1>4. HasSpace(t) /\ FirstSpace(t) = 2
  <2>1. 2 \in 1 .. Len(t) /\ \A j \in 1 .. 2 - 1 : t[j] # Space
    BY <1>1, <1>2, <1>3, SMT
  <2> QED
    BY <1>2, <1>3, <2>1, FirstSpaceIs
<1>5. Before(t) = <<a>>
  <2>1. Before(t) = SubSeq(t, 1, 1)
    BY <1>4, SMT DEF Before
  <2>2. /\ SubSeq(t, 1, 1) \in Seq(S) /\ Len(SubSeq(t, 1, 1)) = 1
        /\ SubSeq(t, 1, 1)[1] = a
    <3>1. \A i \in 1 .. 1 : t[i] \in S
      BY <1>3, SMT
    <3>2. /\ SubSeq(t, 1, 1) \in Seq(S)
          /\ Len(SubSeq(t, 1, 1)) = IF 1 <= 1 THEN 1 - 1 + 1 ELSE 0
          /\ \A i \in 1 .. 1 - 1 + 1 : SubSeq(t, 1, 1)[i] = t[1 + i - 1]
      BY <3>1, SubSeqProperties
    <3> QED
      BY <1>3, <3>2, SMT
  <2>3. <<a>> \in Seq(S) /\ Len(<<a>>) = 1 /\ <<a>>[1] = a
    BY SMT
  <2>4. \A i \in 1 .. 1 : SubSeq(t, 1, 1)[i] = <<a>>[i]
    BY <2>2, <2>3, SMT
  <2>5. SubSeq(t, 1, 1) = <<a>>
    BY <2>2, <2>3, <2>4, SeqEqual
  <2> QED
    BY <2>1, <2>5
<1>6. After(t) = s
  <2> DEFINE u == SubSeq(t, 3, Len(t))
  <2>1. After(t) = u
    <3>1. After(t) = SubSeq(t, 2 + 1, Len(t))
      BY <1>4, Zenon DEF After
    <3>2. 2 + 1 = 3
      BY SMT
    <3> QED
      BY <3>1, <3>2, Zenon
  <2>2. \A i \in 3 .. Len(t) : t[i] \in S
    BY <1>1, <1>2, LenProperties, ElementOfSeq, SMT
  <2>3. /\ u \in Seq(S)
        /\ Len(u) = IF 3 <= Len(t) THEN Len(t) - 3 + 1 ELSE 0
        /\ \A i \in 1 .. Len(t) - 3 + 1 : u[i] = t[3 + i - 1]
    BY <1>1, <1>2, <2>2, SubSeqProperties
  <2> HIDE DEF u
  <2>4. Len(u) = Len(s) /\ \A i \in 1 .. Len(u) : u[i] = s[i]
    BY <1>1, <1>2, <2>3, SMT
  <2> QED
    BY <2>1, <2>3, <2>4, SeqEqual
<1> QED
  BY <1>2, <1>4, <1>5, <1>6 DEF t

LEMMA NewlineDropped ==
  ASSUME NEW S, Newline \in S, NEW s \in Seq(S)
  PROVE  Trimmed(s \o <<Newline>>) = s
<1> DEFINE t == s \o <<Newline>>
<1>1. <<Newline>> \in Seq(S) /\ Len(<<Newline>>) = 1 /\ Len(s) \in Nat
  BY LenProperties, SMT
<1>2. /\ t \in Seq(S) /\ Len(t) = Len(s) + 1
      /\ \A i \in 1 .. Len(s) + 1 :
           t[i] = IF i <= Len(s) THEN s[i] ELSE <<Newline>>[i - Len(s)]
  BY <1>1, ConcatProperties
<1> HIDE DEF t
<1>3. t # <<>> /\ t[Len(t)] = Newline
  BY <1>1, <1>2, SMT
<1> DEFINE u == SubSeq(t, 1, Len(t) - 1)
<1>4. Trimmed(t) = u
  BY <1>3, Zenon DEF Trimmed
<1>5. \A i \in 1 .. Len(t) - 1 : t[i] \in S
  BY <1>1, <1>2, ElementOfSeq, SMT
<1>6. /\ u \in Seq(S)
      /\ Len(u) = IF 1 <= Len(t) - 1 THEN Len(t) - 1 - 1 + 1 ELSE 0
      /\ \A i \in 1 .. Len(t) - 1 - 1 + 1 : u[i] = t[1 + i - 1]
  BY <1>1, <1>2, <1>5, SubSeqProperties
<1> HIDE DEF u
<1>7. Len(u) = Len(s) /\ \A i \in 1 .. Len(u) : u[i] = s[i]
  BY <1>1, <1>2, <1>6, SMT
<1>8. u = s
  BY <1>6, <1>7, SeqEqual
<1> QED
  BY <1>4, <1>8 DEF t

(* A station's announcement is read back as it was written, whatever       *)
(* printable name it has, spaces and digits in it included.                *)
LEMMA ReplyReadBack ==
  ASSUME NEW r, Announceable(r)
  PROVE  /\ IsLookupReply(LookupReply(r))
         /\ ReplyOf(LookupReply(r)) = [group |-> r.group, port |-> r.port, name |-> r.name]
<1> DEFINE w == Word("BOREWICZ_HERE")
           g == Group(r.group)
           p == Number(r.port)
           S == {r.name[i] : i \in DOMAIN r.name} \cup {w, g, p, Space, Newline}
           head == <<w, Space, g, Space, p, Space>>
           t3 == <<p, Space>> \o r.name
           t2 == <<g, Space>> \o t3
           t1 == <<w, Space>> \o t2
<1>1. /\ w # Space /\ g # Space /\ p # Space
      /\ w = <<"word", "BOREWICZ_HERE">>
      /\ p[1] = "number" /\ p[2] = r.port /\ g[1] = "group" /\ g[2] = r.group
      /\ r.port \in 0 .. MaxPort
  BY SMT DEF Word, Group, Number, Space, Announceable
<1>2. w \in S /\ g \in S /\ p \in S /\ Space \in S /\ Newline \in S
  BY Zenon
<1>3. r.name \in Seq(S) /\ Len(r.name) \in Nat
  <2>1. r.name \in Seq({r.name[i] : i \in DOMAIN r.name})
    BY DEF Announceable
  <2>2. {r.name[i] : i \in DOMAIN r.name} \subseteq S
    BY Zenon
  <2>3. r.name \in Seq(S)
    BY <2>1, <2>2, SeqMonotonic
  <2> QED
    BY <2>3, LenProperties
<1> HIDE DEF S, w, g, p, t1, t2, t3
<1>4. t3 \in Seq(S) /\ HasSpace(t3) /\ Before(t3) = <<p>> /\ After(t3) = r.name
  BY <1>1, <1>2, <1>3, Cut DEF t3
<1>5. t2 \in Seq(S) /\ HasSpace(t2) /\ Before(t2) = <<g>> /\ After(t2) = t3
  BY <1>1, <1>2, <1>4, Cut DEF t2
<1>6. t1 \in Seq(S) /\ HasSpace(t1) /\ Before(t1) = <<w>> /\ After(t1) = t2
  BY <1>1, <1>2, <1>5, Cut DEF t1
<1>7. head \o r.name = t1
  <2>1. <<w, Space>> \in Seq(S) /\ <<g, Space>> \in Seq(S) /\ <<p, Space>> \in Seq(S)
        /\ head \in Seq(S) /\ Len(head) = 6
    BY <1>2, SMT
  <2>2. /\ Len(t3) = 2 + Len(r.name)
        /\ \A i \in 1 .. 2 + Len(r.name) :
             t3[i] = IF i <= 2 THEN <<p, Space>>[i] ELSE r.name[i - 2]
    BY <1>3, <2>1, ConcatProperties DEF t3
  <2>3. /\ Len(t2) = 2 + Len(t3)
        /\ \A i \in 1 .. 2 + Len(t3) :
             t2[i] = IF i <= 2 THEN <<g, Space>>[i] ELSE t3[i - 2]
    BY <1>4, <2>1, ConcatProperties DEF t2
  <2>4. /\ Len(t1) = 2 + Len(t2)
        /\ \A i \in 1 .. 2 + Len(t2) :
             t1[i] = IF i <= 2 THEN <<w, Space>>[i] ELSE t2[i - 2]
    BY <1>5, <2>1, ConcatProperties DEF t1
  <2> DEFINE whole == head \o r.name
  <2>5. /\ whole \in Seq(S) /\ Len(whole) = 6 + Len(r.name)
        /\ \A i \in 1 .. 6 + Len(r.name) :
             whole[i] = IF i <= 6 THEN head[i] ELSE r.name[i - 6]
    BY <1>3, <2>1, ConcatProperties
  <2> HIDE DEF whole
  <2>6. Len(whole) = Len(t1)
    BY <1>3, <2>2, <2>3, <2>4, <2>5, SMT
  <2>7. ASSUME NEW i \in 1 .. Len(whole)
        PROVE  whole[i] = t1[i]
    <3>1. CASE i <= 2
      <4>1. i \in 1 .. 2 + Len(t2) /\ i \in 1 .. 6 + Len(r.name) /\ i <= 6
        BY <1>3, <2>2, <2>3, <2>5, <3>1, SMT
      <4>2. t1[i] = <<w, Space>>[i] /\ whole[i] = head[i]
        BY <2>4, <2>5, <3>1, <4>1, Zenon
      <4>3. i \in {1, 2}
        BY <3>1, <4>1, SMT
      <4> QED
        BY <4>2, <4>3, SMT
    <3>2. CASE i \in 3 .. 4
      <4>1. /\ i \in 1 .. 2 + Len(t2) /\ i \in 1 .. 6 + Len(r.name) /\ i <= 6 /\ ~(i <= 2)
            /\ i - 2 \in 1 .. 2 + Len(t3) /\ i - 2 <= 2
        BY <1>3, <2>2, <2>3, <2>5, <3>2, SMT
      <4>2. t1[i] = t2[i - 2] /\ t2[i - 2] = <<g, Space>>[i - 2] /\ whole[i] = head[i]
        BY <2>3, <2>4, <2>5, <4>1, Zenon
      <4>3. <<g, Space>>[i - 2] = head[i]
        <5>1. /\ <<g, Space>>[1] = g /\ <<g, Space>>[2] = Space
              /\ head[3] = g /\ head[4] = Space
          BY SMT
        <5>2. (i = 3 /\ i - 2 = 1) \/ (i = 4 /\ i - 2 = 2)
          BY <3>2, SMT
        <5> QED
          BY <5>1, <5>2, Zenon
      <4> QED
        BY <4>2, <4>3
    <3>3. CASE i \in 5 .. 6
      <4>1. /\ i \in 1 .. 2 + Len(t2) /\ i \in 1 .. 6 + Len(r.name) /\ i <= 6 /\ ~(i <= 2)
            /\ i - 2 \in 1 .. 2 + Len(t3) /\ ~(i - 2 <= 2)
            /\ i - 2 - 2 = i - 4 /\ i - 4 \in 1 .. 2 + Len(r.name) /\ i - 4 <= 2
        BY <1>3, <2>2, <2>3, <2>5, <3>3, SMT
      <4>2. /\ t1[i] = t2[i - 2] /\ t2[i - 2] = t3[i - 4]
            /\ t3[i - 4] = <<p, Space>>[i - 4] /\ whole[i] = head[i]
        <5>1. t1[i] = t2[i - 2] /\ whole[i] = head[i]
          BY <2>4, <2>5, <4>1, Zenon
        <5>2. t2[i - 2] = t3[(i - 2) - 2] /\ (i - 2) - 2 = i - 4
          BY <2>3, <4>1, Zenon
        <5>3. t3[i - 4] = <<p, Space>>[i - 4]
          BY <2>2, <4>1, Zenon
        <5> QED
          BY <5>1, <5>2, <5>3, Zenon
      <4>3. <<p, Space>>[i - 4] = head[i]
        <5>1. /\ <<p, Space>>[1] = p /\ <<p, Space>>[2] = Space
              /\ head[5] = p /\ head[6] = Space
          BY SMT
        <5>2. (i = 5 /\ i - 4 = 1) \/ (i = 6 /\ i - 4 = 2)
          BY <3>3, SMT
        <5> QED
          BY <5>1, <5>2, Zenon
      <4> QED
        BY <4>2, <4>3
    <3>4. CASE i > 6
      <4>1. /\ i - 2 \in 1 .. 2 + Len(t3) /\ ~(i <= 2) /\ ~(i - 2 <= 2)
            /\ i \in 1 .. 2 + Len(t2)
            /\ i - 4 \in 1 .. 2 + Len(r.name) /\ ~(i - 4 <= 2) /\ ~(i <= 6)
            /\ i - 2 - 2 = i - 4 /\ i - 4 - 2 = i - 6
        BY <1>3, <2>2, <2>3, <2>4, <2>5, <3>4, SMT
      <4>2. t1[i] = t2[i - 2] /\ t2[i - 2] = t3[i - 4] /\ t3[i - 4] = r.name[i - 6]
        BY <2>2, <2>3, <2>4, <4>1, Zenon
      <4>3. whole[i] = r.name[i - 6]
        BY <2>5, <4>1, Zenon
      <4> QED
        BY <4>2, <4>3
    <3> QED
      BY <1>3, <2>5, <3>1, <3>2, <3>3, <3>4, SMT
  <2>8. whole = t1
    BY <1>6, <2>5, <2>6, <2>7, SeqEqual
  <2> QED
    BY <2>8 DEF whole
<1>8. Trimmed(LookupReply(r)) = t1
  <2>1. LookupReply(r) = (head \o r.name) \o <<Newline>>
    BY DEF LookupReply, w, g, p
  <2> HIDE DEF head
  <2> QED
    BY <1>2, <1>6, <1>7, <2>1, NewlineDropped
<1>9. StartsWith(t1, "BOREWICZ_HERE")
  BY <1>6, Zenon DEF StartsWith, w
<1>10. IsGroup(<<g>>) /\ <<g>>[1][2] = r.group
  BY <1>1, SMT DEF IsGroup
<1>11. NumberAt(<<p>>) = {1} /\ <<p>>[1] = p
  <2>1. /\ Len(<<p>>) = 1 /\ <<p>>[1] = p /\ 1 .. 1 = {1}
        /\ SubSeq(<<p>>, 1, 1 - 1) = <<>>
    <3>1. <<p>> \in Seq({p}) /\ Len(<<p>>) = 1 /\ <<p>>[1] = p /\ 1 .. 1 = {1} /\ 1 - 1 = 0
      BY SMT
    <3>2. SubSeq(<<p>>, 1, 0) = <<>>
      BY <3>1, SMT
    <3> QED
      BY <3>1, <3>2, Zenon
  <2>2. <<>> \in StoulSkips
    <3>1. <<>> = <<>> \o <<>>
      BY SMT
    <3>2. \E b \in {<<>>, <<Blank>>, <<Newline>>}, s \in {<<>>, <<Word("+")>>} : <<>> = b \o s
      BY <3>1
    <3> QED
      BY <3>2, SMT DEF StoulSkips
  <2> QED
    BY <1>1, <2>1, <2>2, Zenon DEF NumberAt
<1>12. IsPort(<<p>>)
  <2>1. MaxPort \in Int
    BY SMT DEF MaxPort
  <2>2. r.port <= MaxPort
    BY <1>1, <2>1, SMT
  <2> QED
    BY <1>1, <1>11, <2>2, Zenon DEF IsPort
<1>13. IsValidName(r.name)
  BY DEF Announceable
<1>14. NameOf(t1) = r.name /\ PortOf(t1) = r.port
  BY <1>1, <1>4, <1>5, <1>6, <1>11, Zenon DEF NameOf, PortOf
<1>15. IsLookupReply(LookupReply(r))
  BY <1>4, <1>5, <1>6, <1>8, <1>9, <1>10, <1>12, <1>13, <1>14, Zenon DEF IsLookupReply
<1> QED
  BY <1>5, <1>6, <1>8, <1>10, <1>14, <1>15, Zenon DEF ReplyOf

-----------------------------------------------------------------------------
(***************************************************************************)
(* The inductive invariant.  What makes an entry live long enough is that  *)
(* its age is accounted for by the lookups sent since it was last heard:   *)
(* each of them took one period, and the time since the last one is what   *)
(* LookupSender has slept.                                                 *)
(***************************************************************************)
Text == (UNION {Texts[h] : h \in Host}) \cup {Off}

Tables == up \in [Host -> Text] /\ answer \in [Host -> Text]

AgeIsAccounted ==
  \A e \in DOMAIN list : list[e].age <= list[e].lookups * Period + since

HeardInv == TypeOK /\ Tables /\ AgeIsAccounted

-----------------------------------------------------------------------------
(* What the assumption says of the times.                                  *)
LEMMA Times ==
  /\ MaxDelay \in Nat /\ MaxLoss \in Nat /\ Period \in Nat /\ Threshold \in Nat
  /\ Threshold >= 1
  /\ (MaxLoss + 1) * Period < Threshold
<1>1. /\ MaxDelay \in Nat /\ MaxLoss \in Nat /\ Period \in Nat /\ Threshold \in Nat
      /\ (MaxLoss + 1) * Period + MaxDelay < Threshold
  BY DiscoveryAssumption
<1>2. (MaxLoss + 1) * Period \in Nat
  BY <1>1, SMT
<1> QED
  BY <1>1, <1>2, SMT

(* A period for each of at most MaxLoss lookups, and the one that has      *)
(* begun, is less than the threshold.                                      *)
LEMMA FewPeriods ==
  ASSUME NEW k \in Nat, k <= MaxLoss, NEW s \in 0 .. Period
  PROVE  k * Period + s < Threshold
<1>1. /\ MaxLoss \in Nat /\ Period \in Nat /\ Threshold \in Nat
      /\ (MaxLoss + 1) * Period < Threshold
  BY Times
<1>2. k * Period <= MaxLoss * Period
  BY <1>1, SMT
<1>3. (MaxLoss + 1) * Period = MaxLoss * Period + Period
  BY <1>1, SMT
<1>4. k * Period \in Nat /\ MaxLoss * Period \in Nat
  BY <1>1, SMT
<1> QED
  BY <1>1, <1>2, <1>3, <1>4, SMT

(* The account goes up by a period with each lookup.                       *)
LEMMA OnePeriodMore ==
  ASSUME NEW k \in Nat
  PROVE  /\ Period \in Nat /\ k * Period \in Nat
         /\ (k + 1) * Period = k * Period + Period
<1>1. Period \in Nat
  BY Times
<1> QED
  BY <1>1, SMT

LEMMA TextsOf == (\A h \in Host : Texts[h] \subseteq Text) /\ Off \in Text
<1>1. \A h \in Host : Texts[h] \subseteq UNION {Texts[g] : g \in Host}
  BY Zenon
<1>2. \A S : Off \in S \cup {Off}
  BY Zenon
<1> QED
  BY <1>1, <1>2, Zenon DEF Text

LEMMA InitHeard == Init => HeardInv
<1> SUFFICES ASSUME Init PROVE HeardInv
  OBVIOUS
<1>1. DOMAIN list = {} /\ since = 0 /\ swept = FALSE /\ asked = {}
  BY SMT DEF Init
<1>2. /\ up \in [Host -> {Off}] /\ answer = [h \in Host |-> Off]
      /\ lost = [h \in Host |-> 0]
  BY DEF Init
<1>3. 0 \in 0 .. MaxLoss /\ 0 \in 0 .. Period
  BY Times, SMT
<1>4. Tables
  BY <1>2, TextsOf, Zenon DEF Tables, Text
<1>5. TypeOK
  BY <1>1, <1>2, <1>3, Zenon DEF TypeOK
<1>6. AgeIsAccounted
  BY <1>1, Zenon DEF AgeIsAccounted
<1> QED
  BY <1>4, <1>5, <1>6 DEF HeardInv

-----------------------------------------------------------------------------
(* What senders do, and what is lost: the list is left alone.              *)
ListTyped ==
  \A e \in DOMAIN list :
    /\ list[e].age \in 0 .. IF swept THEN Threshold - 1 ELSE Threshold
    /\ list[e].lookups \in Nat

NetTyped ==
  /\ \A h \in Host : up[h] \in Texts[h] \cup {Off} /\ answer[h] \in Texts[h] \cup {Off}
  /\ asked \subseteq Host
  /\ lost \in [Host -> 0 .. MaxLoss]

LEMMA TypeParts ==
  TypeOK <=> NetTyped /\ ListTyped /\ since \in 0 .. Period /\ swept \in BOOLEAN
BY Zenon DEF TypeOK, NetTyped, ListTyped

LEMMA NetHeard ==
  ASSUME HeardInv, UNCHANGED <<list, since, swept>>, NetTyped', Tables'
  PROVE  HeardInv'
<1>1. ListTyped' /\ AgeIsAccounted'
  BY TypeParts, Zenon DEF HeardInv, ListTyped, AgeIsAccounted
<1>2. since' \in 0 .. Period /\ swept' \in BOOLEAN
  BY TypeParts, Zenon DEF HeardInv
<1>3. TypeOK'
  BY <1>1, <1>2, Zenon DEF TypeOK, NetTyped, ListTyped
<1> QED
  BY <1>1, <1>3 DEF HeardInv

LEMMA SenderHeard ==
  ASSUME HeardInv, NEW h \in Host,
         Stop(h) \/ (\E text \in Texts[h] : Start(h, text)) \/ Answer(h) \/ Lose(h)
  PROVE  HeardInv'
<1>0. NetTyped /\ Tables /\ 0 \in 0 .. MaxLoss
  BY TypeParts, Times, SMT DEF HeardInv
<1>1. CASE Stop(h)
  BY <1>0, <1>1, TextsOf, NetHeard, Zenon DEF Stop, NetTyped, Tables
<1>2. ASSUME NEW text \in Texts[h], Start(h, text) PROVE HeardInv'
  <2>1. text \in Text
    BY TextsOf
  <2> QED
    BY <1>0, <1>2, <2>1, NetHeard, Zenon DEF Start, NetTyped, Tables
<1>3. CASE Answer(h)
  <2>1. NetTyped' /\ Tables'
    BY <1>0, <1>3, Zenon DEF Answer, NetTyped, Tables
  <2> QED
    BY <1>3, <2>1, NetHeard DEF Answer
<1>4. CASE Lose(h)
  <2>1. (IF up[h] = Off THEN 0 ELSE lost[h] + 1) \in 0 .. MaxLoss
    <3>1. lost[h] \in 0 .. MaxLoss /\ MaxLoss \in Nat
      BY <1>0, Times DEF NetTyped
    <3> QED
      BY <1>4, <3>1, SMT DEF Lose
  <2>2. NetTyped' /\ Tables'
    BY <1>0, <1>4, <2>1, TextsOf, Zenon DEF Lose, NetTyped, Tables
  <2> QED
    BY <1>4, <2>2, NetHeard DEF Lose
<1> QED
  BY <1>1, <1>2, <1>3, <1>4

-----------------------------------------------------------------------------
(* Lookups, answers heard, sweeps, and time.                               *)
LEMMA LookupHeard ==
  ASSUME HeardInv, Lookup
  PROVE  HeardInv'
<1>0. /\ NetTyped /\ ListTyped /\ Tables /\ since = Period /\ since' = 0
      /\ swept \in BOOLEAN /\ swept' = swept /\ asked' = Host
      /\ UNCHANGED <<up, answer, lost>>
      /\ list' = [e \in DOMAIN list |-> [age |-> list[e].age, lookups |-> list[e].lookups + 1]]
  BY TypeParts DEF HeardInv, Lookup
<1>1. NetTyped' /\ Tables'
  BY <1>0, Zenon DEF NetTyped, Tables
<1>2. DOMAIN list' = DOMAIN list
  BY <1>0, Zenon
<1>3. \A e \in DOMAIN list :
        list'[e].age = list[e].age /\ list'[e].lookups = list[e].lookups + 1
  BY <1>0, SMT
<1>4. ListTyped'
  <2>1. \A e \in DOMAIN list : list'[e].lookups \in Nat
    BY <1>0, <1>3, SMT DEF ListTyped
  <2> QED
    BY <1>0, <1>2, <1>3, <2>1, Zenon DEF ListTyped
<1>5. AgeIsAccounted'
  <2> SUFFICES ASSUME NEW e \in DOMAIN list
               PROVE  list'[e].age <= list'[e].lookups * Period + since'
    BY <1>2, Zenon DEF AgeIsAccounted
  <2>1. list[e].lookups \in Nat /\ list[e].age <= list[e].lookups * Period + Period
    BY <1>0, Zenon DEF HeardInv, AgeIsAccounted, ListTyped
  <2>2. /\ (list[e].lookups + 1) * Period = list[e].lookups * Period + Period
        /\ list[e].lookups * Period \in Nat /\ Period \in Nat
    BY <2>1, OnePeriodMore
  <2> QED
    BY <1>0, <1>3, <2>1, <2>2, SMT
<1>6. since' \in 0 .. Period /\ swept' \in BOOLEAN
  BY <1>0, Times, SMT
<1>7. TypeOK'
  BY <1>1, <1>4, <1>6, Zenon DEF TypeOK, NetTyped, ListTyped
<1> QED
  BY <1>1, <1>5, <1>7 DEF HeardInv

LEMMA HearHeard ==
  ASSUME HeardInv, NEW h \in Host, Hear(h)
  PROVE  HeardInv'
<1>0. /\ NetTyped /\ ListTyped /\ Tables /\ since \in 0 .. Period
      /\ swept \in BOOLEAN /\ UNCHANGED <<up, asked, since, swept>>
      /\ answer' = [answer EXCEPT ![h] = Off] /\ lost' = [lost EXCEPT ![h] = 0]
      /\ 0 \in 0 .. MaxLoss
  BY TypeParts, Times, SMT DEF HeardInv, Hear
<1>1. NetTyped' /\ Tables'
  BY <1>0, TextsOf, Zenon DEF NetTyped, Tables
<1>2. 0 \in 0 .. (IF swept THEN Threshold - 1 ELSE Threshold) /\ 0 \in Nat
  BY Times, SMT
<1>3. 0 <= 0 * Period + since
  BY <1>0, Times, SMT
<1>4. \A e \in DOMAIN list' :
        \/ e \in DOMAIN list /\ list'[e] = list[e]
        \/ list'[e].age = 0 /\ list'[e].lookups = 0
  <2>1. CASE list' = list
    BY <2>1
  <2>2. ASSUME NEW d, list' = Renew(d)
        PROVE  \A e \in DOMAIN list' :
                 \/ e \in DOMAIN list /\ list'[e] = list[e]
                 \/ list'[e].age = 0 /\ list'[e].lookups = 0
    BY <2>2, SMT DEF Renew
  <2> QED
    BY <2>1, <2>2, Zenon DEF Hear
<1>5. ListTyped'
  BY <1>0, <1>2, <1>4, Zenon DEF ListTyped
<1>6. AgeIsAccounted'
  BY <1>0, <1>3, <1>4, Zenon DEF HeardInv, AgeIsAccounted
<1>7. TypeOK'
  BY <1>0, <1>1, <1>5, Zenon DEF TypeOK, NetTyped, ListTyped
<1> QED
  BY <1>1, <1>6, <1>7 DEF HeardInv

LEMMA SweepHeard ==
  ASSUME HeardInv, Sweep
  PROVE  HeardInv'
<1>0. /\ NetTyped /\ ListTyped /\ Tables /\ since \in 0 .. Period
      /\ ~swept /\ swept' = TRUE /\ UNCHANGED <<up, asked, answer, lost, since>>
      /\ list' = [e \in {d \in DOMAIN list : ~Silent(d)} |-> list[e]]
  BY TypeParts, Zenon DEF HeardInv, Sweep, net
<1>1. NetTyped' /\ Tables'
  BY <1>0, Zenon DEF NetTyped, Tables
<1>2. \A e \in DOMAIN list' : e \in DOMAIN list /\ ~Silent(e) /\ list'[e] = list[e]
  BY <1>0, Zenon
<1>3. ListTyped'
  <2>1. \A e \in DOMAIN list' : list[e].age \in 0 .. Threshold - 1
    BY <1>0, <1>2, Times, SMT DEF ListTyped, Silent
  <2> QED
    BY <1>0, <1>2, <2>1, Zenon DEF ListTyped
<1>4. AgeIsAccounted'
  BY <1>0, <1>2, Zenon DEF HeardInv, AgeIsAccounted
<1>5. TypeOK'
  BY <1>0, <1>1, <1>3, Zenon DEF TypeOK, NetTyped, ListTyped
<1> QED
  BY <1>1, <1>4, <1>5 DEF HeardInv

LEMMA TickHeard ==
  ASSUME HeardInv, Tick
  PROVE  HeardInv'
<1>0. /\ NetTyped /\ ListTyped /\ Tables /\ since \in 0 .. Period /\ since < Period
      /\ swept = TRUE /\ swept' = FALSE /\ since' = since + 1
      /\ UNCHANGED <<up, asked, answer, lost>>
      /\ list' = [e \in DOMAIN list |-> [age |-> list[e].age + 1, lookups |-> list[e].lookups]]
  BY TypeParts, Zenon DEF HeardInv, Tick, net
<1>1. NetTyped' /\ Tables'
  BY <1>0, Zenon DEF NetTyped, Tables
<1>2. DOMAIN list' = DOMAIN list
  BY <1>0, Zenon
<1>3. \A e \in DOMAIN list :
        list'[e].age = list[e].age + 1 /\ list'[e].lookups = list[e].lookups
  BY <1>0, SMT
<1>4. ListTyped'
  <2>1. \A e \in DOMAIN list : list'[e].age \in 0 .. Threshold
    BY <1>0, <1>3, Times, SMT DEF ListTyped
  <2> QED
    BY <1>0, <1>2, <1>3, <2>1, Zenon DEF ListTyped
<1>5. AgeIsAccounted'
  <2> SUFFICES ASSUME NEW e \in DOMAIN list
               PROVE  list'[e].age <= list'[e].lookups * Period + since'
    BY <1>2, Zenon DEF AgeIsAccounted
  <2>1. /\ list[e].lookups \in Nat /\ list[e].age <= list[e].lookups * Period + since
        /\ list[e].age \in Int
    BY <1>0, Times, SMT DEF HeardInv, AgeIsAccounted, ListTyped
  <2>2. list[e].lookups * Period \in Nat
    BY <2>1, OnePeriodMore
  <2> QED
    BY <1>0, <1>3, <2>1, <2>2, SMT
<1>6. since' \in 0 .. Period /\ swept' \in BOOLEAN
  <2>1. Period \in Nat
    BY Times
  <2>2. since \in 0 .. Period /\ since < Period /\ since' = since + 1
    BY <1>0
  <2>3. since' \in 0 .. Period
    BY <2>1, <2>2, SMT
  <2> QED
    BY <1>0, <2>3, Zenon
<1>7. TypeOK'
  BY <1>1, <1>4, <1>6, Zenon DEF TypeOK, NetTyped, ListTyped
<1> QED
  BY <1>1, <1>5, <1>7 DEF HeardInv

-----------------------------------------------------------------------------
LEMMA NextHeard == HeardInv /\ [Next]_vars => HeardInv'
<1> SUFFICES ASSUME HeardInv, [Next]_vars PROVE HeardInv'
  OBVIOUS
<1>1. CASE UNCHANGED vars
  BY <1>1, Zenon DEF vars, net, HeardInv, TypeOK, Tables, AgeIsAccounted
<1>2. ASSUME NEW h \in Host, Stop(h) \/ \E text \in Texts[h] : Start(h, text)
      PROVE  HeardInv'
  BY <1>2, SenderHeard
<1>3. ASSUME NEW h \in Host, Answer(h) \/ Lose(h)
      PROVE  HeardInv'
  BY <1>3, SenderHeard
<1>4. ASSUME NEW h \in Host, Hear(h)
      PROVE  HeardInv'
  BY <1>4, HearHeard
<1> QED
  BY <1>1, <1>2, <1>3, <1>4, LookupHeard, SweepHeard, TickHeard, Zenon DEF Next

LEMMA HeardAlways == Spec => []HeardInv
BY InitHeard, NextHeard, PTL DEF Spec

(***************************************************************************)
(* Type correctness: in particular, StationRemover leaves no entry as old  *)
(* as the threshold, and none gets older than that before it comes.        *)
(***************************************************************************)
THEOREM DiscoveryTypeCorrect == Spec => []TypeOK
<1>1. HeardInv => TypeOK
  BY DEF HeardInv
<1> QED
  BY <1>1, HeardAlways, PTL

(***************************************************************************)
(* A station is dropped only after more than MaxLoss lookups without an    *)
(* answer from it, wherever in the period its last answer fell: only the   *)
(* sweep drops entries, one that is old enough has an account of at least  *)
(* the threshold, and MaxLoss lookups do not make up for that much.        *)
(***************************************************************************)
LEMMA OnlySweepDrops ==
  ASSUME [Next]_vars, ~Sweep
  PROVE  DOMAIN list \subseteq DOMAIN list'
<1>1. CASE UNCHANGED list
  BY <1>1
<1>2. CASE Lookup
  BY <1>2, Zenon DEF Lookup
<1>3. CASE Tick
  BY <1>3, Zenon DEF Tick
<1>4. ASSUME NEW h \in Host, Hear(h)
      PROVE  DOMAIN list \subseteq DOMAIN list'
  <2>1. \A e : DOMAIN list \subseteq DOMAIN Renew(e)
    BY Zenon DEF Renew
  <2> QED
    BY <1>4, <2>1, Zenon DEF Hear
<1> QED
  BY <1>1, <1>2, <1>3, <1>4, Zenon DEF Next, vars, Stop, Start, Answer, Lose

LEMMA SweepDropsSilent ==
  ASSUME HeardInv, Sweep, NEW e \in DOMAIN list \ DOMAIN list'
  PROVE  list[e].lookups > MaxLoss
<1>1. list[e].age >= Threshold
  BY Zenon DEF Sweep, Silent
<1>2. /\ list[e].lookups \in Nat /\ list[e].age <= list[e].lookups * Period + since
      /\ list[e].age \in Int /\ since \in 0 .. Period
      /\ MaxLoss \in Nat /\ Threshold \in Nat /\ Period \in Nat
  BY Times, TypeParts, SMT DEF HeardInv, AgeIsAccounted, ListTyped
<1>3. list[e].lookups * Period \in Nat
  BY <1>2, OnePeriodMore
<1>4. list[e].lookups <= MaxLoss => list[e].lookups * Period + since < Threshold
  BY <1>2, FewPeriods
<1> QED
  BY <1>1, <1>2, <1>3, <1>4, SMT

THEOREM HeardAreKept == Spec => HeardIsKept
<1>1. HeardInv /\ [Next]_vars =>
        [\A e \in DOMAIN list \ DOMAIN list' : list[e].lookups > MaxLoss]_vars
  BY OnlySweepDrops, SweepDropsSilent, Zenon
<1> QED
  BY <1>1, HeardAlways, PTL DEF Spec, HeardIsKept

(***************************************************************************)
(* The list holds only stations as their senders announce them, provided   *)
(* that nobody else's answer parses as an announcement (one that does is   *)
(* taken for a station whoever sent it).  Every text on its way is one of  *)
(* the host's texts, and one that was written by a sender is read back as  *)
(* the station it was written for.                                         *)
(***************************************************************************)
ForeignIsForeign == \A h \in Host : \A t \in Foreign[h] : ~IsLookupReply(t)

LEMMA TextIsStation ==
  ASSUME ForeignIsForeign,
         NEW h \in Host, NEW t \in Texts[h], IsLookupReply(t)
  PROVE  Entry(h, ReplyOf(t)) \in Stations
<1>1. PICK r \in Announced[h] : t = Reply[r]
  BY Zenon DEF Texts, ForeignIsForeign
<1>2. t = LookupReply(r)
  <2>1. r \in UNION {Announced[g] : g \in Host}
    BY Zenon
  <2> QED
    BY <1>1, <2>1, Zenon DEF Reply
<1>3. Announceable(r)
  BY DiscoveryAssumption
<1>4. ReplyOf(t) = [group |-> r.group, port |-> r.port, name |-> r.name]
  BY <1>2, <1>3, ReplyReadBack
<1>5. Entry(h, ReplyOf(t)) = Entry(h, r)
  BY <1>4, SMT DEF Entry
<1>6. Entry(h, r) \in Stations
  <2> DEFINE Of(g) == {Entry(g, x) : x \in Announced[g]}
  <2>1. Entry(h, r) \in Of(h)
    BY Zenon
  <2>2. Of(h) \in {Of(g) : g \in Host}
    BY Zenon
  <2>3. Stations = UNION {Of(g) : g \in Host}
    BY Zenon DEF Stations
  <2> HIDE DEF Of
  <2> QED
    BY <2>1, <2>2, <2>3, Zenon
<1> QED
  BY <1>5, <1>6

LEMMA NextListed ==
  ASSUME ForeignIsForeign, TypeOK, OnlyStationsListed, [Next]_vars
  PROVE  OnlyStationsListed'
<1>1. CASE UNCHANGED list
  BY <1>1, Zenon DEF OnlyStationsListed, Stations, Entry
<1>2. CASE DOMAIN list' \subseteq DOMAIN list
  BY <1>2, Zenon DEF OnlyStationsListed, Stations, Entry
<1>3. ASSUME NEW h \in Host, Hear(h)
      PROVE  OnlyStationsListed'
  <2>1. CASE list' = list
    BY <1>1, <2>1
  <2>2. CASE IsLookupReply(answer[h])
    <3> DEFINE e == Entry(h, ReplyOf(answer[h]))
    <3>1. answer[h] \in Texts[h]
      BY <1>3, Zenon DEF Hear, TypeOK
    <3>2. e \in Stations
      BY <2>2, <3>1, TextIsStation
    <3>3. list' = Renew(e)
      BY <1>3, <2>2, Zenon DEF Hear
    <3> HIDE DEF e
    <3>4. DOMAIN list' = DOMAIN list \cup {e}
      BY <3>3, Zenon DEF Renew
    <3> QED
      BY <3>2, <3>4, Zenon DEF OnlyStationsListed, Stations, Entry
  <2> QED
    BY <1>3, <2>1, <2>2, Zenon DEF Hear
<1>4. CASE Lookup
  BY <1>2, <1>4, Zenon DEF Lookup
<1>5. CASE Tick
  BY <1>2, <1>5, Zenon DEF Tick
<1>6. CASE Sweep
  BY <1>2, <1>6, Zenon DEF Sweep
<1> QED
  BY <1>1, <1>3, <1>4, <1>5, <1>6, Zenon DEF Next, vars, Stop, Start, Answer, Lose

THEOREM StationsAreListed == ForeignIsForeign /\ Spec => []OnlyStationsListed
<1> SUFFICES ASSUME ForeignIsForeign PROVE Spec => []OnlyStationsListed
  OBVIOUS
<1>1. Init => OnlyStationsListed
  BY SMT DEF Init, OnlyStationsListed
<1>2. TypeOK /\ OnlyStationsListed /\ [Next]_vars => OnlyStationsListed'
  BY NextListed
<1> QED
  BY <1>1, <1>2, DiscoveryTypeCorrect, PTL DEF Spec
=============================================================================
