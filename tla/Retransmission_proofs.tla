----------------------- MODULE Retransmission_proofs -----------------------
(***************************************************************************)
(* Theorems about the requests of RexmitSender, whatever has arrived,      *)
(* been dismissed and been played before.                                  *)
(***************************************************************************)
EXTENDS Retransmission, Playback_proofs, SequenceTheorems, FiniteSetTheorems

(***************************************************************************)
(* What is written is read back.  A text that begins with one lexeme and a *)
(* space is cut there, and a newline at its end is dropped.                *)
(***************************************************************************)
LEMMA FirstSpaceIs ==
  ASSUME NEW S, NEW t \in Seq(S), NEW i \in 1 .. Len(t),
         t[i] = Space, \A j \in 1 .. i - 1 : t[j] # Space
  PROVE  HasSpace(t) /\ FirstSpace(t) = i
<1> DEFINE First(k) == t[k] = Space /\ \A j \in 1 .. k - 1 : t[j] # Space
<1>1. First(i)
  OBVIOUS
<1>2. ASSUME NEW k \in 1 .. Len(t), First(k)
      PROVE  k = i
  <2>1. Len(t) \in Nat
    BY LenProperties
  <2>2. ~(k < i) /\ ~(i < k)
    BY <1>1, <1>2, <2>1, SMT
  <2> QED
    BY <2>1, <2>2, SMT
<1>3. FirstSpace(t) = CHOOSE k \in 1 .. Len(t) : First(k)
  BY Zenon DEF FirstSpace
<1> QED
  BY <1>1, <1>2, <1>3, Zenon DEF HasSpace

LEMMA Cut ==
  ASSUME NEW S, Space \in S, NEW a \in S, a # Space, NEW s \in Seq(S)
  PROVE  /\ <<a, Space>> \o s \in Seq(S)
         /\ HasSpace(<<a, Space>> \o s)
         /\ Before(<<a, Space>> \o s) = <<a>>
         /\ After(<<a, Space>> \o s) = s
<1> DEFINE t == <<a, Space>> \o s
<1>1. <<a, Space>> \in Seq(S) /\ Len(<<a, Space>>) = 2 /\ Len(s) \in Nat
  BY LenProperties, SMT
<1>2. /\ t \in Seq(S) /\ Len(t) = 2 + Len(s)
      /\ \A i \in 1 .. 2 + Len(s) : t[i] = IF i <= 2 THEN <<a, Space>>[i] ELSE s[i - 2]
  BY <1>1, ConcatProperties
<1> HIDE DEF t
<1>3. t[1] = a /\ t[2] = Space
  BY <1>1, <1>2, SMT
<1>4. HasSpace(t) /\ FirstSpace(t) = 2
  <2>1. 2 \in 1 .. Len(t) /\ \A j \in 1 .. 2 - 1 : t[j] # Space
    BY <1>1, <1>2, <1>3, SMT
  <2> QED
    BY <1>2, <1>3, <2>1, FirstSpaceIs
<1>5. Before(t) = <<a>>
  <2>1. Before(t) = SubSeq(t, 1, 1)
    BY <1>4, SMT DEF Before
  <2>2. /\ SubSeq(t, 1, 1) \in Seq(S) /\ Len(SubSeq(t, 1, 1)) = 1
        /\ SubSeq(t, 1, 1)[1] = a
    <3>1. \A i \in 1 .. 1 : t[i] \in S
      BY <1>3, SMT
    <3>2. /\ SubSeq(t, 1, 1) \in Seq(S)
          /\ Len(SubSeq(t, 1, 1)) = IF 1 <= 1 THEN 1 - 1 + 1 ELSE 0
          /\ \A i \in 1 .. 1 - 1 + 1 : SubSeq(t, 1, 1)[i] = t[1 + i - 1]
      BY <3>1, SubSeqProperties
    <3> QED
      BY <1>3, <3>2, SMT
  <2>3. <<a>> \in Seq(S) /\ Len(<<a>>) = 1 /\ <<a>>[1] = a
    BY SMT
  <2>4. \A i \in 1 .. 1 : SubSeq(t, 1, 1)[i] = <<a>>[i]
    BY <2>2, <2>3, SMT
  <2>5. SubSeq(t, 1, 1) = <<a>>
    BY <2>2, <2>3, <2>4, SeqEqual
  <2> QED
    BY <2>1, <2>5
<1>6. After(t) = s
  <2> DEFINE u == SubSeq(t, 3, Len(t))
  <2>1. After(t) = u
    <3>1. After(t) = SubSeq(t, 2 + 1, Len(t))
      BY <1>4, Zenon DEF After
    <3>2. 2 + 1 = 3
      BY SMT
    <3> QED
      BY <3>1, <3>2, Zenon
  <2>2. \A i \in 3 .. Len(t) : t[i] \in S
    BY <1>1, <1>2, LenProperties, ElementOfSeq, SMT
  <2>3. /\ u \in Seq(S)
        /\ Len(u) = IF 3 <= Len(t) THEN Len(t) - 3 + 1 ELSE 0
        /\ \A i \in 1 .. Len(t) - 3 + 1 : u[i] = t[3 + i - 1]
    BY <1>1, <1>2, <2>2, SubSeqProperties
  <2> HIDE DEF u
  <2>4. Len(u) = Len(s) /\ \A i \in 1 .. Len(u) : u[i] = s[i]
    BY <1>1, <1>2, <2>3, SMT
  <2> QED
    BY <2>1, <2>3, <2>4, SeqEqual
<1> QED
  BY <1>2, <1>4, <1>5, <1>6 DEF t

LEMMA NewlineDropped ==
  ASSUME NEW S, Newline \in S, NEW s \in Seq(S)
  PROVE  Trimmed(s \o <<Newline>>) = s
<1> DEFINE t == s \o <<Newline>>
<1>1. <<Newline>> \in Seq(S) /\ Len(<<Newline>>) = 1 /\ Len(s) \in Nat
  BY LenProperties, SMT
<1>2. /\ t \in Seq(S) /\ Len(t) = Len(s) + 1
      /\ \A i \in 1 .. Len(s) + 1 :
           t[i] = IF i <= Len(s) THEN s[i] ELSE <<Newline>>[i - Len(s)]
  BY <1>1, ConcatProperties
<1> HIDE DEF t
<1>3. t # <<>> /\ t[Len(t)] = Newline
  BY <1>1, <1>2, SMT
<1> DEFINE u == SubSeq(t, 1, Len(t) - 1)
<1>4. Trimmed(t) = u
  BY <1>3, Zenon DEF Trimmed
<1>5. \A i \in 1 .. Len(t) - 1 : t[i] \in S
  BY <1>1, <1>2, ElementOfSeq, SMT
<1>6. /\ u \in Seq(S)
      /\ Len(u) = IF 1 <= Len(t) - 1 THEN Len(t) - 1 - 1 + 1 ELSE 0
      /\ \A i \in 1 .. Len(t) - 1 - 1 + 1 : u[i] = t[1 + i - 1]
  BY <1>1, <1>2, <1>5, SubSeqProperties
<1> HIDE DEF u
<1>7. Len(u) = Len(s) /\ \A i \in 1 .. Len(u) : u[i] = s[i]
  BY <1>1, <1>2, <1>6, SMT
<1>8. u = s
  BY <1>6, <1>7, SeqEqual
<1> QED
  BY <1>4, <1>8 DEF t

(* A sequence is a function on its indices, whatever it holds.             *)
LEMMA FunctionIsSeq ==
  ASSUME NEW n \in Nat, NEW T, NEW f \in [1 .. n -> T]
  PROVE  f \in Seq(T) /\ Len(f) = n
<1>1. f \in Seq(T)
  BY SeqDef, Zenon
<1>2. Len(f) \in Nat /\ 1 .. Len(f) = 1 .. n
  BY <1>1, LenProperties, Zenon
<1>3. Len(f) = n
  BY <1>2, SMT
<1> QED
  BY <1>1, <1>3

(* Commas at the even places, numbers at the odd ones.                     *)
LEMMA OddPlaces ==
  ASSUME NEW n \in Nat \ {0}
  PROVE  /\ 2 * n - 1 \in Nat /\ (2 * n - 1) % 2 = 1
         /\ ((2 * n - 1) + 1) \div 2 = n
         /\ \A k \in 1 .. n : /\ 2 * k - 1 \in 1 .. 2 * n - 1
                              /\ (2 * k - 1) % 2 = 1
                              /\ ((2 * k - 1) + 1) \div 2 = k
BY SMT

LEMMA RequestReadBack ==
  ASSUME NEW n \in Nat \ {0}, NEW T, NEW ids \in [1 .. n -> T]
  PROVE  /\ ~IsLookupRequest(RexmitText(ids))
         /\ IsRexmitRequest(RexmitText(ids))
         /\ PacketIds(RexmitText(ids)) = ids
<1> DEFINE w == Word("LOUDER_PLEASE")
           m == 2 * n - 1
           Lexeme(i) == IF i % 2 = 1 THEN Number(ids[(i + 1) \div 2]) ELSE Comma
           list == [i \in 1 .. m |-> Lexeme(i)]
           S == {Lexeme(i) : i \in 1 .. m} \cup {w, Space, Newline}
           t == <<w, Space>> \o list
<1>1. Len(ids) = n
  BY FunctionIsSeq, SMT
<1>2. RexmitText(ids) = t \o <<Newline>>
  BY <1>1, Zenon DEF RexmitText
<1>3. /\ m \in Nat /\ m % 2 = 1 /\ (m + 1) \div 2 = n
      /\ \A k \in 1 .. n : /\ 2 * k - 1 \in 1 .. m
                           /\ (2 * k - 1) % 2 = 1
                           /\ ((2 * k - 1) + 1) \div 2 = k
  BY OddPlaces
<1>4. /\ \A i \in 1 .. m : Lexeme(i) = IF i % 2 = 1 THEN Number(ids[(i + 1) \div 2]) ELSE Comma
      /\ \A x : Number(x)[1] = "number" /\ Number(x)[2] = x
      /\ w # Space
  BY SMT DEF Number, Word, Space
<1>5. w \in S /\ Space \in S /\ Newline \in S /\ \A i \in 1 .. m : Lexeme(i) \in S
  BY Zenon
<1> HIDE DEF w, S, Lexeme, m
<1>6. list \in Seq(S) /\ Len(list) = m /\ \A i \in 1 .. m : list[i] = Lexeme(i)
  <2>1. list \in [1 .. m -> S] /\ \A i \in 1 .. m : list[i] = Lexeme(i)
    BY <1>5, Zenon
  <2> HIDE DEF list
  <2> QED
    BY <1>3, <2>1, FunctionIsSeq
<1> HIDE DEF list
<1>7. t \in Seq(S) /\ HasSpace(t) /\ Before(t) = <<w>> /\ After(t) = list
  BY <1>4, <1>5, <1>6, Cut
<1>8. Len(t) = 2 + m
  <2>1. <<w, Space>> \in Seq(S) /\ Len(<<w, Space>>) = 2
    BY <1>5, SMT
  <2> QED
    BY <1>6, <2>1, ConcatProperties
<1> HIDE DEF t
<1>9. Trimmed(RexmitText(ids)) = t
  BY <1>2, <1>5, <1>7, NewlineDropped
<1>10. ~IsLookupRequest(RexmitText(ids))
  <2>1. Len(<<Word("ZERO_SEVEN_COME_IN")>>) = 1
    BY SMT
  <2>2. Len(t) # 1
    BY <1>3, <1>8, SMT
  <2> QED
    BY <1>9, <2>1, <2>2, Zenon DEF IsLookupRequest
<1>11. IsRexmitRequest(RexmitText(ids))
  <2>1. StartsWith(t, "LOUDER_PLEASE")
    BY <1>7, Zenon DEF StartsWith, w
  <2>2. ASSUME NEW i \in 1 .. m
        PROVE  IF i % 2 = 1 THEN list[i][1] = "number" ELSE list[i] = Comma
    BY <1>4, <1>6, Zenon
  <2>3. IsList(list)
    BY <1>3, <1>6, <2>2, Zenon DEF IsList
  <2> QED
    BY <1>7, <1>9, <2>1, <2>3, Zenon DEF IsRexmitRequest
<1>12. PacketIds(RexmitText(ids)) = ids
  <2>1. PacketIds(RexmitText(ids)) = [k \in 1 .. (Len(list) + 1) \div 2 |-> list[2 * k - 1][2]]
    BY <1>7, <1>9, Zenon DEF PacketIds
  <2>2. PacketIds(RexmitText(ids)) = [k \in 1 .. n |-> list[2 * k - 1][2]]
    BY <1>3, <1>6, <2>1, Zenon
  <2>3. ASSUME NEW k \in 1 .. n
        PROVE  list[2 * k - 1][2] = ids[k]
    <3>1. list[2 * k - 1] = Lexeme(2 * k - 1)
      BY <1>3, <1>6, Zenon
    <3>2. Lexeme(2 * k - 1) = Number(ids[((2 * k - 1) + 1) \div 2])
      BY <1>3, <1>4, Zenon
    <3> QED
      BY <1>3, <1>4, <3>1, <3>2, Zenon
  <2> QED
    BY <2>2, <2>3, Zenon
<1> QED
  BY <1>10, <1>11, <1>12

-----------------------------------------------------------------------------
(***************************************************************************)
(* The numbers of a finite set, in order: each is the k-th for one k.  How *)
(* many do not exceed it tells each from the others, and there are as many *)
(* such counts as numbers.                                                 *)
(***************************************************************************)
LEMMA Enumerated ==
  ASSUME NEW S, S \subseteq Int, IsFiniteSet(S)
  PROVE  /\ Cardinality(S) \in Nat
         /\ \A k \in 1 .. Cardinality(S) : Nth(S, k) \in S
         /\ \A j, k \in 1 .. Cardinality(S) : Nth(S, j) = Nth(S, k) => j = k
         /\ \A x \in S : \E k \in 1 .. Cardinality(S) : Nth(S, k) = x
<1> DEFINE UpTo(x) == {y \in S : y <= x}
           n == Cardinality(S)
           rank == [x \in S |-> Cardinality(UpTo(x))]
<1>1. n \in Nat
  BY FS_CardinalityType
<1>2. ASSUME NEW x \in S
      PROVE  IsFiniteSet(UpTo(x)) /\ Cardinality(UpTo(x)) \in 1 .. n
  <2>1. UpTo(x) \in SUBSET S
    OBVIOUS
  <2>2. IsFiniteSet(UpTo(x)) /\ Cardinality(UpTo(x)) <= n
    BY <2>1, FS_Subset
  <2>3. x \in UpTo(x)
    BY SMT
  <2> HIDE DEF UpTo
  <2>4. Cardinality(UpTo(x)) \in Nat /\ Cardinality(UpTo(x)) # 0
    BY <2>2, <2>3, FS_CardinalityType, FS_EmptySet
  <2> HIDE DEF n
  <2> QED
    BY <1>1, <2>2, <2>4, SMT
<1>3. ASSUME NEW x \in S, NEW y \in S, x < y
      PROVE  Cardinality(UpTo(x)) # Cardinality(UpTo(y))
  <2>1. UpTo(x) \in SUBSET UpTo(y) /\ y \in UpTo(y) /\ y \notin UpTo(x)
    <3>1. x \in Int /\ y \in Int /\ \A z \in S : z \in Int
      OBVIOUS
    <3>2. (\A z \in S : z <= x => z <= y) /\ y <= y /\ ~(y <= x)
      BY <1>3, <3>1, SMT
    <3> QED
      BY <3>2, Zenon
  <2>2. IsFiniteSet(UpTo(y))
    BY <1>2
  <2>3. UpTo(x) # UpTo(y)
    BY <2>1
  <2> HIDE DEF UpTo
  <2> QED
    BY <2>1, <2>2, <2>3, FS_Subset
<1> HIDE DEF UpTo, n
<1>4. rank \in [S -> 1 .. n]
  BY <1>2, Zenon
<1>5. ASSUME NEW x \in S, NEW y \in S, rank[x] = rank[y]
      PROVE  x = y
  <2>1. Cardinality(UpTo(x)) = Cardinality(UpTo(y))
    BY <1>5, Zenon
  <2>2. ~(x < y) /\ ~(y < x)
    BY <1>3, <2>1
  <2> QED
    BY <2>2, SMT
<1>6. rank \in Injection(S, 1 .. n)
  BY <1>4, <1>5, Zenon DEF Injection, IsInjective
<1>7. IsFiniteSet(1 .. n) /\ Cardinality(1 .. n) = n
  <2>1. /\ IsFiniteSet(1 .. n)
        /\ Cardinality(1 .. n) = IF 1 > n THEN 0 ELSE n - 1 + 1
    BY <1>1, FS_Interval
  <2> QED
    BY <1>1, <2>1, SMT
<1>8. rank \in Surjection(S, 1 .. n)
  BY <1>6, <1>7, FS_Injection DEF n
<1>9. \A k \in 1 .. n : \E x \in S : Cardinality(UpTo(x)) = k
  BY <1>8, Zenon DEF Surjection
<1>10. ASSUME NEW k \in 1 .. n
       PROVE  Nth(S, k) \in S /\ Cardinality(UpTo(Nth(S, k))) = k
  <2>1. Nth(S, k) = CHOOSE x \in S : Cardinality(UpTo(x)) = k
    BY Zenon DEF Nth, UpTo
  <2>2. \E x \in S : Cardinality(UpTo(x)) = k
    BY <1>9
  <2> QED
    BY <2>1, <2>2, Zenon
<1>11. ASSUME NEW x \in S
       PROVE  \E k \in 1 .. n : Nth(S, k) = x
  <2> DEFINE k == Cardinality(UpTo(x))
  <2>1. k \in 1 .. n
    BY <1>2
  <2>2. Nth(S, k) \in S /\ Cardinality(UpTo(Nth(S, k))) = k
    BY <1>10, <2>1
  <2>3. Nth(S, k) = x
    BY <1>5, <2>2, Zenon
  <2> QED
    BY <2>1, <2>3
<1> QED
  BY <1>1, <1>10, <1>11, Zenon DEF n

-----------------------------------------------------------------------------
(***************************************************************************)
(* RexmitSender only reads the ring: what it does leaves the audio path    *)
(* alone, so that all that holds of Spec holds beside it too.              *)
(***************************************************************************)
LEMMA RexmitStep == [RexmitNext]_rexmitVars => [Next]_vars
BY Zenon DEF RexmitNext, rexmitVars, Order, Tune

THEOREM RexmitOnlyReads == RexmitSpec => Spec
<1>1. RexmitInit => Init
  BY DEF RexmitInit
<1> QED
  BY <1>1, RexmitStep, PTL DEF RexmitSpec, Spec

THEOREM RingBesideRequests ==
  RexmitSpec => [](TypeOK /\ OneSession /\ NothingBeforeByte0 /\ CursorsStayInRing)
BY RexmitOnlyReads, TypeCorrect, RingHoldsOneSession, RingStartsAtByte0,
   CursorsNeverLeave, PTL

(***************************************************************************)
(* The walk ends in every ring of two slots or more: it stops at the head, *)
(* which such a ring never lets go.  A walk that has begun stays where it  *)
(* is, for RexmitSender holds the mutex.                                   *)
(***************************************************************************)
LEMMA HangsOnce ==
  ASSUME TypeOK, CursorsStayInRing, OnlyOneSlotHangs, [RexmitNext]_rexmitVars
  PROVE  OnlyOneSlotHangs'
<1>1. CASE Order
  <2>1. hung' = ~WalkEnds(buf) /\ buf' = buf
    BY <1>1, Zenon DEF Order, vars
  <2>2. buf.n \in Nat
    BY RingFields DEF TypeOK
  <2>3. ~WalkEnds(buf) => buf.n < 2
    <3>1. buf.n >= 2 => WalkEnds(buf)
      BY Zenon DEF WalkEnds, CursorsStayInRing, CursorsInRing
    <3> QED
      BY <2>2, <3>1, SMT
  <2> QED
    BY <2>1, <2>3, Zenon DEF OnlyOneSlotHangs
<1>2. CASE ~hung /\ UNCHANGED hung
  BY <1>2, Zenon DEF OnlyOneSlotHangs
<1>3. CASE UNCHANGED rexmitVars
  BY <1>3, Zenon DEF rexmitVars, rexmit, vars, OnlyOneSlotHangs
<1> QED
  BY <1>1, <1>2, <1>3, Zenon DEF RexmitNext, Tune

THEOREM WalkHangsInOneSlot == RexmitSpec => []OnlyOneSlotHangs
<1>1. RexmitInit => OnlyOneSlotHangs
  BY Zenon DEF RexmitInit, OnlyOneSlotHangs
<1>2. /\ TypeOK /\ CursorsStayInRing /\ OnlyOneSlotHangs
      /\ [RexmitNext]_rexmitVars
      => OnlyOneSlotHangs'
  BY HangsOnce
<1> QED
  BY <1>1, <1>2, RingBesideRequests, PTL DEF RexmitSpec

(***************************************************************************)
(* What goes out is read by Controller as it was meant.                    *)
(***************************************************************************)
LEMMA HolesFinite ==
  ASSUME TypeOK
  PROVE  /\ Holes(buf) \subseteq Int /\ IsFiniteSet(Holes(buf))
         /\ Holes(buf) # {} => Cardinality(Holes(buf)) \in Nat \ {0}
<1>1. buf.tail \in Nat /\ buf.head \in Nat /\ buf.n \in Nat
  BY RingFields DEF TypeOK
<1>2. RangeOf(buf) - 1 \in Int
  BY <1>1, SMT DEF RangeOf
<1>3. IsFiniteSet(0 .. RangeOf(buf) - 1)
  BY <1>2, FS_Interval
<1>4. IsFiniteSet(WalkOf(buf)) /\ WalkOf(buf) \subseteq Int
  BY <1>2, <1>3, FS_EmptySet, SMT DEF WalkOf
<1>5. Holes(buf) \in SUBSET WalkOf(buf)
  BY Zenon DEF Holes
<1>6. IsFiniteSet(Holes(buf))
  BY <1>4, <1>5, FS_Subset
<1>7. Cardinality(Holes(buf)) \in Nat /\ (Cardinality(Holes(buf)) = 0 <=> Holes(buf) = {})
  BY <1>6, FS_CardinalityType, FS_EmptySet
<1> QED
  BY <1>4, <1>5, <1>6, <1>7, Zenon

LEMMA OrderIsRead ==
  ASSUME TypeOK, Order, request' # <<>>
  PROVE  /\ WalkEnds(buf) /\ Holes(buf) # {} /\ UNCHANGED buf
         /\ Cardinality(Holes(buf)) \in Nat \ {0}
         /\ ~IsLookupRequest(request') /\ IsRexmitRequest(request')
         /\ PacketIds(request') = IdsToAsk(buf)
<1>1. /\ WalkEnds(buf) /\ Holes(buf) # {} /\ UNCHANGED buf
      /\ request' = RexmitText(IdsToAsk(buf))
  BY Zenon DEF Order, vars
<1>2. Cardinality(Holes(buf)) \in Nat \ {0}
  BY <1>1, HolesFinite
<1> DEFINE n == Cardinality(Holes(buf))
           T == {IdsToAsk(buf)[k] : k \in 1 .. n}
<1>3. IdsToAsk(buf) \in [1 .. n -> T]
  BY Zenon DEF IdsToAsk
<1> HIDE DEF n, T
<1>4. n \in Nat \ {0}
  BY <1>2 DEF n
<1>5. /\ ~IsLookupRequest(RexmitText(IdsToAsk(buf)))
      /\ IsRexmitRequest(RexmitText(IdsToAsk(buf)))
      /\ PacketIds(RexmitText(IdsToAsk(buf))) = IdsToAsk(buf)
  BY <1>3, <1>4, RequestReadBack
<1> QED
  BY <1>1, <1>2, <1>5

LEMMA NextUnderstood ==
  ASSUME TypeOK, RequestIsUnderstood, [RexmitNext]_rexmitVars
  PROVE  RequestIsUnderstood'
<1>1. CASE Order /\ request' # <<>>
  <2>1. /\ Cardinality(Holes(buf)) \in Nat \ {0}
        /\ ~IsLookupRequest(request') /\ IsRexmitRequest(request')
        /\ PacketIds(request') = IdsToAsk(buf)
    BY <1>1, OrderIsRead
  <2> DEFINE n == Cardinality(Holes(buf))
             T == {IdsToAsk(buf)[k] : k \in 1 .. n}
  <2>2. IdsToAsk(buf) \in [1 .. n -> T]
    BY Zenon DEF IdsToAsk
  <2> HIDE DEF n, T
  <2>3. n \in Nat \ {0}
    BY <2>1 DEF n
  <2>4. Len(PacketIds(request')) > 0
    BY <2>1, <2>2, <2>3, FunctionIsSeq, SMT
  <2>5. UNCHANGED buf
    BY <1>1, OrderIsRead
  <2>6. PacketIds(request') = IdsToAsk(buf')
    BY <2>1, <2>5, Zenon
  <2> QED
    BY <2>1, <2>4, <2>6, Zenon DEF RequestIsUnderstood
<1>2. CASE request' = <<>>
  BY <1>2, Zenon DEF RequestIsUnderstood
<1>3. CASE UNCHANGED rexmitVars
  BY <1>3, Zenon DEF rexmitVars, rexmit, vars, RequestIsUnderstood
<1> QED
  BY <1>1, <1>2, <1>3, Zenon DEF RexmitNext, Tune

THEOREM RequestsAreUnderstood == RexmitSpec => []RequestIsUnderstood
<1>1. RexmitInit => RequestIsUnderstood
  BY Zenon DEF RexmitInit, RequestIsUnderstood
<1>2. TypeOK /\ RequestIsUnderstood /\ [RexmitNext]_rexmitVars => RequestIsUnderstood'
  BY NextUnderstood
<1> QED
  BY <1>1, <1>2, RingBesideRequests, PTL DEF RexmitSpec

-----------------------------------------------------------------------------
(***************************************************************************)
(* What is asked for, as long as no number comes near the width of the     *)
(* counter: the numbers are all different, within a ring's length of the   *)
(* tail, and the missing ones themselves while the tail is at index 0.     *)
(***************************************************************************)
NumbersFit == MaxNum + 1 < Width /\ Capacity < Width

(* The head is one past a packet's number, or at the one a session starts  *)
(* with: it never outgrows the numbers.                                    *)
HeadFits == buf.absHead \in 0 .. MaxNum + 1

LEMMA PacketFits == MaxNum \in Nat /\ \A p \in Packet : p.num \in 0 .. MaxNum
BY PlaybackAssumption, SMT DEF Packet

LEMMA BrokenHead ==
  ASSUME NEW b, RingType(b, Packet), NEW f
  PROVE  Broken(b, f).absHead = b.absHead
BY SMT DEF RingType, Broken

LEMMA TryPutHead ==
  ASSUME NEW b, RingType(b, Packet), NEW p
  PROVE  TryPut(b, p).absHead \in {b.absHead, p.num + 1}
<1>1. \A f : Broken(b, f).absHead = b.absHead
  BY BrokenHead
<1>2. \A slot : Moved(b, b.absHead, b.tail, b.head, slot, FALSE).absHead = b.absHead
  BY Zenon DEF Moved
<1>3. FillGap(b, p).absHead = b.absHead
  BY <1>1, <1>2, Zenon DEF FillGap
<1>4. PushAfresh(b, p).absHead \in {b.absHead, p.num + 1}
  BY <1>1, Zenon DEF PushAfresh, Moved
<1>5. \A off : PushAt(b, p, off).absHead = p.num + 1
  BY Zenon DEF PushAt, Moved
<1> QED
  BY <1>3, <1>4, <1>5, Zenon DEF TryPut, TryPushHead

LEMMA HeadStaysFit ==
  ASSUME TypeOK, HeadFits, [Next]_vars
  PROVE  HeadFits'
<1>0. RingType(buf, Packet)
  BY DEF TypeOK
<1>1. CASE UNCHANGED buf
  BY <1>1, Zenon DEF HeadFits
<1>2. ASSUME NEW p \in Packet, NewSession(p)
      PROVE  HeadFits'
  <2>1. buf'.absHead = p.num
    BY <1>2, Zenon DEF NewSession, ResetAt, Clean
  <2>2. p.num \in 0 .. MaxNum + 1
    BY PacketFits, SMT
  <2> QED
    BY <2>1, <2>2, Zenon DEF HeadFits
<1>3. CASE Put
  <2>1. held \in Packet /\ buf'.absHead \in {buf.absHead, held.num + 1}
    BY <1>0, <1>3, TryPutHead, Zenon DEF Put, TypeOK
  <2>2. held.num + 1 \in 0 .. MaxNum + 1
    BY <2>1, PacketFits, SMT
  <2> QED
    BY <2>1, <2>2, Zenon DEF HeadFits
<1>4. CASE Dump
  <2>1. buf'.absHead = buf.absHead
    BY <1>0, <1>4, BrokenHead, Zenon DEF Dump, DumpTail, Moved
  <2> QED
    BY <2>1, Zenon DEF HeadFits
<1> QED
  BY <1>1, <1>2, <1>3, <1>4, Zenon
     DEF Next, Receive, ChangeStation, Ignore, SameSession, IgnoreLate,
         PushJob, Pop, vars

LEMMA HeadAlwaysFits == Spec => []HeadFits
<1>1. Init => HeadFits
  BY PacketFits, SMT DEF Init, NewBuffer, Clean, HeadFits
<1>2. TypeOK /\ HeadFits /\ [Next]_vars => HeadFits'
  BY HeadStaysFit
<1> QED
  BY <1>1, <1>2, TypeCorrect, PTL DEF Spec

(* A walk that meets an empty slot goes less than once round.              *)
LEMMA HoleIndices ==
  ASSUME TypeOK, CursorsStayInRing, WalkEnds(buf), Holes(buf) # {}
  PROVE  /\ buf.n \in 2 .. Capacity
         /\ buf.tail \in 0 .. buf.n - 1 /\ buf.head \in 0 .. buf.n - 1
         /\ RangeOf(buf) \in 1 .. buf.n - 1
         /\ Holes(buf) \subseteq 0 .. RangeOf(buf) - 1
         /\ \A k \in Holes(buf) : IndexAt(buf, k) \in 0 .. buf.n - 1
         /\ \A j, k \in Holes(buf) : IndexAt(buf, j) = IndexAt(buf, k) => j = k
         /\ WalkOf(buf) = 0 .. RangeOf(buf) - 1
         /\ \A k \in WalkOf(buf) :
              IndexAt(buf, k) = IF buf.tail + k < buf.n THEN buf.tail + k
                                ELSE (buf.tail + k) - buf.n
<1>1. /\ buf.tail \in Nat /\ buf.head \in Nat /\ buf.n \in Nat /\ buf.n <= Capacity
      /\ Capacity \in Nat
  BY RingFields, RingAssumption, SMT DEF TypeOK, RingType
<1>2. ~buf.empty /\ WalkOf(buf) = 0 .. RangeOf(buf) - 1
  BY Zenon DEF Holes, WalkOf
<1>3. PICK k0 \in 0 .. RangeOf(buf) - 1 : TRUE
  BY <1>2, Zenon DEF Holes
<1>4. RangeOf(buf) \in Int /\ RangeOf(buf) >= 1
  <2>1. RangeOf(buf) \in Int
    BY <1>1, SMT DEF RangeOf
  <2> QED
    BY <1>3, <2>1, SMT
<1>5. buf.tail # buf.head
  BY <1>1, <1>4, SMT DEF RangeOf
<1>6. buf.head \in 0 .. buf.n - 1
  BY <1>2, <1>5, Zenon DEF WalkEnds
<1>7. buf.n >= 2
  BY <1>1, <1>4, <1>5, <1>6, SMT DEF RangeOf
<1>8. buf.tail \in 0 .. buf.n - 1
  BY <1>7, Zenon DEF CursorsStayInRing, CursorsInRing
<1>9. RangeOf(buf) \in 1 .. buf.n - 1
  BY <1>1, <1>4, <1>5, <1>6, <1>8, SMT DEF RangeOf
<1>10. Holes(buf) \subseteq 0 .. RangeOf(buf) - 1
  BY <1>2, Zenon DEF Holes
<1>11. ASSUME NEW k \in WalkOf(buf)
       PROVE  IndexAt(buf, k) = IF buf.tail + k < buf.n THEN buf.tail + k
                                ELSE (buf.tail + k) - buf.n
  <2>1. PICK x : x = buf.tail + k
    OBVIOUS
  <2>2. x \in Nat /\ buf.n \in Nat \ {0} /\ x < 2 * buf.n
    BY <1>1, <1>2, <1>7, <1>8, <1>9, <2>1, SMT
  <2>3. x % buf.n = IF x < buf.n THEN x ELSE x - buf.n
    BY <2>2, WrapAround
  <2>4. IndexAt(buf, k) = x % buf.n
    BY <2>1, Zenon DEF IndexAt
  <2> QED
    BY <2>1, <2>3, <2>4, Zenon
<1>12. \A k \in Holes(buf) : k \in 0 .. buf.n - 1
  BY <1>1, <1>9, <1>10, SMT
<1>13. \A k \in Holes(buf) :
         IndexAt(buf, k) = IF buf.tail + k < buf.n THEN buf.tail + k
                           ELSE (buf.tail + k) - buf.n
  BY <1>2, <1>10, <1>11, Zenon
<1>14. \A k \in Holes(buf) : IndexAt(buf, k) \in 0 .. buf.n - 1
  BY <1>1, <1>8, <1>12, <1>13, SMT
<1>15. \A j, k \in Holes(buf) : IndexAt(buf, j) = IndexAt(buf, k) => j = k
  BY <1>1, <1>8, <1>12, <1>13, SMT
<1>16. buf.n \in 2 .. Capacity
  BY <1>1, <1>7, SMT
<1> QED
  BY <1>2, <1>6, <1>8, <1>9, <1>10, <1>11, <1>14, <1>15, <1>16, Zenon

(* Numbers of a ring's length from the tail on, across the counter's end.  *)
LEMMA DistanceFromTail ==
  ASSUME Width \in Nat \ {0}, NEW n \in 0 .. Width - 1, NEW a \in 0 .. Width - 1,
         NEW i \in 0 .. n - 1
  PROVE  Minus((i + a) % Width, a) = i
<1>1. PICK x : x = i + a
  OBVIOUS
<1>2. x \in Nat /\ x < 2 * Width
  BY <1>1, SMT
<1>3. x % Width = IF x < Width THEN x ELSE x - Width
  BY <1>2, WrapAround
<1>4. PICK y : y = x % Width
  OBVIOUS
<1>5. Minus(y, a) = i
  BY <1>1, <1>2, <1>3, <1>4, SMT DEF Minus
<1> QED
  BY <1>1, <1>4, <1>5

LEMMA DifferentFromTail ==
  ASSUME NEW w \in Nat \ {0}, NEW n \in 0 .. w - 1, NEW a \in 0 .. w - 1,
         NEW i \in 0 .. n - 1, NEW j \in 0 .. n - 1, (i + a) % w = (j + a) % w
  PROVE  i = j
<1> DEFINE x == i + a
           y == j + a
<1>1. x \in Nat /\ y \in Nat /\ x < 2 * w /\ y < 2 * w /\ x % w = y % w
  BY SMT
<1> HIDE DEF x, y
<1>2. /\ x % w = IF x < w THEN x ELSE x - w
      /\ y % w = IF y < w THEN y ELSE y - w
  BY <1>1, WrapAround
<1>3. x = y \/ x = y + w \/ y = x + w
  BY <1>1, <1>2, SMT
<1>4. ~(i + a = j + a + w) /\ ~(j + a = i + a + w) /\ (i + a = j + a => i = j)
  BY SMT
<1> QED
  BY <1>3, <1>4, Zenon DEF x, y

(* Beyond either end of the counter comes the other one.                   *)
LEMMA AroundZero ==
  ASSUME NEW w \in Nat \ {0}, NEW z \in Int, 0 <= z + w, z < w
  PROVE  (z + w) % w = z % w
BY SMT

LEMMA TailFits ==
  ASSUME TypeOK, CursorsStayInRing, HeadFits, NumbersFit,
         WalkEnds(buf), Holes(buf) # {}
  PROVE  /\ Width \in Nat \ {0} /\ AbsTail(buf) \in 0 .. Width - 1
         /\ buf.n \in 0 .. Width - 1
<1>1. /\ buf.n \in 2 .. Capacity /\ RangeOf(buf) \in 1 .. buf.n - 1
      /\ Capacity \in Nat /\ Width \in Nat \ {0} /\ MaxNum \in Nat
      /\ buf.absHead \in 0 .. MaxNum + 1
      /\ MaxNum + 1 < Width /\ Capacity < Width
  BY HoleIndices, RingAssumption, PacketFits DEF NumbersFit, HeadFits
<1>2. AbsTail(buf) \in 0 .. Width - 1
  BY <1>1, SMT DEF AbsTail, Minus
<1> QED
  BY <1>1, <1>2, SMT


(* What is asked for, by the empty slots that the walk meets.              *)
LEMMA AskedAre ==
  ASSUME TypeOK, Order, request' # <<>>
  PROVE  /\ Asked(request') =
              {(IndexAt(buf, h) + AbsTail(buf)) % Width : h \in Holes(buf)}
         /\ \A i, j \in DOMAIN PacketIds(request') :
              \/ i = j
              \/ \E g, h \in Holes(buf) :
                   /\ g # h
                   /\ PacketIds(request')[i] = (IndexAt(buf, g) + AbsTail(buf)) % Width
                   /\ PacketIds(request')[j] = (IndexAt(buf, h) + AbsTail(buf)) % Width
<1> DEFINE H == Holes(buf)
           n == Cardinality(H)
           Id(h) == (IndexAt(buf, h) + AbsTail(buf)) % Width
           ids == PacketIds(request')
<1>1. ids = IdsToAsk(buf)
  BY OrderIsRead
<1>2. /\ H \subseteq Int /\ IsFiniteSet(H)
  BY HolesFinite
<1>3. DOMAIN ids = 1 .. n /\ \A k \in 1 .. n : ids[k] = Id(Nth(H, k))
  BY <1>1, Zenon DEF IdsToAsk, HoleIndex
<1>4. /\ \A k \in 1 .. n : Nth(H, k) \in H
      /\ \A j, k \in 1 .. n : Nth(H, j) = Nth(H, k) => j = k
      /\ \A x \in H : \E k \in 1 .. n : Nth(H, k) = x
  <2> HIDE DEF H
  <2> QED
    BY <1>2, Enumerated
<1>5. Asked(request') = {ids[k] : k \in DOMAIN ids}
  BY Zenon DEF Asked
<1> HIDE DEF H, n, Id, ids
<1>6. Asked(request') = {Id(h) : h \in H}
  <2>1. ASSUME NEW k \in DOMAIN ids
        PROVE  ids[k] \in {Id(h) : h \in H}
    BY <1>3, <1>4, Zenon
  <2>2. ASSUME NEW h \in H
        PROVE  Id(h) \in {ids[k] : k \in DOMAIN ids}
    <3>1. PICK k \in 1 .. n : Nth(H, k) = h
      BY <1>4
    <3> QED
      BY <1>3, <3>1, Zenon
  <2> QED
    BY <1>5, <2>1, <2>2, Zenon
<1>7. ASSUME NEW i \in DOMAIN ids, NEW j \in DOMAIN ids, i # j
      PROVE  \E g, h \in H : g # h /\ ids[i] = Id(g) /\ ids[j] = Id(h)
  <2>1. /\ Nth(H, i) \in H /\ Nth(H, j) \in H /\ Nth(H, i) # Nth(H, j)
        /\ ids[i] = Id(Nth(H, i)) /\ ids[j] = Id(Nth(H, j))
    BY <1>3, <1>4, <1>7, Zenon
  <2> QED
    BY <2>1, Zenon
<1> QED
  <2>1. \A i, j \in DOMAIN ids :
          \/ i = j
          \/ \E g, h \in H : g # h /\ ids[i] = Id(g) /\ ids[j] = Id(h)
    BY <1>7
  <2> QED
    BY <1>6, <2>1 DEF H, Id, ids

(* With the tail at index 0, the k-th slot from the tail is the slot k.    *)
LEMMA MissingAtZero ==
  ASSUME TypeOK, CursorsStayInRing, HeadFits, NumbersFit,
         WalkEnds(buf), Holes(buf) # {}, buf.tail = 0
  PROVE  {(IndexAt(buf, h) + AbsTail(buf)) % Width : h \in Holes(buf)}
           = {x % Width : x \in Missing(buf)}
<1> DEFINE H == Holes(buf)
           M == {j \in DOMAIN buf.slot : InWindow(buf, j) /\ ~Occupied(buf, j)}
<1>1. /\ buf.n \in 2 .. Capacity /\ buf.head \in 0 .. buf.n - 1
      /\ RangeOf(buf) = buf.head /\ buf.head \in 1 .. buf.n - 1
      /\ DOMAIN buf.slot = 0 .. buf.n - 1 /\ buf.absHead \in Nat
      /\ Capacity \in Nat /\ Width \in Nat \ {0} /\ Capacity < Width
      /\ buf.absHead < Width
  <2>1. /\ buf.n \in 2 .. Capacity /\ buf.head \in 0 .. buf.n - 1
        /\ RangeOf(buf) \in 1 .. buf.n - 1
        /\ DOMAIN buf.slot = 0 .. buf.n - 1 /\ buf.absHead \in Nat
        /\ Capacity \in Nat /\ Width \in Nat \ {0} /\ Capacity < Width
    BY HoleIndices, RingFields, RingAssumption DEF TypeOK, NumbersFit
  <2>2. RangeOf(buf) = buf.head
    BY <2>1, SMT DEF RangeOf
  <2>3. buf.absHead < Width
    BY <2>1, PacketFits, SMT DEF HeadFits, NumbersFit
  <2> QED
    BY <2>1, <2>2, <2>3
<1>2. ASSUME NEW k \in 0 .. buf.head - 1
      PROVE  IndexAt(buf, k) = k
  <2>1. 0 + k = k /\ k \in Nat /\ buf.n \in Nat \ {0} /\ k < 2 * buf.n /\ k < buf.n
    BY <1>1, SMT
  <2>2. k % buf.n = k
    BY <2>1, WrapAround
  <2> QED
    BY <2>1, <2>2, Zenon DEF IndexAt
<1>3. H = {k \in 0 .. buf.head - 1 : ~Occupied(buf, k)}
  <2>1. WalkOf(buf) = 0 .. buf.head - 1
    BY <1>1, Zenon DEF WalkOf, Holes
  <2> QED
    BY <1>2, <2>1, Zenon DEF Holes
<1>4. M = {k \in 0 .. buf.head - 1 : ~Occupied(buf, k)}
  <2>1. \A k \in 0 .. buf.n - 1 : InWindow(buf, k) <=> k \in 0 .. buf.head - 1
    BY <1>1, SMT DEF InWindow
  <2>2. 0 .. buf.head - 1 \subseteq 0 .. buf.n - 1
    BY <1>1, SMT
  <2> QED
    BY <1>1, <2>1, <2>2, Zenon
<1>5. ASSUME NEW k \in 0 .. buf.head - 1
      PROVE  (IndexAt(buf, k) + AbsTail(buf)) % Width = NumAt(buf, k) % Width
  <2>1. NumAt(buf, k) = buf.absHead - (buf.head - k)
    BY <1>1, SMT DEF NumAt
  <2>2. CASE buf.head <= buf.absHead
    <3>1. k + AbsTail(buf) = NumAt(buf, k)
      BY <1>1, <2>1, <2>2, SMT DEF AbsTail, Minus
    <3> QED
      BY <1>2, <3>1
  <2>3. CASE ~(buf.head <= buf.absHead)
    <3>1. k + AbsTail(buf) = NumAt(buf, k) + Width
      BY <1>1, <2>1, <2>3, SMT DEF AbsTail, Minus
    <3>2. NumAt(buf, k) \in Int /\ 0 <= NumAt(buf, k) + Width /\ NumAt(buf, k) < Width
      BY <1>1, <2>1, SMT
    <3>3. (NumAt(buf, k) + Width) % Width = NumAt(buf, k) % Width
      BY <1>1, <3>2, AroundZero
    <3> QED
      BY <1>2, <3>1, <3>3
  <2> QED
    BY <2>2, <2>3
<1>6. H = M /\ H \subseteq 0 .. buf.head - 1
  BY <1>3, <1>4, Zenon
<1>7. {x % Width : x \in Missing(buf)} = {NumAt(buf, k) % Width : k \in M}
  BY Zenon DEF Missing
<1> HIDE DEF H, M
<1>8. {(IndexAt(buf, h) + AbsTail(buf)) % Width : h \in H} = {NumAt(buf, k) % Width : k \in H}
  BY <1>5, <1>6, Zenon
<1> QED
  BY <1>6, <1>7, <1>8 DEF H

(* An image of a finite set under which no two elements meet has as many.  *)
LEMMA SameCount ==
  ASSUME NEW S, IsFiniteSet(S), NEW T, NEW f \in [S -> T],
         T = {f[x] : x \in S}, \A x, y \in S : f[x] = f[y] => x = y
  PROVE  Cardinality(T) = Cardinality(S)
<1>1. f \in Injection(S, T)
  BY Zenon DEF Injection, IsInjective
<1>2. f \in Surjection(S, T)
  BY Zenon DEF Surjection
<1>3. ExistsBijection(S, T)
  BY <1>1, <1>2, Zenon DEF Bijection, ExistsBijection
<1> QED
  BY <1>3, FS_Bijection

(* The k-th slot from the tail, in a ring of n slots with tail t, head h    *)
(* and a packet numbered x at the head.                                    *)
LEMMA KthFromTail ==
  ASSUME NEW n \in Nat, NEW t \in 0 .. n - 1, NEW h \in 0 .. n - 1, NEW x \in Nat,
         NEW r \in Nat, r = IF t <= h THEN h - t ELSE (h + n) - t,
         NEW k \in 0 .. r - 1,
         NEW i \in Int, i = IF t + k < n THEN t + k ELSE (t + k) - n
  PROVE  /\ i \in 0 .. n - 1
         /\ IF t <= h THEN t <= i /\ i < h ELSE t <= i \/ i < h
         /\ (IF i < h THEN x - (h - i) ELSE x - ((h + n) - i)) = (x - r) + k
<1>1. CASE t <= h
  <2>1. i = t + k /\ i < h
    BY <1>1, SMT
  <2> QED
    BY <1>1, <2>1, SMT
<1>2. CASE h < t
  <2>1. CASE t + k < n
    BY <1>2, <2>1, SMT
  <2>2. CASE ~(t + k < n)
    BY <1>2, <2>2, SMT
  <2> QED
    BY <2>1, <2>2
<1> QED
  BY <1>1, <1>2, SMT

(* The walk meets the slots of the window, each once and in the order of   *)
(* the numbers they stand for.                                             *)
LEMMA WalkIsWindow ==
  ASSUME TypeOK, CursorsStayInRing, WalkEnds(buf), Holes(buf) # {}
  PROVE  /\ \A k \in WalkOf(buf) :
              /\ IndexAt(buf, k) \in DOMAIN buf.slot /\ InWindow(buf, IndexAt(buf, k))
              /\ NumAt(buf, IndexAt(buf, k)) = (buf.absHead - RangeOf(buf)) + k
         /\ \A i \in DOMAIN buf.slot :
              InWindow(buf, i) => \E k \in WalkOf(buf) : IndexAt(buf, k) = i
<1>1. PICK n, t, h, x, r : n = buf.n /\ t = buf.tail /\ h = buf.head /\ x = buf.absHead
                           /\ r = RangeOf(buf)
  OBVIOUS
<1>2. /\ n \in Nat /\ t \in 0 .. n - 1 /\ h \in 0 .. n - 1 /\ x \in Nat
      /\ DOMAIN buf.slot = 0 .. n - 1 /\ WalkOf(buf) = 0 .. r - 1
  BY <1>1, HoleIndices, RingFields DEF TypeOK
<1>3. \A k \in WalkOf(buf) : IndexAt(buf, k) = IF t + k < n THEN t + k ELSE (t + k) - n
  BY <1>1, HoleIndices
<1>4. r = IF t <= h THEN h - t ELSE (h + n) - t
  BY <1>1, <1>2, SMT DEF RangeOf
<1>5. r \in Nat
  BY <1>2, <1>4, SMT
<1>6. \A i : NumAt(buf, i) = IF i < h THEN x - (h - i) ELSE x - (h + n - i)
  BY <1>1, Zenon DEF NumAt
<1>7. \A i : InWindow(buf, i) <=> IF t <= h THEN t <= i /\ i < h ELSE t <= i \/ i < h
  BY <1>1, Zenon DEF InWindow
<1>8. ASSUME NEW k \in WalkOf(buf)
      PROVE  /\ IndexAt(buf, k) \in 0 .. n - 1 /\ InWindow(buf, IndexAt(buf, k))
             /\ NumAt(buf, IndexAt(buf, k)) = (x - r) + k
  <2>1. PICK i : i = IndexAt(buf, k)
    OBVIOUS
  <2>2. i = IF t + k < n THEN t + k ELSE (t + k) - n
    BY <1>3, <2>1
  <2>3. k \in 0 .. r - 1 /\ i \in Int
    BY <1>2, <2>2, SMT
  <2>4. /\ i \in 0 .. n - 1
        /\ IF t <= h THEN t <= i /\ i < h ELSE t <= i \/ i < h
        /\ (IF i < h THEN x - (h - i) ELSE x - ((h + n) - i)) = (x - r) + k
    BY <1>2, <1>4, <1>5, <2>2, <2>3, KthFromTail
  <2>5. h + n - i = (h + n) - i
    BY <1>2, <2>3, SMT
  <2>6. NumAt(buf, i) = (x - r) + k
    BY <1>6, <2>4, <2>5, Zenon
  <2> QED
    BY <1>7, <2>1, <2>4, <2>6, Zenon
<1>9. ASSUME NEW i \in 0 .. n - 1, InWindow(buf, i)
      PROVE  \E k \in WalkOf(buf) : IndexAt(buf, k) = i
  <2>1. IF t <= h THEN t <= i /\ i < h ELSE t <= i \/ i < h
    BY <1>7, <1>9, Zenon
  <2>2. PICK k : k = IF t <= i THEN i - t ELSE (i + n) - t
    OBVIOUS
  <2>3. CASE t <= i
    <3>1. k \in 0 .. r - 1 /\ i = t + k /\ t + k < n
      BY <1>2, <1>4, <2>1, <2>2, <2>3, SMT
    <3> QED
      BY <1>2, <1>3, <3>1, Zenon
  <2>4. CASE ~(t <= i)
    <3>1. k \in 0 .. r - 1 /\ i = (t + k) - n /\ ~(t + k < n)
      BY <1>2, <1>4, <2>1, <2>2, <2>4, SMT
    <3> QED
      BY <1>2, <1>3, <3>1, Zenon
  <2> QED
    BY <2>3, <2>4
<1> QED
  BY <1>1, <1>2, <1>8, <1>9, Zenon

(* So there are as many holes as numbers missing.                          *)
LEMMA MissingCount ==
  ASSUME TypeOK, CursorsStayInRing, WalkEnds(buf), Holes(buf) # {}
  PROVE  Cardinality(Missing(buf)) = Cardinality(Holes(buf))
<1> DEFINE H == Holes(buf)
           f == [h \in H |-> NumAt(buf, IndexAt(buf, h))]
           T == {f[h] : h \in H}
<1>1. IsFiniteSet(H)
  BY HolesFinite
<1>2. H = {k \in WalkOf(buf) : ~Occupied(buf, IndexAt(buf, k))}
  BY Zenon DEF Holes
<1>3. /\ \A k \in WalkOf(buf) :
             IndexAt(buf, k) \in DOMAIN buf.slot /\ InWindow(buf, IndexAt(buf, k))
      /\ \A i \in DOMAIN buf.slot :
           InWindow(buf, i) => \E k \in WalkOf(buf) : IndexAt(buf, k) = i
      /\ \A k \in WalkOf(buf) :
           NumAt(buf, IndexAt(buf, k)) = (buf.absHead - RangeOf(buf)) + k
  BY WalkIsWindow
<1>4. Missing(buf) = T
  BY <1>2, <1>3, Zenon DEF Missing
<1>5. ASSUME NEW g \in H, NEW h \in H, f[g] = f[h]
      PROVE  g = h
  <2>1. (buf.absHead - RangeOf(buf)) + g = (buf.absHead - RangeOf(buf)) + h
    BY <1>2, <1>3, <1>5, Zenon
  <2>2. g \in Int /\ h \in Int
    BY HolesFinite
  <2>3. buf.absHead - RangeOf(buf) \in Int
    BY RingFields, SMT DEF TypeOK, RangeOf
  <2> QED
    BY <2>1, <2>2, <2>3, SMT
<1>6. f \in [H -> T]
  BY Zenon
<1> HIDE DEF H, f
<1>7. Cardinality(T) = Cardinality(H)
  BY <1>1, <1>5, <1>6, SameCount
<1> QED
  BY <1>4, <1>7 DEF H

LEMMA OrderAsksNear ==
  ASSUME TypeOK, CursorsStayInRing, HeadFits, NumbersFit, Order, request' # <<>>
  PROVE  /\ buf.tail = 0 => Asked(request') = {x % Width : x \in Missing(buf)}
         /\ \A x \in Asked(request') : Minus(x, AbsTail(buf)) < buf.n
         /\ Cardinality(Asked(request')) = Cardinality(Missing(buf))
         /\ Len(PacketIds(request')) = Cardinality(Missing(buf))
<1> DEFINE a == AbsTail(buf)
           H == Holes(buf)
           Id(h) == (IndexAt(buf, h) + a) % Width
<1>1. WalkEnds(buf) /\ Holes(buf) # {}
  BY OrderIsRead
<1>2. /\ Width \in Nat \ {0} /\ a \in 0 .. Width - 1 /\ buf.n \in 0 .. Width - 1
  BY <1>1, TailFits
<1>3. /\ \A h \in H : IndexAt(buf, h) \in 0 .. buf.n - 1
      /\ \A g, h \in H : IndexAt(buf, g) = IndexAt(buf, h) => g = h
  BY <1>1, HoleIndices
<1>4. /\ Asked(request') = {Id(h) : h \in H}
      /\ \A i, j \in DOMAIN PacketIds(request') :
           \/ i = j
           \/ \E g, h \in H : /\ g # h
                              /\ PacketIds(request')[i] = Id(g)
                              /\ PacketIds(request')[j] = Id(h)
  BY AskedAre
<1> HIDE DEF a, H
<1>5. ASSUME NEW h \in H
      PROVE  Minus(Id(h), a) < buf.n
  <2>1. PICK i \in 0 .. buf.n - 1 : i = IndexAt(buf, h)
    BY <1>3
  <2>2. Minus((i + a) % Width, a) = i
    BY <1>2, DistanceFromTail
  <2>3. i < buf.n
    BY <1>2, SMT
  <2> QED
    BY <2>1, <2>2, <2>3, Zenon
<1>6. ASSUME NEW g \in H, NEW h \in H, g # h
      PROVE  Id(g) # Id(h)
  <2>1. IndexAt(buf, g) # IndexAt(buf, h)
    BY <1>3, <1>6
  <2>2. /\ IndexAt(buf, g) \in 0 .. buf.n - 1 /\ IndexAt(buf, h) \in 0 .. buf.n - 1
    BY <1>3
  <2>3. ASSUME Id(g) = Id(h)
        PROVE  IndexAt(buf, g) = IndexAt(buf, h)
    BY <1>2, <2>2, <2>3, DifferentFromTail
  <2> QED
    BY <2>1, <2>3
<1> HIDE DEF Id
<1>7. \A x \in Asked(request') : Minus(x, a) < buf.n
  BY <1>4, <1>5, Zenon
<1>9. Len(PacketIds(request')) = Cardinality(H)
  <2>1. PacketIds(request') = IdsToAsk(buf) /\ Cardinality(H) \in Nat \ {0}
    BY OrderIsRead DEF H
  <2> DEFINE n == Cardinality(H)
             T == {IdsToAsk(buf)[k] : k \in 1 .. n}
  <2>2. IdsToAsk(buf) \in [1 .. n -> T]
    BY Zenon DEF IdsToAsk, H
  <2> HIDE DEF n, T
  <2>3. Len(IdsToAsk(buf)) = n
    BY <2>1, <2>2, FunctionIsSeq, SMT DEF n
  <2> QED
    BY <2>1, <2>3 DEF n
<1>10. Cardinality(Asked(request')) = Cardinality(H)
  <2> DEFINE f == [h \in H |-> Id(h)]
             T == {f[h] : h \in H}
  <2>1. T = Asked(request')
    BY <1>4, Zenon
  <2>2. \A g, h \in H : f[g] = f[h] => g = h
    BY <1>6, Zenon
  <2>3. f \in [H -> T]
    BY Zenon
  <2>4. IsFiniteSet(H)
    BY HolesFinite DEF H
  <2> HIDE DEF f
  <2>5. Cardinality(T) = Cardinality(H)
    BY <2>2, <2>3, <2>4, SameCount
  <2> QED
    BY <2>1, <2>5
<1>11. Cardinality(H) = Cardinality(Missing(buf))
  BY <1>1, MissingCount DEF H
<1>12. buf.tail = 0 => Asked(request') = {x % Width : x \in Missing(buf)}
  <2>1. buf.tail = 0 => {Id(h) : h \in H} = {x % Width : x \in Missing(buf)}
    BY <1>1, MissingAtZero DEF Id, H, a
  <2> QED
    BY <1>4, <2>1, Zenon
<1> QED
  BY <1>7, <1>9, <1>10, <1>11, <1>12 DEF a

THEOREM AskedIsNear == NumbersFit /\ RexmitSpec => AskedNearWindow
<1> SUFFICES ASSUME NumbersFit PROVE RexmitSpec => AskedNearWindow
  OBVIOUS
<1>1. TypeOK /\ CursorsStayInRing /\ HeadFits /\ [RexmitNext]_rexmitVars =>
        [Asking =>
           /\ buf.tail = 0 => Asked(request') = {x % Width : x \in Missing(buf)}
           /\ \A x \in Asked(request') : Minus(x, AbsTail(buf)) < buf.n
           /\ Cardinality(Asked(request')) = Cardinality(Missing(buf))
           /\ Len(PacketIds(request')) = Cardinality(Missing(buf))]_rexmitVars
  <2> SUFFICES ASSUME TypeOK, CursorsStayInRing, HeadFits, RexmitNext, Asking
               PROVE  /\ buf.tail = 0 =>
                           Asked(request') = {x % Width : x \in Missing(buf)}
                      /\ \A x \in Asked(request') : Minus(x, AbsTail(buf)) < buf.n
                      /\ Cardinality(Asked(request')) = Cardinality(Missing(buf))
                      /\ Len(PacketIds(request')) = Cardinality(Missing(buf))
    BY Zenon
  <2>1. Order /\ request' # <<>>
    BY Zenon DEF Asking, RexmitNext, Tune
  <2> QED
    BY <2>1, OrderAsksNear
<1> QED
  BY <1>1, RingBesideRequests, RexmitOnlyReads, HeadAlwaysFits, PTL
     DEF RexmitSpec, AskedNearWindow
=============================================================================
