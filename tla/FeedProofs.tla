----------------------------- MODULE FeedProofs -----------------------------
(***************************************************************************)
(* Whatever follows the rules of Feed gives each subscriber a gapless      *)
(* piece of the feed.                                                      *)
(***************************************************************************)
EXTENDS Feed, SequenceTheorems, TLAPS

\* A piece of a sequence is a sequence of its own, with the elements in place.
LEMMA PieceProperties ==
    ASSUME NEW T, NEW q \in Seq(T), NEW a \in Nat, NEW n \in Nat, a + n <= Len(q)
    PROVE  /\ SubSeq(q, a + 1, a + n) \in Seq(T)
           /\ Len(SubSeq(q, a + 1, a + n)) = n
           /\ \A i \in 1..n : SubSeq(q, a + 1, a + n)[i] = q[a + i]
<1>1. Len(q) \in Nat /\ a + 1 \in Int /\ a + n \in Int BY LenProperties
<1>2. \A i \in (a + 1)..(a + n) : i \in 1..Len(q) BY <1>1
<1>3. \A i \in (a + 1)..(a + n) : q[i] \in T BY <1>2, ElementOfSeq
<1>4. /\ SubSeq(q, a + 1, a + n) \in Seq(T)
      /\ Len(SubSeq(q, a + 1, a + n)) = IF a + 1 <= a + n THEN a + n - (a + 1) + 1 ELSE 0
      /\ \A i \in 1..(a + n - (a + 1) + 1) :
            SubSeq(q, a + 1, a + n)[i] = q[(a + 1) + i - 1]
  BY <1>1, <1>3, SubSeqProperties
<1>5. a + n - (a + 1) + 1 = n /\ (n = 0 \/ a + 1 <= a + n) OBVIOUS
<1>6. \A i \in 1..n : (a + 1) + i - 1 = a + i OBVIOUS
<1> QED BY <1>4, <1>5, <1>6

\* Message by message, what Gapless says of whole pieces.
InPlace ==
    \A s \in Subscribers :
        /\ standing[s] = "new" => got[s] = <<>>
        /\ since[s] + Len(got[s]) <= Len(feed)
        /\ \A i \in 1..Len(got[s]) : got[s][i] = feed[since[s] + i]

LEMMA InPlaceIsGapless == TypeOK /\ InPlace => Gapless
<1> SUFFICES ASSUME TypeOK, InPlace, NEW s \in Subscribers
             PROVE  /\ since[s] + Len(got[s]) <= Len(feed)
                    /\ got[s] = SubSeq(feed, since[s] + 1, since[s] + Len(got[s]))
  BY DEF Gapless
<1>1. /\ feed \in Seq(Messages) /\ got[s] \in Seq(Messages)
      /\ Len(feed) \in Nat /\ Len(got[s]) \in Nat /\ since[s] \in Nat
  BY LenProperties DEF TypeOK
<1>2. /\ since[s] + Len(got[s]) <= Len(feed)
      /\ \A i \in 1..Len(got[s]) : got[s][i] = feed[since[s] + i]
  BY DEF InPlace
<1> DEFINE a == since[s]
           n == Len(got[s])
           piece == SubSeq(feed, a + 1, a + n)
<1>3. /\ piece \in Seq(Messages) /\ Len(piece) = n
      /\ \A i \in 1..n : piece[i] = feed[a + i]
  <2>1. a \in Nat /\ n \in Nat /\ a + n <= Len(feed) BY <1>1, <1>2
  <2> HIDE DEF a, n
  <2> QED BY <1>1, <2>1, PieceProperties
<1> HIDE DEF piece
<1>4. \A i \in 1..Len(got[s]) : got[s][i] = piece[i] BY <1>2, <1>3
<1>5. got[s] = piece BY <1>1, <1>3, <1>4, SeqEqual
<1> QED BY <1>2, <1>5 DEF piece

-----------------------------------------------------------------------------
LEMMA FeedInit == Init => TypeOK /\ InPlace
<1> SUFFICES ASSUME Init PROVE TypeOK /\ InPlace OBVIOUS
<1>1. <<>> \in Seq(Messages) /\ Len(<<>>) = 0 BY EmptySeq
<1> QED BY <1>1 DEF Init, TypeOK, InPlace

\* The lengths are numbers, in every state of the right type.
LEMMA LengthsAreNumbers ==
    TypeOK => Len(feed) \in Nat /\ \A s \in Subscribers : Len(got[s]) \in Nat
BY LenProperties DEF TypeOK

LEMMA SubscribeStep ==
    ASSUME TypeOK, InPlace, NEW s \in Subscribers, Subscribe(s)
    PROVE  TypeOK' /\ InPlace'
<1>1. Len(feed) \in Nat /\ Len(<<>>) = 0 BY LengthsAreNumbers, EmptySeq
<1>2. TypeOK' BY <1>1 DEF Subscribe, TypeOK
<1>3. \A t \in Subscribers : t # s => since'[t] = since[t] /\ standing'[t] = standing[t]
  BY DEF Subscribe, TypeOK
<1>4. got'[s] = <<>> /\ since'[s] = Len(feed) /\ standing'[s] = "served"
  BY DEF Subscribe, TypeOK, InPlace
<1>5. InPlace' BY <1>1, <1>3, <1>4 DEF Subscribe, InPlace
<1> QED BY <1>2, <1>5

LEMMA PublishStep ==
    ASSUME TypeOK, InPlace, NEW m \in Messages, Publish(m)
    PROVE  TypeOK' /\ InPlace'
<1>1. /\ Len(feed) \in Nat /\ \A s \in Subscribers : Len(got[s]) \in Nat
      /\ \A s \in Subscribers : since[s] \in Nat
  BY LengthsAreNumbers DEF TypeOK
<1>2. /\ feed' \in Seq(Messages) /\ Len(feed') = Len(feed) + 1
      /\ \A i \in 1..Len(feed) : feed'[i] = feed[i]
  BY AppendProperties DEF Publish, TypeOK
<1>3. TypeOK' BY <1>1, <1>2 DEF Publish, TypeOK
<1>4. ASSUME NEW s \in Subscribers
      PROVE  /\ since[s] + Len(got[s]) <= Len(feed')
             /\ \A i \in 1..Len(got[s]) : got[s][i] = feed'[since[s] + i]
  <2>1. since[s] + Len(got[s]) <= Len(feed') BY <1>1, <1>2 DEF InPlace
  <2>2. ASSUME NEW i \in 1..Len(got[s]) PROVE got[s][i] = feed'[since[s] + i]
    <3>1. since[s] + i \in 1..Len(feed) BY <1>1 DEF InPlace
    <3> QED BY <1>2, <3>1 DEF InPlace
  <2> QED BY <2>1, <2>2
<1>5. InPlace' BY <1>4 DEF Publish, InPlace
<1> QED BY <1>3, <1>5

LEMMA GiveStep ==
    ASSUME TypeOK, InPlace, NEW s \in Subscribers, Give(s)
    PROVE  TypeOK' /\ InPlace'
<1> DEFINE next == since[s] + Len(got[s]) + 1
<1>1. /\ Len(feed) \in Nat /\ \A t \in Subscribers : Len(got[t]) \in Nat
      /\ since[s] \in Nat /\ got[s] \in Seq(Messages)
  BY LengthsAreNumbers DEF TypeOK
<1>2. next \in 1..Len(feed) BY <1>1 DEF Give, Current, InPlace
<1>3. feed[next] \in Messages BY <1>2, ElementOfSeq DEF TypeOK
<1>4. got'[s] = Append(got[s], feed[next]) /\ \A t \in Subscribers : t # s => got'[t] = got[t]
  BY DEF Give, TypeOK
<1>5. /\ got'[s] \in Seq(Messages) /\ Len(got'[s]) = Len(got[s]) + 1
      /\ \A i \in 1..Len(got[s]) : got'[s][i] = got[s][i]
      /\ got'[s][Len(got[s]) + 1] = feed[next]
  BY <1>1, <1>3, <1>4, AppendProperties
<1>6. TypeOK' BY <1>4, <1>5 DEF Give, TypeOK
<1>7. /\ since[s] + Len(got'[s]) <= Len(feed)
      /\ \A i \in 1..Len(got'[s]) : got'[s][i] = feed[since[s] + i]
  <2>1. since[s] + Len(got'[s]) <= Len(feed) BY <1>1, <1>2, <1>5
  <2>2. ASSUME NEW i \in 1..Len(got'[s]) PROVE got'[s][i] = feed[since[s] + i]
    <3>1. CASE i = Len(got[s]) + 1 BY <1>1, <1>5, <3>1
    <3>2. CASE i # Len(got[s]) + 1
      <4>1. i \in 1..Len(got[s]) BY <1>1, <1>5, <3>2
      <4> QED BY <1>5, <4>1 DEF InPlace
    <3> QED BY <3>1, <3>2
  <2> QED BY <2>1, <2>2
<1>8. InPlace' BY <1>4, <1>7 DEF Give, InPlace
<1> QED BY <1>6, <1>8

LEMMA CutStep ==
    ASSUME TypeOK, InPlace, NEW S \in SUBSET Subscribers, Cut(S)
    PROVE  TypeOK' /\ InPlace'
BY DEF Cut, TypeOK, InPlace

LEMMA FeedInductive == Spec => [](TypeOK /\ InPlace)
<1>1. Init => TypeOK /\ InPlace BY FeedInit
<1>2. TypeOK /\ InPlace /\ [Next]_vars => (TypeOK /\ InPlace)'
  <2> SUFFICES ASSUME TypeOK, InPlace, [Next]_vars PROVE TypeOK' /\ InPlace'
    OBVIOUS
  <2>1. ASSUME NEW s \in Subscribers, Subscribe(s) PROVE TypeOK' /\ InPlace'
    BY <2>1, SubscribeStep
  <2>2. ASSUME NEW s \in Subscribers, Give(s) PROVE TypeOK' /\ InPlace'
    BY <2>2, GiveStep
  <2>3. ASSUME NEW m \in Messages, Publish(m) PROVE TypeOK' /\ InPlace'
    BY <2>3, PublishStep
  <2>4. ASSUME NEW S \in SUBSET Subscribers, Cut(S) PROVE TypeOK' /\ InPlace'
    BY <2>4, CutStep
  <2>5. CASE UNCHANGED vars BY <2>5 DEF vars, TypeOK, InPlace
  <2> QED BY <2>1, <2>2, <2>3, <2>4, <2>5 DEF Next
<1> QED BY <1>1, <1>2, PTL DEF Spec

-----------------------------------------------------------------------------
\* The variables keep their types, and no subscriber begins after the end of
\* the feed.
THEOREM FeedTypeCorrect == Spec => []TypeOK
BY FeedInductive, PTL

\* Every subscriber of a feed, whatever publishes, subscribes and is cut in
\* between, has a piece of the feed without a gap, a repetition or a swap.  The
\* broadcaster is such a feed by ImplementsFeed of Connections.
THEOREM GaplessCorrect == Spec => []Gapless
BY FeedInductive, InPlaceIsGapless, PTL

=============================================================================
