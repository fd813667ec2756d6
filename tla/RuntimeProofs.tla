---------------------------- MODULE RuntimeProofs ----------------------------
(***************************************************************************)
(* What EventRuntime promises, for any events, any streams, any reducer    *)
(* and any number of crashes.                                              *)
(*                                                                         *)
(* Two groups of theorems: those that hold whatever a failing append       *)
(* leaves behind, and those that need it to leave nothing (CleanFailures). *)
(***************************************************************************)
EXTENDS EventRuntime, DataLemmas

-----------------------------------------------------------------------------
(* read_all: the orders of a set of records.                               *)

LEMMA OrderFacts ==
    ASSUME NEW D, IsFiniteSet(D), NEW o \in ReadOrders(D)
    PROVE  /\ o \in Seq(D) /\ Len(o) \in Nat /\ DOMAIN o = 1 .. Len(o)
           /\ Len(o) = Cardinality(D)
           /\ \A i, j \in DOMAIN o : o[i] = o[j] => i = j
           /\ \A i \in DOMAIN o : o[i] \in D
           /\ \A r \in D : \E i \in DOMAIN o : o[i] = r
           /\ \A i, j \in DOMAIN o : i < j => o[i].acc <= o[j].acc
<1> DEFINE n == Cardinality(D)
<1>1. n \in Nat /\ n = Cardinality(D) BY FS_CardinalityType
<1>2. /\ o \in [1 .. n -> D] /\ \A i, j \in 1 .. n : i # j => o[i] # o[j]
      /\ \A i, j \in DOMAIN o : i < j => o[i].acc <= o[j].acc
  BY DEF ReadOrders, SetToSeqs
<1>3. o \in Seq(D) /\ Len(o) = n /\ DOMAIN o = 1 .. n BY <1>1, <1>2, SMT
<1>4. \A r \in D : \E i \in DOMAIN o : o[i] = r
  <2>1. o \in Injection(1 .. n, D) BY <1>2 DEF Injection, IsInjective
  <2>2. Cardinality(1 .. n) = n BY <1>1, CountTo
  <2>3. o \in Surjection(1 .. n, D) BY <2>1, <2>2, FS_Injection
  <2> QED BY <1>3, <2>3 DEF Surjection
<1> QED BY <1>1, <1>2, <1>3, <1>4

LEMMA IsOrder ==
    ASSUME NEW D, NEW o \in Seq(D),
           \A i, j \in DOMAIN o : o[i] = o[j] => i = j,
           \A r \in D : \E i \in DOMAIN o : o[i] = r,
           \A i, j \in DOMAIN o : i < j => o[i].acc <= o[j].acc
    PROVE  IsFiniteSet(D) /\ o \in ReadOrders(D)
<1> DEFINE n == Len(o)
<1>1. n \in Nat /\ DOMAIN o = 1 .. n /\ o \in [1 .. n -> D] BY LenProperties, SMT
<1>2. o \in Surjection(1 .. n, D) BY <1>1 DEF Surjection
<1>3. o \in Injection(1 .. n, D) BY <1>1 DEF Injection, IsInjective
<1>4. IsFiniteSet(1 .. n) /\ Cardinality(1 .. n) = n BY <1>1, CountTo
<1>5. IsFiniteSet(D) /\ Cardinality(D) = n BY <1>2, <1>3, <1>4, FS_Surjection
<1>6. o \in SetToSeqs(D) BY <1>1, <1>5 DEF SetToSeqs
<1> QED BY <1>5, <1>6 DEF ReadOrders

\* Records with numbers of their own have one order only.
LEMMA OneOrder ==
    ASSUME NEW D, IsFiniteSet(D), \A r \in D : r.acc \in Nat,
           \A r1, r2 \in D : r1.acc = r2.acc => r1 = r2,
           NEW o1 \in ReadOrders(D), NEW o2 \in ReadOrders(D)
    PROVE  o1 = o2
<1>1. /\ o1 \in Seq(D) /\ o2 \in Seq(D) /\ Len(o1) \in Nat /\ Len(o2) \in Nat
      /\ DOMAIN o1 = 1 .. Len(o1) /\ DOMAIN o2 = 1 .. Len(o2)
      /\ \A i, j \in DOMAIN o1 : o1[i] = o1[j] => i = j
      /\ \A i, j \in DOMAIN o2 : o2[i] = o2[j] => i = j
      /\ \A i \in DOMAIN o1 : o1[i] \in D
      /\ \A i \in DOMAIN o2 : o2[i] \in D
      /\ \A r \in D : \E i \in DOMAIN o1 : o1[i] = r
      /\ \A r \in D : \E i \in DOMAIN o2 : o2[i] = r
      /\ \A i, j \in DOMAIN o1 : i < j => o1[i].acc <= o1[j].acc
      /\ \A i, j \in DOMAIN o2 : i < j => o2[i].acc <= o2[j].acc
  BY OrderFacts
<1>2. Len(o1) = Len(o2) BY OrderFacts
<1> DEFINE Same == {n \in Nat : \A i \in DOMAIN o1 : i <= n => o1[i] = o2[i]}
<1>3. \A n \in Nat : n \in Same
  <2>1. 0 \in Same BY <1>1
  <2>2. ASSUME NEW n \in Nat, n \in Same PROVE n + 1 \in Same
    <3> SUFFICES ASSUME n + 1 \in DOMAIN o1 PROVE o1[n + 1] = o2[n + 1]
      BY <1>1, <2>2
    <3>1. n + 1 \in DOMAIN o2 /\ o1[n + 1] \in D /\ o2[n + 1] \in D BY <1>1, <1>2
    <3>2. PICK k \in DOMAIN o2 : o2[k] = o1[n + 1] BY <1>1, <3>1
    <3>3. PICK m \in DOMAIN o1 : o1[m] = o2[n + 1] BY <1>1, <3>1
    <3>4. k >= n + 1
      <4> SUFFICES ASSUME k <= n PROVE FALSE BY <1>1
      <4>1. k \in DOMAIN o1 /\ o1[k] = o2[k] BY <1>1, <1>2, <2>2
      <4>2. k = n + 1 BY <1>1, <3>2, <4>1
      <4> QED BY <4>2
    <3>5. m >= n + 1
      <4> SUFFICES ASSUME m <= n PROVE FALSE BY <1>1
      <4>1. m \in DOMAIN o2 /\ o1[m] = o2[m] BY <1>1, <1>2, <2>2
      <4>2. m = n + 1 BY <1>1, <3>1, <3>3, <4>1
      <4> QED BY <4>2
    <3>6. o2[n + 1].acc <= o2[k].acc
      <4>0. o2[n + 1].acc \in Nat BY <3>1
      <4>1. CASE k = n + 1 BY <4>0, <4>1
      <4>2. CASE n + 1 < k BY <1>1, <3>1, <3>2, <4>2
      <4>3. k \in Nat BY <1>1
      <4> QED BY <3>4, <4>1, <4>2, <4>3
    <3>7. o1[n + 1].acc <= o1[m].acc
      <4>0. o1[n + 1].acc \in Nat BY <3>1
      <4>1. CASE m = n + 1 BY <4>0, <4>1
      <4>2. CASE n + 1 < m BY <1>1, <3>3, <4>2
      <4>3. m \in Nat BY <1>1
      <4> QED BY <3>5, <4>1, <4>2, <4>3
    <3>8. o1[n + 1].acc = o2[n + 1].acc BY <3>1, <3>2, <3>3, <3>6, <3>7
    <3> QED BY <3>1, <3>8
  <2> HIDE DEF Same
  <2> QED BY <2>1, <2>2, NatSetInduction
<1>4. ASSUME NEW i \in 1 .. Len(o1) PROVE o1[i] = o2[i]
  <2>1. i \in Same /\ i \in DOMAIN o1 BY <1>1, <1>3
  <2> QED BY <2>1
<1> QED BY <1>1, <1>2, <1>4, SeqEqual

LEMMA AppendEntries ==
    ASSUME NEW S, NEW o \in Seq(S), NEW r \in S, NEW q, q = Append(o, r)
    PROVE  /\ q \in Seq(S) /\ Len(o) \in Nat /\ Len(q) = Len(o) + 1
           /\ DOMAIN o = 1 .. Len(o) /\ DOMAIN q = 1 .. Len(o) + 1
           /\ \A i \in 1 .. Len(o) : q[i] = o[i] /\ q[i] \in S
           /\ q[Len(o) + 1] = r
<1>1. q \in Seq(S) /\ Len(q) = Len(o) + 1 BY AppendProperties
<1>2. Len(o) \in Nat /\ DOMAIN o = 1 .. Len(o) /\ DOMAIN q = 1 .. Len(q)
  BY <1>1, LenProperties
<1>3. \A i \in 1 .. Len(o) : o[i] \in S BY ElementOfSeq
<1> QED BY <1>1, <1>2, <1>3, AppendProperties

LEMMA OrderGrows ==
    ASSUME NEW D, IsFiniteSet(D), NEW r, \A x \in D \cup {r} : x.acc \in Nat,
           \A x \in D : x.acc < r.acc,
           NEW o \in ReadOrders(D)
    PROVE  Append(o, r) \in ReadOrders(D \cup {r})
<1> DEFINE E == D \cup {r}
           q == Append(o, r)
<1>1. /\ o \in Seq(D) /\ Len(o) \in Nat /\ DOMAIN o = 1 .. Len(o)
      /\ \A i, j \in DOMAIN o : o[i] = o[j] => i = j
      /\ \A i \in DOMAIN o : o[i] \in D
      /\ \A x \in D : \E i \in DOMAIN o : o[i] = x
      /\ \A i, j \in DOMAIN o : i < j => o[i].acc <= o[j].acc
  BY OrderFacts
<1>2. o \in Seq(E) BY <1>1, LenProperties, SMT
<1>3. /\ q \in Seq(E) /\ DOMAIN q = 1 .. Len(o) + 1
      /\ \A i \in 1 .. Len(o) : q[i] = o[i]
      /\ q[Len(o) + 1] = r
  <2>1. r \in E OBVIOUS
  <2> HIDE DEF E
  <2> QED BY <1>2, <2>1, AppendEntries
<1> HIDE DEF q
<1>4. r \notin D BY <1>1
<1>5. \A i \in DOMAIN q : i \in DOMAIN o \/ i = Len(o) + 1 BY <1>1, <1>3
<1>6. \A i, j \in DOMAIN q : q[i] = q[j] => i = j BY <1>1, <1>3, <1>4, <1>5
<1>7. \A x \in E : \E i \in DOMAIN q : q[i] = x
  <2>1. \A x \in D : \E i \in DOMAIN q : q[i] = x BY <1>1, <1>3
  <2>2. Len(o) + 1 \in DOMAIN q BY <1>1, <1>3
  <2> QED BY <1>3, <2>1, <2>2
<1>8. ASSUME NEW i \in DOMAIN q, NEW j \in DOMAIN q, i < j PROVE q[i].acc <= q[j].acc
  <2>1. i \in DOMAIN o BY <1>1, <1>3, <1>8
  <2>2. CASE j \in DOMAIN o BY <1>1, <1>3, <1>8, <2>1, <2>2
  <2>3. CASE j = Len(o) + 1 BY <1>1, <1>3, <2>1, <2>3
  <2> QED BY <1>5, <2>2, <2>3
<1> HIDE DEF E
<1>9. q \in ReadOrders(E) BY <1>3, <1>6, <1>7, <1>8, IsOrder
<1> QED BY <1>9 DEF q, E

-----------------------------------------------------------------------------
(* replay.                                                                 *)

\* The states of a stream are what the definition says, one from another.
LEMMA StatesDefined ==
    ASSUME NEW o, Len(o) \in Nat, NEW s
    PROVE  \E f : /\ f = StreamStates(o, s)
                  /\ f = [k \in 0 .. Len(o) |->
                             IF k = 0 THEN NewStream
                             ELSE IF o[k].event.stream = s THEN Apply(f[k - 1], o[k].event.body)
                             ELSE f[k - 1]]
<1> DEFINE Built == {n \in Nat : \E f :
                f = [k \in 0 .. n |->
                        IF k = 0 THEN NewStream
                        ELSE IF o[k].event.stream = s THEN Apply(f[k - 1], o[k].event.body)
                        ELSE f[k - 1]]}
<1>1. \A n \in Nat : n \in Built
  <2>1. 0 \in Built
    <3> DEFINE f == [k \in 0 .. 0 |-> NewStream]
    <3>1. f = [k \in 0 .. 0 |->
                  IF k = 0 THEN NewStream
                  ELSE IF o[k].event.stream = s THEN Apply(f[k - 1], o[k].event.body)
                  ELSE f[k - 1]]
      OBVIOUS
    <3> QED BY <3>1
  <2>2. ASSUME NEW n \in Nat, n \in Built PROVE n + 1 \in Built
    <3>1. PICK f : f = [k \in 0 .. n |->
                  IF k = 0 THEN NewStream
                  ELSE IF o[k].event.stream = s THEN Apply(f[k - 1], o[k].event.body)
                  ELSE f[k - 1]]
      BY <2>2
    <3> DEFINE g == [k \in 0 .. n + 1 |->
                        IF k <= n THEN f[k]
                        ELSE IF o[k].event.stream = s THEN Apply(f[k - 1], o[k].event.body)
                        ELSE f[k - 1]]
               h == [k \in 0 .. n + 1 |->
                        IF k = 0 THEN NewStream
                        ELSE IF o[k].event.stream = s THEN Apply(g[k - 1], o[k].event.body)
                        ELSE g[k - 1]]
    <3>2. ASSUME NEW k \in 0 .. n + 1 PROVE g[k] = h[k]
      <4>1. CASE k = 0 BY <3>1, <4>1
      <4>2. CASE k \in 1 .. n
        <5>1. g[k] = f[k] /\ g[k - 1] = f[k - 1] BY <4>2
        <5>2. f[k] = IF o[k].event.stream = s THEN Apply(f[k - 1], o[k].event.body)
                     ELSE f[k - 1]
          BY <3>1, <4>2
        <5> HIDE DEF g
        <5> QED BY <4>2, <5>1, <5>2
      <4>3. CASE k = n + 1
        <5>1. /\ g[k - 1] = f[k - 1]
              /\ g[k] = IF o[k].event.stream = s THEN Apply(f[k - 1], o[k].event.body)
                        ELSE f[k - 1]
          BY <4>3
        <5> HIDE DEF g
        <5> QED BY <4>3, <5>1
      <4> QED BY <4>1, <4>2, <4>3
    <3>3. g = h
      <4>1. DOMAIN g = 0 .. n + 1 /\ DOMAIN h = 0 .. n + 1 OBVIOUS
      <4>2. g = [k \in 0 .. n + 1 |-> g[k]] /\ h = [k \in 0 .. n + 1 |-> h[k]] OBVIOUS
      <4> HIDE DEF g, h
      <4> QED BY <3>2, <4>2
    <3>4. \E x : x = [k \in 0 .. n + 1 |->
                        IF k = 0 THEN NewStream
                        ELSE IF o[k].event.stream = s THEN Apply(x[k - 1], o[k].event.body)
                        ELSE x[k - 1]]
      <4> WITNESS g
      <4> QED BY <3>3
    <3> QED BY <3>4
  <2> HIDE DEF Built
  <2> QED BY <2>1, <2>2, NatSetInduction
<1>2. Len(o) \in Built BY <1>1
<1>3. PICK f : f = StreamStates(o, s) OBVIOUS
<1>4. f = [k \in 0 .. Len(o) |->
              IF k = 0 THEN NewStream
              ELSE IF o[k].event.stream = s THEN Apply(f[k - 1], o[k].event.body)
              ELSE f[k - 1]]
  BY <1>2, <1>3 DEF StreamStates
<1> QED BY <1>3, <1>4

LEMMA StatesAre ==
    ASSUME NEW o, Len(o) \in Nat, NEW s
    PROVE  \E f : /\ f = StreamStates(o, s)
                  /\ f[0] = NewStream
                  /\ \A n \in 1 .. Len(o) :
                        f[n] = IF o[n].event.stream = s
                               THEN Apply(f[n - 1], o[n].event.body) ELSE f[n - 1]
<1> QED BY StatesDefined

\* Sequences that agree so far lead a stream to the same state.
LEMMA SameSoFar ==
    ASSUME NEW o, NEW q, Len(o) \in Nat, Len(q) \in Nat, Len(o) <= Len(q),
           \A i \in 1 .. Len(o) : q[i] = o[i], NEW s
    PROVE  StreamStates(q, s)[Len(o)] = StreamAfter(o, s)
<1>1. PICK f : /\ f = StreamStates(o, s)
               /\ f[0] = NewStream
               /\ \A n \in 1 .. Len(o) :
                    f[n] = IF o[n].event.stream = s
                           THEN Apply(f[n - 1], o[n].event.body) ELSE f[n - 1]
  BY StatesAre
<1>2. PICK g : /\ g = StreamStates(q, s)
               /\ g[0] = NewStream
               /\ \A n \in 1 .. Len(q) :
                    g[n] = IF q[n].event.stream = s
                           THEN Apply(g[n - 1], q[n].event.body) ELSE g[n - 1]
  BY StatesAre
<1> DEFINE Same == {n \in Nat : n <= Len(o) => g[n] = f[n]}
<1>3. \A n \in Nat : n \in Same
  <2>1. 0 \in Same BY <1>1, <1>2
  <2>2. ASSUME NEW n \in Nat, n \in Same PROVE n + 1 \in Same
    <3> SUFFICES ASSUME n + 1 <= Len(o) PROVE g[n + 1] = f[n + 1] OBVIOUS
    <3>1. g[n] = f[n] BY <2>2
    <3>2. n + 1 \in 1 .. Len(o) /\ n + 1 \in 1 .. Len(q) /\ n + 1 - 1 = n OBVIOUS
    <3>3. q[n + 1] = o[n + 1] BY <3>2
    <3>4. f[n + 1] = IF o[n + 1].event.stream = s
                     THEN Apply(f[n], o[n + 1].event.body) ELSE f[n]
      BY <1>1, <3>2
    <3>5. g[n + 1] = IF q[n + 1].event.stream = s
                     THEN Apply(g[n], q[n + 1].event.body) ELSE g[n]
      BY <1>2, <3>2
    <3> QED BY <3>1, <3>3, <3>4, <3>5
  <2> HIDE DEF Same
  <2> QED BY <2>1, <2>2, NatSetInduction
<1>4. g[Len(o)] = f[Len(o)] BY <1>3
<1> QED BY <1>1, <1>2, <1>4 DEF StreamAfter

LEMMA StreamAfterAppend ==
    ASSUME NEW o, NEW q, NEW r, Len(o) \in Nat, Len(q) = Len(o) + 1,
           \A i \in 1 .. Len(o) : q[i] = o[i], q[Len(o) + 1] = r
    PROVE  /\ StreamAfter(q, r.event.stream)
                  = Apply(StreamAfter(o, r.event.stream), r.event.body)
           /\ \A s : s # r.event.stream => StreamAfter(q, s) = StreamAfter(o, s)
<1> SUFFICES ASSUME NEW s
             PROVE  StreamAfter(q, s) = IF r.event.stream = s
                                        THEN Apply(StreamAfter(o, s), r.event.body)
                                        ELSE StreamAfter(o, s)
  OBVIOUS
<1>1. Len(q) \in Nat /\ Len(o) <= Len(q) OBVIOUS
<1>2. StreamStates(q, s)[Len(o)] = StreamAfter(o, s) BY <1>1, SameSoFar
<1>3. PICK g : /\ g = StreamStates(q, s)
               /\ g[0] = NewStream
               /\ \A n \in 1 .. Len(q) :
                    g[n] = IF q[n].event.stream = s
                           THEN Apply(g[n - 1], q[n].event.body) ELSE g[n - 1]
  BY <1>1, StatesAre
<1>4. Len(q) \in 1 .. Len(q) /\ Len(q) - 1 = Len(o) BY <1>1
<1>5. g[Len(q)] = IF q[Len(q)].event.stream = s
                  THEN Apply(g[Len(o)], q[Len(q)].event.body) ELSE g[Len(o)]
  BY <1>3, <1>4
<1> QED BY <1>1, <1>2, <1>3, <1>5 DEF StreamAfter

LEMMA StreamUntouched ==
    ASSUME NEW o, Len(o) \in Nat, NEW s, \A i \in 1 .. Len(o) : o[i].event.stream # s
    PROVE  StreamAfter(o, s) = NewStream
<1>1. PICK f : /\ f = StreamStates(o, s)
               /\ f[0] = NewStream
               /\ \A n \in 1 .. Len(o) :
                    f[n] = IF o[n].event.stream = s
                           THEN Apply(f[n - 1], o[n].event.body) ELSE f[n - 1]
  BY StatesAre
<1> DEFINE New == {n \in Nat : n <= Len(o) => f[n] = NewStream}
<1>2. \A n \in Nat : n \in New
  <2>1. 0 \in New BY <1>1
  <2>2. ASSUME NEW n \in Nat, n \in New PROVE n + 1 \in New
    <3> SUFFICES ASSUME n + 1 <= Len(o) PROVE f[n + 1] = NewStream OBVIOUS
    <3>1. n + 1 \in 1 .. Len(o) /\ n + 1 - 1 = n /\ f[n] = NewStream BY <2>2
    <3> QED BY <1>1, <3>1
  <2> HIDE DEF New
  <2> QED BY <2>1, <2>2, NatSetInduction
<1> QED BY <1>1, <1>2 DEF StreamAfter

\* Max picks the last of some positions.
LEMMA LastPosition ==
    ASSUME NEW n \in Nat, NEW P, P \subseteq 1 .. n, P # {}
    PROVE  Max(P) \in P /\ \A i \in P : i <= Max(P)
<1>1. \E x \in P : \A y \in P : x >= y BY GreatestNatural
<1>2. Max(P) \in P /\ \A y \in P : Max(P) >= y BY <1>1 DEF Max
<1> QED BY <1>2

LEMMA MaxIs ==
    ASSUME NEW n \in Nat, NEW P, P \subseteq 1 .. n, NEW m \in P, \A i \in P : i <= m
    PROVE  Max(P) = m
<1> DEFINE x == Max(P)
<1>1. x \in P /\ \A i \in P : i <= x BY LastPosition
<1> HIDE DEF x
<1>2. x <= m /\ m <= x /\ x \in Nat /\ m \in Nat BY <1>1
<1>3. x = m BY <1>2
<1> QED BY <1>3 DEF x

IdAt(o, id) == {i \in DOMAIN o : o[i].event.id = id}
SourceAt(o, src) == {i \in DOMAIN o : o[i].event.source = src}

\* What the reducer is asked about a stream is what replay made of it.
LEMMA StreamStateReplayed ==
    ASSUME NEW o, Len(o) \in Nat, DOMAIN o = 1 .. Len(o), NEW m, m = Replayed(o)
    PROVE  \A s : StreamState(m, s) = StreamAfter(o, s)
<1> SUFFICES ASSUME NEW s PROVE StreamState(m, s) = StreamAfter(o, s) OBVIOUS
<1>1. m.streams = [t \in {o[i].event.stream : i \in DOMAIN o} |-> StreamAfter(o, t)]
  BY DEF Replayed
<1>2. CASE s \in DOMAIN m.streams BY <1>1, <1>2 DEF StreamState
<1>3. CASE s \notin DOMAIN m.streams
  <2>1. \A i \in 1 .. Len(o) : o[i].event.stream # s BY <1>1, <1>3
  <2> QED BY <1>3, <2>1, StreamUntouched DEF StreamState
<1> QED BY <1>2, <1>3

\* One more record is one more commit.
LEMMA ReplayedAppend ==
    ASSUME NEW S, NEW o \in Seq(S), NEW r \in S, NEW q, q = Append(o, r),
           NEW m, m = Replayed(o), r.acc = m.acc + 1, r.event.id \notin DOMAIN m.accepted
    PROVE  Replayed(q) = Commit(m, r.event)
<1>1. /\ Len(o) \in Nat /\ Len(q) = Len(o) + 1
      /\ DOMAIN o = 1 .. Len(o) /\ DOMAIN q = 1 .. Len(o) + 1
      /\ \A i \in 1 .. Len(o) : q[i] = o[i]
      /\ q[Len(o) + 1] = r
  BY AppendEntries
<1>2. \A i \in DOMAIN q : i \in DOMAIN o \/ i = Len(o) + 1 BY <1>1
<1>3. /\ m.streams = [s \in {o[i].event.stream : i \in DOMAIN o} |-> StreamAfter(o, s)]
      /\ m.accepted = [id \in {o[i].event.id : i \in DOMAIN o} |-> LastOf(o, IdAt(o, id))]
      /\ m.latest = [src \in {o[i].event.source : i \in DOMAIN o} |->
                        LastOf(o, SourceAt(o, src)).seq]
  BY DEF Replayed, IdAt, SourceAt
<1>4. \A s : StreamState(m, s) = StreamAfter(o, s)
  BY ONLY <1>1, m = Replayed(o), StreamStateReplayed
<1>5. [s \in {q[i].event.stream : i \in DOMAIN q} |-> StreamAfter(q, s)]
          = Put(m.streams, r.event.stream, Apply(StreamState(m, r.event.stream), r.event.body))
  <2>1. {q[i].event.stream : i \in DOMAIN q} = DOMAIN m.streams \cup {r.event.stream}
    <3>1. DOMAIN m.streams = {o[i].event.stream : i \in DOMAIN o} BY <1>3
    <3>2. Len(o) + 1 \in DOMAIN q BY <1>1
    <3> QED BY <1>1, <1>2, <3>1, <3>2
  <2>2. \A s \in DOMAIN m.streams : m.streams[s] = StreamAfter(o, s) BY <1>3
  <2>3. /\ StreamAfter(q, r.event.stream)
              = Apply(StreamAfter(o, r.event.stream), r.event.body)
        /\ \A s : s # r.event.stream => StreamAfter(q, s) = StreamAfter(o, s)
    BY ONLY <1>1, StreamAfterAppend
  <2> QED BY <1>4, <2>1, <2>2, <2>3 DEF Put
<1>6. [id \in {q[i].event.id : i \in DOMAIN q} |-> LastOf(q, IdAt(q, id))]
          = PutNew(m.accepted, r.event.id, r.event)
  <2>1. {q[i].event.id : i \in DOMAIN q} = DOMAIN m.accepted \cup {r.event.id}
    <3>1. DOMAIN m.accepted = {o[i].event.id : i \in DOMAIN o} BY <1>3
    <3>2. Len(o) + 1 \in DOMAIN q BY <1>1
    <3> QED BY <1>1, <1>2, <3>1, <3>2
  <2>2. ASSUME NEW id \in DOMAIN m.accepted PROVE LastOf(q, IdAt(q, id)) = m.accepted[id]
    <3>1. id # r.event.id OBVIOUS
    <3>2. IdAt(q, id) = IdAt(o, id) BY <1>1, <1>2, <3>1 DEF IdAt
    <3>3. IdAt(o, id) \subseteq 1 .. Len(o) /\ IdAt(o, id) # {} BY <1>1, <1>3 DEF IdAt
    <3>4. Max(IdAt(o, id)) \in 1 .. Len(o) BY <1>1, <3>3, LastPosition
    <3> QED BY <1>1, <1>3, <3>2, <3>4 DEF LastOf
  <2>3. LastOf(q, IdAt(q, r.event.id)) = r.event
    <3>1. IdAt(q, r.event.id) = {Len(o) + 1}
      <4>1. \A i \in DOMAIN o : o[i].event.id # r.event.id BY <1>3
      <4> QED BY <1>1, <1>2, <4>1 DEF IdAt
    <3>2. Max({Len(o) + 1}) = Len(o) + 1
      <4> DEFINE k == Len(o) + 1
                 P == {k}
      <4>1. /\ k \in Nat /\ P \subseteq 1 .. k /\ k \in P
            /\ \A i \in P : i <= k
        BY <1>1
      <4> HIDE DEF k, P
      <4>2. Max(P) = k BY <4>1, MaxIs
      <4> QED BY <4>2 DEF k, P
    <3> QED BY <1>1, <3>1, <3>2 DEF LastOf
  <2> QED BY <2>1, <2>2, <2>3 DEF PutNew, Put
<1>7. [src \in {q[i].event.source : i \in DOMAIN q} |-> LastOf(q, SourceAt(q, src)).seq]
          = Put(m.latest, r.event.source, r.event.seq)
  <2>1. {q[i].event.source : i \in DOMAIN q} = DOMAIN m.latest \cup {r.event.source}
    <3>1. DOMAIN m.latest = {o[i].event.source : i \in DOMAIN o} BY <1>3
    <3>2. Len(o) + 1 \in DOMAIN q BY <1>1
    <3> QED BY <1>1, <1>2, <3>1, <3>2
  <2>2. ASSUME NEW src \in DOMAIN m.latest, src # r.event.source
        PROVE  LastOf(q, SourceAt(q, src)).seq = m.latest[src]
    <3>2. SourceAt(q, src) = SourceAt(o, src) BY <1>1, <1>2, <2>2 DEF SourceAt
    <3>3. SourceAt(o, src) \subseteq 1 .. Len(o) /\ SourceAt(o, src) # {}
      BY <1>1, <1>3 DEF SourceAt
    <3>4. Max(SourceAt(o, src)) \in 1 .. Len(o) BY <1>1, <3>3, LastPosition
    <3> QED BY <1>1, <1>3, <3>2, <3>4 DEF LastOf
  <2>3. LastOf(q, SourceAt(q, r.event.source)) = r.event
    <3>1. SourceAt(q, r.event.source) \subseteq 1 .. Len(o) + 1
          /\ Len(o) + 1 \in SourceAt(q, r.event.source)
      BY <1>1 DEF SourceAt
    <3>2. \A i \in SourceAt(q, r.event.source) : i <= Len(o) + 1 BY <1>1, <3>1
    <3>3. Max(SourceAt(q, r.event.source)) = Len(o) + 1
      <4>1. Len(o) + 1 \in Nat BY <1>1
      <4> QED BY <3>1, <3>2, <4>1, MaxIs
    <3> QED BY <1>1, <3>3 DEF LastOf
  <2> QED BY <2>1, <2>2, <2>3 DEF Put
<1>8. (IF q = <<>> THEN 0 ELSE q[Len(q)].acc) = m.acc + 1
  <2>1. q # <<>> BY <1>1, EmptySeq
  <2> QED BY <1>1, <2>1
<1>9. Replayed(q) =
        [streams |-> [s \in {q[i].event.stream : i \in DOMAIN q} |-> StreamAfter(q, s)],
         accepted |-> [id \in {q[i].event.id : i \in DOMAIN q} |-> LastOf(q, IdAt(q, id))],
         latest |-> [src \in {q[i].event.source : i \in DOMAIN q} |->
                        LastOf(q, SourceAt(q, src)).seq],
         acc |-> IF q = <<>> THEN 0 ELSE q[Len(q)].acc]
  BY DEF Replayed, IdAt, SourceAt
<1> QED BY <1>5, <1>6, <1>7, <1>8, <1>9 DEF Commit


LEMMA ReplayAcceptsAppend ==
    ASSUME NEW S, NEW o \in Seq(S), NEW r \in S, NEW q, q = Append(o, r),
           ReplayAccepts(o), Accepts(StreamAfter(o, r.event.stream), r.event.body)
    PROVE  ReplayAccepts(q)
<1>1. /\ q \in Seq(S) /\ Len(o) \in Nat /\ Len(q) = Len(o) + 1
      /\ DOMAIN o = 1 .. Len(o) /\ DOMAIN q = 1 .. Len(o) + 1
      /\ \A i \in 1 .. Len(o) : q[i] = o[i]
      /\ q[Len(o) + 1] = r
  BY AppendEntries
<1>2. ASSUME NEW i \in 1 .. Len(o) + 1 PROVE SubSeq(q, 1, i - 1) = SubSeq(o, 1, i - 1)
  <2>1. i - 1 \in Nat /\ i - 1 <= Len(o) /\ i - 1 <= Len(q) BY <1>1
  <2>2. /\ SubSeq(q, 1, i - 1) = [k \in 1 .. i - 1 |-> q[k]]
        /\ SubSeq(o, 1, i - 1) = [k \in 1 .. i - 1 |-> o[k]]
    BY ONLY <1>1, <2>1, o \in Seq(S), SMT
  <2>3. \A k \in 1 .. i - 1 : q[k] = o[k] BY ONLY <1>1, <2>1, SMT
  <2> QED BY ONLY <2>2, <2>3, SMT
<1>3. SubSeq(o, 1, Len(o)) = o
  <2>1. SubSeq(o, 1, Len(o)) = [k \in 1 .. Len(o) |-> o[k]] BY <1>1
  <2>2. o = [k \in 1 .. Len(o) |-> o[k]] BY <1>1
  <2> QED BY <2>1, <2>2
<1>4. ASSUME NEW i \in DOMAIN q
      PROVE  Accepts(StreamAfter(SubSeq(q, 1, i - 1), q[i].event.stream), q[i].event.body)
  <2>1. CASE i \in 1 .. Len(o)
    <3>1. /\ SubSeq(q, 1, i - 1) = SubSeq(o, 1, i - 1) /\ q[i] = o[i] /\ i \in DOMAIN o
      BY <1>1, <1>2, <1>4, <2>1
    <3> QED BY <3>1 DEF ReplayAccepts
  <2>2. CASE i = Len(o) + 1
    <3>1. i - 1 = Len(o) BY <1>1, <2>2
    <3>2. SubSeq(q, 1, i - 1) = o BY <1>1, <1>2, <1>3, <1>4, <3>1
    <3> QED BY <1>1, <2>2, <3>2
  <2> QED BY <1>1, <1>4, <2>1, <2>2
<1> QED BY <1>4 DEF ReplayAccepts

-----------------------------------------------------------------------------
(* What a memory that replay rebuilt knows of the records it read.         *)

LEMMA ReplayedKnows ==
    ASSUME NEW o, Len(o) \in Nat, DOMAIN o = 1 .. Len(o), NEW m, m = Replayed(o)
    PROVE  /\ \A i \in DOMAIN o : o[i].event.id \in DOMAIN m.accepted
           /\ \A id \in DOMAIN m.accepted :
                \E i \in DOMAIN o : o[i].event.id = id /\ m.accepted[id] = o[i].event
<1>1. m.accepted = [id \in {o[i].event.id : i \in DOMAIN o} |-> LastOf(o, IdAt(o, id))]
  BY DEF Replayed, IdAt
<1>2. ASSUME NEW id \in DOMAIN m.accepted
      PROVE  \E i \in DOMAIN o : o[i].event.id = id /\ m.accepted[id] = o[i].event
  <2>1. IdAt(o, id) \subseteq 1 .. Len(o) /\ IdAt(o, id) # {} BY <1>1 DEF IdAt
  <2>2. Max(IdAt(o, id)) \in IdAt(o, id) BY <2>1, LastPosition
  <2>3. m.accepted[id] = o[Max(IdAt(o, id))].event BY <1>1 DEF LastOf
  <2> QED BY <2>2, <2>3 DEF IdAt
<1> QED BY <1>1, <1>2

\* Record i is the last of its source.
LastFrom(o, i, src) ==
    /\ o[i].event.source = src
    /\ \A j \in DOMAIN o : o[j].event.source = src => j <= i

LEMMA ReplayedLatest ==
    ASSUME NEW o, Len(o) \in Nat, DOMAIN o = 1 .. Len(o), NEW m, m = Replayed(o)
    PROVE  /\ \A i \in DOMAIN o : o[i].event.source \in DOMAIN m.latest
           /\ \A src \in DOMAIN m.latest :
                \E i \in DOMAIN o : LastFrom(o, i, src) /\ m.latest[src] = o[i].event.seq
<1>1. m.latest = [src \in {o[i].event.source : i \in DOMAIN o} |->
                     LastOf(o, SourceAt(o, src)).seq]
  BY DEF Replayed, SourceAt
<1>2. ASSUME NEW src \in DOMAIN m.latest
      PROVE  \E i \in DOMAIN o : LastFrom(o, i, src) /\ m.latest[src] = o[i].event.seq
  <2>1. SourceAt(o, src) \subseteq 1 .. Len(o) /\ SourceAt(o, src) # {} BY <1>1 DEF SourceAt
  <2> DEFINE last == Max(SourceAt(o, src))
  <2>2. last \in SourceAt(o, src) /\ \A j \in SourceAt(o, src) : j <= last
    BY <2>1, LastPosition
  <2>3. m.latest[src] = o[last].event.seq BY <1>1 DEF LastOf
  <2> HIDE DEF last
  <2> QED BY <2>2, <2>3 DEF SourceAt, LastFrom
<1> QED BY <1>1, <1>2

-----------------------------------------------------------------------------
(* Whatever a failing append leaves behind.                                *)

LogFiles == [records : SUBSET Records, open : BOOLEAN, spoiled : BOOLEAN]

\* Each record stands in the file of its stream.
FilesSound ==
    /\ files \in [Streams -> LogFiles]
    /\ IsFiniteSet(Durable(files))
    /\ \A s \in Streams : \A r \in files[s].records : r.event.stream = s

\* An event on its way to the store is new to the memory; after the commit the
\* memory has it under its id.
CallSound ==
    /\ call.at \in {"append", "stored"} => ~Known(memory, call.event)
    /\ call.at \in {"committed", "published"} =>
           /\ Known(memory, call.event) /\ memory.accepted[call.event.id] = call.event
           /\ memory.acc # 0

\* The events somebody counts on: clients, pages, the memory, the call that has
\* stored its own.
Counted ==
    acked \cup {published[i].event : i \in DOMAIN published}
          \cup {memory.accepted[id] : id \in DOMAIN memory.accepted}
          \cup {e \in Events : call.at \in {"stored", "committed", "published"}
                               /\ e = call.event}

\* They have a record as long as the log can be read at all.
CountedIsKept ==
    Readable(files) => \A e \in Counted : \E r \in Durable(files) : r.event = e

\* What the memory does not know of the log of a running server is the one
\* record an append left without its newline, or the one just stored.
LogIsKnown ==
    server = "up" /\ Readable(files) =>
        \A r \in Durable(files) :
            \/ Known(memory, r.event)
            \/ files[r.event.stream].open
            \/ call.at = "stored" /\ r.event = call.event

Sound ==
    /\ TypeOK /\ FilesSound /\ CallSound /\ CountedIsKept /\ LogIsKnown
    /\ UpMeansNothingLost /\ NeverReplayedTwice

LEMMA DurableIs ==
    ASSUME NEW f, DOMAIN f = Streams
    PROVE  \A r : r \in Durable(f) <=> \E s \in Streams : r \in f[s].records
BY DEF Durable

LogGains(f, g, rec) == Durable(g) = Durable(f) \cup {rec}
LogKeeps(f, g) == Durable(g) = Durable(f)

\* What a write to the file of s does to the log, whether it succeeds or not.
Written(f, g, s, rec) ==
    /\ g \in [Streams -> LogFiles]
    /\ LogKeeps(f, g) \/ LogGains(f, g, rec)
    /\ \A t \in Streams : \A r \in g[t].records : r \in f[t].records \/ (t = s /\ r = rec)
    /\ Readable(g) => /\ Readable(f)
                      /\ LogKeeps(f, g) \/ ~f[s].open
                      /\ \A t \in Streams : f[t].open => g[t].open

Gains(old, new, rec) == new.records = old.records \cup {rec}
Keeps(old, new) == new.records = old.records

LEMMA FileReplaced ==
    ASSUME NEW f \in [Streams -> LogFiles], NEW s \in Streams, NEW rec \in Records,
           NEW new \in LogFiles, NEW g, g = [f EXCEPT ![s] = new],
           \/ Keeps(f[s], new)
           \/ Gains(f[s], new, rec) /\ ~f[s].open,
           ~new.spoiled => ~f[s].spoiled /\ (f[s].open => new.open)
    PROVE  /\ Written(f, g, s, rec)
           /\ g[s] = new /\ DOMAIN g = Streams
           /\ \A t \in Streams : t # s => g[t] = f[t]
           /\ Gains(f[s], new, rec) => LogGains(f, g, rec)
           /\ Keeps(f[s], new) => LogKeeps(f, g)
<1>1. /\ g[s] = new /\ DOMAIN g = Streams /\ DOMAIN f = Streams
      /\ \A t \in Streams : t # s => g[t] = f[t]
      /\ g \in [Streams -> LogFiles]
  OBVIOUS
<1>2. /\ \A r : r \in Durable(f) <=> \E t \in Streams : r \in f[t].records
      /\ \A r : r \in Durable(g) <=> \E t \in Streams : r \in g[t].records
  BY ONLY <1>1, DurableIs
<1>3. Gains(f[s], new, rec) => LogGains(f, g, rec)
  <2> SUFFICES ASSUME Gains(f[s], new, rec)
               PROVE  LogGains(f, g, rec)
    OBVIOUS
  <2>1. ASSUME NEW r \in Durable(g) PROVE r \in Durable(f) \cup {rec}
    BY ONLY <1>1, <1>2, <2>1, Gains(f[s], new, rec) DEF Gains
  <2>2. ASSUME NEW r \in Durable(f) \cup {rec} PROVE r \in Durable(g)
    BY ONLY <1>1, <1>2, <2>2, Gains(f[s], new, rec), s \in Streams DEF Gains
  <2> QED BY <2>1, <2>2 DEF LogGains
<1>4. Keeps(f[s], new) => LogKeeps(f, g)
  <2> SUFFICES ASSUME Keeps(f[s], new) PROVE LogKeeps(f, g) OBVIOUS
  <2>1. \A t \in Streams : g[t].records = f[t].records
    BY ONLY <1>1, Keeps(f[s], new) DEF Keeps
  <2>2. \A r : r \in Durable(g) <=> r \in Durable(f) BY ONLY <1>2, <2>1
  <2> QED BY <2>2 DEF LogKeeps
<1>5. ASSUME Readable(g) PROVE Readable(f) /\ \A t \in Streams : f[t].open => g[t].open
  <2>1. \A t \in Streams : ~g[t].spoiled BY <1>1, <1>5 DEF Readable
  <2>2. ~f[s].spoiled /\ (f[s].open => g[s].open) BY <1>1, <2>1
  <2> QED BY <1>1, <2>1, <2>2 DEF Readable
<1>6. \A t \in Streams : \A r \in g[t].records : r \in f[t].records \/ (t = s /\ r = rec)
  BY <1>1 DEF Gains, Keeps
<1>7. LogKeeps(f, g) \/ (LogGains(f, g, rec) /\ ~f[s].open)
  BY ONLY <1>3, <1>4, \/ Keeps(f[s], new)
                      \/ Gains(f[s], new, rec) /\ ~f[s].open
<1>8. Written(f, g, s, rec)
  BY ONLY <1>1, <1>5, <1>6, <1>7 DEF Written
<1> QED BY ONLY <1>1, <1>3, <1>4, <1>8

SameMarks(f, g) ==
    \A t \in Streams : g[t].open = f[t].open /\ g[t].spoiled = f[t].spoiled

LEMMA LineAppended ==
    ASSUME NEW f \in [Streams -> LogFiles], NEW s \in Streams, NEW rec \in Records,
           NEW g, g = [f EXCEPT ![s] = AppendLine(@, rec)]
    PROVE  /\ Written(f, g, s, rec)
           /\ Readable(g) => LogGains(f, g, rec)
           /\ ~f[s].open => LogGains(f, g, rec) /\ SameMarks(f, g)
<1> DEFINE new == AppendLine(f[s], rec)
<1>1. f[s] \in LogFiles /\ DOMAIN f = Streams OBVIOUS
<1>2. CASE f[s].open
  <2>1. /\ new \in LogFiles /\ new.spoiled /\ Keeps(f[s], new)
    BY <1>1, <1>2 DEF AppendLine, LogFiles, Gains, Keeps
  <2>2. g = [f EXCEPT ![s] = new] OBVIOUS
  <2> HIDE DEF new
  <2>3. Written(f, g, s, rec) /\ g[s] = new /\ DOMAIN g = Streams
    BY ONLY <2>1, <2>2, f \in [Streams -> LogFiles], s \in Streams, rec \in Records, FileReplaced
  <2>4. ~Readable(g) BY <2>1, <2>3 DEF Readable
  <2> QED BY ONLY <1>2, <2>3, <2>4
<1>3. CASE ~f[s].open
  <2>1. /\ new \in LogFiles /\ new.spoiled = f[s].spoiled /\ new.open = f[s].open
        /\ Gains(f[s], new, rec)
        /\ ~new.spoiled => ~f[s].spoiled /\ (f[s].open => new.open)
    BY <1>1, <1>3 DEF AppendLine, LogFiles, Gains, Keeps
  <2>2. g = [f EXCEPT ![s] = new] OBVIOUS
  <2> HIDE DEF new
  <2>3. /\ Written(f, g, s, rec) /\ g[s] = new
        /\ \A t \in Streams : t # s => g[t] = f[t]
        /\ LogGains(f, g, rec)
    BY ONLY <1>3, <2>1, <2>2, f \in [Streams -> LogFiles], s \in Streams, rec \in Records,
            FileReplaced
  <2>4. SameMarks(f, g) BY ONLY <2>1, <2>3 DEF SameMarks
  <2> QED BY ONLY <1>3, <2>3, <2>4
<1> QED BY <1>2, <1>3

LEMMA LineTorn ==
    ASSUME NEW f \in [Streams -> LogFiles], NEW s \in Streams, NEW rec \in Records,
           NEW fault \in AppendFaults,
           NEW g, g = [f EXCEPT ![s] = TornLine(@, rec, fault)]
    PROVE  /\ Written(f, g, s, rec)
           /\ Readable(g) => LogKeeps(f, g) \/ g[s].open
<1> DEFINE new == TornLine(f[s], rec, fault)
<1>1. f[s] \in LogFiles /\ DOMAIN f = Streams OBVIOUS
<1>2. /\ new \in LogFiles
      /\ \/ Keeps(f[s], new)
         \/ Gains(f[s], new, rec) /\ ~f[s].open /\ new.open
      /\ ~new.spoiled => ~f[s].spoiled /\ (f[s].open => new.open)
  <2>0. fault \in {"nothing", "prefix", "unterminated"} BY EventsAssumption
  <2>1. CASE fault = "nothing" BY <1>1, <2>1 DEF TornLine, LogFiles, Gains, Keeps
  <2>2. CASE fault = "prefix" BY <1>1, <2>2 DEF TornLine, LogFiles, Gains, Keeps
  <2>3. CASE fault = "unterminated" BY <1>1, <2>3 DEF TornLine, LogFiles, Gains, Keeps
  <2> QED BY <2>0, <2>1, <2>2, <2>3
<1>3. g = [f EXCEPT ![s] = new] OBVIOUS
<1> HIDE DEF new
<1>4. /\ Written(f, g, s, rec) /\ g[s] = new
      /\ Gains(f[s], new, rec) => LogGains(f, g, rec)
      /\ Keeps(f[s], new) => LogKeeps(f, g)
  <2>1. /\ new \in LogFiles
        /\ \/ Keeps(f[s], new)
           \/ Gains(f[s], new, rec) /\ ~f[s].open
        /\ ~new.spoiled => ~f[s].spoiled /\ (f[s].open => new.open)
    BY <1>2
  <2> QED
    BY ONLY <1>3, <2>1, f \in [Streams -> LogFiles], s \in Streams, rec \in Records,
            FileReplaced
<1> QED BY ONLY <1>2, <1>4

LEMMA CallNow ==
    ASSUME TypeOK, call.at # "free"
    PROVE  /\ server = "up" /\ call.event \in Events /\ call # NoCall
           /\ call.at \in {"append", "stored", "committed", "published"}
           /\ call.event.stream \in Streams /\ call.event.seq \in Nat
           /\ RecordOf(memory, call.event) \in Records
           /\ RecordOf(memory, call.event).event = call.event
<1>1. call # NoCall BY DEF NoCall
<1>2. server = "up" /\ call.event \in Events
      /\ call.at \in {"append", "stored", "committed", "published"}
  BY <1>1 DEF TypeOK
<1>3. call.event.stream \in Streams /\ call.event.seq \in Nat BY <1>2, EventsAssumption
<1>4. memory.acc + 1 \in Nat \ {0} BY DEF TypeOK
<1> QED BY <1>1, <1>2, <1>3, <1>4 DEF RecordOf, Records

LEMMA SoundInit == Init => Sound
<1> SUFFICES ASSUME Init PROVE Sound OBVIOUS
<1>1. \A s \in Streams : files[s] = NoFile BY DEF Init
<1>2. Durable(files) = {} /\ DOMAIN files = Streams BY <1>1 DEF Init, Durable, NoFile
<1>3. memory = NoMemory /\ call = NoCall /\ server = "up" /\ published = <<>> /\ acked = {}
      /\ crashes = 0
  BY DEF Init
<1>4. DOMAIN memory.accepted = {} /\ DOMAIN memory.latest = {} /\ memory.acc = 0
  BY <1>3 DEF NoMemory, EmptyMap
<1>5. TypeOK
  <2>1. IsMap(memory.accepted, {e.id : e \in Events}, Events)
    BY <1>3, <1>4 DEF IsMap, NoMemory, EmptyMap
  <2>2. IsMap(memory.latest, {e.source : e \in Events}, Nat)
    BY <1>3, <1>4 DEF IsMap, NoMemory, EmptyMap
  <2>3. published \in Seq(Records) BY <1>3
  <2>4. crashes \in 0 .. MaxCrashes BY <1>3, EventsAssumption
  <2> QED BY <1>2, <1>3, <1>4, <2>1, <2>2, <2>3, <2>4 DEF TypeOK
<1>6. FilesSound
  <2>1. IsFiniteSet(Durable(files)) BY <1>2, FS_EmptySet
  <2>2. NoFile \in LogFiles BY DEF NoFile, LogFiles
  <2>3. files \in [Streams -> LogFiles] BY <2>2 DEF Init
  <2> QED BY <1>1, <2>1, <2>3 DEF FilesSound, NoFile
<1>7. call.at = "free" BY <1>3 DEF NoCall
<1>8. DOMAIN published = {} BY <1>3
<1>9. Counted = {} BY <1>3, <1>4, <1>7, <1>8 DEF Counted
<1>10. CallSound BY <1>7 DEF CallSound
<1>11. CountedIsKept BY <1>9 DEF CountedIsKept
<1>12. LogIsKnown /\ NeverReplayedTwice BY <1>2 DEF LogIsKnown, NeverReplayedTwice
<1>13. UpMeansNothingLost BY <1>3, <1>8 DEF UpMeansNothingLost
<1> QED BY <1>5, <1>6, <1>10, <1>11, <1>12, <1>13 DEF Sound

\* A write, whether it succeeds or not, leaves the log sound: what it adds is
\* new to the memory, so a log that still can be read held nothing of it.
LEMMA AfterWrite ==
    ASSUME Sound, call.at = "append",
           Written(files, files', call.event.stream, RecordOf(memory, call.event))
    PROVE  /\ FilesSound' /\ NeverReplayedTwice'
           /\ DOMAIN files' = Streams /\ Durable(files') \subseteq Records
           /\ Durable(files) \subseteq Durable(files')
           /\ Durable(files') \subseteq Durable(files) \cup {RecordOf(memory, call.event)}
           /\ Readable(files') =>
                /\ Readable(files)
                /\ LogKeeps(files, files') \/ ~files[call.event.stream].open
                /\ \A s \in Streams : files[s].open => files'[s].open
<1> DEFINE s == call.event.stream
           rec == RecordOf(memory, call.event)
<1>1. /\ s \in Streams /\ rec \in Records /\ rec.event = call.event /\ server = "up"
      /\ ~Known(memory, call.event)
  BY CallNow DEF Sound, CallSound
<1>2. /\ files' \in [Streams -> LogFiles]
      /\ LogKeeps(files, files') \/ LogGains(files, files', rec)
      /\ \A t \in Streams : \A r \in files'[t].records :
            r \in files[t].records \/ (t = s /\ r = rec)
      /\ Readable(files') =>
            /\ Readable(files)
            /\ LogKeeps(files, files') \/ ~files[s].open
            /\ \A t \in Streams : files[t].open => files'[t].open
  BY DEF Written
<1> HIDE DEF rec
<1>3. /\ Durable(files) \subseteq Durable(files')
      /\ Durable(files') \subseteq Durable(files) \cup {rec}
      /\ Durable(files') = Durable(files) \/ Durable(files') = Durable(files) \cup {rec}
  BY <1>2 DEF LogKeeps, LogGains
<1>4. FilesSound'
  <2>1. IsFiniteSet(Durable(files)) BY DEF Sound, FilesSound
  <2>2. IsFiniteSet(Durable(files')) BY <1>3, <2>1, FS_AddElement
  <2>3. rec.event.stream = s BY <1>1
  <2>4. \A t \in Streams : \A r \in files'[t].records : r.event.stream = t
    BY <1>2, <2>3 DEF Sound, FilesSound
  <2> QED BY <1>2, <2>2, <2>4 DEF FilesSound
<1>5. DOMAIN files' = Streams /\ Durable(files') \subseteq Records
  BY <1>1, <1>2, <1>3 DEF Sound, TypeOK
<1>6. NeverReplayedTwice'
  <2> SUFFICES ASSUME Readable(files'),
                      NEW r1 \in Durable(files'), NEW r2 \in Durable(files'),
                      r1.event = r2.event
               PROVE  r1 = r2
    BY DEF NeverReplayedTwice
  <2>1. Readable(files) BY <1>2
  <2>2. \A x, y \in Durable(files) : x.event = y.event => x = y
    BY <2>1 DEF Sound, NeverReplayedTwice
  <2>3. CASE LogKeeps(files, files') BY <2>2, <2>3 DEF LogKeeps
  <2>4. CASE ~LogKeeps(files, files')
    <3>1. ~files[s].open BY <1>2, <2>4
    <3>2. \A x \in Durable(files) : x.event # call.event
      <4> SUFFICES ASSUME NEW x \in Durable(files), x.event = call.event PROVE FALSE
        OBVIOUS
      <4>1. Known(memory, x.event) \/ files[x.event.stream].open
        BY <1>1, <2>1 DEF Sound, LogIsKnown
      <4> QED BY <1>1, <3>1, <4>1
    <3> QED BY <1>1, <1>3, <2>2, <3>2
  <2> QED BY <2>3, <2>4
<1> QED BY <1>2, <1>3, <1>4, <1>5, <1>6 DEF rec

\* Counted events and unread records, where the files change but grow.
LEMMA StillKept ==
    ASSUME Sound, call.at = "append",
           Written(files, files', call.event.stream, RecordOf(memory, call.event))
    PROVE  Readable(files') => \A e \in Counted : \E r \in Durable(files') : r.event = e
<1>1. Readable(files') => Readable(files) BY AfterWrite
<1>2. Durable(files) \subseteq Durable(files') BY AfterWrite
<1> QED BY <1>1, <1>2 DEF Sound, CountedIsKept

LEMMA NothingLostStill ==
    ASSUME Sound, Durable(files) \subseteq Durable(files'),
           UNCHANGED <<memory, server, published, acked>>
    PROVE  UpMeansNothingLost'
<1>1. UpMeansNothingLost /\ Durable(files) \subseteq Durable(files') BY DEF Sound
<1>2. /\ memory' = memory /\ server' = server /\ acked' = acked
      /\ published' = published
  OBVIOUS
<1> QED BY ONLY <1>1, <1>2 DEF UpMeansNothingLost, Known

LEMMA SubmitKeepsSound ==
    ASSUME Sound, NEW e \in Events, Submit(e)
    PROVE  Sound'
<1>1. UNCHANGED <<memory, files, server, published, crashes>> /\ server = "up" /\ call = NoCall
  BY DEF Submit
<1>2. call.at = "free" BY <1>1 DEF NoCall
<1>3. CASE Verdict(memory, e) = "accepted" /\ call' = InCall("append", e) /\ UNCHANGED acked
  <2>1. ~Known(memory, e)
    BY <1>3 DEF Verdict
  <2>2. call'.at = "append" /\ call'.event = e BY <1>3 DEF InCall
  <2>3. TypeOK' BY <1>1, <1>3, <2>2 DEF Sound, TypeOK
  <2>4. CallSound' BY <1>1, <2>1, <2>2 DEF CallSound, Known
  <2>5. Counted' = Counted BY <1>1, <1>2, <1>3, <2>2 DEF Counted
  <2>6. CountedIsKept' BY <1>1, <2>5 DEF Sound, CountedIsKept
  <2>7. LogIsKnown' BY <1>1, <1>2 DEF Sound, LogIsKnown, Known
  <2>8. FilesSound' /\ NeverReplayedTwice' BY <1>1 DEF Sound, FilesSound, NeverReplayedTwice
  <2>9. UpMeansNothingLost' BY <1>1, <1>3 DEF Sound, UpMeansNothingLost, Known
  <2> QED BY <2>3, <2>4, <2>6, <2>7, <2>8, <2>9 DEF Sound
<1>4. CASE Verdict(memory, e) = "duplicate" /\ acked' = acked \cup {e} /\ UNCHANGED call
  <2>1. Known(memory, e) /\ memory.accepted[e.id] = e
    BY <1>4 DEF Verdict
  <2>3. TypeOK' BY <1>1, <1>4 DEF Sound, TypeOK
  <2>4. CallSound' BY <1>1, <1>4 DEF Sound, CallSound, Known
  <2>5. Counted' = Counted
    <3>1. e \in {memory.accepted[id] : id \in DOMAIN memory.accepted} BY <2>1 DEF Known
    <3> QED BY <1>1, <1>4, <3>1 DEF Counted
  <2>6. CountedIsKept' BY <1>1, <2>5 DEF Sound, CountedIsKept
  <2>7. LogIsKnown' BY <1>1, <1>4 DEF Sound, LogIsKnown, Known
  <2>8. FilesSound' /\ NeverReplayedTwice' BY <1>1 DEF Sound, FilesSound, NeverReplayedTwice
  <2>9. UpMeansNothingLost' BY <1>1, <1>4, <2>1 DEF Sound, UpMeansNothingLost, Known
  <2> QED BY <2>3, <2>4, <2>6, <2>7, <2>8, <2>9 DEF Sound
<1> QED BY <1>3, <1>4 DEF Submit

LEMMA StoreKeepsSound ==
    ASSUME Sound, Store
    PROVE  Sound'
<1> DEFINE e == call.event
           rec == RecordOf(memory, e)
<1>1. call.at = "append" /\ call.at # "free" BY DEF Store
<1>2. /\ server = "up" /\ e \in Events /\ e.stream \in Streams
      /\ rec \in Records /\ rec.event = e /\ ~Known(memory, e)
  BY <1>1, CallNow DEF Sound, CallSound
<1>3. /\ files' = [files EXCEPT ![e.stream] = AppendLine(@, rec)]
      /\ call' = InCall("stored", e)
      /\ UNCHANGED <<memory, server, published, acked, crashes>>
  BY DEF Store
<1>4. Written(files, files', e.stream, rec)
      /\ (Readable(files') => LogGains(files, files', rec))
  <2>1. files \in [Streams -> LogFiles] BY DEF Sound, FilesSound
  <2> HIDE DEF rec, e
  <2> QED BY <1>2, <1>3, <2>1, LineAppended
<1>5. call'.at = "stored" /\ call'.event = e BY <1>3 DEF InCall
<1>6. /\ FilesSound' /\ NeverReplayedTwice' /\ DOMAIN files' = Streams
      /\ Durable(files') \subseteq Records /\ Durable(files) \subseteq Durable(files')
      /\ Durable(files') \subseteq Durable(files) \cup {rec}
      /\ Readable(files') => Readable(files)
                             /\ \A s \in Streams : files[s].open => files'[s].open
  BY <1>1, <1>4, AfterWrite
<1> HIDE DEF rec
<1>7. TypeOK' BY <1>2, <1>3, <1>5, <1>6 DEF Sound, TypeOK
<1>8. CallSound' BY <1>2, <1>3, <1>5 DEF CallSound, Known
<1>9. CountedIsKept'
  <2>1. Counted' = Counted \cup {e} BY <1>2, <1>3, <1>5 DEF Counted
  <2>2. Readable(files') => \A c \in Counted : \E r \in Durable(files') : r.event = c
    BY <1>1, <1>4, StillKept DEF rec
  <2>3. Readable(files') => rec \in Durable(files') BY <1>4 DEF LogGains
  <2> QED BY <1>2, <2>1, <2>2, <2>3 DEF CountedIsKept
<1>10. LogIsKnown'
  <2> SUFFICES ASSUME Readable(files'), NEW r \in Durable(files')
               PROVE  \/ Known(memory, r.event)
                      \/ files'[r.event.stream].open
                      \/ r.event = e
    BY <1>3, <1>5 DEF LogIsKnown, Known
  <2>1. CASE r = rec BY <1>2, <2>1
  <2>2. CASE r \in Durable(files)
    <3>1. Known(memory, r.event) \/ files[r.event.stream].open
      BY <1>1, <1>2, <1>6, <2>2 DEF Sound, LogIsKnown
    <3>2. r.event.stream \in Streams
      BY <2>2, EventsAssumption DEF Sound, TypeOK, Records
    <3> QED BY <1>6, <3>1, <3>2
  <2> QED BY <1>6, <2>1, <2>2
<1>11. UpMeansNothingLost' BY <1>3, <1>6, NothingLostStill
<1> QED BY <1>6, <1>7, <1>8, <1>9, <1>10, <1>11 DEF Sound

LEMMA FailStoreKeepsSound ==
    ASSUME Sound, FailStore
    PROVE  Sound'
<1> DEFINE e == call.event
           rec == RecordOf(memory, e)
<1>1. call.at = "append" /\ call.at # "free" BY DEF FailStore
<1>2. /\ server = "up" /\ e \in Events /\ e.stream \in Streams
      /\ rec \in Records /\ rec.event = e /\ ~Known(memory, e)
  BY <1>1, CallNow DEF Sound, CallSound
<1>3. call' = NoCall /\ UNCHANGED <<memory, server, published, acked, crashes>>
  BY DEF FailStore
<1>4. Written(files, files', e.stream, rec)
      /\ (Readable(files') => LogKeeps(files, files') \/ files'[e.stream].open)
  <2>1. files \in [Streams -> LogFiles] BY DEF Sound, FilesSound
  <2>2. PICK fault \in AppendFaults :
            files' = [files EXCEPT ![e.stream] = TornLine(@, rec, fault)]
    BY DEF FailStore
  <2>4. e.stream \in Streams /\ rec \in Records BY <1>2
  <2> HIDE DEF rec, e
  <2> QED BY ONLY <2>1, <2>2, <2>4, LineTorn
<1>5. call'.at = "free" BY <1>3 DEF NoCall
<1>6. /\ FilesSound' /\ NeverReplayedTwice' /\ DOMAIN files' = Streams
      /\ Durable(files') \subseteq Records /\ Durable(files) \subseteq Durable(files')
      /\ Durable(files') \subseteq Durable(files) \cup {rec}
      /\ Readable(files') => Readable(files)
                             /\ \A s \in Streams : files[s].open => files'[s].open
  BY <1>1, <1>4, AfterWrite
<1> HIDE DEF rec
<1>7. TypeOK' BY <1>2, <1>3, <1>5, <1>6 DEF Sound, TypeOK
<1>8. CallSound' BY <1>5 DEF CallSound
<1>9. CountedIsKept'
  <2>1. Counted' = Counted BY <1>1, <1>3, <1>5 DEF Counted
  <2> QED BY <1>1, <1>4, <2>1, StillKept DEF rec, CountedIsKept
<1>10. LogIsKnown'
  <2> SUFFICES ASSUME Readable(files'), NEW r \in Durable(files')
               PROVE  \/ Known(memory, r.event)
                      \/ files'[r.event.stream].open
    BY <1>3 DEF LogIsKnown, Known
  <2>1. CASE r \in Durable(files)
    <3>1. Known(memory, r.event) \/ files[r.event.stream].open
      BY <1>1, <1>2, <1>6, <2>1 DEF Sound, LogIsKnown
    <3>2. r.event.stream \in Streams
      BY <2>1, EventsAssumption DEF Sound, TypeOK, Records
    <3> QED BY <1>6, <3>1, <3>2
  <2>2. CASE r \notin Durable(files)
    <3>1. r = rec /\ ~LogKeeps(files, files') BY <1>6, <2>2 DEF LogKeeps
    <3> QED BY <1>2, <1>4, <3>1
  <2> QED BY <2>1, <2>2
<1>11. UpMeansNothingLost' BY <1>3, <1>6, NothingLostStill
<1> QED BY <1>6, <1>7, <1>8, <1>9, <1>10, <1>11 DEF Sound

LEMMA CommitKeepsSound ==
    ASSUME Sound, CommitEvent
    PROVE  Sound'
<1> DEFINE e == call.event
<1>1. call.at = "stored" /\ call.at # "free" BY DEF CommitEvent
<1>2. server = "up" /\ e \in Events /\ e.seq \in Nat /\ ~Known(memory, e)
  BY <1>1, CallNow DEF Sound, CallSound
<1>3. /\ memory' = Commit(memory, e) /\ call' = InCall("committed", e)
      /\ UNCHANGED <<files, server, published, acked, crashes>>
  BY DEF CommitEvent
<1>4. call'.at = "committed" /\ call'.event = e BY <1>3 DEF InCall
<1>5. /\ DOMAIN memory'.accepted = DOMAIN memory.accepted \cup {e.id}
      /\ memory'.accepted[e.id] = e
      /\ \A id \in DOMAIN memory.accepted : memory'.accepted[id] = memory.accepted[id]
      /\ memory'.accepted = PutNew(memory.accepted, e.id, e)
  BY <1>2, <1>3 DEF Commit, PutNew, Put, Known
<1>6. memory'.latest = Put(memory.latest, e.source, e.seq) /\ memory'.acc = memory.acc + 1
  BY <1>3 DEF Commit
<1>7. TypeOK'
  <2>1. IsMap(memory'.accepted, {x.id : x \in Events}, Events)
    BY <1>2, <1>5 DEF Sound, TypeOK, IsMap, PutNew, Put
  <2>2. IsMap(memory'.latest, {x.source : x \in Events}, Nat)
    BY <1>2, <1>6 DEF Sound, TypeOK, IsMap, Put
  <2>3. memory'.acc \in Nat BY <1>6 DEF Sound, TypeOK
  <2> QED BY <1>2, <1>3, <1>4, <2>1, <2>2, <2>3 DEF Sound, TypeOK
<1>8. FilesSound' /\ NeverReplayedTwice' BY <1>3 DEF Sound, FilesSound, NeverReplayedTwice
<1>9. CallSound'
  <2>1. memory'.acc # 0 BY <1>6 DEF Sound, TypeOK
  <2> QED BY <1>4, <1>5, <2>1 DEF CallSound, Known
<1>10. CountedIsKept'
  <2>1. Counted' \subseteq Counted
    <3>1. e \in Counted BY <1>1, <1>2 DEF Counted
    <3>2. \A id \in DOMAIN memory'.accepted :
            memory'.accepted[id] = e \/ (id \in DOMAIN memory.accepted
                                         /\ memory'.accepted[id] = memory.accepted[id])
      BY <1>5
    <3>3. \A id \in DOMAIN memory'.accepted : memory'.accepted[id] \in Counted
      BY <3>1, <3>2 DEF Counted
    <3> QED BY <1>3, <1>4, <3>1, <3>3 DEF Counted
  <2> QED BY <1>3, <2>1 DEF Sound, CountedIsKept
<1>11. LogIsKnown' BY <1>3, <1>5 DEF Sound, LogIsKnown, Known
<1>12. UpMeansNothingLost'
  <2>1. \A x : Known(memory, x) => memory'.accepted[x.id] = memory.accepted[x.id]
                                   /\ Known(memory', x)
    BY <1>5 DEF Known
  <2>2. UpMeansNothingLost /\ files' = files /\ server' = server /\ acked' = acked
        /\ published' = published
    BY <1>3 DEF Sound
  <2> QED BY ONLY <2>1, <2>2 DEF UpMeansNothingLost
<1> QED BY <1>7, <1>8, <1>9, <1>10, <1>11, <1>12 DEF Sound

\* What is published is published already, or the event of the call.
LEMMA PublishedGrows ==
    ASSUME Sound, Publish
    PROVE  /\ published' \in Seq(Records) /\ Len(published) \in Nat
           /\ DOMAIN published = 1 .. Len(published)
           /\ DOMAIN published' = 1 .. Len(published) + 1
           /\ \A i \in 1 .. Len(published) : published'[i] = published[i]
           /\ published'[Len(published) + 1] = [event |-> call.event, acc |-> memory.acc]
<1> DEFINE new == [event |-> call.event, acc |-> memory.acc]
<1>1. call.at = "committed" /\ call.at # "free" BY DEF Publish
<1>2. call.event \in Events /\ memory.acc \in Nat /\ memory.acc # 0
  BY <1>1, CallNow DEF Sound, TypeOK, CallSound
<1>3. new \in Records BY <1>2 DEF Records
<1>4. published \in Seq(Records) /\ published' = Append(published, new)
  BY DEF Sound, TypeOK, Publish
<1> HIDE DEF new
<1>5. /\ published' \in Seq(Records) /\ Len(published) \in Nat
      /\ DOMAIN published = 1 .. Len(published)
      /\ DOMAIN published' = 1 .. Len(published) + 1
      /\ \A i \in 1 .. Len(published) : published'[i] = published[i]
      /\ published'[Len(published) + 1] = new
  BY ONLY <1>3, <1>4, AppendEntries
<1> QED BY <1>5 DEF new

LEMMA PublishKeepsSound ==
    ASSUME Sound, Publish
    PROVE  Sound'
<1> DEFINE e == call.event
<1>1. call.at = "committed" /\ call.at # "free" BY DEF Publish
<1>2. /\ server = "up" /\ e \in Events /\ memory.acc # 0
      /\ Known(memory, e) /\ memory.accepted[e.id] = e
  BY <1>1, CallNow DEF Sound, CallSound
<1>3. /\ call' = InCall("published", e)
      /\ UNCHANGED <<memory, files, server, acked, crashes>>
  BY DEF Publish
<1>4. call'.at = "published" /\ call'.event = e BY <1>3 DEF InCall
<1>5. \A i \in DOMAIN published' :
        published'[i].event = e
        \/ (i \in DOMAIN published /\ published'[i] = published[i])
  BY PublishedGrows
<1>6. TypeOK' BY <1>2, <1>3, <1>4, PublishedGrows DEF Sound, TypeOK
<1>7. FilesSound' /\ NeverReplayedTwice' BY <1>3 DEF Sound, FilesSound, NeverReplayedTwice
<1>8. CallSound' BY <1>2, <1>3, <1>4 DEF CallSound, Known
<1>9. CountedIsKept'
  <2>1. e \in Counted BY <1>1, <1>2 DEF Counted
  <2>2. \A i \in DOMAIN published' : published'[i].event \in Counted
    BY <1>5, <2>1 DEF Counted
  <2>3. Counted' \subseteq Counted BY <1>3, <1>4, <2>1, <2>2 DEF Counted
  <2> QED BY <1>3, <2>3 DEF Sound, CountedIsKept
<1>10. LogIsKnown' BY <1>1, <1>3 DEF Sound, LogIsKnown, Known
<1>11. UpMeansNothingLost'
  <2>1. UpMeansNothingLost BY DEF Sound
  <2>2. \A x \in acked' \cup {published'[i].event : i \in DOMAIN published'} :
          x = e \/ x \in acked \cup {published[i].event : i \in DOMAIN published}
    BY <1>3, <1>5
  <2> QED BY <1>2, <1>3, <2>1, <2>2 DEF UpMeansNothingLost, Known
<1> QED BY <1>6, <1>7, <1>8, <1>9, <1>10, <1>11 DEF Sound

LEMMA AnswerKeepsSound ==
    ASSUME Sound, Answer
    PROVE  Sound'
<1> DEFINE e == call.event
<1>1. call.at = "published" /\ call.at # "free" BY DEF Answer
<1>2. /\ server = "up" /\ e \in Events
      /\ Known(memory, e) /\ memory.accepted[e.id] = e
  BY <1>1, CallNow DEF Sound, CallSound
<1>3. /\ acked' = acked \cup {e} /\ call' = NoCall
      /\ UNCHANGED <<memory, files, server, published, crashes>>
  BY DEF Answer
<1>4. call'.at = "free" BY <1>3 DEF NoCall
<1>5. TypeOK' BY <1>2, <1>3 DEF Sound, TypeOK
<1>6. FilesSound' /\ NeverReplayedTwice' BY <1>3 DEF Sound, FilesSound, NeverReplayedTwice
<1>7. CallSound' BY <1>4 DEF CallSound
<1>8. CountedIsKept'
  <2>1. e \in Counted BY <1>1, <1>2 DEF Counted
  <2>2. Counted' \subseteq Counted BY <1>3, <1>4, <2>1 DEF Counted
  <2> QED BY <1>3, <2>2 DEF Sound, CountedIsKept
<1>9. LogIsKnown' BY <1>1, <1>3 DEF Sound, LogIsKnown, Known
<1>10. UpMeansNothingLost' BY <1>2, <1>3 DEF Sound, UpMeansNothingLost, Known
<1> QED BY <1>5, <1>6, <1>7, <1>8, <1>9, <1>10 DEF Sound

LEMMA CrashKeepsSound ==
    ASSUME Sound, Crash
    PROVE  Sound'
<1>1. /\ server = "up" /\ server' = "down" /\ memory' = NoMemory /\ call' = NoCall
      /\ crashes' = crashes + 1 /\ crashes < MaxCrashes
      /\ UNCHANGED <<published, acked>>
  BY DEF Crash
<1>2. /\ FilesSound' /\ NeverReplayedTwice' /\ DOMAIN files' = Streams
      /\ Durable(files') \subseteq Records
      /\ Readable(files') => \A e \in Counted : \E r \in Durable(files') : r.event = e
  <2>1. CASE UNCHANGED files
    BY <2>1 DEF Sound, TypeOK, FilesSound, NeverReplayedTwice, CountedIsKept
  <2>2. CASE /\ call.at = "append"
             /\ \E fault \in AppendFaults :
                   files' = [files EXCEPT ![call.event.stream] =
                                 TornLine(@, RecordOf(memory, call.event), fault)]
    <3> DEFINE s == call.event.stream
               rec == RecordOf(memory, call.event)
    <3>1. PICK fault \in AppendFaults :
              files' = [files EXCEPT ![s] = TornLine(@, rec, fault)]
      BY <2>2
    <3>2. files \in [Streams -> LogFiles] BY DEF Sound, FilesSound
    <3>3. s \in Streams /\ rec \in Records BY <2>2, CallNow DEF Sound
    <3>4. Written(files, files', s, rec)
      <4> HIDE DEF s, rec
      <4> QED BY ONLY <3>1, <3>2, <3>3, LineTorn
    <3> QED BY <2>2, <3>4, AfterWrite, StillKept
  <2> QED BY <2>1, <2>2 DEF Crash
<1>3. DOMAIN memory'.accepted = {} /\ DOMAIN memory'.latest = {} /\ memory'.acc = 0
  BY <1>1 DEF NoMemory, EmptyMap
<1>4. call'.at = "free" BY <1>1 DEF NoCall
<1>5. TypeOK'
  <2>1. IsMap(memory'.accepted, {x.id : x \in Events}, Events)
    BY <1>1, <1>3 DEF IsMap, NoMemory, EmptyMap
  <2>2. IsMap(memory'.latest, {x.source : x \in Events}, Nat)
    BY <1>1, <1>3 DEF IsMap, NoMemory, EmptyMap
  <2>3. crashes' \in 0 .. MaxCrashes BY <1>1, EventsAssumption DEF Sound, TypeOK
  <2> QED BY <1>1, <1>2, <1>3, <2>1, <2>2, <2>3 DEF Sound, TypeOK
<1>6. CallSound' BY <1>4 DEF CallSound
<1>7. CountedIsKept'
  <2>1. Counted' \subseteq Counted BY <1>1, <1>3, <1>4 DEF Counted
  <2> QED BY <1>2, <2>1 DEF CountedIsKept
<1>8. LogIsKnown' /\ UpMeansNothingLost' BY <1>1 DEF LogIsKnown, UpMeansNothingLost
<1> QED BY <1>2, <1>5, <1>6, <1>7, <1>8 DEF Sound

LEMMA RestartKeepsSound ==
    ASSUME Sound, Restart
    PROVE  Sound'
<1>1. /\ server = "down" /\ server' = "up" /\ Readable(files)
      /\ UNCHANGED <<files, call, published, acked, crashes>>
  BY DEF Restart
<1>2. PICK o \in ReadOrders(Durable(files)) : memory' = Replayed(o) BY DEF Restart
<1>3. call = NoCall /\ call.at = "free" BY <1>1 DEF Sound, TypeOK, NoCall
<1>4. IsFiniteSet(Durable(files)) /\ Durable(files) \subseteq Records
  BY DEF Sound, TypeOK, FilesSound
<1>5. /\ o \in Seq(Durable(files)) /\ Len(o) \in Nat /\ DOMAIN o = 1 .. Len(o)
      /\ \A i \in DOMAIN o : o[i] \in Durable(files)
      /\ \A r \in Durable(files) : \E i \in DOMAIN o : o[i] = r
  BY ONLY <1>2, <1>4, OrderFacts
<1>6. /\ \A i \in DOMAIN o : o[i].event.id \in DOMAIN memory'.accepted
      /\ \A id \in DOMAIN memory'.accepted :
            \E i \in DOMAIN o : o[i].event.id = id /\ memory'.accepted[id] = o[i].event
  <2> DEFINE m == memory'
  <2>1. m = Replayed(o) /\ Len(o) \in Nat /\ DOMAIN o = 1 .. Len(o) BY <1>2, <1>5
  <2> HIDE DEF m
  <2>2. \A i \in DOMAIN o : o[i].event.id \in DOMAIN m.accepted
    BY ONLY <2>1, ReplayedKnows
  <2>3. \A id \in DOMAIN m.accepted :
              \E i \in DOMAIN o : o[i].event.id = id /\ m.accepted[id] = o[i].event
    BY ONLY <2>1, ReplayedKnows
  <2> QED BY <2>2, <2>3 DEF m
<1>7. \A src \in DOMAIN memory'.latest :
        \E i \in DOMAIN o : o[i].event.source = src /\ memory'.latest[src] = o[i].event.seq
  <2> DEFINE m == memory'
  <2>1. m = Replayed(o) /\ Len(o) \in Nat /\ DOMAIN o = 1 .. Len(o) BY <1>2, <1>5
  <2> HIDE DEF m
  <2>2. \A src \in DOMAIN m.latest :
          \E i \in DOMAIN o : LastFrom(o, i, src) /\ m.latest[src] = o[i].event.seq
    BY ONLY <2>1, ReplayedLatest
  <2> QED BY <2>2 DEF m, LastFrom
<1>8. \A i \in DOMAIN o : o[i].event \in Events /\ o[i].acc \in Nat /\ o[i].event.seq \in Nat
  BY <1>4, <1>5, EventsAssumption DEF Records
<1>9. TypeOK'
  <2>1. IsMap(memory'.accepted, {x.id : x \in Events}, Events)
    <3>1. memory'.accepted = [id \in DOMAIN memory'.accepted |-> memory'.accepted[id]]
      BY <1>2 DEF Replayed
    <3>2. \A id \in DOMAIN memory'.accepted :
            id \in {x.id : x \in Events} /\ memory'.accepted[id] \in Events
      BY <1>6, <1>8
    <3> QED BY <3>1, <3>2 DEF IsMap
  <2>2. IsMap(memory'.latest, {x.source : x \in Events}, Nat)
    <3>1. memory'.latest = [src \in DOMAIN memory'.latest |-> memory'.latest[src]]
      BY <1>2 DEF Replayed
    <3>2. \A src \in DOMAIN memory'.latest :
            src \in {x.source : x \in Events} /\ memory'.latest[src] \in Nat
      BY <1>7, <1>8
    <3> QED BY <3>1, <3>2 DEF IsMap
  <2>3. memory'.acc \in Nat
    <3>1. memory'.acc = IF o = <<>> THEN 0 ELSE o[Len(o)].acc BY <1>2 DEF Replayed
    <3>2. CASE o = <<>> BY <3>1, <3>2
    <3>3. CASE o # <<>>
      <4>1. Len(o) \in DOMAIN o BY <1>5, <3>3, EmptySeq
      <4> QED BY <1>8, <3>1, <3>3, <4>1
    <3> QED BY <3>2, <3>3
  <2> QED BY <1>1, <1>3, <2>1, <2>2, <2>3 DEF Sound, TypeOK
<1>10. FilesSound' /\ NeverReplayedTwice' BY <1>1 DEF Sound, FilesSound, NeverReplayedTwice
<1>11. CallSound' BY <1>1, <1>3 DEF CallSound
<1>12. \A r \in Durable(files) : Known(memory', r.event)
  BY <1>5, <1>6 DEF Known
<1>13. CountedIsKept'
  <2>1. \A e \in acked \cup {published[i].event : i \in DOMAIN published} :
          \E r \in Durable(files) : r.event = e
    BY <1>1 DEF Sound, CountedIsKept, Counted
  <2>2. \A e \in {memory'.accepted[id] : id \in DOMAIN memory'.accepted} :
          \E r \in Durable(files) : r.event = e
    <3>1. \A id \in DOMAIN memory'.accepted :
            \E i \in DOMAIN o : memory'.accepted[id] = o[i].event
      BY <1>6
    <3>2. \A i \in DOMAIN o : \E r \in Durable(files) : r.event = o[i].event BY <1>5
    <3>3. \A id \in DOMAIN memory'.accepted :
            \E r \in Durable(files) : r.event = memory'.accepted[id]
      BY ONLY <3>1, <3>2
    <3> QED BY ONLY <3>3
  <2>3. \A e \in Counted' : \E r \in Durable(files) : r.event = e
    BY <1>1, <1>3, <2>1, <2>2 DEF Counted
  <2> QED BY <1>1, <2>3 DEF CountedIsKept
<1>14. LogIsKnown' BY <1>1, <1>12 DEF LogIsKnown
<1>15. UpMeansNothingLost'
  <2> SUFFICES ASSUME NEW e \in acked \cup {published[i].event : i \in DOMAIN published}
               PROVE  \/ Known(memory', e) /\ memory'.accepted[e.id] = e
                      \/ \E r \in Durable(files) : r.event.id = e.id /\ r.event # e
    BY <1>1 DEF UpMeansNothingLost
  <2>1. PICK r \in Durable(files) : r.event = e
    BY <1>1 DEF Sound, CountedIsKept, Counted
  <2>2. Known(memory', e) BY <1>12, <2>1
  <2>3. PICK i \in DOMAIN o : o[i].event.id = e.id /\ memory'.accepted[e.id] = o[i].event
    BY <1>6, <2>2 DEF Known
  <2> QED BY <1>5, <2>2, <2>3
<1> QED BY <1>9, <1>10, <1>11, <1>13, <1>14, <1>15 DEF Sound

LEMMA SoundInductive ==
    ASSUME Sound, [Next]_vars
    PROVE  Sound'
<1>1. CASE \E e \in Events : Submit(e) BY <1>1, SubmitKeepsSound
<1>2. CASE Store BY <1>2, StoreKeepsSound
<1>3. CASE FailStore BY <1>3, FailStoreKeepsSound
<1>4. CASE CommitEvent BY <1>4, CommitKeepsSound
<1>5. CASE Publish BY <1>5, PublishKeepsSound
<1>6. CASE Answer BY <1>6, AnswerKeepsSound
<1>7. CASE Crash BY <1>7, CrashKeepsSound
<1>8. CASE Restart BY <1>8, RestartKeepsSound
<1>9. CASE RefuseToStart
  <2>1. server = "down" /\ server' = "refused"
        /\ UNCHANGED <<memory, files, call, published, acked, crashes>>
    BY <1>9 DEF RefuseToStart
  <2>2. TypeOK' BY <2>1 DEF Sound, TypeOK
  <2>3. Counted' = Counted BY <2>1 DEF Counted
  <2> QED
    BY <2>1, <2>2, <2>3 DEF Sound, FilesSound, CallSound, CountedIsKept, LogIsKnown,
       UpMeansNothingLost, NeverReplayedTwice, Known
<1>10. CASE UNCHANGED vars
  <2>1. UNCHANGED <<memory, files, call, server, published, acked, crashes>> BY <1>10 DEF vars
  <2>2. TypeOK' BY <2>1 DEF Sound, TypeOK
  <2>3. Counted' = Counted BY <2>1 DEF Counted
  <2> QED
    BY <2>1, <2>2, <2>3 DEF Sound, FilesSound, CallSound, CountedIsKept, LogIsKnown,
       UpMeansNothingLost, NeverReplayedTwice, Known
<1> QED BY <1>1, <1>2, <1>3, <1>4, <1>5, <1>6, <1>7, <1>8, <1>9, <1>10 DEF Next

LEMMA AlwaysSound == Spec => []Sound
<1> QED BY SoundInit, SoundInductive, PTL DEF Spec

\* Memory, files and call keep their types through any failures and crashes.
THEOREM RuntimeTypeCorrect == Spec => []TypeOK
<1>1. Sound => TypeOK BY DEF Sound
<1> QED BY <1>1, AlwaysSound, PTL

\* Whatever failing appends and crashes leave in the files, a server that is up
\* remembers every event that a client was told of or a page was sent, unless
\* the log holds another event with the same id (submit_event, main's replay).
THEOREM NothingToldIsLost == Spec => []UpMeansNothingLost
<1>1. Sound => UpMeansNothingLost BY DEF Sound
<1> QED BY <1>1, AlwaysSound, PTL

\* Whatever failing appends and crashes leave in the files, no log that main can
\* read holds an event twice (append's torn lines, submit_event's retries).
THEOREM EffectsHappenOnce == Spec => []NeverReplayedTwice
<1>1. Sound => NeverReplayedTwice BY DEF Sound
<1> QED BY <1>1, AlwaysSound, PTL

-----------------------------------------------------------------------------
(* Where a failing append leaves nothing behind.                           *)

CleanFailures == AppendFaults \subseteq {"nothing"}

\* An order of the records that a reader of the log could swear by: numbered
\* from 1 on, each event once, sources in their order, every event legal.
InGoodOrder(o) ==
    /\ \A i \in DOMAIN o : o[i].acc = i
    /\ \A i, j \in DOMAIN o : i < j =>
           /\ o[i].event.id # o[j].event.id
           /\ o[i].event.source = o[j].event.source => o[i].event.seq < o[j].event.seq
    /\ ReplayAccepts(o)

\* The memory of a running server is the replay of the log, or of all of it but
\* the record just stored.
MemoryStands(o) ==
    server = "up" =>
        /\ call.at # "stored" => memory = Replayed(o)
        /\ call.at = "stored" =>
               LET before == SubSeq(o, 1, Len(o) - 1)
               IN  /\ o = Append(before, RecordOf(memory, call.event))
                   /\ memory = Replayed(before)

\* Clients and pages were told of nothing but records, pages in their order and
\* of none that is still to be published.
TellingStands(o) ==
    /\ call.at \in {"committed", "published"} =>
           Len(o) \in DOMAIN o /\ o[Len(o)].event = call.event
    /\ \A i \in DOMAIN published :
           /\ published[i].acc \in DOMAIN o /\ o[published[i].acc] = published[i]
           /\ call.at \in {"stored", "committed"} => published[i].acc < Len(o)
    /\ PublishedInOrder
    /\ \A e \in acked : \E i \in DOMAIN o : o[i].event = e

CleanLog ==
    /\ \A s \in Streams : ~files[s].open /\ ~files[s].spoiled
    /\ call.at = "append" => Verdict(memory, call.event) = "accepted"
    /\ server # "refused"
    /\ \E o \in ReadOrders(Durable(files)) :
           InGoodOrder(o) /\ MemoryStands(o) /\ TellingStands(o)

LEMMA TornClean ==
    ASSUME CleanFailures, NEW f \in [Streams -> LogFiles], NEW s, NEW rec,
           NEW fault \in AppendFaults
    PROVE  [f EXCEPT ![s] = TornLine(@, rec, fault)] = f
<1>1. fault = "nothing" BY DEF CleanFailures
<1>2. TornLine(f[s], rec, fault) = f[s] BY <1>1 DEF TornLine
<1> QED BY <1>2

LEMMA RecordsInOrder ==
    ASSUME NEW D, IsFiniteSet(D), D \subseteq Records, NEW o \in ReadOrders(D), InGoodOrder(o)
    PROVE  /\ o \in Seq(Records) /\ Len(o) \in Nat /\ DOMAIN o = 1 .. Len(o)
           /\ \A i \in DOMAIN o : o[i] \in D /\ o[i] \in Records /\ o[i].acc = i
           /\ \A r \in D : r.acc \in DOMAIN o /\ o[r.acc] = r
<1>1. /\ o \in Seq(D) /\ Len(o) \in Nat /\ DOMAIN o = 1 .. Len(o)
      /\ \A i \in DOMAIN o : o[i] \in D
      /\ \A r \in D : \E i \in DOMAIN o : o[i] = r
  BY OrderFacts
<1>2. \A i \in DOMAIN o : o[i].acc = i BY DEF InGoodOrder
<1>3. \A r \in D : r.acc \in DOMAIN o /\ o[r.acc] = r BY <1>1, <1>2
<1>4. o \in Seq(Records) BY <1>1, LenProperties, SMT
<1> QED BY <1>1, <1>2, <1>3, <1>4

LEMMA OneGoodOrder ==
    ASSUME NEW D, IsFiniteSet(D), D \subseteq Records,
           NEW o \in ReadOrders(D), InGoodOrder(o), NEW p \in ReadOrders(D)
    PROVE  p = o
<1>1. /\ \A i \in DOMAIN o : o[i].acc = i
      /\ \A r \in D : r.acc \in DOMAIN o /\ o[r.acc] = r
  BY RecordsInOrder
<1>2. \A r1, r2 \in D : r1.acc = r2.acc => r1 = r2 BY <1>1
<1>3. \A r \in D : r.acc \in Nat BY DEF Records
<1> QED BY <1>2, <1>3, OneOrder

\* The state a restart rebuilds from a good order agrees with the log about
\* what is known, what is stale and what the next record is numbered.
LEMMA GoodReplay ==
    ASSUME NEW o \in Seq(Records), InGoodOrder(o), NEW m, m = Replayed(o)
    PROVE  /\ m.acc = Len(o)
           /\ \A e \in Events : Known(m, e) /\ m.accepted[e.id] = e =>
                \E i \in DOMAIN o : o[i].event = e
           /\ \A e \in Events : Verdict(m, e) = "accepted" =>
                /\ \A i \in DOMAIN o :
                      /\ o[i].event.id # e.id
                      /\ o[i].event.source = e.source => o[i].event.seq < e.seq
                /\ Accepts(StreamAfter(o, e.stream), e.body)
<1>1. Len(o) \in Nat /\ DOMAIN o = 1 .. Len(o) BY LenProperties
<1>2. m.acc = Len(o)
  <2>1. m.acc = IF o = <<>> THEN 0 ELSE o[Len(o)].acc BY DEF Replayed
  <2>2. CASE o = <<>> BY <2>1, <2>2
  <2>3. CASE o # <<>>
    <3>1. Len(o) \in DOMAIN o BY <1>1, <2>3, EmptySeq
    <3> QED BY <2>1, <2>3, <3>1 DEF InGoodOrder
  <2> QED BY <2>2, <2>3
<1>3. /\ \A i \in DOMAIN o : o[i].event.id \in DOMAIN m.accepted
      /\ \A id \in DOMAIN m.accepted :
            \E i \in DOMAIN o : o[i].event.id = id /\ m.accepted[id] = o[i].event
  BY ONLY <1>1, m = Replayed(o), ReplayedKnows
<1>4. /\ \A i \in DOMAIN o : o[i].event.source \in DOMAIN m.latest
      /\ \A src \in DOMAIN m.latest :
            \E i \in DOMAIN o : LastFrom(o, i, src) /\ m.latest[src] = o[i].event.seq
  <2>1. \A i \in DOMAIN o : o[i].event.source \in DOMAIN m.latest
    BY ONLY <1>1, m = Replayed(o), ReplayedLatest
  <2>2. \A src \in DOMAIN m.latest :
            \E i \in DOMAIN o : LastFrom(o, i, src) /\ m.latest[src] = o[i].event.seq
    BY ONLY <1>1, m = Replayed(o), ReplayedLatest
  <2> QED BY <2>1, <2>2
<1>5. \A s : StreamState(m, s) = StreamAfter(o, s) BY <1>1, StreamStateReplayed
<1>6. ASSUME NEW e \in Events, Known(m, e), m.accepted[e.id] = e
      PROVE  \E i \in DOMAIN o : o[i].event = e
  BY <1>3, <1>6 DEF Known
<1>7. ASSUME NEW e \in Events, Verdict(m, e) = "accepted"
      PROVE  /\ \A i \in DOMAIN o :
                   /\ o[i].event.id # e.id
                   /\ o[i].event.source = e.source => o[i].event.seq < e.seq
             /\ Accepts(StreamAfter(o, e.stream), e.body)
  <2>1. ~Known(m, e) /\ ~Stale(m, e) /\ Accepts(StreamState(m, e.stream), e.body)
    BY <1>7 DEF Verdict
  <2>2. ASSUME NEW i \in DOMAIN o, o[i].event.source = e.source
        PROVE  o[i].event.seq < e.seq
    <3>1. e.source \in DOMAIN m.latest BY <1>4, <2>2
    <3>2. PICK k \in DOMAIN o : /\ o[k].event.source = e.source
                                /\ m.latest[e.source] = o[k].event.seq
                                /\ \A j \in DOMAIN o : o[j].event.source = e.source => j <= k
      BY <1>4, <3>1 DEF LastFrom
    <3>3. i <= k BY <2>2, <3>2
    <3>4. o[i].event.seq \in Nat /\ o[k].event.seq \in Nat /\ e.seq \in Nat
      <4>1. o[i] \in Records /\ o[k] \in Records BY <1>1
      <4> QED BY <4>1, EventsAssumption DEF Records
    <3>5. o[i].event.seq <= o[k].event.seq
      <4>1. CASE i = k BY <3>4, <4>1
      <4>2. CASE i < k BY <2>2, <3>2, <3>4, <4>2 DEF InGoodOrder
      <4> QED BY <1>1, <3>3, <4>1, <4>2
    <3>6. o[k].event.seq < e.seq BY <2>1, <3>1, <3>2, <3>4 DEF Stale
    <3> QED BY <3>4, <3>5, <3>6
  <2>3. \A i \in DOMAIN o : o[i].event.id # e.id BY <1>3, <2>1 DEF Known
  <2>4. Accepts(StreamAfter(o, e.stream), e.body) BY <1>5, <2>1
  <2> QED BY <2>2, <2>3, <2>4
<1> QED BY <1>2, <1>6, <1>7

\* The record of an accepted event continues a good order.
LEMMA GoodOrderGrows ==
    ASSUME NEW o \in Seq(Records), InGoodOrder(o), NEW m, m = Replayed(o),
           NEW e \in Events, Verdict(m, e) = "accepted",
           NEW rec, rec = RecordOf(m, e), NEW q, q = Append(o, rec)
    PROVE  /\ rec \in Records /\ rec.acc = Len(o) + 1 /\ rec.event = e
           /\ InGoodOrder(q)
<1>1. /\ m.acc = Len(o) /\ Len(o) \in Nat
      /\ \A i \in DOMAIN o : /\ o[i].event.id # e.id
                             /\ o[i].event.source = e.source => o[i].event.seq < e.seq
      /\ Accepts(StreamAfter(o, e.stream), e.body)
  BY GoodReplay, LenProperties
<1>2. rec \in Records /\ rec.acc = Len(o) + 1 /\ rec.event = e BY <1>1 DEF RecordOf, Records
<1>3. /\ DOMAIN o = 1 .. Len(o) /\ DOMAIN q = 1 .. Len(o) + 1
      /\ \A i \in 1 .. Len(o) : q[i] = o[i]
      /\ q[Len(o) + 1] = rec
  BY ONLY <1>2, o \in Seq(Records), q = Append(o, rec), AppendEntries
<1>4. ReplayAccepts(q)
  <2>1. ReplayAccepts(o) /\ Accepts(StreamAfter(o, rec.event.stream), rec.event.body)
    BY <1>1, <1>2 DEF InGoodOrder
  <2> QED BY ONLY <1>2, <2>1, o \in Seq(Records), q = Append(o, rec), ReplayAcceptsAppend
<1>5. \A i \in DOMAIN q : q[i].acc = i
  BY ONLY <1>1, <1>2, <1>3, InGoodOrder(o) DEF InGoodOrder
<1>6. ASSUME NEW i \in DOMAIN q, NEW j \in DOMAIN q, i < j
      PROVE  /\ q[i].event.id # q[j].event.id
             /\ q[i].event.source = q[j].event.source => q[i].event.seq < q[j].event.seq
  <2>1. i \in DOMAIN o /\ q[i] = o[i] BY ONLY <1>1, <1>3, <1>6
  <2>2. CASE j \in DOMAIN o
    <3>1. q[j] = o[j] BY ONLY <1>3, <2>2
    <3> QED BY <1>6, <2>1, <2>2, <3>1 DEF InGoodOrder
  <2>3. CASE j = Len(o) + 1 BY ONLY <1>1, <1>2, <1>3, <2>1, <2>3
  <2> QED BY ONLY <1>1, <1>3, <2>2, <2>3, j \in DOMAIN q
<1>7. InGoodOrder(q) BY ONLY <1>4, <1>5, <1>6 DEF InGoodOrder
<1> QED BY <1>2, <1>7

\* The facts the steps share.
LEMMA LogNow ==
    ASSUME Sound, NEW o \in ReadOrders(Durable(files)), InGoodOrder(o)
    PROVE  /\ o \in Seq(Records) /\ Len(o) \in Nat /\ DOMAIN o = 1 .. Len(o)
           /\ \A i \in DOMAIN o : o[i] \in Durable(files) /\ o[i] \in Records /\ o[i].acc = i
           /\ \A r \in Durable(files) : r.acc \in DOMAIN o /\ o[r.acc] = r
           /\ \A p \in ReadOrders(Durable(files)) : p = o
<1>1. IsFiniteSet(Durable(files)) /\ Durable(files) \subseteq Records
  BY DEF Sound, FilesSound, TypeOK
<1>2. \A p \in ReadOrders(Durable(files)) : p = o
  BY ONLY <1>1, InGoodOrder(o), o \in ReadOrders(Durable(files)), OneGoodOrder
<1>3. /\ o \in Seq(Records) /\ Len(o) \in Nat /\ DOMAIN o = 1 .. Len(o)
      /\ \A i \in DOMAIN o : o[i] \in Durable(files) /\ o[i] \in Records /\ o[i].acc = i
      /\ \A r \in Durable(files) : r.acc \in DOMAIN o /\ o[r.acc] = r
  BY ONLY <1>1, InGoodOrder(o), o \in ReadOrders(Durable(files)), RecordsInOrder
<1> QED BY <1>2, <1>3

Stands(o) ==
    /\ o \in ReadOrders(Durable(files))
    /\ InGoodOrder(o) /\ MemoryStands(o) /\ TellingStands(o)

LEMMA CleanInit == Init => CleanLog
<1> SUFFICES ASSUME Init PROVE CleanLog OBVIOUS
<1>1. /\ memory = NoMemory /\ call = NoCall /\ server = "up" /\ published = <<>> /\ acked = {}
      /\ \A s \in Streams : files[s] = NoFile
      /\ DOMAIN files = Streams
  BY DEF Init
<1>2. Durable(files) = {} BY <1>1 DEF Durable, NoFile
<1>3. call.at = "free" BY <1>1 DEF NoCall
<1> DEFINE o == <<>>
<1>4. o \in Seq({}) /\ Len(o) = 0 /\ DOMAIN o = {} OBVIOUS
<1>5. o \in ReadOrders({})
  <2>1. \A D : D = {} => o \in Seq(D) /\ \A r \in D : \E i \in DOMAIN o : o[i] = r
    OBVIOUS
  <2> HIDE DEF o
  <2> QED BY <1>4, <2>1, IsOrder
<1>6. Replayed(o) = NoMemory
  <2>1. /\ {o[i].event.stream : i \in DOMAIN o} = {}
        /\ {o[i].event.id : i \in DOMAIN o} = {}
        /\ {o[i].event.source : i \in DOMAIN o} = {}
    OBVIOUS
  <2> QED BY <2>1 DEF Replayed, NoMemory, EmptyMap
<1>7. InGoodOrder(o) BY <1>4 DEF InGoodOrder, ReplayAccepts
<1>8. MemoryStands(o) BY <1>1, <1>3, <1>6 DEF MemoryStands
<1>9. TellingStands(o)
  <2>1. DOMAIN published = {} BY <1>1
  <2> QED BY <1>1, <1>3, <2>1 DEF TellingStands, PublishedInOrder
<1>10. \A s \in Streams : ~files[s].open /\ ~files[s].spoiled BY <1>1 DEF NoFile
<1> HIDE DEF o
<1> QED BY <1>1, <1>2, <1>3, <1>5, <1>7, <1>8, <1>9, <1>10 DEF CleanLog

LEMMA SubmitKeepsClean ==
    ASSUME Sound, NEW o, Stands(o), NEW e \in Events, Submit(e)
    PROVE  /\ Stands(o)' /\ files' = files /\ server' = "up"
           /\ call'.at = "append" => Verdict(memory', call'.event) = "accepted"
<1>1. /\ UNCHANGED <<memory, files, server, published, crashes>>
      /\ server = "up" /\ call = NoCall
  BY DEF Submit
<1>2. call.at = "free" BY <1>1 DEF NoCall
<1>3. memory = Replayed(o) BY <1>1, <1>2 DEF Stands, MemoryStands
<1>4. o \in Seq(Records) BY LogNow DEF Stands
<1>5. CASE Verdict(memory, e) = "accepted" /\ call' = InCall("append", e) /\ UNCHANGED acked
  <2>1. call'.at = "append" /\ call'.event = e BY <1>5 DEF InCall
  <2>2. MemoryStands(o)' BY <1>1, <1>3, <2>1 DEF MemoryStands
  <2>3. TellingStands(o)'
    BY <1>1, <1>5, <2>1 DEF Stands, TellingStands, PublishedInOrder
  <2> QED BY <1>1, <1>5, <2>1, <2>2, <2>3 DEF Stands
<1>6. CASE Verdict(memory, e) = "duplicate" /\ acked' = acked \cup {e} /\ UNCHANGED call
  <2>1. MemoryStands(o)' BY <1>1, <1>2, <1>3, <1>6 DEF MemoryStands
  <2>2. \E i \in DOMAIN o : o[i].event = e
    <3>1. Known(memory, e) /\ memory.accepted[e.id] = e BY <1>6 DEF Verdict
    <3>2. InGoodOrder(o) BY DEF Stands
    <3>3. PICK m : m = memory OBVIOUS
    <3> QED BY ONLY <1>3, <1>4, <3>1, <3>2, <3>3, e \in Events, GoodReplay
  <2>3. TellingStands(o)'
    BY <1>1, <1>2, <1>6, <2>2 DEF Stands, TellingStands, PublishedInOrder
  <2> QED BY <1>1, <1>2, <1>6, <2>1, <2>3 DEF Stands
<1> QED BY <1>5, <1>6 DEF Submit

LEMMA StoreKeepsClean ==
    ASSUME Sound, CleanLog, NEW o, Stands(o), Store
    PROVE  /\ \E q : Stands(q)' /\ q = Append(o, RecordOf(memory, call.event))
           /\ \A s \in Streams : ~files'[s].open /\ ~files'[s].spoiled
           /\ call'.at = "stored" /\ server' = "up"
<1>1. PICK e : e = call.event OBVIOUS
<1>2. PICK m : m = memory OBVIOUS
<1>3. PICK rec : rec = RecordOf(m, e) OBVIOUS
<1>4. PICK q : q = Append(o, rec) OBVIOUS
<1>5. call.at = "append" /\ call.at # "free" BY DEF Store
<1>6. /\ server = "up" /\ e \in Events /\ e.stream \in Streams
      /\ Verdict(m, e) = "accepted"
  BY <1>1, <1>2, <1>5, CallNow DEF Sound, CleanLog
<1>7. /\ files' = [files EXCEPT ![e.stream] = AppendLine(@, rec)]
      /\ call' = InCall("stored", e)
      /\ UNCHANGED <<memory, server, published, acked, crashes>>
  BY <1>1, <1>2, <1>3 DEF Store
<1>8. call'.at = "stored" /\ call'.event = e BY <1>7 DEF InCall
<1>9. /\ o \in Seq(Records) /\ Len(o) \in Nat /\ DOMAIN o = 1 .. Len(o)
      /\ \A i \in DOMAIN o : o[i] \in Durable(files) /\ o[i] \in Records /\ o[i].acc = i
      /\ \A r \in Durable(files) : r.acc \in DOMAIN o /\ o[r.acc] = r
  BY LogNow DEF Stands
<1>10. m = Replayed(o) /\ InGoodOrder(o)
  BY <1>2, <1>5, <1>6 DEF Stands, MemoryStands
<1>11. rec \in Records /\ rec.acc = Len(o) + 1 /\ rec.event = e /\ InGoodOrder(q)
  <2>1. o \in Seq(Records) /\ e \in Events /\ Verdict(m, e) = "accepted" BY <1>6, <1>9
  <2>2. rec \in Records /\ rec.acc = Len(o) + 1 /\ rec.event = e
    BY ONLY <1>3, <1>4, <1>10, <2>1, GoodOrderGrows
  <2>3. InGoodOrder(q)
    BY ONLY <1>3, <1>4, <1>10, <2>1, GoodOrderGrows
  <2> QED BY <2>2, <2>3
<1>12. /\ q \in Seq(Records) /\ Len(q) = Len(o) + 1
       /\ DOMAIN q = 1 .. Len(o) + 1
       /\ \A i \in 1 .. Len(o) : q[i] = o[i]
       /\ q[Len(o) + 1] = rec
  BY ONLY <1>4, <1>9, <1>11, AppendEntries
<1>13. /\ Durable(files') = Durable(files) \cup {rec}
       /\ \A s \in Streams : ~files'[s].open /\ ~files'[s].spoiled
  <2>1. files \in [Streams -> LogFiles] BY DEF Sound, FilesSound
  <2>2. \A s \in Streams : ~files[s].open /\ ~files[s].spoiled BY DEF CleanLog
  <2>3. LogGains(files, files', rec) /\ SameMarks(files, files')
    <3>1. PICK s : s = e.stream OBVIOUS
    <3>2. s \in Streams /\ ~files[s].open /\ files' = [files EXCEPT ![s] = AppendLine(@, rec)]
      BY <1>6, <1>7, <2>2, <3>1
    <3> QED BY ONLY <1>11, <2>1, <3>2, LineAppended
  <2> QED BY <2>2, <2>3 DEF LogGains, SameMarks
<1>14. q \in ReadOrders(Durable(files'))
  <2>1. IsFiniteSet(Durable(files)) /\ o \in ReadOrders(Durable(files))
    BY DEF Sound, FilesSound, Stands
  <2>2. \A x \in Durable(files) : x.acc \in Nat /\ x.acc < rec.acc BY ONLY <1>9, <1>11
  <2>3. rec.acc \in Nat BY <1>9, <1>11
  <2>4. \A x \in Durable(files) \cup {rec} : x.acc \in Nat BY ONLY <2>2, <2>3
  <2>5. PICK D : D = Durable(files) OBVIOUS
  <2>6. Append(o, rec) \in ReadOrders(D \cup {rec})
    BY ONLY <2>1, <2>2, <2>4, <2>5, OrderGrows
  <2> QED BY <1>4, <1>13, <2>5, <2>6
<1>15. MemoryStands(q)'
  <2>1. SubSeq(q, 1, Len(q) - 1) = o
    <3>1. Len(q) - 1 = Len(o) BY ONLY <1>9, <1>12
    <3>2. SubSeq(q, 1, Len(o)) = [k \in 1 .. Len(o) |-> q[k]] BY ONLY <1>9, <1>12
    <3>3. o = [k \in 1 .. Len(o) |-> o[k]] BY ONLY <1>9
    <3>4. [k \in 1 .. Len(o) |-> q[k]] = [k \in 1 .. Len(o) |-> o[k]] BY ONLY <1>12
    <3> QED BY ONLY <3>1, <3>2, <3>3, <3>4
  <2> QED BY <1>2, <1>3, <1>4, <1>7, <1>8, <1>10, <2>1 DEF MemoryStands
<1>16. TellingStands(q)'
  <2>1. ASSUME NEW i \in DOMAIN published
        PROVE  /\ published[i].acc \in DOMAIN q /\ q[published[i].acc] = published[i]
               /\ published[i].acc < Len(q)
    <3>1. published[i].acc \in DOMAIN o /\ o[published[i].acc] = published[i]
      BY DEF Stands, TellingStands
    <3> QED BY ONLY <1>9, <1>12, <3>1
  <2>2. ASSUME NEW x \in acked PROVE \E i \in DOMAIN q : q[i].event = x
    <3>1. PICK i \in DOMAIN o : o[i].event = x BY DEF Stands, TellingStands
    <3>2. i \in DOMAIN q /\ q[i] = o[i] BY ONLY <1>9, <1>12, i \in DOMAIN o
    <3> QED BY <3>1, <3>2
  <2>3. PublishedInOrder' BY <1>7 DEF Stands, TellingStands, PublishedInOrder
  <2> QED BY <1>7, <1>8, <2>1, <2>2, <2>3 DEF TellingStands
<1>17. Stands(q)' BY <1>11, <1>14, <1>15, <1>16 DEF Stands
<1> QED BY <1>1, <1>2, <1>3, <1>4, <1>6, <1>7, <1>8, <1>13, <1>17

LEMMA CommitKeepsClean ==
    ASSUME Sound, NEW o, Stands(o), CommitEvent
    PROVE  Stands(o)' /\ files' = files /\ call'.at = "committed" /\ server' = "up"
<1>1. PICK e : e = call.event OBVIOUS
<1>2. PICK m : m = memory OBVIOUS
<1>3. PICK before : before = SubSeq(o, 1, Len(o) - 1) OBVIOUS
<1>4. call.at = "stored" /\ call.at # "free" BY DEF CommitEvent
<1>5. server = "up" /\ e \in Events /\ ~Known(m, e)
  BY <1>1, <1>2, <1>4, CallNow DEF Sound, CallSound
<1>6. /\ memory' = Commit(m, e) /\ call' = InCall("committed", e)
      /\ UNCHANGED <<files, server, published, acked, crashes>>
  BY <1>1, <1>2 DEF CommitEvent
<1>7. call'.at = "committed" /\ call'.event = e BY <1>6 DEF InCall
<1>8. PICK rec : rec = RecordOf(m, e) OBVIOUS
<1>9. o = Append(before, rec) /\ m = Replayed(before)
  BY <1>1, <1>2, <1>3, <1>4, <1>5, <1>8 DEF Stands, MemoryStands
<1>10. o \in Seq(Records) /\ Len(o) \in Nat BY LogNow DEF Stands
<1>11. rec \in Records /\ rec.event = e /\ rec.acc = m.acc + 1
  BY <1>1, <1>2, <1>4, <1>8, CallNow DEF Sound, RecordOf
<1>12. before \in Seq(Records)
  <2>1. CASE Len(o) = 0
    <3>1. before = <<>> BY <1>3, <1>10, <2>1
    <3> QED BY <3>1
  <2>2. CASE Len(o) # 0
    <3>1. Len(o) - 1 \in Nat BY <1>10, <2>2
    <3>2. before = [k \in 1 .. Len(o) - 1 |-> o[k]] BY <1>3, <1>10, <3>1
    <3>3. \A k \in 1 .. Len(o) - 1 : o[k] \in Records BY <1>10
    <3> QED BY ONLY <3>1, <3>2, <3>3
  <2> QED BY <2>1, <2>2
<1>13. memory' = Replayed(o)
  <2>1. e.id \notin DOMAIN m.accepted BY <1>5 DEF Known
  <2>2. Replayed(o) = Commit(m, rec.event)
    BY ONLY <1>9, <1>11, <1>12, <2>1, ReplayedAppend
  <2> QED BY <1>6, <1>11, <2>2
<1>14. Len(o) \in DOMAIN o /\ o[Len(o)] = rec
  BY ONLY <1>9, <1>11, <1>12, AppendEntries
<1>15. MemoryStands(o)' BY <1>7, <1>13 DEF MemoryStands
<1>16. TellingStands(o)'
  BY <1>4, <1>6, <1>7, <1>11, <1>14 DEF Stands, TellingStands, PublishedInOrder
<1> QED BY <1>5, <1>6, <1>7, <1>15, <1>16 DEF Stands

LEMMA PublishKeepsClean ==
    ASSUME Sound, NEW o, Stands(o), Publish
    PROVE  Stands(o)' /\ files' = files /\ call'.at = "published" /\ server' = "up"
<1>1. call.at = "committed" /\ call.at # "free" BY DEF Publish
<1>2. server = "up" BY <1>1, CallNow DEF Sound
<1>3. /\ call' = InCall("published", call.event)
      /\ UNCHANGED <<memory, files, server, acked, crashes>>
  BY DEF Publish
<1>4. call'.at = "published" /\ call'.event = call.event BY <1>3 DEF InCall
<1>5. memory = Replayed(o) /\ InGoodOrder(o) /\ TellingStands(o)
  BY <1>1, <1>2 DEF Stands, MemoryStands
<1>6. /\ o \in Seq(Records) /\ Len(o) \in Nat
      /\ \A i \in DOMAIN o : o[i] \in Records /\ o[i].acc = i
  BY LogNow DEF Stands
<1>7. memory.acc = Len(o)
  <2>1. PICK m : m = memory OBVIOUS
  <2>2. m.acc = Len(o) BY ONLY <1>5, <1>6, <2>1, GoodReplay
  <2> QED BY <2>1, <2>2
<1>8. Len(o) \in DOMAIN o /\ o[Len(o)].event = call.event
  BY <1>1, <1>5 DEF TellingStands
<1>9. o[Len(o)] = [event |-> call.event, acc |-> memory.acc]
  <2>1. o[Len(o)] \in Records /\ o[Len(o)].acc = Len(o) BY <1>6, <1>8
  <2> QED BY <1>7, <1>8, <2>1 DEF Records
<1>10. /\ Len(published) \in Nat /\ DOMAIN published = 1 .. Len(published)
       /\ DOMAIN published' = 1 .. Len(published) + 1
       /\ \A i \in 1 .. Len(published) : published'[i] = published[i]
       /\ published'[Len(published) + 1] = o[Len(o)]
  BY <1>9, PublishedGrows
<1>11. \A i \in DOMAIN published :
         /\ published[i].acc \in DOMAIN o /\ o[published[i].acc] = published[i]
         /\ published[i].acc < Len(o)
  BY <1>1, <1>5 DEF TellingStands
<1>12. o[Len(o)].acc = Len(o) BY <1>6, <1>8
<1>13. \A i \in DOMAIN published' :
         \/ i \in DOMAIN published /\ published'[i] = published[i]
         \/ i = Len(published) + 1 /\ published'[i] = o[Len(o)]
  BY ONLY <1>10
<1>14. TellingStands(o)'
  <2>1. \A i \in DOMAIN published' :
          published'[i].acc \in DOMAIN o /\ o[published'[i].acc] = published'[i]
    BY ONLY <1>8, <1>11, <1>12, <1>13
  <2>2. PublishedInOrder'
    <3> SUFFICES ASSUME NEW i \in DOMAIN published', NEW j \in DOMAIN published', i < j
                 PROVE  published'[i].acc < published'[j].acc
      BY DEF PublishedInOrder
    <3>1. i \in DOMAIN published /\ published'[i] = published[i]
      BY ONLY <1>10, i \in DOMAIN published', j \in DOMAIN published', i < j
    <3>2. CASE j \in DOMAIN published
      <4>1. published'[j] = published[j] BY <1>10, <3>2
      <4> QED BY <1>5, <3>1, <3>2, <4>1 DEF TellingStands, PublishedInOrder
    <3>3. CASE j = Len(published) + 1 BY <1>10, <1>11, <1>12, <3>1, <3>3
    <3> QED BY <1>10, <3>2, <3>3
  <2>3. call'.at # "stored" /\ call'.at # "committed" BY <1>4
  <2>4. \A e \in acked' : \E i \in DOMAIN o : o[i].event = e
    BY <1>3, <1>5 DEF TellingStands
  <2> QED BY <1>4, <1>8, <2>1, <2>2, <2>3, <2>4 DEF TellingStands
<1>15. MemoryStands(o)' BY <1>3, <1>4, <1>5 DEF MemoryStands
<1> QED BY <1>2, <1>3, <1>4, <1>14, <1>15 DEF Stands

LEMMA AnswerKeepsClean ==
    ASSUME Sound, NEW o, Stands(o), Answer
    PROVE  Stands(o)' /\ files' = files /\ call'.at = "free" /\ server' = "up"
<1>1. call.at = "published" /\ call.at # "free" BY DEF Answer
<1>2. server = "up" BY <1>1, CallNow DEF Sound
<1>3. /\ acked' = acked \cup {call.event} /\ call' = NoCall
      /\ UNCHANGED <<memory, files, server, published, crashes>>
  BY DEF Answer
<1>4. call'.at = "free" BY <1>3 DEF NoCall
<1>5. MemoryStands(o)' BY <1>1, <1>2, <1>3, <1>4 DEF Stands, MemoryStands
<1>6. TellingStands(o)'
  <2>1. Len(o) \in DOMAIN o /\ o[Len(o)].event = call.event
    BY <1>1 DEF Stands, TellingStands
  <2> QED BY <1>1, <1>3, <1>4, <2>1 DEF Stands, TellingStands, PublishedInOrder
<1> QED BY <1>2, <1>3, <1>4, <1>5, <1>6 DEF Stands

LEMMA FailStoreKeepsClean ==
    ASSUME CleanFailures, Sound, NEW o, Stands(o), FailStore
    PROVE  Stands(o)' /\ files' = files /\ call'.at = "free" /\ server' = "up"
<1>1. call.at = "append" /\ call.at # "free" BY DEF FailStore
<1>2. server = "up" BY <1>1, CallNow DEF Sound
<1>3. call' = NoCall /\ UNCHANGED <<memory, server, published, acked, crashes>>
  BY DEF FailStore
<1>4. files' = files
  <2>1. files \in [Streams -> LogFiles] BY DEF Sound, FilesSound
  <2> QED BY <2>1, TornClean DEF FailStore
<1>5. call'.at = "free" BY <1>3 DEF NoCall
<1>6. MemoryStands(o)' BY <1>1, <1>2, <1>3, <1>5 DEF Stands, MemoryStands
<1>7. TellingStands(o)'
  BY <1>1, <1>3, <1>5 DEF Stands, TellingStands, PublishedInOrder
<1> QED BY <1>2, <1>3, <1>4, <1>5, <1>6, <1>7 DEF Stands

LEMMA CrashKeepsClean ==
    ASSUME CleanFailures, Sound, NEW o, Stands(o), Crash
    PROVE  Stands(o)' /\ files' = files /\ call'.at = "free" /\ server' = "down"
<1>1. /\ server' = "down" /\ call' = NoCall /\ UNCHANGED <<published, acked>>
  BY DEF Crash
<1>2. files' = files
  <2>1. files \in [Streams -> LogFiles] BY DEF Sound, FilesSound
  <2>2. CASE UNCHANGED files BY <2>2
  <2>3. CASE \E fault \in AppendFaults :
                files' = [files EXCEPT ![call.event.stream] =
                              TornLine(@, RecordOf(memory, call.event), fault)]
    BY <2>1, <2>3, TornClean
  <2> QED BY <2>2, <2>3 DEF Crash
<1>3. call'.at = "free" BY <1>1 DEF NoCall
<1>4. MemoryStands(o)' BY <1>1 DEF MemoryStands
<1>5. TellingStands(o)' BY <1>1, <1>3 DEF Stands, TellingStands, PublishedInOrder
<1> QED BY <1>1, <1>2, <1>3, <1>4, <1>5 DEF Stands

LEMMA RestartKeepsClean ==
    ASSUME Sound, NEW o, Stands(o), Restart
    PROVE  Stands(o)' /\ files' = files /\ call'.at = "free" /\ server' = "up"
<1>1. /\ server = "down" /\ server' = "up"
      /\ UNCHANGED <<files, call, published, acked, crashes>>
  BY DEF Restart
<1>2. call.at = "free" BY <1>1 DEF Sound, TypeOK, NoCall
<1>3. PICK p \in ReadOrders(Durable(files)) : memory' = Replayed(p) BY DEF Restart
<1>4. p = o BY LogNow DEF Stands
<1>5. MemoryStands(o)' BY <1>1, <1>2, <1>3, <1>4 DEF MemoryStands
<1>6. TellingStands(o)' BY <1>1, <1>2 DEF Stands, TellingStands, PublishedInOrder
<1> QED BY <1>1, <1>2, <1>5, <1>6 DEF Stands

LEMMA NothingToRefuse ==
    ASSUME Sound, CleanLog
    PROVE  ~RefuseToStart
<1>1. PICK o \in ReadOrders(Durable(files)) : InGoodOrder(o) BY DEF CleanLog
<1>2. Readable(files) BY DEF CleanLog, Readable, Sound, TypeOK
<1>3. \A p \in ReadOrders(Durable(files)) : ReplayAccepts(p)
  BY <1>1, LogNow DEF InGoodOrder
<1> QED BY <1>2, <1>3 DEF RefuseToStart

LEMMA CleanInductive ==
    ASSUME CleanFailures, Sound, CleanLog, [Next]_vars
    PROVE  CleanLog'
<1>1. PICK o : Stands(o) BY DEF CleanLog, Stands
<1>2. \A s \in Streams : ~files[s].open /\ ~files[s].spoiled BY DEF CleanLog
<1>3. server # "refused" /\ (call.at = "append" => Verdict(memory, call.event) = "accepted")
  BY DEF CleanLog
<1>4. ASSUME NEW q, Stands(q)',
             \A s \in Streams : ~files'[s].open /\ ~files'[s].spoiled,
             server' # "refused",
             call'.at = "append" => Verdict(memory', call'.event) = "accepted"
      PROVE  CleanLog'
  BY <1>4 DEF CleanLog, Stands
<1>5. CASE \E e \in Events : Submit(e) BY <1>1, <1>2, <1>4, <1>5, SubmitKeepsClean
<1>6. CASE Store
  <2>1. PICK q : Stands(q)' BY <1>1, <1>6, StoreKeepsClean
  <2> QED BY <1>1, <1>4, <1>6, <2>1, StoreKeepsClean
<1>7. CASE FailStore BY <1>1, <1>2, <1>4, <1>7, FailStoreKeepsClean
<1>8. CASE CommitEvent BY <1>1, <1>2, <1>4, <1>8, CommitKeepsClean
<1>9. CASE Publish BY <1>1, <1>2, <1>4, <1>9, PublishKeepsClean
<1>10. CASE Answer BY <1>1, <1>2, <1>4, <1>10, AnswerKeepsClean
<1>11. CASE Crash BY <1>1, <1>2, <1>4, <1>11, CrashKeepsClean
<1>12. CASE Restart BY <1>1, <1>2, <1>4, <1>12, RestartKeepsClean
<1>13. CASE RefuseToStart BY <1>13, NothingToRefuse
<1>14. CASE UNCHANGED vars
  <2>1. UNCHANGED <<memory, files, call, server, published, acked, crashes>> BY <1>14 DEF vars
  <2>2. Stands(o)'
    BY <1>1, <2>1 DEF Stands, MemoryStands, TellingStands, PublishedInOrder
  <2> QED BY <1>2, <1>3, <1>4, <2>1, <2>2
<1> QED BY <1>5, <1>6, <1>7, <1>8, <1>9, <1>10, <1>11, <1>12, <1>13, <1>14 DEF Next

LEMMA AlwaysClean == CleanFailures => (Spec => [](Sound /\ CleanLog))
<1> SUFFICES ASSUME CleanFailures PROVE Spec => [](Sound /\ CleanLog) OBVIOUS
<1>1. Init => Sound /\ CleanLog BY SoundInit, CleanInit
<1>2. Sound /\ CleanLog /\ [Next]_vars => (Sound /\ CleanLog)'
  BY SoundInductive, CleanInductive
<1> QED BY <1>1, <1>2, PTL DEF Spec

\* No two records of the log carry one event id (submit_event over retries,
\* failed appends, crashes and replays).
THEOREM IdsAreUnique == CleanFailures => (Spec => []ExactlyOnce)
<1>1. ASSUME Sound, CleanLog PROVE ExactlyOnce
  <2>1. PICK o \in ReadOrders(Durable(files)) : InGoodOrder(o) BY <1>1 DEF CleanLog
  <2>2. DOMAIN o = 1 .. Len(o) /\ Len(o) \in Nat
        /\ \A r \in Durable(files) : r.acc \in DOMAIN o /\ o[r.acc] = r
    BY <1>1, <2>1, LogNow
  <2> SUFFICES ASSUME NEW r1 \in Durable(files), NEW r2 \in Durable(files), r1 # r2
               PROVE  r1.event.id # r2.event.id
    BY DEF ExactlyOnce
  <2>3. r1.acc < r2.acc \/ r2.acc < r1.acc BY <2>2
  <2> QED BY <2>1, <2>2, <2>3 DEF InGoodOrder
<1> QED BY <1>1, AlwaysClean, PTL

\* Acceptance numbers are the order of the log, and the order of each source
\* (submit_event's stale check over replays).
THEOREM SourcesInOrder == CleanFailures => (Spec => []SourceOrder)
<1>1. ASSUME Sound, CleanLog PROVE SourceOrder
  <2>1. PICK o \in ReadOrders(Durable(files)) : InGoodOrder(o) BY <1>1 DEF CleanLog
  <2>2. /\ DOMAIN o = 1 .. Len(o) /\ Len(o) \in Nat
        /\ \A r \in Durable(files) : r.acc \in DOMAIN o /\ o[r.acc] = r
        /\ Durable(files) \subseteq Records
    BY <1>1, <2>1, LogNow DEF Sound, TypeOK
  <2> SUFFICES ASSUME NEW r1 \in Durable(files), NEW r2 \in Durable(files), r1 # r2
               PROVE  /\ r1.acc # r2.acc
                      /\ r1.event.source = r2.event.source =>
                             (r1.acc < r2.acc <=> r1.event.seq < r2.event.seq)
    BY DEF SourceOrder
  <2>3. r1.acc < r2.acc \/ r2.acc < r1.acc BY <2>2
  <2>4. r1.event.seq \in Nat /\ r2.event.seq \in Nat /\ r1.acc \in Nat /\ r2.acc \in Nat
    BY <2>2, EventsAssumption DEF Records
  <2>5. CASE r1.acc < r2.acc
    <3>1. r1.event.source = r2.event.source => r1.event.seq < r2.event.seq
      BY <2>1, <2>2, <2>5 DEF InGoodOrder
    <3> QED BY <2>4, <2>5, <3>1
  <2>6. CASE r2.acc < r1.acc
    <3>1. r1.event.source = r2.event.source => r2.event.seq < r1.event.seq
      BY <2>1, <2>2, <2>6 DEF InGoodOrder
    <3> QED BY <2>4, <2>6, <3>1
  <2> QED BY <2>3, <2>5, <2>6
<1> QED BY <1>1, AlwaysClean, PTL

\* A runtime that is up remembers what a restart would rebuild from the log:
\* incremental commits and replay agree (submit_event, replay_record).
THEOREM CommitsAreReplay == CleanFailures => (Spec => []MemoryIsReplay)
<1>1. ASSUME Sound, CleanLog PROVE MemoryIsReplay
  <2>1. PICK o \in ReadOrders(Durable(files)) : InGoodOrder(o) /\ MemoryStands(o)
    BY <1>1 DEF CleanLog
  <2>2. \A p \in ReadOrders(Durable(files)) : p = o BY <1>1, <2>1, LogNow
  <2> QED BY <2>1, <2>2 DEF MemoryIsReplay, MemoryStands
<1> QED BY <1>1, AlwaysClean, PTL

\* What a client was told is accepted, and what a page was sent, is in the log
\* (submit_event publishes and answers after the append).
THEOREM ToldIsDurable == CleanFailures => (Spec => []SeenIsDurable)
<1>1. ASSUME Sound, CleanLog PROVE SeenIsDurable
  <2>1. PICK o \in ReadOrders(Durable(files)) : InGoodOrder(o) /\ TellingStands(o)
    BY <1>1 DEF CleanLog
  <2>2. \A i \in DOMAIN o : o[i] \in Durable(files) BY <1>1, <2>1, LogNow
  <2>3. ASSUME NEW e \in acked PROVE \E r \in Durable(files) : r.event = e
    BY <2>1, <2>2 DEF TellingStands
  <2>4. ASSUME NEW i \in DOMAIN published PROVE published[i] \in Durable(files)
    BY <2>1, <2>2 DEF TellingStands
  <2> QED BY <2>3, <2>4 DEF SeenIsDurable
<1> QED BY <1>1, AlwaysClean, PTL

\* Live clients are sent the events in the order of the log, each once, over
\* crashes and restarts (submit_event publishes under its mutex).
THEOREM PagesFollowTheLog == CleanFailures => (Spec => []PublishedInOrder)
<1>1. CleanLog => PublishedInOrder BY DEF CleanLog, TellingStands
<1> QED BY <1>1, AlwaysClean, PTL

\* main never refuses a log the runtime wrote: every record a crash leaves is
\* one that replay accepts, in the order read_all returns.
THEOREM OwnLogReplays == CleanFailures => (Spec => []RestartSucceeds)
<1>1. CleanLog => RestartSucceeds BY DEF CleanLog, RestartSucceeds
<1> QED BY <1>1, AlwaysClean, PTL

-----------------------------------------------------------------------------
(* The runtime is an AcceptedLog.                                          *)

LEMMA ChosenOrder ==
    ASSUME NEW D, IsFiniteSet(D), D \subseteq Records,
           NEW o \in ReadOrders(D), InGoodOrder(o)
    PROVE  (CHOOSE x \in ReadOrders(D) : TRUE) = o
<1>1. (CHOOSE x \in ReadOrders(D) : TRUE) \in ReadOrders(D) OBVIOUS
<1> QED BY <1>1, OneGoodOrder

EventsOf(o) == [i \in DOMAIN o |-> o[i].event]

\* AcceptedLog's states of a stream, one after each event of l.
StatesOf(l, s) ==
    CHOOSE after : after =
        [n \in 0 .. Len(l) |-> IF n = 0 THEN NewStream
                               ELSE IF l[n].stream = s THEN Apply(after[n - 1], l[n].body)
                               ELSE after[n - 1]]

LEMMA StatesOfRecords ==
    ASSUME NEW o \in Seq(Records), NEW l, l = EventsOf(o), NEW s
    PROVE  StatesOf(l, s)[Len(l)] = StreamAfter(o, s)
<1>1. Len(o) \in Nat /\ DOMAIN o = 1 .. Len(o) BY LenProperties
<1>2. Len(l) = Len(o) /\ \A n \in 1 .. Len(o) : l[n] = o[n].event
  <2>1. l = [n \in 1 .. Len(o) |-> o[n].event] BY <1>1 DEF EventsOf
  <2> QED BY <1>1, <2>1
<1>3. PICK f : f = StreamStates(o, s)
               /\ f = [k \in 0 .. Len(o) |->
                          IF k = 0 THEN NewStream
                          ELSE IF o[k].event.stream = s THEN Apply(f[k - 1], o[k].event.body)
                          ELSE f[k - 1]]
  BY ONLY <1>1, StatesDefined
<1>4. f = [n \in 0 .. Len(l) |-> IF n = 0 THEN NewStream
                                 ELSE IF l[n].stream = s THEN Apply(f[n - 1], l[n].body)
                                 ELSE f[n - 1]]
  <2> DEFINE h == [n \in 0 .. Len(l) |-> IF n = 0 THEN NewStream
                                 ELSE IF l[n].stream = s THEN Apply(f[n - 1], l[n].body)
                                 ELSE f[n - 1]]
  <2>1. ASSUME NEW n \in 0 .. Len(o) PROVE f[n] = h[n]
    <3>1. CASE n = 0 BY <1>2, <1>3, <3>1
    <3>2. CASE n # 0
      <4>1. l[n] = o[n].event BY <1>1, <1>2, <3>2
      <4>2. f[n] = IF o[n].event.stream = s THEN Apply(f[n - 1], o[n].event.body)
                   ELSE f[n - 1]
        BY <1>1, <1>3, <3>2
      <4>3. h[n] = IF l[n].stream = s THEN Apply(f[n - 1], l[n].body) ELSE f[n - 1]
        BY <1>1, <1>2, <3>2
      <4> QED BY ONLY <4>1, <4>2, <4>3
    <3> QED BY <3>1, <3>2
  <2>2. f = [n \in 0 .. Len(o) |-> f[n]] BY <1>3
  <2>3. h = [n \in 0 .. Len(o) |-> h[n]] BY <1>2
  <2> HIDE DEF h
  <2>4. f = h BY ONLY <2>1, <2>2, <2>3
  <2> QED BY <2>4 DEF h
<1>5. PICK g : g = StatesOf(l, s) OBVIOUS
<1>6. g = [n \in 0 .. Len(l) |-> IF n = 0 THEN NewStream
                                 ELSE IF l[n].stream = s THEN Apply(g[n - 1], l[n].body)
                                 ELSE g[n - 1]]
  BY ONLY <1>4, <1>5 DEF StatesOf
<1> DEFINE Same == {n \in Nat : n <= Len(o) => g[n] = f[n]}
<1>7. \A n \in Nat : n \in Same
  <2>1. 0 \in Same BY <1>1, <1>2, <1>3, <1>6
  <2>2. ASSUME NEW n \in Nat, n \in Same PROVE n + 1 \in Same
    <3> SUFFICES ASSUME n + 1 <= Len(o) PROVE g[n + 1] = f[n + 1] OBVIOUS
    <3>1. g[n] = f[n] BY <1>1, <2>2
    <3>2. n + 1 \in 1 .. Len(o) /\ n + 1 - 1 = n /\ n + 1 # 0 BY <1>1
    <3>3. f[n + 1] = IF l[n + 1].stream = s THEN Apply(f[n], l[n + 1].body) ELSE f[n]
      BY ONLY <1>1, <1>2, <1>4, <3>2, n \in Nat
    <3>4. g[n + 1] = IF l[n + 1].stream = s THEN Apply(g[n], l[n + 1].body) ELSE g[n]
      BY ONLY <1>1, <1>2, <1>6, <3>2, n \in Nat
    <3> QED BY ONLY <3>1, <3>3, <3>4
  <2> HIDE DEF Same
  <2> QED BY <2>1, <2>2, NatSetInduction
<1>8. g[Len(o)] = f[Len(o)]
  <2>1. Len(o) \in Same BY <1>1, <1>7
  <2> QED BY <1>1, <2>1
<1>9. f[Len(o)] = StreamAfter(o, s) BY <1>3 DEF StreamAfter
<1> HIDE DEF Same
<1> QED BY ONLY <1>2, <1>5, <1>8, <1>9

LEMMA DurableLogIs ==
    ASSUME Sound, NEW o, Stands(o)
    PROVE  DurableLog = EventsOf(o)
<1>1. (CHOOSE x \in ReadOrders(Durable(files)) : TRUE) = o
  BY ChosenOrder DEF Sound, FilesSound, TypeOK, Stands
<1>2. PICK p : p = CHOOSE x \in ReadOrders(Durable(files)) : TRUE OBVIOUS
<1>3. DurableLog = [i \in DOMAIN p |-> p[i].event] BY <1>2 DEF DurableLog
<1>4. p = o BY <1>1, <1>2, Zenon
<1> QED BY ONLY <1>3, <1>4 DEF EventsOf

LEMMA DurableLogIsNext ==
    ASSUME Sound', NEW o, Stands(o)'
    PROVE  DurableLog' = EventsOf(o)
<1>1. (CHOOSE x \in ReadOrders(Durable(files')) : TRUE) = o
  BY ChosenOrder DEF Sound, FilesSound, TypeOK, Stands
<1>2. PICK p : p = CHOOSE x \in ReadOrders(Durable(files')) : TRUE OBVIOUS
<1>3. DurableLog' = [i \in DOMAIN p |-> p[i].event] BY <1>2 DEF DurableLog
<1>4. p = o BY <1>1, <1>2, Zenon
<1> QED BY ONLY <1>3, <1>4 DEF EventsOf

\* The append of an event's record is where AcceptedLog accepts the event.
LEMMA StoreAccepts ==
    ASSUME Sound, Sound', CleanLog, NEW o, Stands(o), Store
    PROVE  call.event \in Events /\ Promised!Accept(call.event)
<1>1. PICK e : e = call.event OBVIOUS
<1>2. PICK m : m = memory OBVIOUS
<1>3. PICK l : l = DurableLog OBVIOUS
<1>4. PICK rec : rec = RecordOf(m, e) OBVIOUS
<1>5. call.at = "append" /\ call.at # "free" /\ acked' = acked BY DEF Store
<1>6. /\ server = "up" /\ e \in Events /\ Verdict(m, e) = "accepted"
      /\ rec \in Records /\ rec.event = e
  BY <1>1, <1>2, <1>4, <1>5, CallNow DEF Sound, CleanLog
<1>7. o \in Seq(Records) /\ Len(o) \in Nat /\ DOMAIN o = 1 .. Len(o)
  BY LogNow DEF Stands
<1>8. m = Replayed(o) /\ InGoodOrder(o)
  BY <1>2, <1>5, <1>6 DEF Stands, MemoryStands
<1>9. l = EventsOf(o) BY <1>3, DurableLogIs
<1>10. /\ \A i \in DOMAIN o :
             /\ o[i].event.id # e.id
             /\ o[i].event.source = e.source => o[i].event.seq < e.seq
       /\ Accepts(StreamAfter(o, e.stream), e.body)
  <2>1. o \in Seq(Records) /\ e \in Events /\ Verdict(m, e) = "accepted" BY <1>6, <1>7
  <2> QED BY ONLY <1>8, <2>1, GoodReplay
<1>11. \A i \in DOMAIN l : l[i].id # e.id /\ (l[i].source = e.source => l[i].seq < e.seq)
  BY ONLY <1>9, <1>10 DEF EventsOf
<1>12. Promised!StateIn(e.stream) = StreamAfter(o, e.stream)
  <2>1. Promised!StateIn(e.stream) = StatesOf(DurableLog, e.stream)[Len(DurableLog)]
    BY DEF Promised!StateIn, StatesOf
  <2>2. PICK s : s = e.stream OBVIOUS
  <2>3. StatesOf(l, s)[Len(l)] = StreamAfter(o, s) BY ONLY <1>7, <1>9, StatesOfRecords
  <2> QED BY ONLY <1>3, <2>1, <2>2, <2>3
<1>13. DurableLog' = Append(l, e)
  <2>1. PICK q : Stands(q)' /\ q = Append(o, rec)
    BY <1>1, <1>2, <1>4, StoreKeepsClean
  <2>2. DurableLog' = EventsOf(q) BY <2>1, DurableLogIsNext
  <2>3. /\ DOMAIN q = 1 .. Len(o) + 1 /\ Len(o) \in Nat /\ DOMAIN o = 1 .. Len(o)
        /\ \A i \in 1 .. Len(o) : q[i] = o[i]
        /\ q[Len(o) + 1] = rec
    BY ONLY <1>6, <1>7, <2>1, AppendEntries
  <2>4. EventsOf(q) = Append(l, e)
    <3>1. l = [i \in 1 .. Len(o) |-> o[i].event] BY ONLY <1>7, <1>9 DEF EventsOf
    <3>2. \A i \in 1 .. Len(o) : o[i].event \in Events
      <4>1. \A i \in 1 .. Len(o) : o[i] \in Records BY ONLY <1>7
      <4>2. \A r \in Records : r.event \in Events BY DEF Records
      <4> QED BY ONLY <4>1, <4>2
    <3>3. l \in Seq(Events) /\ Len(l) = Len(o) BY ONLY <1>7, <3>1, <3>2
    <3>4. EventsOf(q) = [i \in 1 .. Len(o) + 1 |-> q[i].event] BY ONLY <2>3 DEF EventsOf
    <3>5. /\ \A i \in 1 .. Len(o) : q[i].event = l[i] /\ q[i].event \in Events
          /\ q[Len(o) + 1].event = e
      BY ONLY <1>6, <1>7, <2>3, <3>1, <3>2
    <3>6. PICK k : k = EventsOf(q) OBVIOUS
    <3>7. /\ k \in Seq(Events) /\ Len(k) = Len(o) + 1
          /\ \A i \in 1 .. Len(o) : k[i] = l[i]
          /\ k[Len(o) + 1] = e
      <4>1. \A i \in 1 .. Len(o) + 1 : q[i].event \in Events
        BY ONLY <1>6, <1>7, <3>5
      <4> QED BY ONLY <1>7, <3>4, <3>5, <3>6, <4>1
    <3>8. PICK a : a = Append(l, e) OBVIOUS
    <3>9. /\ a \in Seq(Events) /\ Len(a) = Len(o) + 1
          /\ \A i \in 1 .. Len(o) : a[i] = l[i]
          /\ a[Len(o) + 1] = e
      <4>1. e \in Events BY <1>6
      <4>2. /\ a \in Seq(Events) /\ Len(a) = Len(l) + 1
            /\ \A i \in 1 .. Len(l) : a[i] = l[i]
            /\ a[Len(l) + 1] = e
        BY ONLY <3>3, <3>8, <4>1, AppendEntries
      <4> QED BY ONLY <3>3, <4>2
    <3>10. \A i \in 1 .. Len(k) : k[i] = a[i] BY ONLY <1>7, <3>7, <3>9
    <3>11. k = a BY ONLY <3>7, <3>9, <3>10, SeqEqual
    <3> QED BY <3>6, <3>8, <3>11
  <2> QED BY <2>2, <2>4
<1> QED BY <1>1, <1>3, <1>5, <1>6, <1>10, <1>11, <1>12, <1>13 DEF Promised!Accept

\* An event is acknowledged when its record is in the log.
LEMMA AcksAcknowledge ==
    ASSUME Sound, NEW o, Stands(o), Stands(o)', files' = files,
           NEW e \in Events, acked' = acked \cup {e}
    PROVE  Promised!Acknowledge(e)
<1>1. DurableLog = EventsOf(o) BY DurableLogIs
<1>2. DurableLog' = DurableLog BY DEF DurableLog
<1>3. \E i \in DOMAIN o : o[i].event = e BY DEF Stands, TellingStands
<1>4. \E i \in DOMAIN DurableLog : DurableLog[i] = e BY ONLY <1>1, <1>3 DEF EventsOf
<1> QED BY <1>2, <1>4 DEF Promised!Acknowledge

LEMMA StepsAreSteps ==
    ASSUME CleanFailures, Sound, Sound', CleanLog, [Next]_vars
    PROVE  [Promised!Next]_<<DurableLog, acked>>
<1>1. PICK o : Stands(o) BY DEF CleanLog, Stands
<1>2. ASSUME files' = files, acked' = acked PROVE UNCHANGED <<DurableLog, acked>>
  BY <1>2 DEF DurableLog
<1>3. CASE \E e \in Events : Submit(e)
  <2>1. PICK e \in Events : Submit(e) BY <1>3
  <2>2. Stands(o)' /\ files' = files BY <1>1, <2>1, SubmitKeepsClean
  <2>3. CASE UNCHANGED acked BY <1>2, <2>2, <2>3
  <2>4. CASE acked' = acked \cup {e}
    <3>1. Promised!Acknowledge(e) BY <1>1, <2>2, <2>4, AcksAcknowledge
    <3> QED BY <3>1 DEF Promised!Next
  <2> QED BY <2>1, <2>3, <2>4 DEF Submit
<1>4. CASE Store
  <2>1. call.event \in Events /\ Promised!Accept(call.event) BY <1>1, <1>4, StoreAccepts
  <2> QED BY <2>1 DEF Promised!Next
<1>5. CASE FailStore BY <1>1, <1>2, <1>5, FailStoreKeepsClean DEF FailStore
<1>6. CASE CommitEvent BY <1>2, <1>6 DEF CommitEvent
<1>7. CASE Publish BY <1>2, <1>7 DEF Publish
<1>8. CASE Answer
  <2>1. Stands(o)' /\ files' = files BY <1>1, <1>8, AnswerKeepsClean
  <2>2. call.at # "free" /\ acked' = acked \cup {call.event} BY <1>8 DEF Answer
  <2>3. call.event \in Events BY <2>2, CallNow DEF Sound
  <2>4. PICK e \in Events : e = call.event BY <2>3
  <2>5. Promised!Acknowledge(e) BY <1>1, <2>1, <2>2, <2>4, AcksAcknowledge
  <2> QED BY <2>5 DEF Promised!Next
<1>9. CASE Crash BY <1>1, <1>2, <1>9, CrashKeepsClean DEF Crash
<1>10. CASE Restart BY <1>2, <1>10 DEF Restart
<1>11. CASE RefuseToStart BY <1>2, <1>11 DEF RefuseToStart
<1>12. CASE UNCHANGED vars BY <1>2, <1>12 DEF vars
<1> QED BY <1>3, <1>4, <1>5, <1>6, <1>7, <1>8, <1>9, <1>10, <1>11, <1>12 DEF Next

\* Verdicts from memory, appends, failures, crashes and replays implement one
\* log that only grows, each event in it once, in order and legal where it
\* stands, and acknowledged only when it is in it.
THEOREM RuntimeIsOneLog == CleanFailures => (Spec => ImplementsAcceptedLog)
<1> SUFFICES ASSUME CleanFailures PROVE Spec => ImplementsAcceptedLog OBVIOUS
<1>1. Init => Promised!Init
  <2> SUFFICES ASSUME Init PROVE Promised!Init OBVIOUS
  <2>1. Durable(files) = {} /\ acked = {} BY DEF Init, Durable, NoFile
  <2>2. PICK o \in ReadOrders(Durable(files)) : TRUE BY CleanInit DEF CleanLog
  <2>3. DurableLog = <<>>
    <3>1. PICK x : x = CHOOSE y \in ReadOrders(Durable(files)) : TRUE OBVIOUS
    <3>2. x \in ReadOrders({}) BY <2>1, <2>2, <3>1
    <3>3. DOMAIN x = {}
      <4>1. IsFiniteSet({}) BY FS_EmptySet
      <4>2. PICK D : D = {} OBVIOUS
      <4>3. \A i \in DOMAIN x : x[i] \in D BY <3>2, <4>1, <4>2, OrderFacts
      <4> QED BY <4>2, <4>3
    <3>4. DurableLog = [i \in DOMAIN x |-> x[i].event] BY <3>1 DEF DurableLog
    <3> QED BY <3>3, <3>4
  <2> QED BY <2>1, <2>3 DEF Promised!Init
<1>2. Sound /\ Sound' /\ CleanLog /\ [Next]_vars => [Promised!Next]_<<DurableLog, acked>>
  BY StepsAreSteps
<1>3. Spec => [](Sound /\ CleanLog) BY AlwaysClean
<1> QED BY <1>1, <1>2, <1>3, PTL DEF Spec, ImplementsAcceptedLog, Promised!Spec

=============================================================================
