---------------------------- MODULE DataLemmas ----------------------------
(***************************************************************************)
(* What the proofs need to know of numbers, lists and sums, whatever they  *)
(* are about.  Induction over the naturals comes in the form of sets: the  *)
(* well-foundedness of < gives a set of naturals a least element, and the  *)
(* least counterexample does the rest.                                     *)
(***************************************************************************)
EXTENDS Integers, SequencesExt, WellFoundedInduction, FiniteSetTheorems,
        SequenceTheorems, TLAPS

LEMMA LeastNatural ==
    ASSUME NEW S, S \subseteq Nat, S # {}
    PROVE  \E x \in S : \A y \in S : x <= y
<1>1. PICK x \in S : \A y \in S : ~(<<y, x>> \in OpToRel(<, Nat))
  BY NatLessThanWellFounded, WFMin, Zenon
<1>2. \A y \in S : ~(y < x) BY <1>1 DEF OpToRel
<1> QED BY <1>2

LEMMA NatSetInduction ==
    ASSUME NEW S, 0 \in S, \A n \in Nat : n \in S => n + 1 \in S
    PROVE  \A n \in Nat : n \in S
<1> SUFFICES ASSUME Nat \ S # {} PROVE FALSE OBVIOUS
<1>1. PICK x \in Nat \ S : \A y \in Nat \ S : x <= y
  <2>1. Nat \ S \subseteq Nat OBVIOUS
  <2> QED BY <2>1, LeastNatural
<1>2. x - 1 \in Nat /\ x - 1 \in S BY <1>1
<1> QED BY <1>2

\* The greatest element, as Max of the community modules has it.
LEMMA GreatestNatural ==
    ASSUME NEW n \in Nat, NEW S, S \subseteq 1 .. n, S # {}
    PROVE  \E x \in S : \A y \in S : x >= y
<1> DEFINE Bounds == {b \in Nat : \A y \in S : y <= b}
<1>1. Bounds # {} BY n \in Bounds
<1>2. PICK b \in Bounds : \A c \in Bounds : b <= c BY <1>1, LeastNatural
<1>3. b \in S
  <2> SUFFICES ASSUME b \notin S PROVE FALSE OBVIOUS
  <2>1. \A y \in S : y <= b - 1 BY <1>2
  <2>2. b - 1 \in Nat
    <3>1. PICK y : y \in S OBVIOUS
    <3>2. y \in Nat /\ y >= 1 /\ y <= b BY <1>2, <3>1
    <3> QED BY <3>2
  <2>3. b - 1 \in Bounds BY <2>1, <2>2
  <2> QED BY <1>2, <2>2, <2>3
<1> QED BY <1>2, <1>3

-----------------------------------------------------------------------------
\* A sequence of something.
Listed(q) == q \in Seq(Range(q))

LEMMA CountTo == \A n \in Nat : IsFiniteSet(1..n) /\ Cardinality(1..n) = n
<1> SUFFICES ASSUME NEW n \in Nat PROVE IsFiniteSet(1..n) /\ Cardinality(1..n) = n
  OBVIOUS
<1>1. CASE n = 0
  <2>1. 1..n = {} BY <1>1
  <2> QED BY <1>1, <2>1, FS_EmptySet
<1>2. CASE n # 0 BY <1>2, FS_Interval
<1> QED BY <1>1, <1>2

\* The list SetToSeq makes of a set.
LEMMA ListOfSet ==
    ASSUME NEW S, IsFiniteSet(S), NEW q, q = SetToSeq(S)
    PROVE  Listed(q) /\ Range(q) = S
<1> DEFINE n == Cardinality(S)
<1>1. n \in Nat /\ ExistsBijection(1..n, S) BY FS_CardinalityType
<1>2. \E f \in [1..n -> S] : IsInjective(f)
  BY <1>1 DEF ExistsBijection, Bijection, Injection
<1>3. q \in [1..n -> S] /\ IsInjective(q) BY <1>2, Zenon DEF SetToSeq
<1>4. Cardinality(1..n) = n /\ IsFiniteSet(1..n) BY <1>1, CountTo
<1>5. q \in Injection(1..n, S) BY <1>3 DEF Injection
<1>6. q \in Surjection(1..n, S) BY <1>4, <1>5, FS_Injection
<1>7. DOMAIN q = 1..n /\ \A x \in S : \E i \in 1..n : q[i] = x
  BY <1>3, <1>6 DEF Surjection
<1>8. Range(q) = S BY <1>3, <1>7 DEF Range
<1>9. q \in Seq(S) BY <1>1, <1>3
<1> QED BY <1>8, <1>9 DEF Listed

LEMMA ListIsOfItsRange ==
    ASSUME NEW S, NEW q \in Seq(S) PROVE Listed(q) /\ Range(q) \subseteq S
<1>1. Len(q) \in Nat /\ DOMAIN q = 1..Len(q) /\ q \in [1..Len(q) -> S]
  BY LenProperties
<1>2. Range(q) \subseteq S BY <1>1 DEF Range
<1>3. q \in [1..Len(q) -> Range(q)] BY <1>1 DEF Range
<1>4. q \in Seq(Range(q)) BY <1>1, <1>3
<1> QED BY <1>2, <1>4 DEF Listed

LEMMA HeadAndTail ==
    ASSUME NEW q, Listed(q), q # <<>>
    PROVE  Listed(Tail(q)) /\ Head(q) \in Range(q) /\ Range(q) = Range(Tail(q)) \cup {Head(q)}
<1> DEFINE S == Range(q)
           u == Tail(q)
<1>1. q \in Seq(S) BY DEF Listed
<1> HIDE DEF S
<1>2. /\ Head(q) \in S /\ u \in Seq(S) /\ Len(u) = Len(q) - 1 /\ Len(q) \in Nat \ {0}
      /\ DOMAIN u = 1..Len(u) /\ DOMAIN q = 1..Len(q)
      /\ \A i \in 1..Len(u) : u[i] = q[i + 1]
  BY <1>1, HeadTailProperties, LenProperties, EmptySeq
<1>3. Head(q) = q[1] /\ 1 \in DOMAIN q BY <1>2
<1>4. Listed(u) BY <1>2, ListIsOfItsRange
<1> HIDE DEF u
<1>5. \A i \in DOMAIN q : i = 1 \/ (i - 1 \in DOMAIN u /\ u[i - 1] = q[i]) BY <1>2
<1>6. \A i \in DOMAIN u : i + 1 \in DOMAIN q /\ u[i] = q[i + 1] BY <1>2
<1>7. Range(q) \subseteq Range(u) \cup {Head(q)} BY <1>3, <1>5 DEF Range
<1>8. Range(u) \cup {Head(q)} \subseteq Range(q) BY <1>3, <1>6 DEF Range
<1> QED BY <1>4, <1>7, <1>8 DEF u

-----------------------------------------------------------------------------
Chosen(s) == CHOOSE x \in s : TRUE

\* The function g gives the sum of f over each part of its domain.
SumsUp(g, f) ==
    /\ g[{}] = 0
    /\ \A s \in SUBSET DOMAIN f : s # {} => \E x \in s : g[s] = f[x] + g[s \ {x}]

\* Choosing an element after the other leads through all of a finite set.
LEMMA SumsExist ==
    ASSUME NEW f, IsFiniteSet(DOMAIN f)
    PROVE  /\ \E g : g = [s \in SUBSET DOMAIN f |->
                         IF s = {} THEN 0 ELSE f[Chosen(s)] + g[s \ {Chosen(s)}]]
           /\ \A g : g = [s \in SUBSET DOMAIN f |->
                         IF s = {} THEN 0 ELSE f[Chosen(s)] + g[s \ {Chosen(s)}]]
                     => SumsUp(g, f)
<1> DEFINE D == DOMAIN f
           Upto(n) == {s \in SUBSET D : Cardinality(s) <= n}
           Built == {n \in Nat : \E g : g = [s \in Upto(n) |->
                         IF s = {} THEN 0 ELSE f[Chosen(s)] + g[s \ {Chosen(s)}]]}
<1>2. \A s \in SUBSET D : IsFiniteSet(s) /\ Cardinality(s) \in Nat
  BY FS_Subset, FS_CardinalityType
<1>3. \A s \in SUBSET D : s # {} =>
          /\ Chosen(s) \in s /\ s \ {Chosen(s)} \in SUBSET D
          /\ Cardinality(s \ {Chosen(s)}) = Cardinality(s) - 1
  <2> SUFFICES ASSUME NEW s \in SUBSET D, s # {}
               PROVE  /\ Chosen(s) \in s /\ s \ {Chosen(s)} \in SUBSET D
                      /\ Cardinality(s \ {Chosen(s)}) = Cardinality(s) - 1
    OBVIOUS
  <2>1. PICK x : x = Chosen(s) OBVIOUS
  <2>2. x \in s BY <2>1 DEF Chosen
  <2>3. IsFiniteSet(s) BY <1>2
  <2>4. Cardinality(s \ {x}) = Cardinality(s) - 1 BY <2>2, <2>3, FS_RemoveElement
  <2> QED BY <2>1, <2>2, <2>4
<1>4. \A n \in Nat : n \in Built
  <2>1. 0 \in Built
    <3>1. \A s \in Upto(0) : s = {}
      <4>1. \A s \in Upto(0) : Cardinality(s) = 0 BY <1>2
      <4> QED BY <1>2, <4>1, FS_EmptySet
    <3> DEFINE g == [s \in Upto(0) |-> 0]
               h == [s \in Upto(0) |->
                         IF s = {} THEN 0 ELSE f[Chosen(s)] + g[s \ {Chosen(s)}]]
    <3>2. \A s \in Upto(0) : g[s] = h[s] BY <3>1
    <3>3. g = h
      <4>1. g = [s \in Upto(0) |-> g[s]] /\ h = [s \in Upto(0) |-> h[s]] OBVIOUS
      <4> HIDE DEF g, h, Upto
      <4> QED BY <3>2, <4>1
    <3> HIDE DEF g, Upto
    <3> QED BY <3>3
  <2>2. ASSUME NEW n \in Nat, n \in Built PROVE n + 1 \in Built
    <3>1. PICK f1 : f1 = [s \in Upto(n) |->
                        IF s = {} THEN 0 ELSE f[Chosen(s)] + f1[s \ {Chosen(s)}]]
      BY <2>2
    <3> DEFINE g == [s \in Upto(n + 1) |->
                         IF s = {} THEN 0 ELSE f[Chosen(s)] + f1[s \ {Chosen(s)}]]
               h == [s \in Upto(n + 1) |->
                         IF s = {} THEN 0 ELSE f[Chosen(s)] + g[s \ {Chosen(s)}]]
    <3>2. ASSUME NEW s \in Upto(n + 1), s # {} PROVE g[s] = h[s]
      <4>1. PICK u : u = s \ {Chosen(s)} OBVIOUS
      <4>2. u \in Upto(n) /\ u \in Upto(n + 1)
        <5>1. s \in SUBSET D /\ Cardinality(s) <= n + 1 OBVIOUS
        <5>2. u \in SUBSET D /\ Cardinality(u) = Cardinality(s) - 1
          BY <1>3, <3>2, <4>1, <5>1
        <5>3. Cardinality(u) \in Nat /\ Cardinality(s) \in Nat BY <1>2, <5>1, <5>2
        <5> QED BY <5>1, <5>2, <5>3
      <4> HIDE DEF Upto
      <4>3. g[u] = IF u = {} THEN 0 ELSE f[Chosen(u)] + f1[u \ {Chosen(u)}] BY <4>2
      <4>4. f1[u] = IF u = {} THEN 0 ELSE f[Chosen(u)] + f1[u \ {Chosen(u)}] BY <3>1, <4>2
      <4>5. g[s] = f[Chosen(s)] + f1[u] BY <3>2, <4>1
      <4>6. h[s] = f[Chosen(s)] + g[u]
        <5> HIDE DEF g
        <5> QED BY <3>2, <4>1
      <4> QED BY <4>3, <4>4, <4>5, <4>6
    <3>3. \A s \in Upto(n + 1) : g[s] = h[s]
      <4>1. ASSUME NEW s \in Upto(n + 1), s = {} PROVE g[s] = h[s] BY <4>1
      <4> QED BY <3>2, <4>1
    <3>4. g = h
      <4>1. g = [s \in Upto(n + 1) |-> g[s]] /\ h = [s \in Upto(n + 1) |-> h[s]] OBVIOUS
      <4> HIDE DEF g, h, Upto
      <4> QED BY <3>3, <4>1
    <3> HIDE DEF g, Upto
    <3> QED BY <3>4
  <2> HIDE DEF Built
  <2> QED BY <2>1, <2>2, NatSetInduction
<1>5. Upto(Cardinality(D)) = SUBSET D BY FS_Subset, <1>2
<1>6. \E g : g = [s \in SUBSET D |->
                     IF s = {} THEN 0 ELSE f[Chosen(s)] + g[s \ {Chosen(s)}]]
  <2>1. Cardinality(D) \in Built BY <1>2, <1>4
  <2> HIDE DEF Upto
  <2> QED BY <1>5, <2>1
<1>7. ASSUME NEW g, g = [s \in SUBSET D |->
                             IF s = {} THEN 0 ELSE f[Chosen(s)] + g[s \ {Chosen(s)}]]
      PROVE  SumsUp(g, f)
  <2>1. g[{}] = 0 BY <1>7
  <2>2. \A s \in SUBSET D : s # {} => g[s] = f[Chosen(s)] + g[s \ {Chosen(s)}] BY <1>7
  <2> QED BY <1>3, <2>1, <2>2 DEF SumsUp
<1> QED BY <1>6, <1>7

\* FoldFunction with + is such a sum.
LEMMA FoldedSum ==
    ASSUME NEW f, IsFiniteSet(DOMAIN f)
    PROVE  \E g : FoldFunction(+, 0, f) = g[DOMAIN f] /\ SumsUp(g, f)
<1> DEFINE sum == CHOOSE g : g = [s \in SUBSET DOMAIN f |->
                         IF s = {} THEN 0 ELSE f[Chosen(s)] + g[s \ {Chosen(s)}]]
<1>1. FoldFunction(+, 0, f) = sum[DOMAIN f]
  BY Zenon DEF FoldFunction, FoldFunctionOnSet, MapThenFoldSet, Chosen
<1>2. sum = [s \in SUBSET DOMAIN f |->
                 IF s = {} THEN 0 ELSE f[Chosen(s)] + sum[s \ {Chosen(s)}]]
  BY SumsExist, Zenon
<1> HIDE DEF sum
<1>3. SumsUp(sum, f) BY <1>2, SumsExist, Zenon
<1> QED BY <1>1, <1>3, Zenon

\* A sum is no more than the things counted, if each of its numbers is no more
\* than the things counted for it, and none is counted twice.
LEMMA SumBounded ==
    ASSUME NEW f, IsFiniteSet(DOMAIN f), \A x \in DOMAIN f : f[x] \in Nat,
           NEW S, IsFiniteSet(S), NEW kind,
           \A x \in DOMAIN f : f[x] <= Cardinality({y \in S : kind[y] = x}),
           NEW g, SumsUp(g, f)
    PROVE  g[DOMAIN f] \in Nat /\ g[DOMAIN f] <= Cardinality(S)
<1> DEFINE D == DOMAIN f
           Of(s) == {y \in S : kind[y] \in s}
<1>1. /\ g[{}] = 0
      /\ \A s \in SUBSET D : s # {} => \E x \in s : g[s] = f[x] + g[s \ {x}]
  BY DEF SumsUp
<1>2. \A s \in SUBSET D : IsFiniteSet(s) /\ Cardinality(s) \in Nat
  BY FS_Subset, FS_CardinalityType
<1>3. \A T \in SUBSET S : IsFiniteSet(T) /\ Cardinality(T) \in Nat /\ Cardinality(T) <= Cardinality(S)
  BY FS_Subset, FS_CardinalityType
<1> DEFINE Small == {n \in Nat : \A s \in SUBSET D :
                        Cardinality(s) = n => g[s] \in Nat /\ g[s] <= Cardinality(Of(s))}
<1>4. \A n \in Nat : n \in Small
  <2>1. 0 \in Small
    <3> SUFFICES ASSUME NEW s \in SUBSET D, Cardinality(s) = 0
                 PROVE  g[s] \in Nat /\ g[s] <= Cardinality(Of(s))
      OBVIOUS
    <3>1. s = {} BY <1>2, FS_EmptySet
    <3>2. PICK c : c = Cardinality(Of(s)) OBVIOUS
    <3>3. c \in Nat BY <1>3, <3>2
    <3>4. g[s] = 0 BY <1>1, <3>1
    <3> QED BY <3>2, <3>3, <3>4
  <2>2. ASSUME NEW n \in Nat, n \in Small PROVE n + 1 \in Small
    <3> SUFFICES ASSUME NEW s \in SUBSET D, Cardinality(s) = n + 1
                 PROVE  g[s] \in Nat /\ g[s] <= Cardinality(Of(s))
      OBVIOUS
    <3>1. s # {} BY FS_EmptySet
    <3>2. PICK x \in s : g[s] = f[x] + g[s \ {x}] BY <1>1, <3>1
    <3>3. PICK u : u = s \ {x} OBVIOUS
    <3>4. u \in SUBSET D /\ Cardinality(u) = n
      <4>1. Cardinality(s \ {x}) = Cardinality(s) - 1 BY <1>2, FS_RemoveElement
      <4> QED BY <3>3, <4>1
    <3>5. g[u] \in Nat /\ g[u] <= Cardinality(Of(u)) BY <2>2, <3>4
    <3>6. PICK A : A = {y \in S : kind[y] = x} OBVIOUS
    <3>7. PICK B : B = Of(u) OBVIOUS
    <3>8. Of(s) = A \cup B /\ A \cap B = {} BY <3>3, <3>6, <3>7
    <3>9. A \in SUBSET S /\ B \in SUBSET S BY <3>6, <3>7
    <3>10. Cardinality(A \cup B) = Cardinality(A) + Cardinality(B)
      <4>1. Cardinality(A \cup B) = Cardinality(A) + Cardinality(B) - Cardinality(A \cap B)
        BY <1>3, <3>9, FS_Union
      <4>2. Cardinality(A \cap B) = 0 BY <3>8, FS_EmptySet
      <4>3. Cardinality(A) \in Nat /\ Cardinality(B) \in Nat BY <1>3, <3>9
      <4> QED BY <4>1, <4>2, <4>3
    <3>11. f[x] \in Nat /\ f[x] <= Cardinality(A) BY <3>6
    <3>12. Cardinality(A) \in Nat /\ Cardinality(B) \in Nat BY <1>3, <3>9
    <3>13. g[s] = f[x] + g[u] BY <3>2, <3>3
    <3>14. Cardinality(Of(s)) = Cardinality(A) + Cardinality(B) BY <3>8, <3>10
    <3>15. g[u] <= Cardinality(B) BY <3>5, <3>7
    <3> HIDE DEF Of
    <3> QED BY <3>5, <3>11, <3>12, <3>13, <3>14, <3>15
  <2> HIDE DEF Small
  <2> QED BY <2>1, <2>2, NatSetInduction
<1>5. g[D] \in Nat /\ g[D] <= Cardinality(Of(D)) BY <1>2, <1>4
<1>6. Cardinality(Of(D)) \in Nat /\ Cardinality(Of(D)) <= Cardinality(S)
      /\ Cardinality(S) \in Nat
  BY <1>3
<1> HIDE DEF Of
<1> QED BY <1>5, <1>6

=============================================================================
