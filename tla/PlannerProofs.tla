---------------------------- MODULE PlannerProofs ----------------------------
(***************************************************************************)
(* Proofs about the planner, for any profiles, requests, evidence and      *)
(* catalogs of any length, and for every order in which Go takes the keys  *)
(* of its maps.                                                            *)
(*                                                                         *)
(* First version ranges, for texts with any numbers and any number of      *)
(* identifiers: what the loops of semver.go find is the order of the keys, *)
(* a strict total one.  Then what each check finds, the invariant of the   *)
(* loops, the names in a decision and their order, the selection, the      *)
(* types, and last how far below zero a validated matrix lets a score be.  *)
(***************************************************************************)
EXTENDS Planner, TLAPS, WellFoundedInduction, FiniteSetTheorems

-----------------------------------------------------------------------------
(* The least of a set of numbers. *)

LessPairs == {p \in Nat \X Nat : p[1] < p[2]}

LEMMA LessWellFounded == IsWellFoundedOn(LessPairs, Nat)
<1>1. OpToRel(<, Nat) = LessPairs
  BY DEF OpToRel, LessPairs
<1> QED
  BY <1>1, NatLessThanWellFounded DEF OpToRel, LessPairs

LEMMA LeastElement ==
    ASSUME NEW T, T \subseteq Nat, T # {}
    PROVE  \E x \in T : \A y \in T : x <= y
<1>1. PICK x \in T : \A y \in T : <<y, x>> \notin LessPairs
  BY LessWellFounded, WFMin
<1>2. \A y \in T : <<y, x>> \notin LessPairs => x <= y
  BY DEF LessPairs
<1> QED
  BY <1>1, <1>2

\* A search that stops at a place of T, and at n + 1 without one.
LEMMA FirstOf ==
    ASSUME NEW n \in Nat, NEW T, T \subseteq 1..n
    PROVE  \E k \in 1..n + 1 : (k <= n => k \in T) /\ \A j \in 1..k - 1 : j \notin T
<1>1. CASE T = {}
  BY <1>1
<1>2. CASE T # {}
  <2> T \subseteq Nat
    OBVIOUS
  <2>1. PICK k \in T : \A j \in T : k <= j
    BY <1>2, LeastElement
  <2>2. k \in 1..n + 1 /\ \A j \in 1..k - 1 : j \notin T
    BY <2>1
  <2> QED
    BY <2>2
<1> QED
  BY <1>1, <1>2

LEMMA FirstDifferenceIs ==
    ASSUME NEW a, NEW b, NEW n \in Nat
    PROVE  /\ FirstDifference(a, b, n) \in 1..n + 1
           /\ FirstDifference(a, b, n) <= n =>
                a[FirstDifference(a, b, n)] # b[FirstDifference(a, b, n)]
           /\ \A j \in 1..FirstDifference(a, b, n) - 1 : a[j] = b[j]
<1> DEFINE T == {j \in 1..n : a[j] # b[j]}
<1>1. PICK k \in 1..n + 1 : (k <= n => k \in T) /\ \A j \in 1..k - 1 : j \notin T
  BY FirstOf
<1>2. (k <= n => a[k] # b[k]) /\ \A j \in 1..k - 1 : ~(a[j] # b[j])
  BY <1>1
<1> QED
  BY <1>2 DEF FirstDifference, FirstBad

\* It is the only such place.
LEMMA FirstDifferenceAt ==
    ASSUME NEW a, NEW b, NEW n \in Nat, NEW k \in 1..n,
           a[k] # b[k], \A j \in 1..k - 1 : a[j] = b[j]
    PROVE  FirstDifference(a, b, n) = k
<1> DEFINE d == FirstDifference(a, b, n)
<1>1. d \in 1..n + 1 /\ (d <= n => a[d] # b[d]) /\ \A j \in 1..d - 1 : a[j] = b[j]
  BY FirstDifferenceIs
<1> HIDE DEF d
<1>2. d = k
  BY <1>1
<1> QED
  BY <1>2 DEF d

LEMMA NoDifference ==
    ASSUME NEW a, NEW b, NEW n \in Nat, \A j \in 1..n : a[j] = b[j]
    PROVE  FirstDifference(a, b, n) = n + 1
<1> DEFINE d == FirstDifference(a, b, n)
<1>1. d \in 1..n + 1 /\ (d <= n => a[d] # b[d])
  BY FirstDifferenceIs
<1> HIDE DEF d
<1>2. d = n + 1
  BY <1>1
<1> QED
  BY <1>2 DEF d

-----------------------------------------------------------------------------
(* What a text is read as. *)

PreOf(t) == t.compact \o t.pre

LEMMA PreType ==
    ASSUME NEW t, TextOK(t)
    PROVE  /\ PreOf(t) \in Seq(Identifier) /\ Len(PreOf(t)) \in Nat
           /\ DOMAIN PreOf(t) = 1..Len(PreOf(t))
           /\ \A k \in 1..Len(PreOf(t)) : PreOf(t)[k] \in Identifier
           /\ Len(PreOf(t)) = 0 <=> PreOf(t) = << >>
           /\ DOMAIN t.numbers = 1..Len(t.numbers) /\ Len(t.numbers) \in Nat
           /\ \A k \in DOMAIN t.numbers : t.numbers[k] \in Int
<1>1. t.compact \in Seq(Identifier) /\ t.pre \in Seq(Identifier) /\ t.numbers \in Seq(Int)
  BY DEF TextOK
<1>2. PreOf(t) \in Seq(Identifier)
  BY <1>1 DEF PreOf
<1> QED
  BY <1>1, <1>2

LEMMA ReadAs ==
    ASSUME NEW t, TextOK(t), Readable(t)
    PROVE  Normalize(t) = Text(t.numbers, << >>, PreOf(t))
<1>1. CASE t.compact = << >>
  <2>1. PreOf(t) = t.pre
    BY <1>1 DEF PreOf, TextOK
  <2> QED
    BY <1>1, <2>1 DEF Normalize, TextOK, Text
<1>2. CASE t.compact # << >>
  BY <1>2 DEF Normalize, Readable, PreOf
<1> QED
  BY <1>1, <1>2

LEMMA ParsesIfReadable ==
    ASSUME NEW t, TextOK(t)
    PROVE  Parses(Normalize(t)) <=> Readable(t)
<1>1. CASE Readable(t)
  BY <1>1, ReadAs DEF Parses, Text, Readable
<1>2. CASE ~Readable(t)
  BY <1>2 DEF Parses, Normalize, Readable
<1> QED
  BY <1>1, <1>2

-----------------------------------------------------------------------------
(* Keys. *)

RankOf(a) == IF IsNum(a) THEN <<1, a[2]>> ELSE <<2, Rank[a[2]]>>

\* Identifiers of different rank differ, and the other way round.
LEMMA RankIsFaithful ==
    ASSUME NEW a \in Identifier, NEW b \in Identifier
    PROVE  /\ RankOf(a) \in (1..2) \X Int
           /\ RankOf(a) = RankOf(b) <=> a = b
           /\ IdentifierLess(a, b) <=>
                \/ RankOf(a)[1] < RankOf(b)[1]
                \/ RankOf(a)[1] = RankOf(b)[1] /\ RankOf(a)[2] < RankOf(b)[2]
<1>1. \A n \in DOMAIN Rank : Rank[n] \in Int
  BY ValuesAssumption
<1>2. \A m, n \in DOMAIN Rank : Rank[m] = Rank[n] => m = n
  BY ValuesAssumption
<1>3. \A c \in Identifier : \/ c[1] = "number" /\ c = <<"number", c[2]>> /\ c[2] \in Int
                            \/ c[1] = "string" /\ c = <<"string", c[2]>> /\ c[2] \in DOMAIN Rank
  BY DEF Identifier
<1> QED
  BY <1>1, <1>2, <1>3 DEF RankOf, IsNum, IsStr, IdentifierLess

\* The elements of a key.
LEMMA KeyIs ==
    ASSUME NEW t, TextOK(t), Readable(t)
    PROVE  /\ DOMAIN Key(t) = 1..Len(PreOf(t)) + 4
           /\ \A k \in 1..3 : Key(t)[k] = <<0, t.numbers[k]>>
           /\ \A k \in 1..Len(PreOf(t)) : Key(t)[k + 3] = RankOf(PreOf(t)[k])
           /\ Key(t)[Len(PreOf(t)) + 4] =
                IF Len(PreOf(t)) = 0 THEN <<3, 0>> ELSE <<0, 0>>
           /\ Key(t) = [k \in 1..Len(PreOf(t)) + 4 |-> Key(t)[k]]
           /\ \A k \in DOMAIN Key(t) : Key(t)[k] \in Int \X Int
<1> DEFINE n == Len(PreOf(t))
<1>1. n \in Nat /\ \A k \in 1..n : PreOf(t)[k] \in Identifier
  BY PreType
<1>2. \A k \in 1..3 : t.numbers[k] \in Int
  BY PreType DEF Readable
<1>3. Key(t) = [k \in 1..n + 4 |-> IF k <= 3 THEN <<0, t.numbers[k]>>
                             ELSE IF k <= n + 3 THEN RankOf(PreOf(t)[k - 3])
                             ELSE IF n = 0 THEN <<3, 0>> ELSE <<0, 0>>]
  BY DEF Key, PreOf, RankOf
<1>4. \A k \in 1..n : RankOf(PreOf(t)[k]) \in Int \X Int
  BY <1>1, RankIsFaithful
<1> HIDE DEF n
<1>5. /\ DOMAIN Key(t) = 1..n + 4
      /\ Key(t) = [k \in 1..n + 4 |-> Key(t)[k]]
  BY <1>3
<1>6. \A k \in 1..3 : Key(t)[k] = <<0, t.numbers[k]>>
  BY <1>1, <1>3
<1>7. ASSUME NEW k \in 1..n PROVE Key(t)[k + 3] = RankOf(PreOf(t)[k])
  <2>1. k + 3 \in 1..n + 4 /\ k + 3 > 3 /\ k + 3 <= n + 3 /\ (k + 3) - 3 = k
    BY <1>1
  <2> QED
    BY <1>3, <2>1
<1>8. Key(t)[n + 4] = IF n = 0 THEN <<3, 0>> ELSE <<0, 0>>
  BY <1>1, <1>3
<1>9. ASSUME NEW k \in DOMAIN Key(t) PROVE Key(t)[k] \in Int \X Int
  <2>1. CASE k \in 1..3
    BY <1>2, <1>6, <2>1
  <2>2. CASE k \in 4..n + 3
    <3>1. k - 3 \in 1..n /\ (k - 3) + 3 = k
      BY <1>1, <2>2
    <3> QED
      BY <1>4, <1>7, <3>1
  <2>3. CASE k = n + 4
    BY <1>8, <2>3
  <2> QED
    BY <1>1, <1>5, <2>1, <2>2, <2>3
<1> QED
  BY <1>5, <1>6, <1>7, <1>8, <1>9 DEF n

-----------------------------------------------------------------------------
(* The order of keys. *)

FirstAt(k, x, y) ==
    /\ k \in DOMAIN x \cap DOMAIN y
    /\ x[k] # y[k]
    /\ \A j \in 1..k - 1 : x[j] = y[j]

\* Of two elements of a key.
Below(a, b) == a[1] < b[1] \/ (a[1] = b[1] /\ a[2] < b[2])

LEMMA BelowIsTotal ==
    ASSUME NEW a \in Int \X Int, NEW b \in Int \X Int, a # b
    PROVE  Below(a, b) <=> ~Below(b, a)
BY DEF Below

\* The first place that differs decides.
LEMMA FirstDecides ==
    ASSUME NEW s, NEW t, TextOK(s), TextOK(t), Readable(s), Readable(t),
           NEW k, FirstAt(k, Key(s), Key(t))
    PROVE  LexicallyLess(Key(s), Key(t)) <=> Below(Key(s)[k], Key(t)[k])
<1> DEFINE x == Key(s)
           y == Key(t)
<1>1. /\ DOMAIN x \subseteq Nat /\ DOMAIN y \subseteq Nat
      /\ \A j \in DOMAIN x : j >= 1 /\ x[j] \in Int \X Int
      /\ \A j \in DOMAIN y : j >= 1 /\ y[j] \in Int \X Int
  BY KeyIs, PreType
<1>2. k \in DOMAIN x \cap DOMAIN y /\ x[k] # y[k] /\ \A j \in 1..k - 1 : x[j] = y[j]
  BY DEF FirstAt
<1> HIDE DEF x, y
<1>3. ASSUME NEW j \in DOMAIN x \cap DOMAIN y, \A m \in 1..j - 1 : x[m] = y[m],
             Below(x[j], y[j])
      PROVE  j = k
  <2>1. CASE j < k
    <3>1. x[j] = y[j] /\ x[j] \in Int \X Int
      BY <1>1, <1>2, <2>1
    <3> QED
      BY <1>3, <3>1 DEF Below
  <2>2. CASE j > k
    BY <1>1, <1>2, <1>3, <2>2
  <2> QED
    BY <1>1, <1>2, <2>1, <2>2
<1>4. LexicallyLess(x, y) <=>
        \E j \in DOMAIN x \cap DOMAIN y :
            (\A m \in 1..j - 1 : x[m] = y[m]) /\ Below(x[j], y[j])
  BY DEF LexicallyLess, Below
<1>5. LexicallyLess(x, y) <=> Below(x[k], y[k])
  BY <1>2, <1>3, <1>4
<1> QED
  BY <1>5 DEF x, y

\* Different keys differ before either ends.
LEMMA KeysDiffer ==
    ASSUME NEW s, NEW t, TextOK(s), TextOK(t), Readable(s), Readable(t),
           Key(s) # Key(t)
    PROVE  \E k : FirstAt(k, Key(s), Key(t))
<1> DEFINE x == Key(s)
           y == Key(t)
           n == Len(PreOf(s))
           m == Len(PreOf(t))
           T == {k \in DOMAIN x \cap DOMAIN y : x[k] # y[k]}
<1>1. n \in Nat /\ m \in Nat /\ DOMAIN x = 1..n + 4 /\ DOMAIN y = 1..m + 4
  BY KeyIs, PreType
<1>2. x = [k \in 1..n + 4 |-> x[k]] /\ y = [k \in 1..m + 4 |-> y[k]]
  BY KeyIs
<1>3. x[n + 4] \in {<<0, 0>>, <<3, 0>>} /\ y[m + 4] \in {<<0, 0>>, <<3, 0>>}
  BY KeyIs
<1>4. /\ \A k \in 1..n : x[k + 3] \in (1..2) \X Int
      /\ \A k \in 1..m : y[k + 3] \in (1..2) \X Int
  <2>1. ASSUME NEW k \in 1..n PROVE x[k + 3] \in (1..2) \X Int
    <3>1. x[k + 3] = RankOf(PreOf(s)[k]) /\ PreOf(s)[k] \in Identifier
      BY KeyIs, PreType
    <3> QED
      BY <3>1, RankIsFaithful
  <2>2. ASSUME NEW k \in 1..m PROVE y[k + 3] \in (1..2) \X Int
    <3>1. y[k + 3] = RankOf(PreOf(t)[k]) /\ PreOf(t)[k] \in Identifier
      BY KeyIs, PreType
    <3> QED
      BY <3>1, RankIsFaithful
  <2> QED
    BY <2>1, <2>2
<1> HIDE DEF x, y, n, m
<1>5. T # {}
  <2> SUFFICES ASSUME T = {} PROVE FALSE
    OBVIOUS
  <2>1. CASE n = m
    BY <1>1, <1>2, <2>1 DEF x, y
  <2>2. CASE n < m
    <3>1. n + 1 \in 1..m /\ n + 4 \in DOMAIN x \cap DOMAIN y /\ (n + 1) + 3 = n + 4
      BY <1>1, <2>2
    <3> QED
      BY <1>3, <1>4, <3>1
  <2>3. CASE m < n
    <3>1. m + 1 \in 1..n /\ m + 4 \in DOMAIN x \cap DOMAIN y /\ (m + 1) + 3 = m + 4
      BY <1>1, <2>3
    <3> QED
      BY <1>3, <1>4, <3>1
  <2> QED
    BY <1>1, <2>1, <2>2, <2>3
<1>6. T \subseteq Nat
  BY <1>1
<1>7. PICK k \in T : \A j \in T : k <= j
  BY <1>5, <1>6, LeastElement
<1>8. \A j \in 1..k - 1 : x[j] = y[j]
  BY <1>1, <1>7
<1> QED
  BY <1>7, <1>8 DEF FirstAt, x, y

\* The order of keys is strict and total.
LEMMA KeysAreOrdered ==
    ASSUME NEW s, NEW t, TextOK(s), TextOK(t), Readable(s), Readable(t)
    PROVE  /\ Key(s) = Key(t) => ~LexicallyLess(Key(s), Key(t))
           /\ Key(s) # Key(t) =>
                (LexicallyLess(Key(s), Key(t)) <=> ~LexicallyLess(Key(t), Key(s)))
<1>1. ASSUME Key(s) = Key(t) PROVE ~LexicallyLess(Key(s), Key(t))
  <2>1. \A k \in DOMAIN Key(s) : Key(s)[k] \in Int \X Int
    BY KeyIs
  <2> QED
    BY <1>1, <2>1 DEF LexicallyLess
<1>2. ASSUME Key(s) # Key(t)
      PROVE  LexicallyLess(Key(s), Key(t)) <=> ~LexicallyLess(Key(t), Key(s))
  <2>1. PICK k : FirstAt(k, Key(s), Key(t))
    BY <1>2, KeysDiffer
  <2>2. FirstAt(k, Key(t), Key(s))
    BY <2>1 DEF FirstAt
  <2>3. /\ LexicallyLess(Key(s), Key(t)) <=> Below(Key(s)[k], Key(t)[k])
        /\ LexicallyLess(Key(t), Key(s)) <=> Below(Key(t)[k], Key(s)[k])
    BY <2>1, <2>2, FirstDecides
  <2>4. Key(s)[k] \in Int \X Int /\ Key(t)[k] \in Int \X Int /\ Key(s)[k] # Key(t)[k]
    BY <2>1, KeyIs DEF FirstAt
  <2> QED
    BY <2>3, <2>4, BelowIsTotal
<1> QED
  BY <1>1, <1>2

-----------------------------------------------------------------------------
(* What semver.go compares. *)

LEMMA SameSequence ==
    ASSUME NEW T, NEW p \in Seq(T), NEW q \in Seq(T), Len(p) = Len(q),
           \A k \in 1..Len(p) : p[k] = q[k]
    PROVE  p = q
OBVIOUS

\* The first place behind the numbers.
LEMMA FourthOfRelease ==
    ASSUME NEW t, TextOK(t), Readable(t), PreOf(t) = << >>
    PROVE  DOMAIN Key(t) = 1..4 /\ Key(t)[4] = <<3, 0>>
<1>1. Len(PreOf(t)) = 0 /\ Len(PreOf(t)) + 4 = 4
  BY PreType
<1>2. DOMAIN Key(t) = 1..Len(PreOf(t)) + 4
  BY KeyIs
<1>3. Key(t)[Len(PreOf(t)) + 4] = IF Len(PreOf(t)) = 0 THEN <<3, 0>> ELSE <<0, 0>>
  BY KeyIs
<1> QED
  BY <1>1, <1>2, <1>3

LEMMA FourthOfPrerelease ==
    ASSUME NEW t, TextOK(t), Readable(t), PreOf(t) # << >>
    PROVE  4 \in DOMAIN Key(t) /\ Key(t)[4][1] \in 1..2
<1> DEFINE n == Len(PreOf(t))
<1>1. n \in Nat /\ n # 0
  BY PreType
<1>2. 1 \in 1..n
  BY <1>1
<1>3. PreOf(t)[1] \in Identifier /\ Key(t)[1 + 3] = RankOf(PreOf(t)[1])
  BY <1>2, KeyIs, PreType
<1>4. DOMAIN Key(t) = 1..n + 4
  BY KeyIs
<1> QED
  BY <1>1, <1>3, <1>4, RankIsFaithful

\* A text is known by its key.
LEMMA SameKey ==
    ASSUME NEW s, NEW t, TextOK(s), TextOK(t), Readable(s), Readable(t)
    PROVE  Normalize(s) = Normalize(t) <=> Key(s) = Key(t)
<1> DEFINE p == PreOf(s)
           q == PreOf(t)
<1>1. /\ Normalize(s) = Text(s.numbers, << >>, p)
      /\ Normalize(t) = Text(t.numbers, << >>, q)
  BY ReadAs
<1>2. ASSUME Normalize(s) = Normalize(t) PROVE Key(s) = Key(t)
  <2>1. s.numbers = t.numbers /\ p = q
    BY <1>1, <1>2 DEF Text
  <2> QED
    BY <2>1 DEF Key, PreOf
<1>3. ASSUME Key(s) = Key(t) PROVE Normalize(s) = Normalize(t)
  <2>1. /\ Len(p) \in Nat /\ Len(q) \in Nat
        /\ 1..Len(p) + 4 = 1..Len(q) + 4
    BY <1>3, KeyIs, PreType
  <2>2. Len(p) = Len(q)
    BY <2>1
  <2>3. ASSUME NEW k \in 1..Len(p) PROVE p[k] = q[k]
    <3>1. Key(s)[k + 3] = RankOf(p[k]) /\ Key(t)[k + 3] = RankOf(q[k])
      BY <2>2, KeyIs
    <3>2. p[k] \in Identifier /\ q[k] \in Identifier
      BY <2>2, PreType
    <3> QED
      BY <1>3, <3>1, <3>2, RankIsFaithful
  <2>4. p \in Seq(Identifier) /\ q \in Seq(Identifier)
    BY PreType
  <2> HIDE DEF p, q
  <2>5. p = q
    BY <2>2, <2>3, <2>4, SameSequence
  <2>6. \A k \in 1..3 : s.numbers[k] = t.numbers[k]
    BY <1>3, KeyIs
  <2>7. s.numbers \in Seq(Int) /\ t.numbers \in Seq(Int)
        /\ Len(s.numbers) = 3 /\ Len(t.numbers) = 3
    BY DEF TextOK, Readable
  <2>8. s.numbers = t.numbers
    BY <2>6, <2>7, SameSequence
  <2> QED
    BY <1>1, <2>5, <2>8
<1> QED
  BY <1>2, <1>3

\* The comparison of two texts whose numbers are equal, place by place of what
\* comes behind.
LEMMA BehindTheNumbers ==
    ASSUME NEW s, NEW t, TextOK(s), TextOK(t), Readable(s), Readable(t),
           NEW k, FirstAt(k, Key(s), Key(t)), k > 3,
           PreOf(s) # << >>, PreOf(t) # << >>
    PROVE  PrereleaseLess(PreOf(s), PreOf(t)) <=> Below(Key(s)[k], Key(t)[k])
<1> DEFINE p == PreOf(s)
           q == PreOf(t)
           n == Len(p)
           m == Len(q)
           d == Smaller(n, m)
<1>1. /\ n \in Nat /\ m \in Nat /\ n # 0 /\ m # 0
      /\ \A j \in 1..n : p[j] \in Identifier
      /\ \A j \in 1..m : q[j] \in Identifier
  BY PreType
<1>2. /\ DOMAIN Key(s) = 1..n + 4 /\ DOMAIN Key(t) = 1..m + 4
      /\ \A j \in 1..n : Key(s)[j + 3] = RankOf(p[j])
      /\ \A j \in 1..m : Key(t)[j + 3] = RankOf(q[j])
      /\ Key(s)[n + 4] = <<0, 0>> /\ Key(t)[m + 4] = <<0, 0>>
  BY <1>1, KeyIs
<1>3. /\ k \in 4..n + 4 /\ k \in 4..m + 4
      /\ Key(s)[k] # Key(t)[k] /\ \A j \in 1..k - 1 : Key(s)[j] = Key(t)[j]
  BY <1>1, <1>2 DEF FirstAt
<1>4. d \in Nat /\ d <= n /\ d <= m /\ (d = n \/ d = m)
  BY <1>1 DEF Smaller
<1>5. PrereleaseLess(p, q) <=>
        IF FirstDifference(p, q, d) <= d
        THEN IdentifierLess(p[FirstDifference(p, q, d)], q[FirstDifference(p, q, d)])
        ELSE n < m
  BY DEF PrereleaseLess
<1> HIDE DEF p, q, n, m, d
<1>6. ASSUME NEW j \in 1..d, j < k - 3 PROVE p[j] = q[j]
  <2>1. j + 3 \in 1..k - 1 /\ j \in 1..n /\ j \in 1..m
    BY <1>3, <1>4, <1>6, <1>1
  <2>2. RankOf(p[j]) = RankOf(q[j])
    BY <1>2, <1>3, <2>1
  <2> QED
    BY <1>1, <2>1, <2>2, RankIsFaithful
<1>7. CASE k - 3 <= d
  <2>1. k - 3 \in 1..d /\ k - 3 \in 1..n /\ k - 3 \in 1..m /\ (k - 3) + 3 = k
    BY <1>1, <1>3, <1>4, <1>7
  <2>2. Key(s)[k] = RankOf(p[k - 3]) /\ Key(t)[k] = RankOf(q[k - 3])
    BY <1>2, <2>1
  <2>3. p[k - 3] # q[k - 3]
    BY <1>3, <2>2
  <2>4. \A j \in 1..(k - 3) - 1 : p[j] = q[j]
    BY <1>6, <2>1, <1>4
  <2>5. FirstDifference(p, q, d) = k - 3
    BY <1>4, <2>1, <2>3, <2>4, FirstDifferenceAt
  <2>6. p[k - 3] \in Identifier /\ q[k - 3] \in Identifier
    BY <1>1, <2>1
  <2> QED
    BY <1>5, <1>7, <2>2, <2>5, <2>6, RankIsFaithful DEF Below, p, q
<1>8. CASE k - 3 > d
  <2>1. k = d + 4 /\ k - 3 = d + 1
    BY <1>1, <1>3, <1>4, <1>8
  <2>2. \A j \in 1..d : p[j] = q[j]
    BY <1>6, <2>1, <1>4
  <2>3. FirstDifference(p, q, d) = d + 1
    BY <1>4, <2>2, NoDifference
  <2>4. PrereleaseLess(p, q) <=> n < m
    BY <1>4, <1>5, <2>3
  <2>5. n # m
    BY <1>1, <1>2, <1>3, <1>4, <2>1
  <2>6. CASE n < m
    <3>1. d = n /\ d + 1 \in 1..m /\ (d + 1) + 3 = k
      BY <1>1, <1>4, <2>1, <2>6
    <3>2. Key(s)[k] = <<0, 0>> /\ Key(t)[k] = RankOf(q[d + 1]) /\ q[d + 1] \in Identifier
      BY <1>1, <1>2, <2>1, <3>1
    <3> QED
      BY <2>4, <2>6, <3>2, RankIsFaithful DEF Below, p, q
  <2>7. CASE m < n
    <3>1. d = m /\ d + 1 \in 1..n /\ (d + 1) + 3 = k
      BY <1>1, <1>4, <2>1, <2>7
    <3>2. Key(t)[k] = <<0, 0>> /\ Key(s)[k] = RankOf(p[d + 1]) /\ p[d + 1] \in Identifier
      BY <1>1, <1>2, <2>1, <3>1
    <3>3. RankOf(p[d + 1])[1] >= 1 /\ RankOf(p[d + 1])[1] \in Int
      BY <3>2, RankIsFaithful
    <3>4. ~Below(Key(s)[k], Key(t)[k])
      BY <3>2, <3>3 DEF Below
    <3>5. ~(n < m)
      BY <1>1, <2>7
    <3> QED
      BY <2>4, <3>4, <3>5 DEF p, q
  <2> QED
    BY <1>1, <2>5, <2>6, <2>7
<1> QED
  BY <1>1, <1>3, <1>4, <1>7, <1>8

\* semVersion.compare follows the keys.
LEMMA ComparesByKey ==
    ASSUME NEW s, NEW t, TextOK(s), TextOK(t), Readable(s), Readable(t)
    PROVE  VersionLess(Normalize(s), Normalize(t)) <=> LexicallyLess(Key(s), Key(t))
<1> DEFINE v == Text(s.numbers, << >>, PreOf(s))
           w == Text(t.numbers, << >>, PreOf(t))
           a == s.numbers
           b == t.numbers
           d == FirstDifference(a, b, 3)
<1>1. Normalize(s) = v /\ Normalize(t) = w
  BY ReadAs
<1>2. VersionLess(v, w) <=>
        IF d <= 3 THEN a[d] < b[d]
        ELSE IF PreOf(s) = << >> \/ PreOf(t) = << >>
             THEN PreOf(s) # PreOf(t) /\ PreOf(t) = << >>
        ELSE PrereleaseLess(PreOf(s), PreOf(t))
  BY DEF VersionLess, Text
<1> HIDE DEF v, w
<1>3. /\ \A j \in 1..3 : Key(s)[j] = <<0, a[j]>> /\ Key(t)[j] = <<0, b[j]>>
      /\ \A j \in 1..3 : a[j] \in Int /\ b[j] \in Int
  BY KeyIs, PreType DEF Readable
<1> HIDE DEF a, b, d
<1>4. CASE Key(s) = Key(t)
  <2>1. v = w
    BY <1>1, <1>4, SameKey
  <2>2. a = b /\ PreOf(s) = PreOf(t)
    BY <2>1 DEF v, w, Text, a, b
  <2>3. d = 3 + 1
    BY <2>2, NoDifference DEF d
  <2>4. ~PrereleaseLess(PreOf(s), PreOf(s))
    <3> DEFINE n == Len(PreOf(s))
    <3>1. n \in Nat /\ Smaller(n, n) = n
      BY PreType DEF Smaller
    <3>2. FirstDifference(PreOf(s), PreOf(s), n) = n + 1
      BY <3>1, NoDifference
    <3> QED
      BY <3>1, <3>2 DEF PrereleaseLess
  <2>5. ~VersionLess(v, w)
    BY <1>2, <2>2, <2>3, <2>4
  <2> QED
    BY <1>1, <1>4, <2>5, KeysAreOrdered
<1>5. CASE Key(s) # Key(t)
  <2>1. PICK k : FirstAt(k, Key(s), Key(t))
    BY <1>5, KeysDiffer
  <2>2. LexicallyLess(Key(s), Key(t)) <=> Below(Key(s)[k], Key(t)[k])
    BY <2>1, FirstDecides
  <2>3. /\ Len(PreOf(s)) \in Nat /\ Len(PreOf(t)) \in Nat
        /\ k \in 1..Len(PreOf(s)) + 4 /\ k \in 1..Len(PreOf(t)) + 4
        /\ Key(s)[k] # Key(t)[k] /\ \A j \in 1..k - 1 : Key(s)[j] = Key(t)[j]
    BY <2>1, KeyIs, PreType DEF FirstAt
  <2>6. k \in DOMAIN Key(s) /\ k \in DOMAIN Key(t) /\ Key(s)[k] # Key(t)[k]
    BY <2>1 DEF FirstAt
  <2>4. CASE k <= 3
    <3>0. k \in 1..3
      BY <2>3, <2>4
    <3>1. k \in 1..3 /\ a[k] # b[k]
      BY <1>3, <2>6, <3>0
    <3>2. \A j \in 1..k - 1 : a[j] = b[j]
      <4> TAKE j \in 1..k - 1
      <4>1. j \in 1..3 /\ Key(s)[j] = Key(t)[j]
        BY <2>3, <3>1
      <4> QED
        BY <1>3, <4>1
    <3>3. d = k
      BY <3>1, <3>2, FirstDifferenceAt DEF d
    <3>4. VersionLess(v, w) <=> a[k] < b[k]
      BY <1>2, <2>4, <3>3
    <3>5. Below(Key(s)[k], Key(t)[k]) <=> a[k] < b[k]
      BY <1>3, <3>1 DEF Below
    <3> QED
      BY <1>1, <2>2, <3>4, <3>5
  <2>5. CASE k > 3
    <3>1. \A j \in 1..3 : a[j] = b[j]
      <4> TAKE j \in 1..3
      <4>1. Key(s)[j] = Key(t)[j]
        BY <2>3, <2>5
      <4> QED
        BY <1>3, <4>1
    <3>2. d = 3 + 1
      BY <3>1, NoDifference DEF d
    <3>3. CASE PreOf(s) # << >> /\ PreOf(t) # << >>
      BY <1>1, <1>2, <2>1, <2>2, <2>5, <3>2, <3>3, BehindTheNumbers
    <3>4. CASE PreOf(s) = << >>
      <4>0. k \in 1..4 /\ Key(s)[4] = <<3, 0>>
        BY <2>6, <3>4, FourthOfRelease
      <4>1. k = 4 /\ Key(s)[k] = <<3, 0>>
        BY <2>5, <4>0
      <4>2. PreOf(t) # << >>
        BY <2>6, <4>1, FourthOfRelease
      <4>3. Key(t)[k][1] \in 1..2
        BY <4>1, <4>2, FourthOfPrerelease
      <4>4. ~Below(Key(s)[k], Key(t)[k])
        BY <4>1, <4>3 DEF Below
      <4>5. ~VersionLess(v, w)
        BY <1>2, <3>2, <3>4, <4>2
      <4> QED
        BY <1>1, <2>2, <4>4, <4>5
    <3>5. CASE PreOf(t) = << >> /\ PreOf(s) # << >>
      <4>1. k = 4 /\ Key(t)[k] = <<3, 0>>
        BY <2>5, <2>6, <3>5, FourthOfRelease
      <4>2. Key(s)[k][1] \in 1..2
        BY <3>5, <4>1, FourthOfPrerelease
      <4>3. Below(Key(s)[k], Key(t)[k])
        BY <4>1, <4>2 DEF Below
      <4>4. VersionLess(v, w)
        BY <1>2, <3>2, <3>5
      <4> QED
        BY <1>1, <2>2, <4>3, <4>4
    <3> QED
      BY <3>3, <3>4, <3>5
  <2> QED
    BY <2>3, <2>4, <2>5
<1> QED
  BY <1>4, <1>5

\* One comparator.
LEMMA StopsUnlessAdmitted ==
    ASSUME NEW t, TextOK(t), Readable(t), NEW comparator, TextOK(comparator.text),
           comparator.op \in Comparisons
    PROVE  Stops(Normalize(t), comparator) <=>
             ~(Readable(comparator.text) /\ Admits(comparator, t))
<1>1. CASE ~Readable(comparator.text)
  BY <1>1, ParsesIfReadable DEF Stops, Target
<1>2. CASE Readable(comparator.text)
  <2> DEFINE u == comparator.text
             x == Key(t)
             y == Key(u)
             sign == Sign(Normalize(t), Normalize(u))
  <2>1. Parses(Target(comparator))
    BY <1>2, ParsesIfReadable DEF Target
  <2>2. sign = IF LexicallyLess(x, y) THEN -1 ELSE IF x = y THEN 0 ELSE 1
    BY <1>2, ComparesByKey, SameKey DEF Sign
  <2>3. /\ x = y => ~LexicallyLess(x, y) /\ ~LexicallyLess(y, x)
        /\ x # y => (LexicallyLess(x, y) <=> ~LexicallyLess(y, x))
    BY <1>2, KeysAreOrdered
  <2>4. Stops(Normalize(t), comparator) <=> ~Compare(comparator.op, sign, 0)
    BY <2>1 DEF Stops, Target
  <2>5. Admits(comparator, t) <=>
          \/ comparator.op \in {"=", "<=", ">="} /\ x = y
          \/ comparator.op \in {"<", "<="} /\ LexicallyLess(x, y)
          \/ comparator.op \in {">", ">="} /\ LexicallyLess(y, x)
    BY DEF Admits
  <2> HIDE DEF x, y, sign, u
  <2>6. CASE x = y
    <3>1. sign = 0
      BY <2>2, <2>3, <2>6
    <3>2. Compare(comparator.op, sign, 0) <=> comparator.op \in {"=", "<=", ">="}
      BY <3>1 DEF Compare, Comparisons
    <3> QED
      BY <1>2, <2>3, <2>4, <2>5, <2>6, <3>2 DEF u
  <2>7. CASE x # y /\ LexicallyLess(x, y)
    <3>1. sign = -1
      BY <2>2, <2>7
    <3>2. Compare(comparator.op, sign, 0) <=> comparator.op \in {"<", "<="}
      BY <3>1 DEF Compare, Comparisons
    <3> QED
      BY <1>2, <2>3, <2>4, <2>5, <2>7, <3>2 DEF u
  <2>8. CASE x # y /\ ~LexicallyLess(x, y)
    <3>1. sign = 1
      BY <2>2, <2>8
    <3>2. Compare(comparator.op, sign, 0) <=> comparator.op \in {">", ">="}
      BY <3>1 DEF Compare, Comparisons
    <3> QED
      BY <1>2, <2>3, <2>4, <2>5, <2>8, <3>2 DEF u
  <2> QED
    BY <2>6, <2>7, <2>8
<1> QED
  BY <1>1, <1>2

LEMMA FirstStopIs ==
    ASSUME NEW v, NEW range, NEW n \in Nat, n = Len(range)
    PROVE  /\ FirstStop(v, range) \in 1..n + 1
           /\ FirstStop(v, range) <= n => Stops(v, range[FirstStop(v, range)])
           /\ \A j \in 1..FirstStop(v, range) - 1 : ~Stops(v, range[j])
<1> DEFINE T == {j \in 1..n : Stops(v, range[j])}
<1> T \subseteq 1..n
  OBVIOUS
<1> HIDE DEF T
<1>1. PICK k \in 1..n + 1 : (k <= n => k \in T) /\ \A j \in 1..k - 1 : j \notin T
  BY FirstOf
<1>2. (k <= n => Stops(v, range[k])) /\ \A j \in 1..k - 1 : ~Stops(v, range[j])
  BY <1>1 DEF T
<1> QED
  BY <1>2 DEF FirstStop, FirstBad

\* A version matches a range exactly if it can be read and every comparator can be
\* read and admits it by the order of the keys (MatchVersionRange, semver.go:101-135),
\* whatever the numbers and however many the identifiers and the comparators.
THEOREM MatchMeansPrecedence ==
    ASSUME NEW text, TextOK(text), NEW range, RangeOK(range), range # None
    PROVE  Match(text, range) = "match" <=>
             /\ Readable(text)
             /\ \A k \in DOMAIN range : Readable(range[k].text) /\ Admits(range[k], text)
<1> DEFINE v == Normalize(text)
           f == FirstStop(v, range)
           n == Len(range)
<1>1. /\ n \in Nat /\ DOMAIN range = 1..n
      /\ \A k \in 1..n : range[k].op \in Comparisons /\ TextOK(range[k].text)
  BY DEF RangeOK, IsSequence
<1>2. /\ f \in 1..n + 1 /\ (f <= n => Stops(v, range[f]))
      /\ \A j \in 1..f - 1 : ~Stops(v, range[j])
  BY <1>1, FirstStopIs
<1>3. Match(text, range) = "match" <=> Parses(v) /\ f > n
  BY DEF Match
<1>4. Parses(v) <=> Readable(text)
  BY ParsesIfReadable
<1>5. ASSUME Readable(text), NEW k \in 1..n
      PROVE  Stops(v, range[k]) <=> ~(Readable(range[k].text) /\ Admits(range[k], text))
  BY <1>1, <1>5, StopsUnlessAdmitted
<1> HIDE DEF v, f, n
<1>6. f > n <=> \A k \in 1..n : ~Stops(v, range[k])
  BY <1>1, <1>2
<1> QED
  BY <1>1, <1>3, <1>4, <1>5, <1>6

-----------------------------------------------------------------------------
(* Lists of reasons. *)

LEMMA EmptyIs == IsSequence(<< >>)
BY DEF IsSequence

LEMMA SliceIs ==
    ASSUME NEW V, NEW u \in Seq(V) PROVE IsSequence(u)
<1> DEFINE R == {u[k] : k \in DOMAIN u}
<1>1. Len(u) \in Nat /\ DOMAIN u = 1..Len(u) /\ u = [k \in 1..Len(u) |-> u[k]]
  OBVIOUS
<1>2. \A k \in 1..Len(u) : u[k] \in R
  BY <1>1
<1> HIDE DEF R
<1>3. u \in Seq(R)
  BY <1>1, <1>2
<1> QED
  BY <1>3 DEF IsSequence, R

LEMMA ConcatIs ==
    ASSUME NEW s, NEW t, IsSequence(s), IsSequence(t)
    PROVE  IsSequence(s \o t) /\ (s \o t = << >> <=> s = << >> /\ t = << >>)
<1> DEFINE U == {s[k] : k \in DOMAIN s}
           T == {t[k] : k \in DOMAIN t}
<1>1. s \in Seq(U \cup T) /\ t \in Seq(U \cup T)
  BY DEF IsSequence
<1> HIDE DEF U, T
<1>2. s \o t \in Seq(U \cup T) /\ Len(s \o t) = Len(s) + Len(t)
  BY <1>1
<1>3. IsSequence(s \o t)
  BY <1>2, SliceIs
<1>4. s \o t = << >> <=> s = << >> /\ t = << >>
  BY <1>1
<1> QED
  BY <1>3, <1>4

LEMMA RejectIs ==
    ASSUME NEW code, NEW field, NEW item
    PROVE  IsSequence(Reject(code, field, item)) /\ Reject(code, field, item) # << >>
<1> DEFINE r == [code |-> code, field |-> field, item |-> item]
<1>1. IsSequence(<<r>>) /\ <<r>> # << >>
  BY DEF IsSequence
<1> QED
  BY <1>1 DEF Reject

-----------------------------------------------------------------------------
(* When each check finds nothing. *)

LEMMA UnknownInputIs ==
    ASSUME NEW c, NEW name
    PROVE  /\ IsSequence(UnknownInput(c, name))
           /\ UnknownInput(c, name) = << >> <=> name \in DOMAIN c.profile.domain
BY EmptyIs, RejectIs DEF UnknownInput, When

LEMMA RelationIs ==
    ASSUME NEW c, NEW k
    PROVE  /\ IsSequence(RelationReasons(c, k))
           /\ RelationReasons(c, k) = << >> <=>
                LET rel == c.profile.relations[k] IN
                HasNumber(c.request, rel.left) /\ HasNumber(c.request, rel.right) =>
                    RelationHolds(c.request, rel)
BY EmptyIs, RejectIs DEF RelationReasons, When, RelationHolds

LEMMA UnknownMetricIs ==
    ASSUME NEW c, NEW name
    PROVE  /\ IsSequence(UnknownInterference(c, name))
           /\ UnknownInterference(c, name) = << >> <=> name \in DOMAIN c.profile.metrics
BY EmptyIs, RejectIs DEF UnknownInterference, When

LEMMA InputSequence ==
    ASSUME NEW c, NEW name PROVE IsSequence(InputReasons(c, name))
<1> DEFINE spec == c.profile.domain[name]
           v == c.request.inputs[name]
           a == When(spec.kind = "integer" /\ ~Integral(v[2]),
                     Reject("INPUT_TYPE_MISMATCH", Input(name), 0))
           b == When(OutOfRange(spec, v[2]), Reject("INPUT_OUT_OF_RANGE", Input(name), 0))
<1>1. IsSequence(a) /\ IsSequence(b)
  BY EmptyIs, RejectIs DEF When
<1> HIDE DEF a, b
<1>2. IsSequence(a \o b)
  BY <1>1, ConcatIs
<1> QED
  BY <1>2, EmptyIs, RejectIs DEF InputReasons, When, a, b

LEMMA FiniteIsInt == \A x : IsFinite(x) => x \in Int
BY ValuesAssumption DEF IsFinite

\* Numbers that are finite compare as numbers do.
LEMMA FiniteLess ==
    /\ IsFinite(0)
    /\ \A x, y : IsFinite(x) /\ IsFinite(y) => (Less(x, y) <=> x < y)
BY ValuesAssumption DEF IsFinite, Less, NaN

LEMMA InputIs ==
    ASSUME NEW c, CaseOK(c), ValidDomain(c.profile), NEW name \in DOMAIN c.profile.domain
    PROVE  InputReasons(c, name) = << >> <=> LawfulInput(c, name)
<1> DEFINE spec == c.profile.domain[name]
           v == c.request.inputs[name]
           a == When(spec.kind = "integer" /\ ~Integral(v[2]),
                     Reject("INPUT_TYPE_MISMATCH", Input(name), 0))
           b == When(OutOfRange(spec, v[2]), Reject("INPUT_OUT_OF_RANGE", Input(name), 0))
<1>1. CASE name \notin DOMAIN c.request.inputs
  BY <1>1, RejectIs DEF InputReasons, LawfulInput, When
<1>2. CASE name \in DOMAIN c.request.inputs /\ spec.kind = "category"
  <2>1. v = <<v[1], v[2]>>
    BY <1>2 DEF CaseOK, RequestOK, ScalarOK, IsFinite
  <2>2. InputReasons(c, name) = << >> <=> IsStr(v) /\ v[2] \in F!Range(spec.categories)
    BY <1>2, RejectIs DEF InputReasons, When
  <2>3. LawfulInput(c, name) <=> v \in {Str(x) : x \in F!Range(spec.categories)}
    BY <1>2 DEF LawfulInput, Calibrated
  <2>4. v \in {Str(x) : x \in F!Range(spec.categories)} <=>
          v[1] = "string" /\ v[2] \in F!Range(spec.categories)
    BY <2>1 DEF Str
  <2> QED
    BY <2>2, <2>3, <2>4 DEF IsStr
<1>3. CASE name \in DOMAIN c.request.inputs /\ spec.kind # "category"
  <2>1. v = <<v[1], v[2]>> /\ (IsNum(v) => v[2] \in Int /\ IsFinite(v[2]))
    BY <1>3, FiniteIsInt DEF CaseOK, RequestOK, ScalarOK
  <2>2. /\ spec.minimum \in Int /\ spec.maximum \in Int
        /\ IsFinite(spec.minimum) /\ IsFinite(spec.maximum)
    <3>1. ValidFeature(spec)
      BY DEF ValidDomain
    <3>2. ValidRange(spec)
      BY <1>3, <3>1 DEF ValidFeature
    <3> QED
      BY <3>2, FiniteIsInt DEF ValidRange
  <2>3. /\ IsSequence(a) /\ IsSequence(b)
        /\ a = << >> <=> ~(spec.kind = "integer" /\ ~Integral(v[2]))
        /\ b = << >> <=> ~OutOfRange(spec, v[2])
    BY EmptyIs, RejectIs DEF When
  <2>4. InputReasons(c, name) =
          IF ~IsNum(v) THEN Reject("INPUT_TYPE_MISMATCH", Input(name), 0) ELSE a \o b
    BY <1>3 DEF InputReasons
  <2>5. LawfulInput(c, name) <=>
          v \in {Num(x) : x \in {y \in spec.minimum..spec.maximum :
                                   spec.kind = "integer" => Integral(y)}}
    BY <1>3 DEF LawfulInput, Calibrated
  <2> HIDE DEF a, b, spec, v
  <2>6. InputReasons(c, name) = << >> <=> IsNum(v) /\ a = << >> /\ b = << >>
    BY <2>3, <2>4, ConcatIs, RejectIs
  <2>7. CASE ~IsNum(v)
    BY <2>5, <2>6, <2>7 DEF Num, IsNum
  <2>8. CASE IsNum(v)
    <3>1. v = Num(v[2]) /\ v[2] \in Int
      BY <2>1, <2>8 DEF Num, IsNum
    <3>2. LawfulInput(c, name) <=>
            /\ v[2] \in spec.minimum..spec.maximum
            /\ spec.kind = "integer" => Integral(v[2])
      <4>1. \A x, y : Num(x) = Num(y) => x = y
        BY DEF Num
      <4> QED
        BY <2>5, <3>1, <4>1
    <3>3. OutOfRange(spec, v[2]) <=> v[2] \notin spec.minimum..spec.maximum
      BY <2>1, <2>2, <2>8, <3>1, FiniteLess DEF OutOfRange
    <3> QED
      BY <2>3, <2>6, <2>8, <3>2, <3>3
  <2> QED
    BY <2>7, <2>8
<1> QED
  BY <1>1, <1>2, <1>3

-----------------------------------------------------------------------------
\* What the node observes is what the documents go by.
LEMMA ObservedIsSeen ==
    ASSUME NEW c, Known(c)
    PROVE  /\ ObservedInterference(c) = Seen(c, c.evidence.interference, c.request.interference)
           /\ ObservedVersions(c) = Seen(c, c.evidence.versions, c.request.versions)
BY DEF Known, Runtime, Observed, ObservedInterference, ObservedVersions, Seen

\* Every observation that is there is a number, and every version is a text.
LEMMA ObservedType ==
    ASSUME NEW c, CaseOK(c), ValidRequest(c.request)
    PROVE  /\ \A name \in DOMAIN ObservedInterference(c) : ObservedInterference(c)[name] \in Int
           /\ \A name \in DOMAIN ObservedVersions(c) : TextOK(ObservedVersions(c)[name])
<1>1. \A name \in DOMAIN c.request.interference : c.request.interference[name] \in Int
  BY FiniteIsInt DEF ValidRequest
<1>2. \A x : IsFloat(x) => x \in Int
  BY ValuesAssumption DEF IsFloat, NegInf, PosInf, NaN
<1>3. \A name \in DOMAIN c.request.versions : TextOK(c.request.versions[name])
  BY DEF CaseOK, RequestOK
<1> QED
  BY <1>1, <1>2, <1>3 DEF CaseOK, EvidenceOK, Observed, ObservedInterference, ObservedVersions

LEMMA MetricIs ==
    ASSUME NEW c, CaseOK(c), Known(c), ValidRequest(c.request), ValidMetrics(c.profile),
           NEW name \in DOMAIN c.profile.metrics
    PROVE  /\ IsSequence(InterferenceReasons(c, name))
           /\ InterferenceReasons(c, name) = << >> <=> LawfulMetric(c, name)
<1> DEFINE seen == ObservedInterference(c)
           range == c.profile.metrics[name]
<1>1. /\ IsFinite(range.minimum) /\ IsFinite(range.maximum)
      /\ range.minimum \in Int /\ range.maximum \in Int
  BY FiniteIsInt DEF ValidMetrics, ValidRange
<1>2. LawfulMetric(c, name) <=>
        name \in DOMAIN seen /\ seen[name] \in range.minimum..range.maximum
  BY ObservedIsSeen DEF LawfulMetric
<1>3. name \in DOMAIN seen => seen[name] \in Int
  BY ObservedType
<1>4. name \in DOMAIN seen =>
        (~IsFinite(seen[name]) \/ OutOfRange(range, seen[name])
           <=> seen[name] \notin range.minimum..range.maximum)
  <2>1. seen[name] \in range.minimum..range.maximum => IsFinite(seen[name])
    BY <1>1, ValuesAssumption DEF IsFinite
  <2> QED
    BY <1>1, <1>3, <2>1, FiniteLess DEF OutOfRange
<1>5. InterferenceReasons(c, name) =
        IF name \notin DOMAIN seen
        THEN Reject("MISSING_INTERFERENCE", Interference(name), 0)
        ELSE When(~IsFinite(seen[name]) \/ OutOfRange(range, seen[name]),
                  Reject("INTERFERENCE_OUT_OF_ENVELOPE", Interference(name), 0))
  BY DEF InterferenceReasons
<1> HIDE DEF seen, range
<1> QED
  BY <1>2, <1>4, <1>5, EmptyIs, RejectIs DEF When

LEMMA VersionIs ==
    ASSUME NEW c, CaseOK(c), Known(c), ValidRequest(c.request), ValidVersions(c.profile),
           NEW component \in DOMAIN c.profile.versions
    PROVE  /\ IsSequence(VersionReasons(c, component))
           /\ VersionReasons(c, component) = << >> <=> LawfulVersion(c, component)
<1> DEFINE seen == ObservedVersions(c)
           range == c.profile.versions[component]
           match == Match(seen[component], range)
           a == When(match = "error", Reject("INVALID_VERSION", Version(component), 0))
           b == When(match = "differ", Reject("UNSUPPORTED_VERSION", Version(component), 0))
<1>1. RangeOK(range) /\ range # None
  BY DEF CaseOK, ProfileOK, ValidVersions
<1>2. LawfulVersion(c, component) <=>
        /\ component \in DOMAIN seen /\ Readable(seen[component])
        /\ \A k \in DOMAIN range : Readable(range[k].text) /\ Admits(range[k], seen[component])
  BY ObservedIsSeen DEF LawfulVersion
<1>3. component \in DOMAIN seen =>
        (match = "match" <=>
           /\ Readable(seen[component])
           /\ \A k \in DOMAIN range : Readable(range[k].text) /\ Admits(range[k], seen[component]))
  BY <1>1, ObservedType, MatchMeansPrecedence
<1>4. match \in {"match", "differ", "error"}
  BY DEF Match
<1>5. VersionReasons(c, component) =
        IF component \notin DOMAIN seen THEN Reject("MISSING_VERSION", Version(component), 0)
        ELSE a \o b
  BY DEF VersionReasons
<1>6. /\ IsSequence(a) /\ IsSequence(b)
      /\ a = << >> <=> match # "error"
      /\ b = << >> <=> match # "differ"
  BY EmptyIs, RejectIs DEF When
<1> HIDE DEF seen, range, match, a, b
<1>7. IsSequence(a \o b) /\ (a \o b = << >> <=> a = << >> /\ b = << >>)
  BY <1>6, ConcatIs
<1> QED
  BY <1>2, <1>3, <1>4, <1>5, <1>6, <1>7, RejectIs

LEMMA FeatureIs ==
    ASSUME NEW c, NEW k
    PROVE  /\ IsSequence(FeatureReasons(c, k))
           /\ FeatureReasons(c, k) = << >> <=> Available(c, Names(c.profile)[k])
BY EmptyIs, RejectIs DEF FeatureReasons, When, Available

LEMMA LatencyIs ==
    ASSUME NEW c, ValidRequest(c.request), NEW value
    PROVE  /\ IsSequence(LatencyReasons(c, value))
           /\ LatencyReasons(c, value) = << >> <=>
                /\ Predicted(c.profile, value) \in 0..MaxFloat
                /\ LatencyUpper(c.profile, value) \in 0..AvailableTime(c.request)
<1> DEFINE predicted == Predicted(c.profile, value)
           upper == LatencyUpper(c.profile, value)
           available == AvailableTime(c.request)
           a == When(~IsFinite(predicted) \/ Less(predicted, 0),
                     Reject("INVALID_PREDICTION", Fixed, 0))
           b == IF ~IsFinite(upper) \/ Less(upper, 0)
                THEN Reject("INVALID_LATENCY_BOUND", Fixed, 0)
                ELSE When(Less(available, upper), Reject("LATENCY_SLO_UNSATISFIED", Fixed, 0))
<1>1. MaxFloat \in Nat
  BY ValuesAssumption
<1>2. available \in 0..MaxFloat
  <2>1. /\ c.request.deadline \in -MaxFloat..MaxFloat /\ c.request.deadline > 0
        /\ c.request.margin \in -MaxFloat..MaxFloat /\ c.request.margin >= 0
        /\ c.request.margin < c.request.deadline
    BY DEF ValidRequest, FinitePositive, FiniteNonNegative, IsFinite
  <2>2. -c.request.margin \in -MaxFloat..MaxFloat
        /\ c.request.deadline + (-c.request.margin) \in 0..MaxFloat
    BY <1>1, <2>1
  <2>3. 0..MaxFloat \subseteq -MaxFloat..MaxFloat
    BY <1>1
  <2> QED
    BY <2>1, <2>2, <2>3 DEF AvailableTime, Plus, Round, IsFinite
<1>3. LatencyReasons(c, value) = a \o b
  BY DEF LatencyReasons
<1> HIDE DEF predicted, upper, available
<1>4. IsFinite(available) /\ available \in Int
  BY <1>1, <1>2 DEF IsFinite
<1>5. IsSequence(a) /\ (a = << >> <=> predicted \in 0..MaxFloat)
  <2>1. ~(~IsFinite(predicted) \/ Less(predicted, 0)) <=> predicted \in 0..MaxFloat
    BY <1>1, FiniteLess DEF IsFinite
  <2> QED
    BY <2>1, EmptyIs, RejectIs DEF When
<1>6. IsSequence(b) /\ (b = << >> <=> upper \in 0..available)
  <2>1. IsFinite(upper) /\ ~Less(upper, 0) /\ ~Less(available, upper) <=> upper \in 0..available
    BY <1>1, <1>2, <1>4, FiniteLess DEF IsFinite
  <2> QED
    BY <2>1, EmptyIs, RejectIs DEF When
<1> HIDE DEF a, b
<1> QED
  BY <1>3, <1>5, <1>6, ConcatIs DEF predicted, upper, available

LEMMA OODIs ==
    ASSUME NEW c, ValidOOD(c.profile), NEW value
    PROVE  /\ IsSequence(OODReasons(c, value))
           /\ OODReasons(c, value) = << >> <=>
                (c.profile.ood.required =>
                   Score(c.profile.ood, value) \in 0..c.profile.ood.threshold)
<1> DEFINE score == Score(c.profile.ood, value)
<1>1. CASE ~c.profile.ood.required
  BY <1>1, EmptyIs DEF OODReasons
<1>2. CASE c.profile.ood.required
  <2>1. c.profile.ood.threshold \in 0..MaxFloat /\ MaxFloat \in Nat
    BY <1>2, ValuesAssumption DEF ValidOOD, FinitePositive, IsFinite
  <2>2. OODReasons(c, value) =
          IF ~IsFinite(score) \/ Less(score, 0) THEN Reject("INVALID_OOD_SCORE", Fixed, 0)
          ELSE When(Less(c.profile.ood.threshold, score), Reject("OOD_REJECTED", Fixed, 0))
    BY <1>2 DEF OODReasons
  <2> HIDE DEF score
  <2>3. IsSequence(OODReasons(c, value)) /\
        (OODReasons(c, value) = << >> <=> score \in 0..c.profile.ood.threshold)
    <3>1. /\ IsFinite(c.profile.ood.threshold)
      BY <2>1 DEF IsFinite
    <3>2. IsFinite(score) /\ ~Less(score, 0) /\ ~Less(c.profile.ood.threshold, score)
            <=> score \in 0..c.profile.ood.threshold
      BY <2>1, <3>1, FiniteLess DEF IsFinite
    <3> QED
      BY <2>2, <3>2, EmptyIs, RejectIs DEF When
  <2> QED
    BY <1>2, <2>3 DEF score
<1> QED
  BY <1>1, <1>2

LEMMA MetadataIs ==
    ASSUME NEW c
    PROVE  /\ IsSequence(MetadataReasons(c))
           /\ MetadataReasons(c) = << >> <=>
                HasDevices(c) /\ Len(Devices(c)) = c.profile.deviceCount
BY EmptyIs, RejectIs DEF MetadataReasons, When, HasDevices

LEMMA AttributeIs ==
    ASSUME NEW c, NEW k
    PROVE  /\ IsSequence(AttributeReasons(c, k))
           /\ AttributeReasons(c, k) = << >> <=>
                LET n == Len(c.profile.assertions)
                    device == Devices(c)[1 + ((k - 1) \div n)]
                    assertion == c.profile.assertions[1 + ((k - 1) % n)]
                IN  /\ assertion.attribute \in DOMAIN device
                    /\ Satisfies(device[assertion.attribute], assertion)
BY EmptyIs, RejectIs DEF AttributeReasons, When

\* Going through the assertions for each device in turn meets every pair.
LEMMA Grid ==
    ASSUME NEW m \in Nat, NEW n \in Nat, NEW G
    PROVE  (\A k \in 1..m * n : <<1 + ((k - 1) \div n), 1 + ((k - 1) % n)>> \in G) <=>
           (\A d \in 1..m, a \in 1..n : <<d, a>> \in G)
<1>1. ASSUME NEW d \in 1..m, NEW a \in 1..n,
             \A k \in 1..m * n : <<1 + ((k - 1) \div n), 1 + ((k - 1) % n)>> \in G
      PROVE  <<d, a>> \in G
  <2> DEFINE k == (d - 1) * n + a
  <2>1. n \in Nat \ {0} /\ d - 1 \in Nat
    OBVIOUS
  <2>2. (d - 1) * n \in Nat
    BY <2>1
  <2>3. (d - 1) * n + n = d * n
    BY <2>1
  <2>4. d * n <= m * n
    BY <2>1
  <2>5. m * n \in Nat /\ d * n \in Nat
    BY <2>1
  <2>6. k \in 1..m * n
    BY <2>2, <2>3, <2>4, <2>5
  <2>7. k - 1 = (d - 1) * n + (a - 1) /\ a - 1 \in 0..n - 1
    BY <2>2
  <2>8. (k - 1) \div n = d - 1 /\ (k - 1) % n = a - 1
    BY <2>1, <2>7
  <2>9. 1 + ((k - 1) \div n) = d /\ 1 + ((k - 1) % n) = a
    BY <2>8
  <2> HIDE DEF k
  <2> QED
    BY <1>1, <2>6, <2>9
<1>2. ASSUME NEW k \in 1..m * n, \A d \in 1..m, a \in 1..n : <<d, a>> \in G
      PROVE  <<1 + ((k - 1) \div n), 1 + ((k - 1) % n)>> \in G
  <2> DEFINE q == (k - 1) \div n
             r == (k - 1) % n
  <2>1. n # 0 /\ m * n \in Nat
    OBVIOUS
  <2>2. q \in Int /\ r \in 0..n - 1 /\ k - 1 = q * n + r
    BY <2>1
  <2> HIDE DEF q, r
  <2>3. q >= 0
    BY <2>1, <2>2
  <2>4. q < m
    BY <2>1, <2>2
  <2>5. 1 + q \in 1..m /\ 1 + r \in 1..n
    BY <2>1, <2>2, <2>3, <2>4
  <2>6. <<1 + q, 1 + r>> \in G
    BY <1>2, <2>5
  <2> QED
    BY <2>6 DEF q, r
<1> QED
  BY <1>1, <1>2

LEMMA DevicesAre ==
    ASSUME NEW c, CaseOK(c)
    PROVE  LawfulDevices(c) <=>
             /\ MetadataReasons(c) = << >>
             /\ \A k \in Pairs(c) : AttributeReasons(c, k) = << >>
<1> DEFINE asserts == c.profile.assertions
           n == Len(asserts)
           m == Len(Devices(c))
           Good(d, a) == /\ asserts[a].attribute \in DOMAIN Devices(c)[d]
                         /\ Satisfies(Devices(c)[d][asserts[a].attribute], asserts[a])
           G == {p \in (1..m) \X (1..n) : Good(p[1], p[2])}
<1>1. CASE ~HasDevices(c)
  BY <1>1, MetadataIs DEF LawfulDevices, HasDevices
<1>2. CASE HasDevices(c)
  <2>1. IsSequence(asserts) /\ IsSequence(Devices(c))
    BY <1>2 DEF CaseOK, ProfileOK, EvidenceOK, HasDevices, Devices
  <2>2. n \in Nat /\ m \in Nat /\ DOMAIN asserts = 1..n /\ DOMAIN Devices(c) = 1..m
    BY <2>1 DEF IsSequence
  <2>3. Pairs(c) = 1..m * n
    BY DEF Pairs
  <2>4. LawfulDevices(c) <=>
          /\ m = c.profile.deviceCount
          /\ \A d \in 1..m, a \in 1..n : Good(d, a)
    BY <1>2, <2>2 DEF LawfulDevices, HasDevices
  <2>5. MetadataReasons(c) = << >> <=> m = c.profile.deviceCount
    BY <1>2, MetadataIs
  <2>6. \A k \in 1..m * n : AttributeReasons(c, k) = << >> <=>
                             Good(1 + ((k - 1) \div n), 1 + ((k - 1) % n))
    BY AttributeIs
  <2> HIDE DEF n, m, Good
  <2>7. \A k \in 1..m * n : <<1 + ((k - 1) \div n), 1 + ((k - 1) % n)>> \in (1..m) \X (1..n)
    <3> DEFINE H == (1..m) \X (1..n)
    <3>1. \A d \in 1..m, a \in 1..n : <<d, a>> \in H
      OBVIOUS
    <3> HIDE DEF H
    <3>2. m \in Nat /\ n \in Nat
      BY <2>2
    <3>3. \A k \in 1..m * n : <<1 + ((k - 1) \div n), 1 + ((k - 1) % n)>> \in H
      BY ONLY <3>1, <3>2, Grid
    <3> QED
      BY <3>3 DEF H
  <2>8. (\A k \in 1..m * n : <<1 + ((k - 1) \div n), 1 + ((k - 1) % n)>> \in G) <=>
        (\A d \in 1..m, a \in 1..n : <<d, a>> \in G)
    <3> HIDE DEF G
    <3>1. m \in Nat /\ n \in Nat
      BY <2>2
    <3> QED
      BY ONLY <3>1, Grid
  <2>9. \A k \in 1..m * n : <<1 + ((k - 1) \div n), 1 + ((k - 1) % n)>> \in G <=>
                             Good(1 + ((k - 1) \div n), 1 + ((k - 1) % n))
    BY <2>7
  <2>10. \A d \in 1..m, a \in 1..n : <<d, a>> \in G <=> Good(d, a)
    OBVIOUS
  <2> QED
    BY <2>3, <2>4, <2>5, <2>6, <2>8, <2>9, <2>10
<1> QED
  BY <1>1, <1>2

-----------------------------------------------------------------------------
(* That every check finds nothing, up to each of the loops. *)

InputsKnown(c, D)   == \A name \in D : UnknownInput(c, name) = << >>
InputsFit(c, D)     == \A name \in D : InputReasons(c, name) = << >>
RelationsHold(c, D) == \A k \in D : RelationReasons(c, k) = << >>
MetricsKnown(c, D)  == \A name \in D : UnknownInterference(c, name) = << >>
MetricsFit(c, D)    == \A name \in D : InterferenceReasons(c, name) = << >>
VersionsFit(c, D)   == \A component \in D : VersionReasons(c, component) = << >>
FeaturesFound(c, D) == \A k \in D : FeatureReasons(c, k) = << >>
AttributesFit(c, D) == \A k \in D : AttributeReasons(c, k) = << >>

Identified(c) == c.request.required \in {None, c.profile.name} /\ c.evidence.fresh

LoadFits(c) ==
    LatencyReasons(c, LawfulValue(c)) = << >> /\ OODReasons(c, LawfulValue(c)) = << >>

AssertionKeys(c) == IF Runtime(c) /\ HasDevices(c) THEN Pairs(c) ELSE {}

Through1(c) == Identified(c)  /\ InputsKnown(c, DOMAIN c.request.inputs)
Through2(c) == Through1(c) /\ InputsFit(c, DOMAIN c.profile.domain)
Through3(c) == Through2(c) /\ RelationsHold(c, DOMAIN c.profile.relations)
Through4(c) == Through3(c) /\ MetricsKnown(c, DOMAIN ObservedInterference(c))
Through5(c) == Through4(c) /\ MetricsFit(c, DOMAIN c.profile.metrics)
Through6(c) == /\ Through5(c) /\ VersionsFit(c, DOMAIN c.profile.versions)
               /\ c.profile.upperBound <= c.request.maxNumericalError
Through7(c) == Through6(c) /\ FeaturesFound(c, FirstNames(c.profile))
Through8(c) == /\ Through7(c) /\ LoadFits(c)
               /\ Runtime(c) => MetadataReasons(c) = << >>
Clean(c)    == Through8(c) /\ AttributesFit(c, AssertionKeys(c))

LEMMA NamesType ==
    ASSUME NEW p, ProfileOK(p)
    PROVE  /\ Len(Names(p)) \in Nat /\ DOMAIN Names(p) = 1..Len(Names(p))
<1>1. IsSequence(p.order) /\ IsSequence(p.ood.features)
  BY DEF ProfileOK
<1>2. IsSequence(Names(p))
  BY <1>1, ConcatIs DEF Names
<1> QED
  BY <1>2 DEF IsSequence

\* Each name that is used has a first place.
LEMMA FirstPlace ==
    ASSUME NEW p, ProfileOK(p), NEW k \in DOMAIN Names(p)
    PROVE  \E j \in FirstNames(p) : Names(p)[j] = Names(p)[k]
<1> DEFINE T == {j \in DOMAIN Names(p) : Names(p)[j] = Names(p)[k]}
<1>1. DOMAIN Names(p) = 1..Len(Names(p)) /\ Len(Names(p)) \in Nat
  BY NamesType
<1>2. T \subseteq Nat /\ T # {}
  BY <1>1
<1> HIDE DEF T
<1>3. PICK j \in T : \A i_1 \in T : j <= i_1
  BY <1>2, LeastElement
<1>4. \A m \in 1..j - 1 : m \notin T
  BY <1>2, <1>3
<1>5. j \in DOMAIN Names(p) /\ \A m \in 1..j - 1 : Names(p)[m] # Names(p)[j]
  BY <1>1, <1>3, <1>4 DEF T
<1> QED
  BY <1>3, <1>5 DEF T, FirstNames

\* If the name at every first place is available, all that is used is.
LEMMA FirstNamesSuffice ==
    ASSUME NEW c, CaseOK(c)
    PROVE  FeaturesFound(c, FirstNames(c.profile)) <=>
             \A f \in Used(c.profile) : Available(c, f)
<1>1. ASSUME FeaturesFound(c, FirstNames(c.profile)), NEW f \in Used(c.profile)
      PROVE  Available(c, f)
  <2>1. PICK k \in DOMAIN Names(c.profile) : f = Names(c.profile)[k]
    BY <1>1 DEF Used
  <2>2. PICK j \in FirstNames(c.profile) : Names(c.profile)[j] = Names(c.profile)[k]
    BY FirstPlace DEF CaseOK
  <2>3. FeatureReasons(c, j) = << >>
    BY <1>1 DEF FeaturesFound
  <2> QED
    BY <2>1, <2>2, <2>3, FeatureIs
<1>2. ASSUME \A f \in Used(c.profile) : Available(c, f), NEW j \in FirstNames(c.profile)
      PROVE  FeatureReasons(c, j) = << >>
  <2>1. Names(c.profile)[j] \in Used(c.profile)
    BY DEF Used, FirstNames
  <2> QED
    BY <1>2, <2>1, FeatureIs
<1> QED
  BY <1>1, <1>2 DEF FeaturesFound

\* A relation has operands that are numbers, if they are given and lawful.
LEMMA RelationLawful ==
    ASSUME NEW c, ValidDomain(c.profile),
           \A name \in DOMAIN c.profile.domain : LawfulInput(c, name),
           NEW k \in DOMAIN c.profile.relations
    PROVE  RelationReasons(c, k) = << >> <=>
             LET rel == c.profile.relations[k] IN
             {rel.left, rel.right} \subseteq DOMAIN c.request.inputs =>
                 RelationHolds(c.request, rel)
<1> DEFINE rel == c.profile.relations[k]
<1>1. ASSUME NEW name \in {rel.left, rel.right}, name \in DOMAIN c.request.inputs
      PROVE  HasNumber(c.request, name)
  <2>1. name \in DOMAIN c.profile.domain /\ Numeric(c.profile.domain[name])
    BY DEF ValidDomain, ValidRelation
  <2>2. LawfulInput(c, name) /\ c.profile.domain[name].kind # "category"
    BY <2>1 DEF Numeric
  <2>3. PICK x : c.request.inputs[name] = Num(x)
    BY <1>1, <2>2 DEF LawfulInput, Calibrated
  <2> QED
    BY <1>1, <2>3 DEF HasNumber, IsNum, Num
<1>2. \A name : HasNumber(c.request, name) => name \in DOMAIN c.request.inputs
  BY DEF HasNumber
<1>3. RelationReasons(c, k) = << >> <=>
        (HasNumber(c.request, rel.left) /\ HasNumber(c.request, rel.right) =>
            RelationHolds(c.request, rel))
  BY RelationIs
<1> HIDE DEF rel
<1> QED
  BY <1>1, <1>2, <1>3 DEF rel

\* What is within an envelope is finite.
LEMMA LawfulIsFinite ==
    ASSUME NEW c, Known(c), ValidMetrics(c.profile), NEW name, LawfulMetric(c, name)
    PROVE  /\ name \in DOMAIN ObservedInterference(c)
           /\ IsFinite(ObservedInterference(c)[name])
<1> DEFINE range == c.profile.metrics[name]
<1>1. IsFinite(range.minimum) /\ IsFinite(range.maximum)
  BY DEF LawfulMetric, ValidMetrics, ValidRange
<1>2. /\ name \in DOMAIN ObservedInterference(c)
      /\ ObservedInterference(c)[name] \in range.minimum..range.maximum
  BY ObservedIsSeen DEF LawfulMetric
<1> HIDE DEF range
<1>3. range.minimum..range.maximum \subseteq -MaxFloat..MaxFloat
  BY <1>1, ValuesAssumption DEF IsFinite
<1> QED
  BY <1>2, <1>3 DEF IsFinite

\* Every name that is used is available, if the metrics are lawful, just when it
\* is among what was observed.
LEMMA FeaturesAreThere ==
    ASSUME NEW c, CaseOK(c), Known(c), ValidMetrics(c.profile),
           \A name \in DOMAIN ObservedInterference(c) : LawfulMetric(c, name)
    PROVE  FeaturesFound(c, FirstNames(c.profile)) <=>
             \A f \in Used(c.profile) :
                 \/ IsInput(f) /\ HasNumber(c.request, f[2])
                 \/ /\ IsInterference(f)
                    /\ f[2] \in DOMAIN Seen(c, c.evidence.interference, c.request.interference)
<1>1. \A f : Available(c, f) <=>
             \/ IsInput(f) /\ HasNumber(c.request, f[2])
             \/ IsInterference(f) /\ f[2] \in DOMAIN ObservedInterference(c)
  BY LawfulIsFinite DEF Available
<1> QED
  BY <1>1, FirstNamesSuffice, ObservedIsSeen

\* The checks together ask what the documents ask.
LEMMA CleanIsLawful ==
    ASSUME NEW c, CaseOK(c), Known(c), ValidProfile(c.profile), ValidRequest(c.request)
    PROVE  Clean(c) <=> Lawful(c)
<1> USE DEF ValidProfile
<1>1. InputsKnown(c, DOMAIN c.request.inputs) /\ InputsFit(c, DOMAIN c.profile.domain) <=>
        \A name \in DOMAIN c.profile.domain \cup DOMAIN c.request.inputs : LawfulInput(c, name)
  BY InputIs, UnknownInputIs DEF InputsKnown, InputsFit, LawfulInput
<1>2. ASSUME \A name \in DOMAIN c.profile.domain : LawfulInput(c, name)
      PROVE  RelationsHold(c, DOMAIN c.profile.relations) <=>
               \A k \in DOMAIN c.profile.relations :
                  LET rel == c.profile.relations[k] IN
                  {rel.left, rel.right} \subseteq DOMAIN c.request.inputs =>
                      RelationHolds(c.request, rel)
  BY <1>2, RelationLawful DEF RelationsHold
<1>3. /\ MetricsKnown(c, DOMAIN ObservedInterference(c))
      /\ MetricsFit(c, DOMAIN c.profile.metrics)
      <=> \A name \in DOMAIN c.profile.metrics \cup DOMAIN ObservedInterference(c) :
             LawfulMetric(c, name)
  BY MetricIs, UnknownMetricIs DEF MetricsKnown, MetricsFit, LawfulMetric
<1>4. VersionsFit(c, DOMAIN c.profile.versions) <=>
        \A component \in DOMAIN c.profile.versions : LawfulVersion(c, component)
  BY VersionIs DEF VersionsFit
<1>5. ASSUME \A name \in DOMAIN ObservedInterference(c) : LawfulMetric(c, name)
      PROVE  FeaturesFound(c, FirstNames(c.profile)) /\ LoadFits(c) <=> LawfulLoad(c)
  BY <1>5, FeaturesAreThere, LatencyIs, OODIs DEF LoadFits, LawfulLoad, LawfulUpper
<1>6. (Runtime(c) => MetadataReasons(c) = << >>) /\ AttributesFit(c, AssertionKeys(c)) <=>
        (Runtime(c) => LawfulDevices(c))
  <2>1. CASE ~Runtime(c)
    BY <2>1 DEF AssertionKeys, AttributesFit
  <2>2. CASE Runtime(c)
    <3>1. MetadataReasons(c) = << >> => HasDevices(c)
      BY MetadataIs
    <3> QED
      BY <2>2, <3>1, DevicesAre DEF AssertionKeys, AttributesFit
  <2> QED
    BY <2>1, <2>2
<1>7. ObservedInterference(c) = Seen(c, c.evidence.interference, c.request.interference)
  BY ObservedIsSeen
<1> QED
  BY <1>1, <1>2, <1>3, <1>4, <1>5, <1>6, <1>7
     DEF Clean, Through8, Through7, Through6, Through5, Through4, Through3, Through2,
         Through1, Identified, Lawful

-----------------------------------------------------------------------------
(* The invariant: in each loop there is no reason so far just if every check *)
(* of the loops before found nothing, and this one at the keys it has visited. *)

BeforeFeatures == {"idle", "start", "unknown inputs", "inputs", "relations",
                   "unknown interference", "interference", "versions"}

Loops == {"unknown inputs", "inputs", "relations", "unknown interference",
          "interference", "versions", "features", "devices"}

ControlInv ==
    /\ pc \in Loops \cup {"idle", "start", "done", "panic in validation"}
    /\ pc # "idle" => CaseOK(case)
    /\ pc \in Loops => Known(case) /\ ValidProfile(profile) /\ ValidRequest(request)

StartInv ==
    /\ IsSequence(reasons)
    /\ pc \in {"idle", "start"} => reasons = << >>
    /\ pc \in BeforeFeatures => features = << >>

UnknownInputsInv ==
    pc = "unknown inputs" =>
        /\ todo \subseteq DOMAIN request.inputs
        /\ reasons = << >> <=>
             Identified(case) /\ InputsKnown(case, DOMAIN request.inputs \ todo)

InputsInv ==
    pc = "inputs" =>
        /\ todo \subseteq DOMAIN profile.domain
        /\ reasons = << >> <=>
             Through1(case) /\ InputsFit(case, DOMAIN profile.domain \ todo)

RelationsInv ==
    pc = "relations" =>
        /\ todo \subseteq DOMAIN profile.relations
        /\ reasons = << >> <=>
             Through2(case) /\ RelationsHold(case, DOMAIN profile.relations \ todo)

UnknownMetricsInv ==
    pc = "unknown interference" =>
        /\ todo \subseteq DOMAIN ObservedInterference(case)
        /\ reasons = << >> <=>
             Through3(case) /\ MetricsKnown(case, DOMAIN ObservedInterference(case) \ todo)

MetricsInv ==
    pc = "interference" =>
        /\ todo \subseteq DOMAIN profile.metrics
        /\ reasons = << >> <=>
             Through4(case) /\ MetricsFit(case, DOMAIN profile.metrics \ todo)

VersionsInv ==
    pc = "versions" =>
        /\ todo \subseteq DOMAIN profile.versions
        /\ reasons = << >> <=>
             Through5(case) /\ VersionsFit(case, DOMAIN profile.versions \ todo)

\* The names at places D that are available, each with its value.
FoundNames(c, D) == {Names(c.profile)[k] : k \in {j \in D : FeatureReasons(c, j) = << >>}}

Resolved(c, D) == [f \in FoundNames(c, D) |-> Resolve(c, f)]

FeaturesInv ==
    pc = "features" =>
        /\ todo \subseteq FirstNames(profile)
        /\ reasons = << >> <=>
             Through6(case) /\ FeaturesFound(case, FirstNames(profile) \ todo)
        /\ features = Resolved(case, FirstNames(profile) \ todo)

DevicesInv ==
    pc = "devices" =>
        /\ todo \subseteq AssertionKeys(case)
        /\ reasons = << >> <=>
             Through8(case) /\ AttributesFit(case, AssertionKeys(case) \ todo)
        /\ reasons = << >> => features = LawfulValue(case)

DoneInv ==
    pc = "done" =>
        /\ reasons = << >> <=> Lawful(case)
        /\ reasons = << >> => features = LawfulValue(case)

EvaluateInv ==
    /\ ControlInv /\ StartInv
    /\ UnknownInputsInv /\ InputsInv /\ RelationsInv /\ UnknownMetricsInv
    /\ MetricsInv /\ VersionsInv /\ FeaturesInv /\ DevicesInv /\ DoneInv

\* Visiting one more key.
LEMMA OneMore ==
    ASSUME NEW K, NEW T, T \subseteq K, NEW x \in T
    PROVE  K \ (T \ {x}) = (K \ T) \cup {x}
OBVIOUS

LEMMA NoneLeft == ASSUME NEW K PROVE K \ {} = K /\ K \ K = {}
OBVIOUS

LEMMA UnknownInputsKeeps ==
    ASSUME EvaluateInv, UnknownInputs PROVE EvaluateInv'
<1> USE DEF profile, request
<1> DEFINE keys == DOMAIN request.inputs
<1>0. /\ pc = "unknown inputs" /\ case' = case /\ features' = features
      /\ Known(case) /\ ValidProfile(profile) /\ ValidRequest(request) /\ CaseOK(case)
      /\ IsSequence(reasons) /\ features = << >> /\ todo \subseteq keys
      /\ reasons = << >> <=> Identified(case) /\ InputsKnown(case, keys \ todo)
  BY DEF UnknownInputs, Each, Visit, Enter, EvaluateInv, ControlInv, StartInv, Loops,
         BeforeFeatures, UnknownInputsInv
<1>1. ASSUME NEW name \in todo, Visit(name, UnknownInput(case, name)) PROVE EvaluateInv'
  <2>1. /\ IsSequence(reasons')
        /\ reasons' = << >> <=> reasons = << >> /\ UnknownInput(case, name) = << >>
    BY <1>0, <1>1, UnknownInputIs, ConcatIs DEF Visit
  <2>2. InputsKnown(case, keys \ todo') <=>
          InputsKnown(case, keys \ todo) /\ UnknownInput(case, name) = << >>
    BY <1>0, <1>1, OneMore DEF Visit, InputsKnown
  <2> QED
    BY <1>0, <1>1, <2>1, <2>2
       DEF Visit, EvaluateInv, ControlInv, StartInv, Loops, BeforeFeatures,
           UnknownInputsInv, InputsInv, RelationsInv, UnknownMetricsInv, MetricsInv,
           VersionsInv, FeaturesInv, DevicesInv, DoneInv
<1>2. ASSUME todo = {}, Enter("inputs", DOMAIN profile.domain, << >>) PROVE EvaluateInv'
  <2>1. /\ IsSequence(reasons')
        /\ reasons' = << >> <=> Through1(case)
    BY <1>0, <1>2, EmptyIs, ConcatIs, NoneLeft DEF Enter, Through1
  <2>2. InputsFit(case, DOMAIN profile.domain \ todo')
    BY <1>2, NoneLeft DEF Enter, InputsFit
  <2> QED
    BY <1>0, <1>2, <2>1, <2>2
       DEF Enter, EvaluateInv, ControlInv, StartInv, Loops, BeforeFeatures,
           UnknownInputsInv, InputsInv, RelationsInv, UnknownMetricsInv, MetricsInv,
           VersionsInv, FeaturesInv, DevicesInv, DoneInv
<1> QED
  BY <1>1, <1>2 DEF UnknownInputs, Each

\* A slice is gone through from its first index.
LEMMA FirstKeyIs ==
    ASSUME todo \subseteq Nat, todo # {} PROVE FirstKey \in todo
BY LeastElement DEF FirstKey

LEMMA InputsKeeps ==
    ASSUME EvaluateInv, Inputs PROVE EvaluateInv'
<1> USE DEF profile, request
<1> DEFINE keys == DOMAIN profile.domain
<1>0. /\ pc = "inputs" /\ case' = case /\ features' = features
      /\ Known(case) /\ ValidProfile(profile) /\ ValidRequest(request) /\ CaseOK(case)
      /\ IsSequence(reasons) /\ features = << >> /\ todo \subseteq keys
      /\ reasons = << >> <=> Through1(case) /\ InputsFit(case, keys \ todo)
  BY DEF Inputs, Each, Visit, Enter, EvaluateInv, ControlInv, StartInv, Loops,
         BeforeFeatures, InputsInv
<1>1. ASSUME NEW name \in todo, Visit(name, InputReasons(case, name)) PROVE EvaluateInv'
  <2>1. /\ IsSequence(reasons')
        /\ reasons' = << >> <=> reasons = << >> /\ InputReasons(case, name) = << >>
    BY <1>0, <1>1, InputSequence, ConcatIs DEF Visit
  <2>2. InputsFit(case, keys \ todo') <=>
          InputsFit(case, keys \ todo) /\ InputReasons(case, name) = << >>
    BY <1>0, <1>1, OneMore DEF Visit, InputsFit
  <2> QED
    BY <1>0, <1>1, <2>1, <2>2
       DEF Visit, EvaluateInv, ControlInv, StartInv, Loops, BeforeFeatures,
           UnknownInputsInv, InputsInv, RelationsInv, UnknownMetricsInv, MetricsInv,
           VersionsInv, FeaturesInv, DevicesInv, DoneInv
<1>2. ASSUME todo = {}, Enter("relations", DOMAIN profile.relations, << >>) PROVE EvaluateInv'
  <2>1. /\ IsSequence(reasons')
        /\ reasons' = << >> <=> Through2(case)
    BY <1>0, <1>2, EmptyIs, ConcatIs, NoneLeft DEF Enter, Through2
  <2>2. RelationsHold(case, DOMAIN profile.relations \ todo')
    BY <1>2, NoneLeft DEF Enter, RelationsHold
  <2> QED
    BY <1>0, <1>2, <2>1, <2>2
       DEF Enter, EvaluateInv, ControlInv, StartInv, Loops, BeforeFeatures,
           UnknownInputsInv, InputsInv, RelationsInv, UnknownMetricsInv, MetricsInv,
           VersionsInv, FeaturesInv, DevicesInv, DoneInv
<1> QED
  BY <1>1, <1>2 DEF Inputs, Each

LEMMA RelationsKeeps ==
    ASSUME EvaluateInv, Relations PROVE EvaluateInv'
<1> USE DEF profile, request
<1> DEFINE keys == DOMAIN profile.relations
<1>0. /\ pc = "relations" /\ case' = case /\ features' = features
      /\ Known(case) /\ ValidProfile(profile) /\ ValidRequest(request) /\ CaseOK(case)
      /\ IsSequence(reasons) /\ features = << >> /\ todo \subseteq keys
      /\ reasons = << >> <=> Through2(case) /\ RelationsHold(case, keys \ todo)
  BY DEF Relations, Each, Visit, Enter, EvaluateInv, ControlInv, StartInv, Loops,
         BeforeFeatures, RelationsInv
<1>1. ASSUME todo # {}, Visit(FirstKey, RelationReasons(case, FirstKey)) PROVE EvaluateInv'
  <2>0. FirstKey \in todo
    <3>1. IsSequence(profile.relations)
      BY <1>0 DEF CaseOK, ProfileOK
    <3>2. keys \subseteq Nat
      BY <3>1 DEF IsSequence
    <3> QED
      BY <1>0, <1>1, <3>2, FirstKeyIs
  <2>1. /\ IsSequence(reasons')
        /\ reasons' = << >> <=> reasons = << >> /\ RelationReasons(case, FirstKey) = << >>
    BY <2>0, <1>0, <1>1, RelationIs, ConcatIs DEF Visit
  <2>2. RelationsHold(case, keys \ todo') <=>
          RelationsHold(case, keys \ todo) /\ RelationReasons(case, FirstKey) = << >>
    BY <2>0, <1>0, <1>1, OneMore DEF Visit, RelationsHold
  <2> QED
    BY <1>0, <1>1, <2>1, <2>2
       DEF Visit, EvaluateInv, ControlInv, StartInv, Loops, BeforeFeatures,
           UnknownInputsInv, InputsInv, RelationsInv, UnknownMetricsInv, MetricsInv,
           VersionsInv, FeaturesInv, DevicesInv, DoneInv
<1>2. ASSUME todo = {}, Enter("unknown interference", DOMAIN ObservedInterference(case), << >>) PROVE EvaluateInv'
  <2>1. /\ IsSequence(reasons')
        /\ reasons' = << >> <=> Through3(case)
    BY <1>0, <1>2, EmptyIs, ConcatIs, NoneLeft DEF Enter, Through3
  <2>2. MetricsKnown(case, DOMAIN ObservedInterference(case) \ todo')
    BY <1>2, NoneLeft DEF Enter, MetricsKnown
  <2> QED
    BY <1>0, <1>2, <2>1, <2>2
       DEF Enter, EvaluateInv, ControlInv, StartInv, Loops, BeforeFeatures,
           UnknownInputsInv, InputsInv, RelationsInv, UnknownMetricsInv, MetricsInv,
           VersionsInv, FeaturesInv, DevicesInv, DoneInv
<1> QED
  BY <1>1, <1>2 DEF Relations, Each

LEMMA UnknownMetricsKeeps ==
    ASSUME EvaluateInv, UnknownMetrics PROVE EvaluateInv'
<1> USE DEF profile, request
<1> DEFINE keys == DOMAIN ObservedInterference(case)
<1>0. /\ pc = "unknown interference" /\ case' = case /\ features' = features
      /\ Known(case) /\ ValidProfile(profile) /\ ValidRequest(request) /\ CaseOK(case)
      /\ IsSequence(reasons) /\ features = << >> /\ todo \subseteq keys
      /\ reasons = << >> <=> Through3(case) /\ MetricsKnown(case, keys \ todo)
  BY DEF UnknownMetrics, Each, Visit, Enter, EvaluateInv, ControlInv, StartInv, Loops,
         BeforeFeatures, UnknownMetricsInv
<1>1. ASSUME NEW name \in todo, Visit(name, UnknownInterference(case, name)) PROVE EvaluateInv'
  <2>1. /\ IsSequence(reasons')
        /\ reasons' = << >> <=> reasons = << >> /\ UnknownInterference(case, name) = << >>
    BY <1>0, <1>1, UnknownMetricIs, ConcatIs DEF Visit
  <2>2. MetricsKnown(case, keys \ todo') <=>
          MetricsKnown(case, keys \ todo) /\ UnknownInterference(case, name) = << >>
    BY <1>0, <1>1, OneMore DEF Visit, MetricsKnown
  <2> QED
    BY <1>0, <1>1, <2>1, <2>2
       DEF Visit, EvaluateInv, ControlInv, StartInv, Loops, BeforeFeatures,
           UnknownInputsInv, InputsInv, RelationsInv, UnknownMetricsInv, MetricsInv,
           VersionsInv, FeaturesInv, DevicesInv, DoneInv
<1>2. ASSUME todo = {}, Enter("interference", DOMAIN profile.metrics, << >>) PROVE EvaluateInv'
  <2>1. /\ IsSequence(reasons')
        /\ reasons' = << >> <=> Through4(case)
    BY <1>0, <1>2, EmptyIs, ConcatIs, NoneLeft DEF Enter, Through4
  <2>2. MetricsFit(case, DOMAIN profile.metrics \ todo')
    BY <1>2, NoneLeft DEF Enter, MetricsFit
  <2> QED
    BY <1>0, <1>2, <2>1, <2>2
       DEF Enter, EvaluateInv, ControlInv, StartInv, Loops, BeforeFeatures,
           UnknownInputsInv, InputsInv, RelationsInv, UnknownMetricsInv, MetricsInv,
           VersionsInv, FeaturesInv, DevicesInv, DoneInv
<1> QED
  BY <1>1, <1>2 DEF UnknownMetrics, Each

LEMMA MetricsKeeps ==
    ASSUME EvaluateInv, Metrics PROVE EvaluateInv'
<1> USE DEF profile, request
<1> DEFINE keys == DOMAIN profile.metrics
<1>0. /\ pc = "interference" /\ case' = case /\ features' = features
      /\ Known(case) /\ ValidProfile(profile) /\ ValidRequest(request) /\ CaseOK(case)
      /\ IsSequence(reasons) /\ features = << >> /\ todo \subseteq keys
      /\ reasons = << >> <=> Through4(case) /\ MetricsFit(case, keys \ todo)
  BY DEF Metrics, Each, Visit, Enter, EvaluateInv, ControlInv, StartInv, Loops,
         BeforeFeatures, MetricsInv
<1>1. ASSUME NEW name \in todo, Visit(name, InterferenceReasons(case, name)) PROVE EvaluateInv'
  <2>1. /\ IsSequence(reasons')
        /\ reasons' = << >> <=> reasons = << >> /\ InterferenceReasons(case, name) = << >>
    BY <1>0, <1>1, MetricIs, ConcatIs DEF Visit, ValidProfile
  <2>2. MetricsFit(case, keys \ todo') <=>
          MetricsFit(case, keys \ todo) /\ InterferenceReasons(case, name) = << >>
    BY <1>0, <1>1, OneMore DEF Visit, MetricsFit
  <2> QED
    BY <1>0, <1>1, <2>1, <2>2
       DEF Visit, EvaluateInv, ControlInv, StartInv, Loops, BeforeFeatures,
           UnknownInputsInv, InputsInv, RelationsInv, UnknownMetricsInv, MetricsInv,
           VersionsInv, FeaturesInv, DevicesInv, DoneInv
<1>2. ASSUME todo = {}, Enter("versions", DOMAIN profile.versions, << >>) PROVE EvaluateInv'
  <2>1. /\ IsSequence(reasons')
        /\ reasons' = << >> <=> Through5(case)
    BY <1>0, <1>2, EmptyIs, ConcatIs, NoneLeft DEF Enter, Through5
  <2>2. VersionsFit(case, DOMAIN profile.versions \ todo')
    BY <1>2, NoneLeft DEF Enter, VersionsFit
  <2> QED
    BY <1>0, <1>2, <2>1, <2>2
       DEF Enter, EvaluateInv, ControlInv, StartInv, Loops, BeforeFeatures,
           UnknownInputsInv, InputsInv, RelationsInv, UnknownMetricsInv, MetricsInv,
           VersionsInv, FeaturesInv, DevicesInv, DoneInv
<1> QED
  BY <1>1, <1>2 DEF Metrics, Each

\* What is found after the versions.
NumericalReasons(c) ==
    When(c.profile.upperBound > c.request.maxNumericalError,
         Reject("NUMERICAL_BUDGET_UNSATISFIED", Fixed, 0)) \o
    When(c.profile.observedMax > c.profile.upperBound,
         Reject("INVALID_NUMERICAL_CERTIFICATE", Fixed, 0))

LEMMA NumericalIs ==
    ASSUME NEW c, ValidProfile(c.profile), ValidRequest(c.request)
    PROVE  /\ IsSequence(NumericalReasons(c))
           /\ NumericalReasons(c) = << >> <=>
                c.profile.upperBound <= c.request.maxNumericalError
<1> DEFINE a == When(c.profile.upperBound > c.request.maxNumericalError,
                     Reject("NUMERICAL_BUDGET_UNSATISFIED", Fixed, 0))
           b == When(c.profile.observedMax > c.profile.upperBound,
                     Reject("INVALID_NUMERICAL_CERTIFICATE", Fixed, 0))
<1>1. /\ c.profile.upperBound \in Int /\ c.request.maxNumericalError \in Int
      /\ c.profile.observedMax \in Int /\ c.profile.observedMax <= c.profile.upperBound
  BY FiniteIsInt DEF ValidProfile, ValidNumerical, ValidRequest, FiniteNonNegative
<1>2. /\ IsSequence(a) /\ IsSequence(b) /\ b = << >>
      /\ a = << >> <=> c.profile.upperBound <= c.request.maxNumericalError
  BY <1>1, EmptyIs, RejectIs DEF When
<1> HIDE DEF a, b
<1> QED
  BY <1>2, ConcatIs DEF NumericalReasons, a, b

LEMMA NoneResolved == ASSUME NEW c PROVE << >> = Resolved(c, {})
<1>1. FoundNames(c, {}) = {}
  BY DEF FoundNames
<1>2. Resolved(c, {}) = [f \in {} |-> Resolve(c, f)]
  BY <1>1 DEF Resolved
<1>3. [f \in 1..0 |-> Resolve(c, f)] \in Seq({})
  OBVIOUS
<1>4. [f \in 1..0 |-> Resolve(c, f)] = << >>
  BY <1>3
<1>5. 1..0 = {}
  OBVIOUS
<1> QED
  BY <1>2, <1>4, <1>5

LEMMA VersionsKeeps ==
    ASSUME EvaluateInv, Versions PROVE EvaluateInv'
<1> USE DEF profile, request
<1> DEFINE keys == DOMAIN profile.versions
<1>0. /\ pc = "versions" /\ case' = case /\ features' = features
      /\ Known(case) /\ ValidProfile(profile) /\ ValidRequest(request) /\ CaseOK(case)
      /\ IsSequence(reasons) /\ features = << >> /\ todo \subseteq keys
      /\ reasons = << >> <=> Through5(case) /\ VersionsFit(case, keys \ todo)
  BY DEF Versions, Each, Visit, Enter, EvaluateInv, ControlInv, StartInv, Loops,
         BeforeFeatures, VersionsInv
<1>1. ASSUME NEW component \in todo, Visit(component, VersionReasons(case, component)) PROVE EvaluateInv'
  <2>1. /\ IsSequence(reasons')
        /\ reasons' = << >> <=> reasons = << >> /\ VersionReasons(case, component) = << >>
    BY <1>0, <1>1, VersionIs, ConcatIs DEF Visit, ValidProfile
  <2>2. VersionsFit(case, keys \ todo') <=>
          VersionsFit(case, keys \ todo) /\ VersionReasons(case, component) = << >>
    BY <1>0, <1>1, OneMore DEF Visit, VersionsFit
  <2> QED
    BY <1>0, <1>1, <2>1, <2>2
       DEF Visit, EvaluateInv, ControlInv, StartInv, Loops, BeforeFeatures,
           UnknownInputsInv, InputsInv, RelationsInv, UnknownMetricsInv, MetricsInv,
           VersionsInv, FeaturesInv, DevicesInv, DoneInv
<1>2. ASSUME todo = {}, Enter("features", FirstNames(profile), NumericalReasons(case))
      PROVE  EvaluateInv'
  <2>1. /\ IsSequence(reasons')
        /\ reasons' = << >> <=> Through6(case)
    BY <1>0, <1>2, NumericalIs, ConcatIs, NoneLeft DEF Enter, Through6
  <2>2. FeaturesFound(case, FirstNames(profile) \ todo')
    BY <1>2, NoneLeft DEF Enter, FeaturesFound
  <2>3. features' = Resolved(case, FirstNames(profile) \ todo')
    BY <1>0, <1>2, NoneResolved, NoneLeft DEF Enter
  <2> QED
    BY <1>0, <1>2, <2>1, <2>2, <2>3
       DEF Enter, EvaluateInv, ControlInv, StartInv, Loops, BeforeFeatures,
           UnknownInputsInv, InputsInv, RelationsInv, UnknownMetricsInv, MetricsInv,
           VersionsInv, FeaturesInv, DevicesInv, DoneInv
<1> QED
  BY <1>1, <1>2 DEF Versions, Each, NumericalReasons

\* One more place adds its name if that is available.
LEMMA OneMoreName ==
    ASSUME NEW c, NEW D, NEW x
    PROVE  FoundNames(c, D \cup {x}) =
             IF FeatureReasons(c, x) # << >> THEN FoundNames(c, D)
             ELSE FoundNames(c, D) \cup {Names(c.profile)[x]}
BY DEF FoundNames

LEMMA FeaturesKeeps ==
    ASSUME EvaluateInv, Features PROVE EvaluateInv'
<1> USE DEF profile, request
<1> DEFINE keys == FirstNames(profile)
           seen == keys \ todo
           f == Names(profile)[FirstKey]
<1>0. /\ pc = "features" /\ case' = case /\ pc' = pc
      /\ Known(case) /\ ValidProfile(profile) /\ ValidRequest(request) /\ CaseOK(case)
      /\ IsSequence(reasons) /\ todo \subseteq keys /\ todo # {}
      /\ reasons = << >> <=> Through6(case) /\ FeaturesFound(case, seen)
      /\ features = Resolved(case, seen)
      /\ Visit(FirstKey, FeatureReasons(case, FirstKey))
  BY DEF Features, Visit, EvaluateInv, ControlInv, StartInv, Loops, FeaturesInv
<1>1. FirstKey \in todo
  <2>1. keys \subseteq Nat
    BY <1>0, NamesType DEF CaseOK, FirstNames
  <2> QED
    BY <1>0, <2>1, FirstKeyIs
<1>2. /\ IsSequence(reasons')
      /\ reasons' = << >> <=> reasons = << >> /\ FeatureReasons(case, FirstKey) = << >>
  BY <1>0, FeatureIs, ConcatIs DEF Visit
<1>3. keys \ todo' = seen \cup {FirstKey} /\ todo' \subseteq keys
  BY <1>0, <1>1, OneMore DEF Visit
<1>4. FeaturesFound(case, keys \ todo') <=>
        FeaturesFound(case, seen) /\ FeatureReasons(case, FirstKey) = << >>
  BY <1>3 DEF FeaturesFound
<1>5. features' = Resolved(case, keys \ todo')
  <2>1. features' =
          IF FeatureReasons(case, FirstKey) # << >> THEN features
          ELSE [g \in DOMAIN features \cup {f} |->
                   IF g = f THEN Resolve(case, f) ELSE features[g]]
    BY DEF Features
  <2>2. FoundNames(case, keys \ todo') =
          IF FeatureReasons(case, FirstKey) # << >> THEN FoundNames(case, seen)
          ELSE FoundNames(case, seen) \cup {f}
    <3>1. \A D, x : FoundNames(case, D \cup {x}) =
                      IF FeatureReasons(case, x) # << >> THEN FoundNames(case, D)
                      ELSE FoundNames(case, D) \cup {Names(case.profile)[x]}
      BY OneMoreName
    <3> HIDE DEF seen, keys
    <3> QED
      BY <1>3, <3>1
  <2>3. DOMAIN features = FoundNames(case, seen)
        /\ \A g \in FoundNames(case, seen) : features[g] = Resolve(case, g)
    BY <1>0 DEF Resolved
  <2> HIDE DEF f, seen, keys
  <2> QED
    BY <1>0, <2>1, <2>2, <2>3 DEF Resolved
<1> QED
  BY <1>0, <1>2, <1>3, <1>4, <1>5
       DEF EvaluateInv, ControlInv, StartInv, Loops, BeforeFeatures,
           UnknownInputsInv, InputsInv, RelationsInv, UnknownMetricsInv, MetricsInv,
           VersionsInv, FeaturesInv, DevicesInv, DoneInv

\* All features are resolved just if there was no reason against any, and then
\* they are what the documents go by.
LEMMA AllResolved ==
    ASSUME NEW c, CaseOK(c), Known(c)
    PROVE  LET D == FoundNames(c, FirstNames(c.profile)) IN
           /\ FeaturesFound(c, FirstNames(c.profile)) <=>
                \A k \in DOMAIN Names(c.profile) : Names(c.profile)[k] \in D
           /\ FeaturesFound(c, FirstNames(c.profile)) =>
                Resolved(c, FirstNames(c.profile)) = LawfulValue(c)
<1> DEFINE D == FoundNames(c, FirstNames(c.profile))
<1>1. ASSUME FeaturesFound(c, FirstNames(c.profile)), NEW k \in DOMAIN Names(c.profile)
      PROVE  Names(c.profile)[k] \in D
  <2>1. PICK j \in FirstNames(c.profile) : Names(c.profile)[j] = Names(c.profile)[k]
    BY FirstPlace DEF CaseOK
  <2> QED
    BY <1>1, <2>1 DEF FoundNames, FeaturesFound
<1>2. ASSUME \A k \in DOMAIN Names(c.profile) : Names(c.profile)[k] \in D,
             NEW j \in FirstNames(c.profile)
      PROVE  FeatureReasons(c, j) = << >>
  <2>1. Names(c.profile)[j] \in D
    BY <1>2 DEF FirstNames
  <2>2. PICK m \in FirstNames(c.profile) :
            FeatureReasons(c, m) = << >> /\ Names(c.profile)[m] = Names(c.profile)[j]
    BY <2>1 DEF FoundNames
  <2> QED
    BY <2>2, FeatureIs
<1>3. ASSUME FeaturesFound(c, FirstNames(c.profile))
      PROVE  Resolved(c, FirstNames(c.profile)) = LawfulValue(c)
  <2>1. D = Used(c.profile)
    BY <1>1, <1>3 DEF FoundNames, FirstNames, Used
  <2>2. \A f : Resolve(c, f) =
          IF IsInput(f) THEN c.request.inputs[f[2]][2]
          ELSE Seen(c, c.evidence.interference, c.request.interference)[f[2]]
    BY ObservedIsSeen DEF Resolve
  <2> HIDE DEF D
  <2> QED
    BY <2>1, <2>2 DEF Resolved, LawfulValue, D
<1> QED
  BY <1>1, <1>2, <1>3 DEF FeaturesFound

\* What validation lets through has a mean and a matrix of the right size.
LEMMA ShapeInBounds ==
    ASSUME NEW p, ProfileOK(p), ValidOOD(p) PROVE ~OutOfBounds(p.ood)
<1>1. IsSequence(p.ood.features) /\ IsSequence(p.ood.inverse)
  BY DEF ProfileOK
<1>2. Len(p.ood.features) \in Nat /\ DOMAIN p.ood.inverse = 1..Len(p.ood.inverse)
  BY <1>1 DEF IsSequence
<1> QED
  BY <1>2 DEF OutOfBounds, ValidOOD, Shape

LEMMA BoundKeeps ==
    ASSUME EvaluateInv, Bound PROVE EvaluateInv'
<1> USE DEF profile, request
<1> DEFINE keys == FirstNames(profile)
           latency == LatencyReasons(case, features)
           ood == OODReasons(case, features)
           load == IF featureOK THEN latency \o ood ELSE << >>
           metadata == IF Runtime(case) THEN MetadataReasons(case) ELSE << >>
<1>0. /\ pc = "features" /\ todo = {} /\ CaseOK(case)
      /\ Known(case) /\ ValidProfile(profile) /\ ValidRequest(request)
      /\ IsSequence(reasons)
      /\ reasons = << >> <=> Through6(case) /\ FeaturesFound(case, keys \ todo)
      /\ features = Resolved(case, keys \ todo)
  BY DEF Bound, EvaluateInv, ControlInv, StartInv, Loops, FeaturesInv
<1>1. keys \ todo = keys
  BY <1>0, NoneLeft
<1>2. /\ reasons = << >> <=> Through7(case)
      /\ featureOK <=> FeaturesFound(case, keys)
      /\ featureOK => features = LawfulValue(case)
  <2>1. DOMAIN features = FoundNames(case, keys)
    BY <1>0, <1>1 DEF Resolved
  <2>2. features = Resolved(case, keys)
    BY <1>0, <1>1
  <2>3. reasons = << >> <=> Through7(case)
    BY <1>0, <1>1 DEF Through7
  <2> QED
    BY <1>0, <2>1, <2>2, <2>3, AllResolved DEF featureOK
<1>3. Enter("devices", AssertionKeys(case), load \o metadata)
  <2>1. ~OutOfBounds(profile.ood)
    BY <1>0, ShapeInBounds DEF ValidProfile, CaseOK
  <2> QED
    BY <2>1 DEF Bound, AssertionKeys
<1>4. IsSequence(latency) /\ IsSequence(ood) /\ IsSequence(metadata)
      /\ (metadata = << >> <=> (Runtime(case) => MetadataReasons(case) = << >>))
  BY <1>0, LatencyIs, OODIs, MetadataIs, EmptyIs DEF ValidProfile
<1>5. /\ IsSequence(load)
      /\ featureOK => (load = << >> <=> LoadFits(case))
  <2>1. IsSequence(latency \o ood)
        /\ (latency \o ood = << >> <=> latency = << >> /\ ood = << >>)
    BY <1>4, ConcatIs
  <2>2. CASE featureOK
    BY <1>2, <2>1, <2>2 DEF LoadFits
  <2>3. CASE ~featureOK
    BY <2>3, EmptyIs
  <2> QED
    BY <2>2, <2>3
<1> HIDE DEF load, metadata, latency, ood
<1>6. /\ IsSequence(reasons')
      /\ reasons' = << >> <=> reasons = << >> /\ load = << >> /\ metadata = << >>
  <2>1. reasons' = reasons \o (load \o metadata)
    BY <1>3 DEF Enter
  <2>2. IsSequence(load \o metadata)
        /\ (load \o metadata = << >> <=> load = << >> /\ metadata = << >>)
    BY <1>4, <1>5, ConcatIs
  <2> QED
    BY <1>0, <2>1, <2>2, ConcatIs
<1>7. reasons = << >> => featureOK
  BY <1>2 DEF Through7
<1>8. /\ reasons' = << >> <=> Through8(case)
      /\ reasons' = << >> => features = LawfulValue(case)
  BY <1>2, <1>4, <1>5, <1>6, <1>7 DEF Through8
<1>9. AttributesFit(case, AssertionKeys(case) \ todo')
  BY <1>3, NoneLeft DEF Enter, AttributesFit
<1> QED
  BY <1>0, <1>3, <1>6, <1>8, <1>9
       DEF Enter, EvaluateInv, ControlInv, StartInv, Loops, BeforeFeatures,
           UnknownInputsInv, InputsInv, RelationsInv, UnknownMetricsInv, MetricsInv,
           VersionsInv, FeaturesInv, DevicesInv, DoneInv

\* Sorting loses nothing.
LEMMA SortIs ==
    ASSUME NEW s, IsSequence(s)
    PROVE  /\ IsSequence(StableSort(s)) /\ (StableSort(s) = << >> <=> s = << >>)
           /\ Len(StableSort(s)) = Len(s)
<1> DEFINE place(k) == Cardinality({j \in DOMAIN s :
                           \/ Before(s[j], s[k])
                           \/ ~Before(s[k], s[j]) /\ j <= k})
           e(n) == s[CHOOSE k \in DOMAIN s : place(k) = n]
           E == {e(n) : n \in DOMAIN s}
<1>1. Len(s) \in Nat /\ DOMAIN s = 1..Len(s) /\ (s = << >> <=> Len(s) = 0)
  BY DEF IsSequence
<1>2. StableSort(s) = [n \in DOMAIN s |-> e(n)]
  BY DEF StableSort
<1>3. \A n \in DOMAIN s : e(n) \in E
  OBVIOUS
<1> HIDE DEF e, E
<1>4. StableSort(s) \in Seq(E) /\ Len(StableSort(s)) = Len(s)
  BY <1>1, <1>2, <1>3
<1>5. StableSort(s) = << >> <=> Len(StableSort(s)) = 0
  BY <1>4
<1> QED
  BY <1>1, <1>4, <1>5, SliceIs

LEMMA AssertionsKeeps ==
    ASSUME EvaluateInv, Assertions PROVE EvaluateInv'
<1> USE DEF profile, request
<1> DEFINE keys == AssertionKeys(case)
<1>0. /\ pc = "devices" /\ case' = case /\ features' = features
      /\ Known(case) /\ ValidProfile(profile) /\ ValidRequest(request) /\ CaseOK(case)
      /\ IsSequence(reasons) /\ todo \subseteq keys
      /\ reasons = << >> <=> Through8(case) /\ AttributesFit(case, keys \ todo)
      /\ reasons = << >> => features = LawfulValue(case)
  BY DEF Assertions, Visit, Return, EvaluateInv, ControlInv, StartInv, Loops, DevicesInv
<1>1. ASSUME todo # {}, Visit(FirstKey, AttributeReasons(case, FirstKey))
      PROVE  EvaluateInv'
  <2>0. FirstKey \in todo
    <3>1. keys \subseteq Nat
      BY DEF AssertionKeys, Pairs
    <3> QED
      BY <1>0, <1>1, <3>1, FirstKeyIs
  <2>1. /\ IsSequence(reasons')
        /\ reasons' = << >> <=> reasons = << >> /\ AttributeReasons(case, FirstKey) = << >>
    BY <1>0, <1>1, AttributeIs, ConcatIs DEF Visit
  <2>2. AttributesFit(case, keys \ todo') <=>
          AttributesFit(case, keys \ todo) /\ AttributeReasons(case, FirstKey) = << >>
    BY <2>0, <1>0, <1>1, OneMore DEF Visit, AttributesFit
  <2> QED
    BY <1>0, <1>1, <2>1, <2>2
       DEF Visit, EvaluateInv, ControlInv, StartInv, Loops, BeforeFeatures,
           UnknownInputsInv, InputsInv, RelationsInv, UnknownMetricsInv, MetricsInv,
           VersionsInv, FeaturesInv, DevicesInv, DoneInv
<1>2. ASSUME todo = {}, Return(StableSort(reasons)) PROVE EvaluateInv'
  <2>1. reasons = << >> <=> Lawful(case)
    BY <1>0, <1>2, NoneLeft, CleanIsLawful DEF Clean
  <2>2. IsSequence(reasons') /\ (reasons' = << >> <=> reasons = << >>)
    BY <1>0, <1>2, SortIs DEF Return
  <2> QED
    BY <1>0, <1>2, <2>1, <2>2
       DEF Return, EvaluateInv, ControlInv, StartInv, Loops, BeforeFeatures,
           UnknownInputsInv, InputsInv, RelationsInv, UnknownMetricsInv, MetricsInv,
           VersionsInv, FeaturesInv, DevicesInv, DoneInv
<1> QED
  BY <1>1, <1>2 DEF Assertions

LEMMA StartKeeps ==
    ASSUME EvaluateInv, Start PROVE EvaluateInv'
<1> USE DEF profile, request
<1> DEFINE keys == DOMAIN request.inputs
           mismatch == When(request.required \notin {None, profile.name},
                            Reject("PROFILE_MISMATCH", Fixed, 0))
           stale == When(~case.evidence.fresh, Reject("STALE_CERTIFICATE", Fixed, 0))
<1>0. /\ pc = "start" /\ reasons = << >> /\ features = << >> /\ CaseOK(case)
      /\ Known(case) /\ ValidProfile(profile) /\ ValidRequest(request)
      /\ IsSequence(reasons) /\ Enter("unknown inputs", keys, mismatch \o stale)
  BY DEF Start, EvaluateInv, ControlInv, StartInv, BeforeFeatures
<1>1. /\ IsSequence(mismatch) /\ IsSequence(stale)
      /\ mismatch = << >> /\ stale = << >> <=> Identified(case)
  BY EmptyIs, RejectIs DEF When, Identified
<1> HIDE DEF mismatch, stale
<1>2. IsSequence(reasons') /\ (reasons' = << >> <=> Identified(case))
  <2>1. IsSequence(mismatch \o stale)
        /\ (mismatch \o stale = << >> <=> mismatch = << >> /\ stale = << >>)
    BY <1>1, ConcatIs
  <2> QED
    BY <1>0, <1>1, <2>1, ConcatIs DEF Enter
<1>3. InputsKnown(case, keys \ todo')
  BY <1>0, NoneLeft DEF Enter, InputsKnown
<1> QED
  BY <1>0, <1>2, <1>3
       DEF Enter, EvaluateInv, ControlInv, StartInv, Loops, BeforeFeatures,
           UnknownInputsInv, InputsInv, RelationsInv, UnknownMetricsInv, MetricsInv,
           VersionsInv, FeaturesInv, DevicesInv, DoneInv

\* A call that is refused at once is not lawful.
LEMMA RefusesKeep ==
    ASSUME EvaluateInv, RefusePhase \/ RefuseProfile \/ RefuseRequest PROVE EvaluateInv'
<1> USE DEF profile, request
<1>1. PICK code : Return(Reject(code, Fixed, 0)) /\ pc = "start" /\ ~Lawful(case)
  BY DEF RefusePhase, RefuseProfile, RefuseRequest, Lawful
<1>2. IsSequence(reasons') /\ reasons' # << >>
  BY <1>1, RejectIs DEF Return
<1>3. CaseOK(case)
  BY <1>1 DEF EvaluateInv, ControlInv
<1> QED
  BY <1>1, <1>2, <1>3
       DEF Return, EvaluateInv, ControlInv, StartInv, Loops, BeforeFeatures,
           UnknownInputsInv, InputsInv, RelationsInv, UnknownMetricsInv, MetricsInv,
           VersionsInv, FeaturesInv, DevicesInv, DoneInv

LEMMA PanicKeeps ==
    ASSUME EvaluateInv, PanicInValidation PROVE EvaluateInv'
BY DEF PanicInValidation, EvaluateInv, ControlInv, StartInv, Loops, BeforeFeatures,
       UnknownInputsInv, InputsInv, RelationsInv, UnknownMetricsInv, MetricsInv,
       VersionsInv, FeaturesInv, DevicesInv, DoneInv

LEMMA StepKeeps ==
    ASSUME EvaluateInv, Step PROVE EvaluateInv'
BY RefusesKeep, PanicKeeps, StartKeeps, UnknownInputsKeeps, InputsKeeps, RelationsKeeps,
   UnknownMetricsKeeps, MetricsKeeps, VersionsKeeps, FeaturesKeeps, BoundKeeps,
   AssertionsKeeps
   DEF Step

-----------------------------------------------------------------------------
(* The planner. *)

CallInv ==
    /\ call \in Call
    /\ i \in 0..Len(call.catalog)
    /\ stage \in {"load", "loop", "direct", "refused", "panic", "done"}
    /\ stage = "direct" => call.caller # "select" /\ i = 0
    /\ stage # "direct" => call.caller = "select"
    /\ pc # "idle" => stage \in {"loop", "direct"} /\ case = CaseOf(i + 1)
    /\ stage = "loop" => Loads /\ (pc # "idle" => i < Len(call.catalog))
    /\ stage = "done" => Loads /\ i = Len(call.catalog)

PlannerInv == CallInv /\ EvaluateInv

\* A call has a catalog, and each of its cases is what a call is like.
LEMMA CallIs ==
    ASSUME NEW c \in Call
    PROVE  /\ Len(c.catalog) \in Nat /\ DOMAIN c.catalog = 1..Len(c.catalog)
           /\ c.caller # "select" => 1 \in DOMAIN c.catalog
           /\ \A k \in 1..Len(c.catalog) : CaseOK(EvaluateCall(c, k))
<1>1. /\ IsSequence(c.catalog)
      /\ c.caller # "select" => c.catalog # << >>
      /\ \A k \in DOMAIN c.catalog : CaseOK(EvaluateCall(c, k))
  BY CallAssumption
<1>2. /\ Len(c.catalog) \in Nat /\ DOMAIN c.catalog = 1..Len(c.catalog)
      /\ c.catalog # << >> => 1 \in 1..Len(c.catalog)
  BY <1>1 DEF IsSequence
<1> QED
  BY <1>1, <1>2

LEMMA PlannerInit == Init => PlannerInv
<1> SUFFICES ASSUME Init PROVE PlannerInv
  OBVIOUS
<1>1. CallInv
  BY CallIs DEF Init, Idle, CallInv
<1>2. EvaluateInv
  BY EmptyIs
     DEF Init, Idle, EvaluateInv, ControlInv, StartInv, Loops, BeforeFeatures,
         UnknownInputsInv, InputsInv, RelationsInv, UnknownMetricsInv, MetricsInv,
         VersionsInv, FeaturesInv, DevicesInv, DoneInv
<1> QED
  BY <1>1, <1>2 DEF PlannerInv

LEMMA BeginKeeps ==
    ASSUME EvaluateInv, NEW c, CaseOK(c), Begin(c) PROVE EvaluateInv'
BY DEF Begin, EvaluateInv, ControlInv, StartInv, Loops, BeforeFeatures,
       UnknownInputsInv, InputsInv, RelationsInv, UnknownMetricsInv, MetricsInv,
       VersionsInv, FeaturesInv, DevicesInv, DoneInv

LEMMA ForgetKeeps == ASSUME Forget PROVE EvaluateInv'
BY EmptyIs
   DEF Forget, EvaluateInv, ControlInv, StartInv, Loops, BeforeFeatures,
       UnknownInputsInv, InputsInv, RelationsInv, UnknownMetricsInv, MetricsInv,
       VersionsInv, FeaturesInv, DevicesInv, DoneInv

LEMMA StutterKeeps == ASSUME EvaluateInv, UNCHANGED evaluation PROVE EvaluateInv'
<1> USE DEF profile, request
<1>1. /\ case' = case /\ reasons' = reasons /\ features' = features
      /\ todo' = todo /\ pc' = pc
  BY DEF evaluation
<1>2. ControlInv' /\ StartInv' /\ DoneInv'
  BY <1>1 DEF EvaluateInv, ControlInv, StartInv, DoneInv
<1>3. UnknownInputsInv' /\ InputsInv' /\ RelationsInv' /\ UnknownMetricsInv'
  BY <1>1 DEF EvaluateInv, UnknownInputsInv, InputsInv, RelationsInv, UnknownMetricsInv
<1>4. MetricsInv' /\ VersionsInv' /\ FeaturesInv' /\ DevicesInv'
  BY <1>1 DEF EvaluateInv, MetricsInv, VersionsInv, FeaturesInv, DevicesInv
<1> QED
  BY <1>2, <1>3, <1>4 DEF EvaluateInv

\* No step of Evaluate starts or ends a call.
LEMMA StepStays == ASSUME Step PROVE case' = case /\ pc # "idle" /\ pc # "done"
BY DEF Step, RefusePhase, RefuseProfile, PanicInValidation, RefuseRequest, Start,
       UnknownInputs, Inputs, Relations, UnknownMetrics, Metrics, Versions, Features,
       Bound, Assertions, Each, Visit, Enter, Return

LEMMA PlannerNext == PlannerInv /\ [Next]_vars => PlannerInv'
<1> SUFFICES ASSUME PlannerInv, [Next]_vars PROVE PlannerInv'
  OBVIOUS
<1> USE DEF PlannerInv
<1>1. CASE Load
  BY <1>1, StutterKeeps DEF Load, evaluation, CallInv, Loads, Panics, CaseOf
<1>2. CASE Direct
  <2>1. CaseOK(CaseOf(1))
    BY <1>2, CallIs DEF Direct, CallInv, CaseOf
  <2>2. EvaluateInv'
    BY <1>2, <2>1, BeginKeeps DEF Direct
  <2>3. CallInv'
    BY <1>2 DEF Direct, selection, Begin, CallInv, CaseOf
  <2> QED
    BY <2>2, <2>3
<1>3. CASE EvaluateNext
  <2>1. CaseOK(CaseOf(i + 1))
    BY <1>3, CallIs DEF EvaluateNext, CallInv, CaseOf
  <2>2. EvaluateInv'
    BY <1>3, <2>1, BeginKeeps DEF EvaluateNext
  <2>3. CallInv'
    BY <1>3 DEF EvaluateNext, selection, Begin, CallInv, CaseOf, Loads, Panics
  <2> QED
    BY <2>2, <2>3
<1>4. CASE Evaluating
  <2>1. EvaluateInv'
    BY <1>4, StepKeeps DEF Evaluating
  <2>2. CallInv'
    BY <1>4, StepStays DEF Evaluating, selection, CallInv, CaseOf, Loads, Panics
  <2> QED
    BY <2>1, <2>2
<1>5. ASSUME Considered PROVE PlannerInv'
  <2>1. EvaluateInv'
    BY <1>5, ForgetKeeps DEF Considered
  <2>2. CallInv'
    BY <1>5, CallIs DEF Considered, Forget, CallInv, Loads, Panics
  <2> QED
    BY <2>1, <2>2
<1>6. CASE Refuse \/ Improve \/ Pass
  BY <1>5, <1>6 DEF Refuse, Improve, Pass
<1>7. CASE Finish
  BY <1>7, StutterKeeps DEF Finish, evaluation, CallInv, Loads, Panics, CaseOf
<1>8. CASE UNCHANGED vars
  BY <1>8, StutterKeeps DEF vars, evaluation, selection, CallInv, Loads, Panics, CaseOf
<1> QED
  BY <1>1, <1>2, <1>3, <1>4, <1>6, <1>7, <1>8 DEF Next

LEMMA PlannerAlways == Spec => []PlannerInv
<1> QED
  BY PlannerInit, PlannerNext, PTL DEF Spec

\* Whatever the profile, the request and the evidence, and in whatever order the
\* keys of the maps come, Evaluate (planner.go:57-141) admits a profile just if
\* all that the documents ask of it holds.
THEOREM PlannerAdmitsExactly == Spec => []AdmitsExactly
<1>1. PlannerInv => AdmitsExactly
  BY DEF PlannerInv, EvaluateInv, DoneInv, AdmitsExactly, Admissible
<1> QED
  BY <1>1, PlannerAlways, PTL

\* For every profile that ValidateProfile accepts, the score never takes an index
\* that the mean or the matrix does not have (validate.go:454-483,
\* planner.go:294-299).
THEOREM PlannerScoreInBounds == Spec => []ScoreInBounds
<1>1. PlannerInv => ScoreInBounds
  BY DEF PlannerInv, EvaluateInv, ControlInv, Loops, ScoreInBounds
<1> QED
  BY <1>1, PlannerAlways, PTL

-----------------------------------------------------------------------------
(* No fault hides another: a reason that was found stays, and the sort keeps *)
(* it.  The sort needs to know that reasons can be compared.                 *)

CodeSet == {Codes[k] : k \in 1..31}

Sortable(r) == r.code \in CodeSet /\ r.field \in Field /\ r.item \in Nat

Tidy(s) == IsSequence(s) /\ \A k \in DOMAIN s : Sortable(s[k])

HasField(s, f) == \E k \in DOMAIN s : s[k].field = f

LEMMA CodesAre ==
    /\ {"DRA_ATTRIBUTE_MISMATCH", "DRA_ATTRIBUTE_MISSING", "DRA_DEVICE_COUNT_MISMATCH",
        "DRA_METADATA_REQUIRED", "DRA_REQUEST_MISSING", "INPUT_OUT_OF_RANGE",
        "INPUT_TYPE_MISMATCH", "INTERFERENCE_OUT_OF_ENVELOPE"} \subseteq CodeSet
    /\ {"INVALID_LATENCY_BOUND", "INVALID_MODEL_FEATURE", "INVALID_NUMERICAL_CERTIFICATE",
        "INVALID_OOD_SCORE", "INVALID_PREDICTION", "INVALID_VERSION",
        "LATENCY_SLO_UNSATISFIED", "MISSING_INPUT"} \subseteq CodeSet
    /\ {"MISSING_INTERFERENCE", "MISSING_VERSION", "MODEL_FEATURE_MISSING",
        "NUMERICAL_BUDGET_UNSATISFIED", "OOD_REJECTED", "PROFILE_MISMATCH",
        "RELATION_VIOLATION", "STALE_CERTIFICATE"} \subseteq CodeSet
    /\ {"UNKNOWN_INPUT", "UNKNOWN_INTERFERENCE", "UNSEEN_CATEGORY",
        "UNSUPPORTED_VERSION", "INVALID_PHASE", "INVALID_PROFILE",
        "INVALID_REQUEST"} \subseteq CodeSet
<1>1. \A k \in 1..31 : Codes[k] \in CodeSet
  BY DEF CodeSet
<1>2. /\ Codes[1] = "DRA_ATTRIBUTE_MISMATCH" /\ Codes[2] = "DRA_ATTRIBUTE_MISSING"
      /\ Codes[3] = "DRA_DEVICE_COUNT_MISMATCH" /\ Codes[4] = "DRA_METADATA_REQUIRED"
      /\ Codes[5] = "DRA_REQUEST_MISSING" /\ Codes[6] = "INPUT_OUT_OF_RANGE"
      /\ Codes[7] = "INPUT_TYPE_MISMATCH" /\ Codes[8] = "INTERFERENCE_OUT_OF_ENVELOPE"
  BY DEF Codes
<1>3. /\ Codes[9] = "INVALID_LATENCY_BOUND" /\ Codes[10] = "INVALID_MODEL_FEATURE"
      /\ Codes[11] = "INVALID_NUMERICAL_CERTIFICATE" /\ Codes[12] = "INVALID_OOD_SCORE"
      /\ Codes[14] = "INVALID_PREDICTION" /\ Codes[17] = "INVALID_VERSION"
      /\ Codes[18] = "LATENCY_SLO_UNSATISFIED" /\ Codes[19] = "MISSING_INPUT"
  BY DEF Codes
<1>4. /\ Codes[20] = "MISSING_INTERFERENCE" /\ Codes[21] = "MISSING_VERSION"
      /\ Codes[22] = "MODEL_FEATURE_MISSING" /\ Codes[23] = "NUMERICAL_BUDGET_UNSATISFIED"
      /\ Codes[24] = "OOD_REJECTED" /\ Codes[25] = "PROFILE_MISMATCH"
      /\ Codes[26] = "RELATION_VIOLATION" /\ Codes[27] = "STALE_CERTIFICATE"
  BY DEF Codes
<1>5. /\ Codes[28] = "UNKNOWN_INPUT" /\ Codes[29] = "UNKNOWN_INTERFERENCE"
      /\ Codes[30] = "UNSEEN_CATEGORY" /\ Codes[31] = "UNSUPPORTED_VERSION"
      /\ Codes[13] = "INVALID_PHASE" /\ Codes[15] = "INVALID_PROFILE"
      /\ Codes[16] = "INVALID_REQUEST"
  BY DEF Codes
<1> QED
  BY <1>1, <1>2, <1>3, <1>4, <1>5

\* A code has one place among the codes.
LEMMA CodeRankIs ==
    ASSUME NEW code \in CodeSet
    PROVE  CodeRank(code) \in Int /\ Codes[CodeRank(code)] = code
<1>1. DOMAIN Codes = 1..31
  BY DEF Codes
<1>2. \E k \in 1..31 : Codes[k] = code
  BY DEF CodeSet
<1> QED
  BY <1>1, <1>2 DEF CodeRank

\* A field has a place among the fields.
LEMMA FieldIs == \A f \in Field : f[1] \in Int /\ FieldRank(f) \in Int
<1>1. \A f \in (1..4) \X DOMAIN Rank : f[1] \in Int /\ FieldRank(f) \in Int
  BY ValuesAssumption DEF FieldRank
<1>2. Fixed[1] \in Int /\ FieldRank(Fixed) \in Int
  BY DEF Fixed, FieldRank
<1> QED
  BY <1>1, <1>2 DEF Field

\* The reason at j goes before the one at m: by code and field, or else it was
\* found first.
InFront(s, j, m) ==
    LET x == <<CodeRank(s[j].code), s[j].field[1], FieldRank(s[j].field)>>
        y == <<CodeRank(s[m].code), s[m].field[1], FieldRank(s[m].field)>>
    IN  \/ x[1] < y[1]
        \/ x[1] = y[1] /\ x[2] < y[2]
        \/ x[1] = y[1] /\ x[2] = y[2] /\ x[3] < y[3]
        \/ x[1] = y[1] /\ x[2] = y[2] /\ x[3] = y[3] /\ j <= m

\* The sort moves every reason to a place of its own, in that order.
LEMMA SortMoves ==
    ASSUME NEW s, Tidy(s)
    PROVE  \E to \in [DOMAIN s -> DOMAIN s] :
             /\ \A k \in DOMAIN s : StableSort(s)[to[k]] = s[k]
             /\ \A j, m \in DOMAIN s : j # m =>
                   \/ InFront(s, j, m) /\ to[j] < to[m]
                   \/ InFront(s, m, j) /\ to[m] < to[j]
<1> DEFINE N == Len(s)
           c(j) == CodeRank(s[j].code)
           f(j) == s[j].field[1]
           r(j) == FieldRank(s[j].field)
           L(j, m) == \/ Before(s[j], s[m])
                      \/ ~Before(s[m], s[j]) /\ j <= m
           T(m) == {j \in DOMAIN s : L(j, m)}
           place(m) == Cardinality(T(m))
<1>0. StableSort(s) = [n \in DOMAIN s |-> s[CHOOSE m \in DOMAIN s : place(m) = n]]
  BY DEF StableSort
<1>1. N \in Nat /\ DOMAIN s = 1..N
  BY DEF Tidy, IsSequence
<1>2. \A j \in 1..N : c(j) \in Int /\ f(j) \in Int /\ r(j) \in Int
  BY <1>1, CodeRankIs, FieldIs DEF Tidy, Sortable
<1>3. \A j, m \in 1..N :
        Before(s[j], s[m]) <=>
          c(j) < c(m) \/ (c(j) = c(m) /\ (f(j) < f(m) \/ (f(j) = f(m) /\ r(j) < r(m))))
  <2>1. \A j, m \in 1..N : s[j].code = s[m].code <=> c(j) = c(m)
    BY <1>1, CodeRankIs, FieldIs DEF Tidy, Sortable
  <2> QED
    BY <2>1 DEF Before
<1> DEFINE Leq(j, m) ==
      \/ c(j) < c(m)
      \/ c(j) = c(m) /\ f(j) < f(m)
      \/ c(j) = c(m) /\ f(j) = f(m) /\ r(j) < r(m)
      \/ c(j) = c(m) /\ f(j) = f(m) /\ r(j) = r(m) /\ j <= m
<1>4a. \A j, m \in 1..N : InFront(s, j, m) <=> Leq(j, m)
  BY DEF InFront
<1> HIDE DEF c, f, r
<1>4. \A j, m \in 1..N : L(j, m) <=> Leq(j, m)
  BY <1>1, <1>2, <1>3
<1>5. \A j, m \in 1..N : /\ Leq(j, m) \/ Leq(m, j)
                         /\ Leq(j, m) /\ Leq(m, j) => j = m
  BY <1>1, <1>2
<1>6. \A j, m, l \in 1..N : Leq(j, m) /\ Leq(m, l) => Leq(j, l)
  BY <1>1, <1>2
<1> HIDE DEF Leq, L
<1>7. \A m \in 1..N : T(m) = {j \in 1..N : Leq(j, m)}
  BY <1>1, <1>4
<1>8. \A m \in 1..N : IsFiniteSet(T(m)) /\ m \in T(m)
  <2>1. IsFiniteSet(1..N)
    BY <1>1, FS_Interval
  <2> QED
    BY <1>5, <1>7, <2>1, FS_Subset
<1>9. ASSUME NEW m \in 1..N, NEW l \in 1..N, m # l, Leq(m, l)
      PROVE  place(m) < place(l)
  <2>1. T(m) \subseteq T(l) /\ l \in T(l) /\ l \notin T(m)
    BY <1>5, <1>6, <1>7, <1>8, <1>9
  <2>2. Cardinality(T(m)) <= Cardinality(T(l))
        /\ (Cardinality(T(m)) = Cardinality(T(l)) => T(m) = T(l))
    BY <1>8, <2>1, FS_Subset
  <2>3. Cardinality(T(m)) \in Nat /\ Cardinality(T(l)) \in Nat
    BY <1>8, FS_CardinalityType
  <2> QED
    BY <2>1, <2>2, <2>3
<1>10. \A m, l \in 1..N : place(m) = place(l) => m = l
  <2>1. \A m \in 1..N : place(m) \in Nat
    BY <1>8, FS_CardinalityType
  <2> HIDE DEF place
  <2> QED
    BY <1>5, <1>9, <2>1
<1>11. ASSUME NEW k \in 1..N PROVE place(k) \in 1..N
  <2>1. T(k) \subseteq 1..N
    BY <1>1, <1>7
  <2>2. IsFiniteSet(1..N) /\ Cardinality(1..N) = N
    <3>1. 1 \in Int /\ N \in Int
      BY <1>1
    <3> HIDE DEF N
    <3>2. IsFiniteSet(1..N) /\ Cardinality(1..N) = IF 1 > N THEN 0 ELSE N - 1 + 1
      BY <3>1, FS_Interval
    <3> QED
      BY <1>1, <3>2
  <2>3. Cardinality(T(k)) <= N /\ Cardinality(T(k)) \in Nat
    BY <2>1, <2>2, FS_Subset, FS_CardinalityType
  <2>4. Cardinality(T(k)) # 0
    BY <1>1, <1>8, FS_EmptySet
  <2> QED
    BY <1>1, <2>3, <2>4
<1> HIDE DEF place
<1>12. ASSUME NEW k \in 1..N
       PROVE  (CHOOSE m \in DOMAIN s : place(m) = place(k)) = k
  BY <1>1, <1>10
<1>13. \A k \in 1..N : StableSort(s)[place(k)] = s[k]
  BY <1>0, <1>1, <1>11, <1>12
<1> DEFINE to == [k \in DOMAIN s |-> place(k)]
<1>14. to \in [DOMAIN s -> DOMAIN s] /\ \A k \in DOMAIN s : to[k] = place(k)
  BY <1>1, <1>11
<1> HIDE DEF to
<1>15. \A j, m \in DOMAIN s : j # m =>
          \/ InFront(s, j, m) /\ to[j] < to[m]
          \/ InFront(s, m, j) /\ to[m] < to[j]
  BY <1>1, <1>5, <1>9, <1>14, <1>4a
<1> QED
  BY <1>1, <1>13, <1>14, <1>15

\* No reason is lost.
LEMMA SortKeeps ==
    ASSUME NEW s, Tidy(s), NEW k \in DOMAIN s
    PROVE  \E n \in DOMAIN StableSort(s) : StableSort(s)[n] = s[k]
<1>1. DOMAIN StableSort(s) = DOMAIN s
  BY DEF StableSort
<1> QED
  BY <1>1, SortMoves

-----------------------------------------------------------------------------
(* What every check finds can be compared, and names the field it is about. *)

LEMMA EmptyTidy == Tidy(<< >>) /\ \A f : ~HasField(<< >>, f)
BY EmptyIs DEF Tidy, HasField

\* The places of two lists put together.
LEMMA ConcatPlaces ==
    ASSUME NEW s, NEW t, IsSequence(s), IsSequence(t)
    PROVE  /\ Len(s) \in Nat /\ Len(t) \in Nat
           /\ DOMAIN s = 1..Len(s) /\ DOMAIN t = 1..Len(t)
           /\ DOMAIN (s \o t) = 1..Len(s) + Len(t)
           /\ \A k \in 1..Len(s) : (s \o t)[k] = s[k]
           /\ \A k \in 1..Len(t) :
                 (s \o t)[Len(s) + k] = t[k] /\ Len(s) + k \in 1..Len(s) + Len(t)
           /\ \A k \in 1..Len(s) + Len(t) :
                 k \in 1..Len(s) \/ \E m \in 1..Len(t) : k = Len(s) + m
<1> DEFINE U == {s[k] : k \in DOMAIN s}
           V == {t[k] : k \in DOMAIN t}
<1>1. /\ Len(s) \in Nat /\ Len(t) \in Nat
      /\ DOMAIN s = 1..Len(s) /\ DOMAIN t = 1..Len(t)
  BY DEF IsSequence
<1>2. s \in Seq(U \cup V) /\ t \in Seq(U \cup V)
  BY DEF IsSequence
<1> HIDE DEF U, V
<1>3. DOMAIN (s \o t) = 1..Len(s) + Len(t)
  BY <1>1, <1>2
<1>4. \A k \in 1..Len(s) : (s \o t)[k] = s[k]
  BY <1>1, <1>2
<1>5. \A k \in 1..Len(t) : (s \o t)[Len(s) + k] = t[k] /\ Len(s) + k \in 1..Len(s) + Len(t)
  BY <1>1, <1>2
<1>6. \A k \in 1..Len(s) + Len(t) :
         k \in 1..Len(s) \/ \E m \in 1..Len(t) : k = Len(s) + m
  <2>1. \A k \in 1..Len(s) + Len(t) : k \in 1..Len(s) \/ k - Len(s) \in 1..Len(t)
    BY <1>1
  <2>2. \A k \in 1..Len(s) + Len(t) : k = Len(s) + (k - Len(s))
    BY <1>1
  <2> QED
    BY <2>1, <2>2
<1> QED
  BY <1>1, <1>3, <1>4, <1>5, <1>6

LEMMA ConcatElements ==
    ASSUME NEW s, NEW t, IsSequence(s), IsSequence(t), NEW k \in DOMAIN (s \o t)
    PROVE  \/ \E j \in DOMAIN s : (s \o t)[k] = s[j]
           \/ \E j \in DOMAIN t : (s \o t)[k] = t[j]
<1>1. k \in 1..Len(s) + Len(t) /\ DOMAIN s = 1..Len(s) /\ DOMAIN t = 1..Len(t)
  BY ConcatPlaces
<1>2. CASE k \in 1..Len(s)
  <2>1. k \in DOMAIN s /\ (s \o t)[k] = s[k]
    BY <1>1, <1>2, ConcatPlaces
  <2> QED
    BY <2>1
<1>3. CASE \E m \in 1..Len(t) : k = Len(s) + m
  <2>1. PICK m \in 1..Len(t) : k = Len(s) + m
    BY <1>3
  <2>2. m \in DOMAIN t /\ (s \o t)[k] = t[m]
    BY <1>1, <2>1, ConcatPlaces
  <2> QED
    BY <2>2
<1>4. k \in 1..Len(s) \/ \E m \in 1..Len(t) : k = Len(s) + m
  BY <1>1, ConcatPlaces
<1> QED
  BY <1>2, <1>3, <1>4

LEMMA ConcatTidy ==
    ASSUME NEW s, NEW t, Tidy(s), Tidy(t)
    PROVE  /\ Tidy(s \o t)
           /\ \A f : HasField(s \o t, f) <=> HasField(s, f) \/ HasField(t, f)
<1>1. /\ Len(s) \in Nat /\ Len(t) \in Nat
      /\ DOMAIN s = 1..Len(s) /\ DOMAIN t = 1..Len(t)
  BY ConcatPlaces DEF Tidy
<1>2. DOMAIN (s \o t) = 1..Len(s) + Len(t)
  BY ConcatPlaces DEF Tidy
<1>3. \A k \in 1..Len(s) : (s \o t)[k] = s[k]
  BY ConcatPlaces DEF Tidy
<1>4. \A k \in 1..Len(t) : (s \o t)[Len(s) + k] = t[k] /\ Len(s) + k \in 1..Len(s) + Len(t)
  BY ConcatPlaces DEF Tidy
<1>5. \A k \in 1..Len(s) + Len(t) :
         k \in 1..Len(s) \/ \E m \in 1..Len(t) : k = Len(s) + m
  BY ConcatPlaces DEF Tidy
<1>6. ASSUME NEW k \in 1..Len(s) + Len(t) PROVE Sortable((s \o t)[k])
  BY <1>1, <1>3, <1>4, <1>5 DEF Tidy
<1>7. ASSUME NEW f, HasField(s \o t, f) PROVE HasField(s, f) \/ HasField(t, f)
  <2>1. PICK k \in 1..Len(s) + Len(t) : (s \o t)[k].field = f
    BY <1>2, <1>7 DEF HasField
  <2>2. CASE k \in 1..Len(s)
    BY <2>1, <2>2, <1>1, <1>3 DEF HasField
  <2>3. CASE k \notin 1..Len(s)
    <3>1. PICK m \in 1..Len(t) : k = Len(s) + m
      BY <2>3, <1>5
    <3>2. t[m].field = f
      BY <2>1, <3>1, <1>4
    <3> QED
      BY <3>2, <1>1 DEF HasField
  <2> QED
    BY <2>2, <2>3
<1>8. ASSUME NEW f, HasField(s, f) \/ HasField(t, f) PROVE HasField(s \o t, f)
  <2>1. ASSUME NEW k \in 1..Len(s), s[k].field = f PROVE HasField(s \o t, f)
    <3>1. k \in 1..Len(s) + Len(t)
      BY <1>1
    <3> QED
      BY <2>1, <3>1, <1>2, <1>3 DEF HasField
  <2>2. ASSUME NEW m \in 1..Len(t), t[m].field = f PROVE HasField(s \o t, f)
    BY <2>2, <1>2, <1>4 DEF HasField
  <2> QED
    BY <1>1, <1>8, <2>1, <2>2 DEF HasField
<1>9. IsSequence(s \o t)
  BY ConcatIs DEF Tidy
<1> QED
  BY <1>2, <1>6, <1>7, <1>8, <1>9 DEF Tidy

LEMMA RejectTidy ==
    ASSUME NEW code \in CodeSet, NEW field \in Field, NEW item \in Nat
    PROVE  Tidy(Reject(code, field, item)) /\ HasField(Reject(code, field, item), field)
<1> DEFINE r == [code |-> code, field |-> field, item |-> item]
<1>1. Sortable(r) /\ r.field = field
  BY DEF Sortable
<1> HIDE DEF r
<1>2. DOMAIN <<r>> = {1} /\ <<r>>[1] = r /\ Reject(code, field, item) = <<r>>
  BY DEF Reject, r
<1> QED
  BY <1>1, <1>2, RejectIs DEF Tidy, HasField

\* A reason against a name of any section, or against none.
LEMMA NamedTidy ==
    ASSUME NEW code \in CodeSet, NEW n \in 1..4, NEW name \in DOMAIN Rank, NEW item \in Nat
    PROVE  /\ Tidy(Reject(code, <<n, name>>, item))
           /\ HasField(Reject(code, <<n, name>>, item), <<n, name>>)
<1>1. <<n, name>> \in Field
  BY DEF Field
<1> QED
  BY <1>1, RejectTidy

LEMMA FixedTidy ==
    ASSUME NEW code \in CodeSet, NEW item \in Nat PROVE Tidy(Reject(code, Fixed, item))
<1>1. Fixed \in Field
  BY DEF Field
<1> QED
  BY <1>1, RejectTidy

LEMMA WhenTidy ==
    ASSUME NEW C, NEW r, C => Tidy(r) PROVE Tidy(When(C, r))
BY EmptyTidy DEF When

\* Empty, or about a field.
About(s, f) == Tidy(s) /\ (s # << >> => HasField(s, f))

LEMMA WhenAbout ==
    ASSUME NEW C, NEW r, NEW f, C => About(r, f) PROVE About(When(C, r), f)
BY EmptyTidy DEF When, About

LEMMA ConcatAbout ==
    ASSUME NEW s, NEW t, NEW f, About(s, f), About(t, f) PROVE About(s \o t, f)
<1>1. s = << >> /\ t = << >> => s \o t = << >>
  BY ConcatIs DEF About, Tidy
<1> QED
  BY <1>1, ConcatTidy DEF About

LEMMA UnknownInputAbout ==
    ASSUME NEW c, NEW name \in DOMAIN Rank PROVE About(UnknownInput(c, name), Input(name))
<1>1. About(Reject("UNKNOWN_INPUT", Input(name), 0), Input(name))
  BY CodesAre, NamedTidy DEF About, Input
<1> QED
  BY <1>1, WhenAbout DEF UnknownInput

LEMMA InputAbout ==
    ASSUME NEW c, NEW name \in DOMAIN Rank PROVE About(InputReasons(c, name), Input(name))
<1> DEFINE spec == c.profile.domain[name]
           v == c.request.inputs[name]
           mismatch == Reject("INPUT_TYPE_MISMATCH", Input(name), 0)
           a == When(spec.kind = "integer" /\ ~Integral(v[2]), mismatch)
           b == When(OutOfRange(spec, v[2]), Reject("INPUT_OUT_OF_RANGE", Input(name), 0))
<1>1. \A code \in {"INPUT_TYPE_MISMATCH", "INPUT_OUT_OF_RANGE", "MISSING_INPUT",
                   "UNSEEN_CATEGORY"} :
         About(Reject(code, Input(name), 0), Input(name))
  BY CodesAre, NamedTidy DEF About, Input
<1>2. About(a, Input(name)) /\ About(b, Input(name))
  BY <1>1, WhenAbout
<1>3. /\ About(When(spec.required, Reject("MISSING_INPUT", Input(name), 0)), Input(name))
      /\ About(When(v[2] \notin F!Range(spec.categories),
                    Reject("UNSEEN_CATEGORY", Input(name), 0)), Input(name))
      /\ About(mismatch, Input(name))
  BY <1>1, WhenAbout
<1>4. About(a \o b, Input(name))
  BY <1>2, ConcatAbout
<1> QED
  BY <1>3, <1>4 DEF InputReasons

LEMMA UnknownMetricAbout ==
    ASSUME NEW c, NEW name \in DOMAIN Rank
    PROVE  About(UnknownInterference(c, name), Interference(name))
<1>1. About(Reject("UNKNOWN_INTERFERENCE", Interference(name), 0), Interference(name))
  BY CodesAre, NamedTidy DEF About, Interference
<1> QED
  BY <1>1, WhenAbout DEF UnknownInterference

LEMMA MetricAbout ==
    ASSUME NEW c, NEW name \in DOMAIN Rank
    PROVE  About(InterferenceReasons(c, name), Interference(name))
<1>1. \A code \in {"MISSING_INTERFERENCE", "INTERFERENCE_OUT_OF_ENVELOPE"} :
         About(Reject(code, Interference(name), 0), Interference(name))
  BY CodesAre, NamedTidy DEF About, Interference
<1>2. \A C \in BOOLEAN :
         About(When(C, Reject("INTERFERENCE_OUT_OF_ENVELOPE", Interference(name), 0)),
               Interference(name))
  BY <1>1, WhenAbout
<1>3. OutOfRange(c.profile.metrics[name], ObservedInterference(c)[name]) \in BOOLEAN
  BY DEF OutOfRange
<1> QED
  BY <1>1, <1>2, <1>3 DEF InterferenceReasons

LEMMA VersionAbout ==
    ASSUME NEW c, NEW component \in DOMAIN Rank
    PROVE  About(VersionReasons(c, component), Version(component))
<1> DEFINE match == Match(ObservedVersions(c)[component], c.profile.versions[component])
           a == When(match = "error", Reject("INVALID_VERSION", Version(component), 0))
           b == When(match = "differ", Reject("UNSUPPORTED_VERSION", Version(component), 0))
<1>1. \A code \in {"MISSING_VERSION", "INVALID_VERSION", "UNSUPPORTED_VERSION"} :
         About(Reject(code, Version(component), 0), Version(component))
  BY CodesAre, NamedTidy DEF About, Version
<1>2. About(a, Version(component)) /\ About(b, Version(component))
  BY <1>1, WhenAbout
<1>3. About(a \o b, Version(component))
  BY <1>2, ConcatAbout
<1> QED
  BY <1>1, <1>3 DEF VersionReasons

LEMMA RelationTidy == ASSUME NEW c, NEW k \in Nat PROVE Tidy(RelationReasons(c, k))
BY CodesAre, FixedTidy, WhenTidy DEF RelationReasons

LEMMA FeatureTidy ==
    ASSUME NEW c, NEW k \in Nat, FeatureOK(Names(c.profile)[k])
    PROVE  Tidy(FeatureReasons(c, k))
<1> DEFINE f == Names(c.profile)[k]
<1>1. CASE ~IsInput(f) /\ ~IsInterference(f)
  BY <1>1, CodesAre, FixedTidy DEF FeatureReasons
<1>2. CASE IsInput(f) \/ IsInterference(f)
  <2>1. f \in Field
    BY <1>2 DEF IsInput, IsInterference, FeatureOK, Field
  <2>2. Tidy(Reject("MODEL_FEATURE_MISSING", f, 0))
    BY <2>1, CodesAre, RejectTidy
  <2>3. Tidy(When(~Available(c, f), Reject("MODEL_FEATURE_MISSING", f, 0)))
    BY <2>2, WhenTidy
  <2> QED
    BY <1>2, <2>3 DEF FeatureReasons
<1> QED
  BY <1>1, <1>2

LEMMA NumericalTidy == ASSUME NEW c PROVE Tidy(NumericalReasons(c))
<1>1. /\ Tidy(When(c.profile.upperBound > c.request.maxNumericalError,
                   Reject("NUMERICAL_BUDGET_UNSATISFIED", Fixed, 0)))
      /\ Tidy(When(c.profile.observedMax > c.profile.upperBound,
                   Reject("INVALID_NUMERICAL_CERTIFICATE", Fixed, 0)))
  BY CodesAre, FixedTidy, WhenTidy
<1> QED
  BY <1>1, ConcatTidy DEF NumericalReasons

LEMMA LoadTidy ==
    ASSUME NEW c, NEW value
    PROVE  Tidy(LatencyReasons(c, value)) /\ Tidy(OODReasons(c, value))
<1> DEFINE predicted == Predicted(c.profile, value)
           upper == LatencyUpper(c.profile, value)
           score == Score(c.profile.ood, value)
           a == When(~IsFinite(predicted) \/ Less(predicted, 0),
                     Reject("INVALID_PREDICTION", Fixed, 0))
           b == IF ~IsFinite(upper) \/ Less(upper, 0)
                THEN Reject("INVALID_LATENCY_BOUND", Fixed, 0)
                ELSE When(Less(AvailableTime(c.request), upper),
                          Reject("LATENCY_SLO_UNSATISFIED", Fixed, 0))
<1>1. \A code \in {"INVALID_PREDICTION", "INVALID_LATENCY_BOUND",
                   "LATENCY_SLO_UNSATISFIED", "INVALID_OOD_SCORE", "OOD_REJECTED"} :
         Tidy(Reject(code, Fixed, 0))
  BY CodesAre, FixedTidy
<1>2. LatencyReasons(c, value) = a \o b
  BY DEF LatencyReasons
<1> HIDE DEF predicted, upper
<1>3. Tidy(a) /\ Tidy(b)
  BY <1>1, EmptyTidy DEF When
<1>4. Tidy(a \o b)
  BY <1>3, ConcatTidy
<1>5. OODReasons(c, value) =
        IF ~c.profile.ood.required THEN << >>
        ELSE IF ~IsFinite(score) \/ Less(score, 0) THEN Reject("INVALID_OOD_SCORE", Fixed, 0)
        ELSE When(Less(c.profile.ood.threshold, score), Reject("OOD_REJECTED", Fixed, 0))
  BY DEF OODReasons
<1> HIDE DEF score
<1>6. Tidy(OODReasons(c, value))
  BY <1>1, <1>5, EmptyTidy DEF When
<1> QED
  BY <1>2, <1>4, <1>6

LEMMA MetadataTidy == ASSUME NEW c PROVE Tidy(MetadataReasons(c))
<1>1. \A code \in {"DRA_METADATA_REQUIRED", "DRA_REQUEST_MISSING",
                   "DRA_DEVICE_COUNT_MISMATCH"} : Tidy(Reject(code, Fixed, 0))
  BY CodesAre, FixedTidy
<1> QED
  BY <1>1, EmptyTidy DEF MetadataReasons, When

LEMMA AttributeTidy ==
    ASSUME NEW c, CaseOK(c), HasDevices(c), NEW k \in Pairs(c)
    PROVE  Tidy(AttributeReasons(c, k))
<1> DEFINE n == Len(c.profile.assertions)
           m == Len(Devices(c))
           d == 1 + ((k - 1) \div n)
           a == 1 + ((k - 1) % n)
           assertion == c.profile.assertions[a]
           device == Devices(c)[d]
<1>1. n \in Nat /\ m \in Nat /\ DOMAIN c.profile.assertions = 1..n
  BY DEF CaseOK, ProfileOK, EvidenceOK, HasDevices, Devices, IsSequence
<1>2. <<d, a>> \in (1..m) \X (1..n)
  <2>1. \A j \in 1..m * n : <<1 + ((j - 1) \div n), 1 + ((j - 1) % n)>> \in (1..m) \X (1..n)
    <3> DEFINE G == (1..m) \X (1..n)
    <3>1. \A e \in 1..m, b \in 1..n : <<e, b>> \in G
      OBVIOUS
    <3> HIDE DEF G
    <3>2. \A j \in 1..m * n : <<1 + ((j - 1) \div n), 1 + ((j - 1) % n)>> \in G
      BY <1>1, <3>1, Grid
    <3> QED
      BY <3>2 DEF G
  <2> QED
    BY <2>1 DEF Pairs
<1> HIDE DEF d, a
<1>3. assertion.attribute \in DOMAIN Rank
  BY <1>1, <1>2 DEF CaseOK, ProfileOK
<1>4. AttributeReasons(c, k) =
        IF assertion.attribute \notin DOMAIN device
        THEN Reject("DRA_ATTRIBUTE_MISSING", Attribute(assertion.attribute), k)
        ELSE When(~Satisfies(device[assertion.attribute], assertion),
                  Reject("DRA_ATTRIBUTE_MISMATCH", Attribute(assertion.attribute), k))
  BY DEF AttributeReasons, d, a
<1> HIDE DEF assertion, device
<1>n. k \in Nat
  BY <1>1 DEF Pairs
<1>5. /\ Tidy(Reject("DRA_ATTRIBUTE_MISSING", Attribute(assertion.attribute), k))
      /\ Tidy(Reject("DRA_ATTRIBUTE_MISMATCH", Attribute(assertion.attribute), k))
  BY <1>3, <1>n, CodesAre, NamedTidy DEF Attribute
<1> QED
  BY <1>4, <1>5, EmptyTidy DEF When

-----------------------------------------------------------------------------
(* The invariant: what a loop finds at a key that has been visited is named, *)
(* in that loop and in all that come after it.                               *)

\* The loops after each.
AfterVersions       == {"features", "devices"}
AfterMetrics        == {"versions"} \cup AfterVersions
AfterUnknownMetrics == {"interference"} \cup AfterMetrics
AfterInputs         == {"relations", "unknown interference"} \cup AfterUnknownMetrics
AfterUnknownInputs  == {"inputs"} \cup AfterInputs

Visited(loop, after, keys) == {key \in keys : pc \in after \/ (pc = loop /\ key \notin todo)}

NamedInv ==
    pc \in Loops =>
        /\ Tidy(reasons)
        /\ \A name \in Visited("unknown inputs", AfterUnknownInputs, DOMAIN request.inputs) :
              UnknownInput(case, name) # << >> => HasField(reasons, Input(name))
        /\ \A name \in Visited("inputs", AfterInputs, DOMAIN profile.domain) :
              InputReasons(case, name) # << >> => HasField(reasons, Input(name))
        /\ \A name \in Visited("unknown interference", AfterUnknownMetrics,
                               DOMAIN ObservedInterference(case)) :
              UnknownInterference(case, name) # << >> =>
                  HasField(reasons, Interference(name))
        /\ \A name \in Visited("interference", AfterMetrics, DOMAIN profile.metrics) :
              InterferenceReasons(case, name) # << >> =>
                  HasField(reasons, Interference(name))
        /\ \A component \in Visited("versions", AfterVersions, DOMAIN profile.versions) :
              VersionReasons(case, component) # << >> =>
                  HasField(reasons, Version(component))

\* Every key that is visited is a name.
LEMMA KeysAre ==
    ASSUME NEW c, CaseOK(c), ValidProfile(c.profile)
    PROVE  /\ DOMAIN c.request.inputs \cup DOMAIN c.profile.domain \subseteq DOMAIN Rank
           /\ DOMAIN ObservedInterference(c) \subseteq DOMAIN Rank
           /\ DOMAIN c.profile.metrics \cup DOMAIN c.profile.versions \subseteq DOMAIN Rank
BY DEF CaseOK, ProfileOK, RequestOK, EvidenceOK, ObservedInterference, Observed

LEMMA NameIs ==
    ASSUME NEW p, ProfileOK(p), NEW k \in DOMAIN Names(p)
    PROVE  FeatureOK(Names(p)[k])
<1> DEFINE s == p.order
           t == p.ood.features
           U == {s[m] : m \in DOMAIN s} \cup {t[m] : m \in DOMAIN t}
<1>1. s \in Seq(U) /\ t \in Seq(U)
  BY DEF ProfileOK, IsSequence
<1>2. \A f \in U : FeatureOK(f)
  BY DEF ProfileOK
<1> HIDE DEF U
<1>3. s \o t \in Seq(U)
  BY <1>1
<1> DEFINE n == s \o t
<1>4. n = Names(p) /\ n \in Seq(U) /\ k \in 1..Len(n)
  BY <1>3, NamesType DEF Names
<1> HIDE DEF n
<1>5. n[k] \in U
  BY <1>4
<1> QED
  BY <1>2, <1>4, <1>5

\* The loops over slices come to indices of them.
LEMMA RelationKeyIs ==
    ASSUME EvaluateInv, pc = "relations", todo # {}
    PROVE  FirstKey \in todo /\ FirstKey \in Nat
<1>1. todo \subseteq Nat
  <2>1. CaseOK(case) /\ todo \subseteq DOMAIN profile.relations
    BY DEF EvaluateInv, ControlInv, RelationsInv
  <2> QED
    BY <2>1 DEF CaseOK, ProfileOK, IsSequence, profile
<1> QED
  BY <1>1, FirstKeyIs

LEMMA FeatureKeyIs ==
    ASSUME EvaluateInv, pc = "features", todo # {}
    PROVE  FirstKey \in todo /\ FirstKey \in Nat /\ FirstKey \in DOMAIN Names(profile)
<1>1. CaseOK(case) /\ todo \subseteq DOMAIN Names(profile)
  BY DEF EvaluateInv, ControlInv, FeaturesInv, FirstNames
<1>2. DOMAIN Names(profile) \subseteq Nat
  BY <1>1, NamesType DEF CaseOK, profile
<1> QED
  BY <1>1, <1>2, FirstKeyIs

\* A step that adds to what was found takes no name away.
LEMMA Grows ==
    ASSUME NamedInv, pc \in Loops, case' = case,
           NEW found, Tidy(found), reasons' = reasons \o found
    PROVE  /\ Tidy(reasons')
           /\ \A f : HasField(reasons', f) <=> HasField(reasons, f) \/ HasField(found, f)
BY ConcatTidy DEF NamedInv

LEMMA UnknownInputsName ==
    ASSUME EvaluateInv, NamedInv, UnknownInputs PROVE NamedInv'
<1> USE DEF profile, request, Visited, AfterUnknownInputs, AfterInputs,
            AfterUnknownMetrics, AfterMetrics, AfterVersions
<1>0. /\ pc = "unknown inputs" /\ pc \in Loops /\ case' = case
      /\ CaseOK(case) /\ ValidProfile(profile) /\ todo \subseteq DOMAIN request.inputs
  BY DEF UnknownInputs, Each, Visit, Enter, EvaluateInv, ControlInv, Loops,
         UnknownInputsInv
<1>1. ASSUME NEW name \in todo, Visit(name, UnknownInput(case, name)) PROVE NamedInv'
  <2>1. About(UnknownInput(case, name), Input(name))
    BY <1>0, KeysAre, UnknownInputAbout
  <2>2. /\ Tidy(reasons')
        /\ \A f : HasField(reasons', f) <=>
                    HasField(reasons, f) \/ HasField(UnknownInput(case, name), f)
    BY <1>0, <1>1, <2>1, Grows DEF Visit, About
  <2> QED
    BY <1>0, <1>1, <2>1, <2>2 DEF Visit, NamedInv, About
<1>2. ASSUME todo = {}, Enter("inputs", DOMAIN profile.domain, << >>) PROVE NamedInv'
  <2>1. /\ Tidy(reasons')
        /\ \A f : HasField(reasons', f) <=> HasField(reasons, f) \/ HasField(<< >>, f)
    BY <1>0, <1>2, EmptyTidy, Grows DEF Enter
  <2> QED
    BY <1>0, <1>2, <2>1 DEF Enter, NamedInv
<1> QED
  BY <1>1, <1>2 DEF UnknownInputs, Each

LEMMA InputsName ==
    ASSUME EvaluateInv, NamedInv, Inputs PROVE NamedInv'
<1> USE DEF profile, request, Visited, AfterUnknownInputs, AfterInputs,
            AfterUnknownMetrics, AfterMetrics, AfterVersions
<1>0. /\ pc = "inputs" /\ pc \in Loops /\ case' = case
      /\ CaseOK(case) /\ ValidProfile(profile) /\ todo \subseteq DOMAIN profile.domain
  BY DEF Inputs, Each, Visit, Enter, EvaluateInv, ControlInv, Loops, InputsInv
<1>1. ASSUME NEW name \in todo, Visit(name, InputReasons(case, name)) PROVE NamedInv'
  <2>1. About(InputReasons(case, name), Input(name))
    BY <1>0, KeysAre, InputAbout
  <2>2. /\ Tidy(reasons')
        /\ \A f : HasField(reasons', f) <=>
                    HasField(reasons, f) \/ HasField(InputReasons(case, name), f)
    BY <1>0, <1>1, <2>1, Grows DEF Visit, About
  <2> QED
    BY <1>0, <1>1, <2>1, <2>2 DEF Visit, NamedInv, About
<1>2. ASSUME todo = {}, Enter("relations", DOMAIN profile.relations, << >>) PROVE NamedInv'
  <2>1. /\ Tidy(reasons')
        /\ \A f : HasField(reasons', f) <=> HasField(reasons, f) \/ HasField(<< >>, f)
    BY <1>0, <1>2, EmptyTidy, Grows DEF Enter
  <2> QED
    BY <1>0, <1>2, <2>1 DEF Enter, NamedInv
<1> QED
  BY <1>1, <1>2 DEF Inputs, Each

LEMMA UnknownMetricsName ==
    ASSUME EvaluateInv, NamedInv, UnknownMetrics PROVE NamedInv'
<1> USE DEF profile, request, Visited, AfterUnknownInputs, AfterInputs,
            AfterUnknownMetrics, AfterMetrics, AfterVersions
<1>0. /\ pc = "unknown interference" /\ pc \in Loops /\ case' = case
      /\ CaseOK(case) /\ ValidProfile(profile)
      /\ todo \subseteq DOMAIN ObservedInterference(case)
  BY DEF UnknownMetrics, Each, Visit, Enter, EvaluateInv, ControlInv, Loops,
         UnknownMetricsInv
<1>1. ASSUME NEW name \in todo, Visit(name, UnknownInterference(case, name))
      PROVE  NamedInv'
  <2>1. About(UnknownInterference(case, name), Interference(name))
    BY <1>0, KeysAre, UnknownMetricAbout
  <2>2. /\ Tidy(reasons')
        /\ \A f : HasField(reasons', f) <=>
                    HasField(reasons, f) \/ HasField(UnknownInterference(case, name), f)
    BY <1>0, <1>1, <2>1, Grows DEF Visit, About
  <2> QED
    BY <1>0, <1>1, <2>1, <2>2 DEF Visit, NamedInv, About
<1>2. ASSUME todo = {}, Enter("interference", DOMAIN profile.metrics, << >>) PROVE NamedInv'
  <2>1. /\ Tidy(reasons')
        /\ \A f : HasField(reasons', f) <=> HasField(reasons, f) \/ HasField(<< >>, f)
    BY <1>0, <1>2, EmptyTidy, Grows DEF Enter
  <2> QED
    BY <1>0, <1>2, <2>1 DEF Enter, NamedInv
<1> QED
  BY <1>1, <1>2 DEF UnknownMetrics, Each

LEMMA MetricsName ==
    ASSUME EvaluateInv, NamedInv, Metrics PROVE NamedInv'
<1> USE DEF profile, request, Visited, AfterUnknownInputs, AfterInputs,
            AfterUnknownMetrics, AfterMetrics, AfterVersions
<1>0. /\ pc = "interference" /\ pc \in Loops /\ case' = case
      /\ CaseOK(case) /\ ValidProfile(profile) /\ todo \subseteq DOMAIN profile.metrics
  BY DEF Metrics, Each, Visit, Enter, EvaluateInv, ControlInv, Loops, MetricsInv
<1>1. ASSUME NEW name \in todo, Visit(name, InterferenceReasons(case, name))
      PROVE  NamedInv'
  <2>1. About(InterferenceReasons(case, name), Interference(name))
    BY <1>0, KeysAre, MetricAbout
  <2>2. /\ Tidy(reasons')
        /\ \A f : HasField(reasons', f) <=>
                    HasField(reasons, f) \/ HasField(InterferenceReasons(case, name), f)
    BY <1>0, <1>1, <2>1, Grows DEF Visit, About
  <2> QED
    BY <1>0, <1>1, <2>1, <2>2 DEF Visit, NamedInv, About
<1>2. ASSUME todo = {}, Enter("versions", DOMAIN profile.versions, << >>) PROVE NamedInv'
  <2>1. /\ Tidy(reasons')
        /\ \A f : HasField(reasons', f) <=> HasField(reasons, f) \/ HasField(<< >>, f)
    BY <1>0, <1>2, EmptyTidy, Grows DEF Enter
  <2> QED
    BY <1>0, <1>2, <2>1 DEF Enter, NamedInv
<1> QED
  BY <1>1, <1>2 DEF Metrics, Each

LEMMA VersionsName ==
    ASSUME EvaluateInv, NamedInv, Versions PROVE NamedInv'
<1> USE DEF profile, request, Visited, AfterUnknownInputs, AfterInputs,
            AfterUnknownMetrics, AfterMetrics, AfterVersions
<1>0. /\ pc = "versions" /\ pc \in Loops /\ case' = case
      /\ CaseOK(case) /\ ValidProfile(profile) /\ todo \subseteq DOMAIN profile.versions
  BY DEF Versions, Each, Visit, Enter, EvaluateInv, ControlInv, Loops, VersionsInv
<1>1. ASSUME NEW component \in todo, Visit(component, VersionReasons(case, component))
      PROVE  NamedInv'
  <2>1. About(VersionReasons(case, component), Version(component))
    BY <1>0, KeysAre, VersionAbout
  <2>2. /\ Tidy(reasons')
        /\ \A f : HasField(reasons', f) <=>
                    HasField(reasons, f) \/ HasField(VersionReasons(case, component), f)
    BY <1>0, <1>1, <2>1, Grows DEF Visit, About
  <2> QED
    BY <1>0, <1>1, <2>1, <2>2 DEF Visit, NamedInv, About
<1>2. ASSUME todo = {}, Enter("features", FirstNames(profile), NumericalReasons(case))
      PROVE  NamedInv'
  <2>1. /\ Tidy(reasons')
        /\ \A f : HasField(reasons', f) <=>
                    HasField(reasons, f) \/ HasField(NumericalReasons(case), f)
    BY <1>0, <1>2, NumericalTidy, Grows DEF Enter
  <2> QED
    BY <1>0, <1>2, <2>1 DEF Enter, NamedInv
<1> QED
  BY <1>1, <1>2 DEF Versions, Each, NumericalReasons

LEMMA StartName ==
    ASSUME EvaluateInv, Start PROVE NamedInv'
<1> DEFINE mismatch == When(request.required \notin {None, profile.name},
                            Reject("PROFILE_MISMATCH", Fixed, 0))
           stale == When(~case.evidence.fresh, Reject("STALE_CERTIFICATE", Fixed, 0))
<1>1. Tidy(mismatch) /\ Tidy(stale)
  BY CodesAre, FixedTidy, WhenTidy
<1>2. Tidy(mismatch \o stale)
  BY <1>1, ConcatTidy
<1>3. Enter("unknown inputs", DOMAIN request.inputs, mismatch \o stale)
  BY DEF Start
<1> HIDE DEF mismatch, stale
<1>4. reasons = << >>
  BY DEF Start, EvaluateInv, StartInv
<1>5. Tidy(reasons')
  BY <1>2, <1>3, <1>4, EmptyTidy, ConcatTidy DEF Enter
<1> QED
  BY <1>3, <1>5
     DEF Enter, NamedInv, Visited, AfterUnknownInputs, AfterInputs, AfterUnknownMetrics,
         AfterMetrics, AfterVersions, request

LEMMA RelationsName ==
    ASSUME EvaluateInv, NamedInv, Relations PROVE NamedInv'
<1> USE DEF profile, request, Visited, AfterUnknownInputs, AfterInputs,
            AfterUnknownMetrics, AfterMetrics, AfterVersions
<1>0. pc = "relations" /\ pc \in Loops /\ case' = case
  BY DEF Relations, Visit, Enter, Loops
<1>1. CASE todo # {} /\ Visit(FirstKey, RelationReasons(case, FirstKey))
  <2>1. /\ Tidy(reasons')
        /\ \A f : HasField(reasons', f) <=>
                    HasField(reasons, f) \/ HasField(RelationReasons(case, FirstKey), f)
    BY <1>0, <1>1, RelationKeyIs, RelationTidy, Grows DEF Visit
  <2> QED
    BY <1>0, <1>1, <2>1 DEF Visit, NamedInv
<1>2. CASE Enter("unknown interference", DOMAIN ObservedInterference(case), << >>)
  <2>1. /\ Tidy(reasons')
        /\ \A f : HasField(reasons', f) <=> HasField(reasons, f) \/ HasField(<< >>, f)
    BY <1>0, <1>2, EmptyTidy, Grows DEF Enter
  <2> QED
    BY <1>0, <1>2, <2>1 DEF Enter, NamedInv
<1> QED
  BY <1>1, <1>2 DEF Relations

LEMMA FeaturesName ==
    ASSUME EvaluateInv, NamedInv, Features PROVE NamedInv'
<1> USE DEF profile, request, Visited, AfterUnknownInputs, AfterInputs,
            AfterUnknownMetrics, AfterMetrics, AfterVersions
<1>0. /\ pc = "features" /\ pc \in Loops /\ case' = case /\ CaseOK(case)
      /\ todo # {} /\ todo \subseteq FirstNames(profile)
      /\ Visit(FirstKey, FeatureReasons(case, FirstKey))
  BY DEF Features, Visit, EvaluateInv, ControlInv, FeaturesInv, Loops
<1>1. FirstKey \in DOMAIN Names(profile) /\ FirstKey \in Nat
  BY <1>0, FeatureKeyIs
<1>2. Tidy(FeatureReasons(case, FirstKey))
  BY <1>0, <1>1, NameIs, FeatureTidy DEF CaseOK
<1>3. /\ Tidy(reasons')
      /\ \A f : HasField(reasons', f) <=>
                  HasField(reasons, f) \/ HasField(FeatureReasons(case, FirstKey), f)
  BY <1>0, <1>2, Grows DEF Visit
<1> QED
  BY <1>0, <1>3 DEF Visit, NamedInv

LEMMA BoundName ==
    ASSUME EvaluateInv, NamedInv, Bound PROVE NamedInv'
<1> USE DEF profile, request, Visited, AfterUnknownInputs, AfterInputs,
            AfterUnknownMetrics, AfterMetrics, AfterVersions
<1> DEFINE latency == LatencyReasons(case, features)
           ood == OODReasons(case, features)
           load == IF featureOK THEN latency \o ood ELSE << >>
           metadata == IF Runtime(case) THEN MetadataReasons(case) ELSE << >>
<1>0. pc = "features" /\ pc \in Loops /\ case' = case
  BY DEF Bound, Enter, Loops
<1>1. Tidy(load) /\ Tidy(metadata)
  <2>1. Tidy(latency \o ood)
    BY LoadTidy, ConcatTidy
  <2> QED
    BY <2>1, EmptyTidy, MetadataTidy
<1>2. Tidy(load \o metadata)
  BY <1>1, ConcatTidy
<1>3. CASE pc' = "panic in score"
  BY <1>3 DEF NamedInv, Loops
<1>4. ASSUME NEW keys, Enter("devices", keys, load \o metadata) PROVE NamedInv'
  <2> HIDE DEF load, metadata
  <2>1. /\ Tidy(reasons')
        /\ \A f : HasField(reasons', f) <=>
                    HasField(reasons, f) \/ HasField(load \o metadata, f)
    BY <1>0, <1>2, <1>4, Grows DEF Enter
  <2> QED
    BY <1>0, <1>4, <2>1 DEF Enter, NamedInv
<1> QED
  BY <1>3, <1>4 DEF Bound

\* What was found at every key that is not lawful is still there after the sort.
LEMMA AllNamed ==
    ASSUME EvaluateInv, NamedInv, pc = "devices",
           case' = case, reasons' = StableSort(reasons)
    PROVE  EveryFaultNamed'
<1> USE DEF profile, request
<1>0. /\ Known(case) /\ ValidProfile(profile) /\ ValidRequest(request) /\ CaseOK(case)
      /\ Tidy(reasons)
  BY DEF EvaluateInv, ControlInv, NamedInv, Loops
<1>1. ASSUME NEW f, HasField(reasons, f) PROVE Named(f)'
  BY <1>0, <1>1, SortKeeps DEF HasField, Named
<1>2. ASSUME NEW name \in DOMAIN profile.domain \cup DOMAIN request.inputs,
             ~LawfulInput(case, name)
      PROVE  HasField(reasons, Input(name))
  <2>1. CASE name \in DOMAIN profile.domain
    <3>1. InputReasons(case, name) # << >>
      BY <1>0, <1>2, <2>1, InputIs DEF ValidProfile
    <3> QED
      BY <2>1, <3>1
         DEF NamedInv, Loops, Visited, AfterInputs, AfterUnknownMetrics, AfterMetrics,
             AfterVersions
  <2>2. CASE name \notin DOMAIN profile.domain
    <3>1. UnknownInput(case, name) # << >>
      BY <2>2, UnknownInputIs
    <3> QED
      BY <1>2, <2>2, <3>1
         DEF NamedInv, Loops, Visited, AfterUnknownInputs, AfterInputs,
             AfterUnknownMetrics, AfterMetrics, AfterVersions
  <2> QED
    BY <2>1, <2>2
<1>3. ASSUME NEW name \in DOMAIN profile.metrics \cup DOMAIN ObservedInterference(case),
             ~LawfulMetric(case, name)
      PROVE  HasField(reasons, Interference(name))
  <2>1. CASE name \in DOMAIN profile.metrics
    <3>1. InterferenceReasons(case, name) # << >>
      BY <1>0, <1>3, <2>1, MetricIs DEF ValidProfile
    <3> QED
      BY <2>1, <3>1 DEF NamedInv, Loops, Visited, AfterMetrics, AfterVersions
  <2>2. CASE name \notin DOMAIN profile.metrics
    <3>1. UnknownInterference(case, name) # << >>
      BY <2>2, UnknownMetricIs
    <3> QED
      BY <1>3, <2>2, <3>1
         DEF NamedInv, Loops, Visited, AfterUnknownMetrics, AfterMetrics, AfterVersions
  <2> QED
    BY <2>1, <2>2
<1>4. ASSUME NEW component \in DOMAIN profile.versions, ~LawfulVersion(case, component)
      PROVE  HasField(reasons, Version(component))
  <2>1. VersionReasons(case, component) # << >>
    BY <1>0, <1>4, VersionIs DEF ValidProfile
  <2> QED
    BY <1>4, <2>1 DEF NamedInv, Loops, Visited, AfterVersions
<1>5. ObservedInterference(case)' = ObservedInterference(case)
      /\ \A name : /\ LawfulInput(case, name)' <=> LawfulInput(case, name)
                   /\ LawfulMetric(case, name)' <=> LawfulMetric(case, name)
                   /\ LawfulVersion(case, name)' <=> LawfulVersion(case, name)
  OBVIOUS
<1> QED
  BY <1>1, <1>2, <1>3, <1>4, <1>5 DEF EveryFaultNamed

LEMMA AssertionsName ==
    ASSUME EvaluateInv, NamedInv, Assertions PROVE NamedInv' /\ EveryFaultNamed'
<1> USE DEF profile, request, Visited, AfterUnknownInputs, AfterInputs,
            AfterUnknownMetrics, AfterMetrics, AfterVersions
<1>0. /\ pc = "devices" /\ pc \in Loops /\ case' = case /\ CaseOK(case)
      /\ todo \subseteq AssertionKeys(case)
  BY DEF Assertions, Visit, Return, EvaluateInv, ControlInv, DevicesInv, Loops
<1>1. CASE todo # {} /\ Visit(FirstKey, AttributeReasons(case, FirstKey))
  <2>1. HasDevices(case) /\ FirstKey \in Pairs(case)
    <3>1. AssertionKeys(case) \subseteq Nat
      BY DEF AssertionKeys, Pairs
    <3> QED
      BY <1>0, <1>1, <3>1, FirstKeyIs DEF AssertionKeys
  <2>2. Tidy(AttributeReasons(case, FirstKey))
    BY <1>0, <2>1, AttributeTidy
  <2>3. /\ Tidy(reasons')
        /\ \A f : HasField(reasons', f) <=>
                    HasField(reasons, f) \/ HasField(AttributeReasons(case, FirstKey), f)
    BY <1>0, <1>1, <2>2, Grows DEF Visit
  <2> QED
    BY <1>0, <1>1, <2>3 DEF Visit, NamedInv, EveryFaultNamed
<1>2. CASE Return(StableSort(reasons))
  BY <1>0, <1>2, AllNamed DEF Return, NamedInv, Loops
<1> QED
  BY <1>1, <1>2 DEF Assertions

LEMMA StepNames ==
    ASSUME EvaluateInv, NamedInv, EveryFaultNamed, Step
    PROVE  NamedInv' /\ EveryFaultNamed'
<1>1. CASE RefusePhase \/ RefuseProfile \/ RefuseRequest \/ PanicInValidation
  <2>1. /\ case' = case
        /\ pc' \in {"done", "panic in validation"}
        /\ ~(Known(case) /\ ValidProfile(profile) /\ ValidRequest(request))
           \/ pc' # "done"
    BY <1>1
       DEF RefusePhase, RefuseProfile, RefuseRequest, PanicInValidation, Return
  <2> QED
    BY <2>1 DEF NamedInv, Loops, EveryFaultNamed, profile, request
<1>2. CASE Assertions
  BY <1>2, AssertionsName
<1>3. CASE \/ Start \/ UnknownInputs \/ Inputs \/ Relations \/ UnknownMetrics
           \/ Metrics \/ Versions \/ Features \/ Bound
  <2>1. NamedInv'
    BY <1>3, StartName, UnknownInputsName, InputsName, RelationsName, UnknownMetricsName,
       MetricsName, VersionsName, FeaturesName, BoundName
  <2>2. pc' # "done"
    BY <1>3
       DEF Start, UnknownInputs, Inputs, Relations, UnknownMetrics, Metrics, Versions,
           Features, Bound, Each, Visit, Enter
  <2> QED
    BY <2>1, <2>2 DEF EveryFaultNamed
<1> QED
  BY <1>1, <1>2, <1>3 DEF Step

NamesInv == PlannerInv /\ NamedInv /\ EveryFaultNamed

LEMMA NamesInit == Init => NamesInv
BY PlannerInit DEF Init, Idle, NamesInv, NamedInv, EveryFaultNamed, Loops

LEMMA NamesNext == NamesInv /\ [Next]_vars => NamesInv'
<1> SUFFICES ASSUME NamesInv, [Next]_vars PROVE NamesInv'
  OBVIOUS
<1>1. PlannerInv'
  BY PlannerNext DEF NamesInv
<1>2. CASE Evaluating
  BY <1>1, <1>2, StepNames DEF Evaluating, NamesInv, PlannerInv
<1>3. CASE pc' \in {"idle", "start"}
  BY <1>1, <1>3 DEF NamesInv, NamedInv, EveryFaultNamed, Loops
<1>4. CASE UNCHANGED evaluation
  <2>1. case' = case /\ reasons' = reasons /\ todo' = todo /\ pc' = pc
    BY <1>4 DEF evaluation
  <2>2. NamedInv'
    BY <2>1 DEF NamesInv, NamedInv, Visited, profile, request
  <2>3. EveryFaultNamed'
    BY <2>1 DEF NamesInv, EveryFaultNamed, Named, profile, request
  <2> QED
    BY <1>1, <2>2, <2>3 DEF NamesInv
<1> QED
  BY <1>2, <1>3, <1>4
     DEF Next, Load, Direct, EvaluateNext, Refuse, Improve, Pass, Considered, Finish,
         Begin, Forget, vars

\* Whatever else is wrong, and in whatever order the keys come, the decision
\* names every input, metric and version that is not lawful (planner.go:57-141;
\* "all detected reasons", docs/CONTRACT_SPEC.md:84): reasons are only ever added,
\* and the last sort loses none of them.
THEOREM PlannerNamesEveryFault == Spec => []EveryFaultNamed
<1>1. NamesInv => EveryFaultNamed
  BY DEF NamesInv
<1> QED
  BY <1>1, NamesInit, NamesNext, PTL DEF Spec

-----------------------------------------------------------------------------
(* The order of a decision: what the sort cannot tell apart was found in the *)
(* order of its items.                                                       *)

Tied(a, b) ==
    a.code = b.code /\ a.field[1] = b.field[1] /\ FieldRank(a.field) = FieldRank(b.field)

Distinct(s) ==
    \A j, k \in DOMAIN s : j < k /\ Tied(s[j], s[k]) => s[j].item < s[k].item

LEMMA SortOrders ==
    ASSUME NEW s, Tidy(s), Distinct(s), \A k \in DOMAIN s : s[k].item \in Int,
           NEW n \in 1..Len(s) - 1
    PROVE  Precedes(StableSort(s)[n], StableSort(s)[n + 1])
<1>1. Len(s) \in Nat /\ DOMAIN s = 1..Len(s)
  BY DEF Tidy, IsSequence
<1> DEFINE D == DOMAIN s
<1>2. PICK to \in [D -> D] :
        /\ \A k \in D : StableSort(s)[to[k]] = s[k]
        /\ \A j, m \in D : j # m =>
              \/ InFront(s, j, m) /\ to[j] < to[m]
              \/ InFront(s, m, j) /\ to[m] < to[j]
  BY SortMoves
<1>3. to \in Surjection(D, D)
  <2>1. IsFiniteSet(D)
    BY <1>1, FS_Interval
  <2>2. \A j, m \in D : to[j] = to[m] => j = m
    <3>1. \A j \in D : to[j] \in Int
      BY <1>1, <1>2
    <3> QED
      BY <1>2, <3>1
  <2>3. to \in Injection(D, D)
    BY <1>2, <2>2 DEF Injection, IsInjective
  <2> QED
    BY <2>1, <2>3, FS_Injection
<1>4. n \in D /\ n + 1 \in D
  BY <1>1
<1>5. PICK j \in D, m \in D : to[j] = n /\ to[m] = n + 1
  BY <1>3, <1>4 DEF Surjection
<1>6. j # m /\ InFront(s, j, m)
  BY <1>2, <1>4, <1>5
<1>7. StableSort(s)[n] = s[j] /\ StableSort(s)[n + 1] = s[m]
  BY <1>2, <1>5
<1> DEFINE x == <<CodeRank(s[j].code), s[j].field[1], FieldRank(s[j].field), s[j].item>>
           y == <<CodeRank(s[m].code), s[m].field[1], FieldRank(s[m].field), s[m].item>>
<1>8. CodeRank(s[j].code) = CodeRank(s[m].code) => s[j].code = s[m].code
  BY <1>1, CodeRankIs, FieldIs DEF Tidy, Sortable
<1>9. \/ x[1] < y[1]
      \/ x[1] = y[1] /\ x[2] < y[2]
      \/ x[1] = y[1] /\ x[2] = y[2] /\ x[3] < y[3]
      \/ x[1] = y[1] /\ x[2] = y[2] /\ x[3] = y[3] /\ x[4] < y[4]
  BY <1>1, <1>6, <1>8 DEF InFront, Distinct, Tied
<1> HIDE DEF x, y
<1>10. \E e \in 1..4 : x[e] < y[e] /\ \A d \in 1..e - 1 : x[d] = y[d]
  <2>1. CASE x[1] < y[1]
    <3> WITNESS 1 \in 1..4
    <3> QED
      BY <2>1
  <2>2. CASE x[1] = y[1] /\ x[2] < y[2]
    <3> WITNESS 2 \in 1..4
    <3>1. \A d \in 1..2 - 1 : d = 1
      OBVIOUS
    <3> QED
      BY <2>2, <3>1
  <2>3. CASE x[1] = y[1] /\ x[2] = y[2] /\ x[3] < y[3]
    <3> WITNESS 3 \in 1..4
    <3>1. \A d \in 1..3 - 1 : d \in {1, 2}
      OBVIOUS
    <3> QED
      BY <2>3, <3>1
  <2>4. CASE x[1] = y[1] /\ x[2] = y[2] /\ x[3] = y[3] /\ x[4] < y[4]
    <3> WITNESS 4 \in 1..4
    <3>1. \A d \in 1..4 - 1 : d \in {1, 2, 3}
      OBVIOUS
    <3> QED
      BY <2>4, <3>1
  <2> QED
    BY <1>9, <2>1, <2>2, <2>3, <2>4
<1> QED
  BY <1>7, <1>10 DEF Precedes, x, y

LEMMA ConcatDistinct ==
    ASSUME NEW s, NEW t, Tidy(s), Tidy(t), Distinct(s), Distinct(t),
           \A j \in DOMAIN s, k \in DOMAIN t : Tied(s[j], t[k]) => s[j].item < t[k].item
    PROVE  Distinct(s \o t)
<1>1. IsSequence(s) /\ IsSequence(t)
  BY DEF Tidy
<1>2. /\ DOMAIN s = 1..Len(s) /\ DOMAIN t = 1..Len(t) /\ Len(s) \in Nat /\ Len(t) \in Nat
      /\ DOMAIN (s \o t) = 1..Len(s) + Len(t)
      /\ \A k \in 1..Len(s) : (s \o t)[k] = s[k]
      /\ \A k \in 1..Len(t) : (s \o t)[Len(s) + k] = t[k]
      /\ \A k \in 1..Len(s) + Len(t) :
            k \in 1..Len(s) \/ \E m \in 1..Len(t) : k = Len(s) + m
  BY <1>1, ConcatPlaces
<1> DEFINE u == s \o t
<1>3. \A j, k \in 1..Len(s) : j < k /\ Tied(u[j], u[k]) => u[j].item < u[k].item
  BY <1>2 DEF Distinct
<1>4. \A j \in 1..Len(s), m \in 1..Len(t) :
         Tied(u[j], u[Len(s) + m]) => u[j].item < u[Len(s) + m].item
  BY <1>2
<1>5. \A l, m \in 1..Len(t) :
         l < m /\ Tied(u[Len(s) + l], u[Len(s) + m]) =>
             u[Len(s) + l].item < u[Len(s) + m].item
  <2>1. \A m \in 1..Len(t) : u[Len(s) + m] = t[m]
    BY <1>2
  <2> HIDE DEF u
  <2> QED
    BY <1>2, <2>1 DEF Distinct
<1> HIDE DEF u
<1>6. ASSUME NEW j \in 1..Len(s) + Len(t), NEW k \in 1..Len(s) + Len(t),
             j < k, Tied(u[j], u[k])
      PROVE  u[j].item < u[k].item
  <2>1. CASE k \in 1..Len(s)
    <3>1. j \in 1..Len(s)
      BY <1>2, <1>6, <2>1
    <3> QED
      BY <1>3, <1>6, <2>1, <3>1
  <2>2. CASE k \notin 1..Len(s)
    <3>1. PICK m \in 1..Len(t) : k = Len(s) + m
      BY <1>2, <2>2
    <3>2. CASE j \in 1..Len(s)
      BY <1>4, <1>6, <3>1, <3>2
    <3>3. CASE j \notin 1..Len(s)
      <4>1. PICK l \in 1..Len(t) : j = Len(s) + l
        BY <1>2, <3>3
      <4>2. l < m
        BY <1>2, <1>6, <3>1, <4>1
      <4> QED
        BY <1>5, <1>6, <3>1, <4>1, <4>2
    <3> QED
      BY <3>2, <3>3
  <2> QED
    BY <2>1, <2>2
<1> QED
  BY <1>2, <1>6 DEF Distinct, u

\* Which loop, or which checks between two loops, a code is of.
Turn(code) ==
    CASE code \in {"PROFILE_MISMATCH", "STALE_CERTIFICATE"} -> 0
      [] code = "UNKNOWN_INPUT" -> 1
      [] code \in {"MISSING_INPUT", "INPUT_TYPE_MISMATCH", "UNSEEN_CATEGORY",
                   "INPUT_OUT_OF_RANGE"} -> 2
      [] code = "RELATION_VIOLATION" -> 3
      [] code = "UNKNOWN_INTERFERENCE" -> 4
      [] code \in {"MISSING_INTERFERENCE", "INTERFERENCE_OUT_OF_ENVELOPE"} -> 5
      [] code \in {"MISSING_VERSION", "INVALID_VERSION", "UNSUPPORTED_VERSION"} -> 6
      [] code \in {"NUMERICAL_BUDGET_UNSATISFIED", "INVALID_NUMERICAL_CERTIFICATE"} -> 7
      [] code \in {"INVALID_MODEL_FEATURE", "MODEL_FEATURE_MISSING"} -> 8
      [] code \in {"INVALID_PREDICTION", "INVALID_LATENCY_BOUND",
                   "LATENCY_SLO_UNSATISFIED", "INVALID_OOD_SCORE", "OOD_REJECTED",
                   "DRA_METADATA_REQUIRED", "DRA_REQUEST_MISSING",
                   "DRA_DEVICE_COUNT_MISMATCH"} -> 9
      [] OTHER -> 10

TurnOf(loop) ==
    CASE loop = "unknown inputs" -> 1 [] loop = "inputs" -> 2 [] loop = "relations" -> 3
      [] loop = "unknown interference" -> 4 [] loop = "interference" -> 5
      [] loop = "versions" -> 6 [] loop = "features" -> 8 [] OTHER -> 10

LEMMA TurnIs ==
    /\ \A code \in {"PROFILE_MISMATCH", "STALE_CERTIFICATE"} : Turn(code) = 0
    /\ Turn("UNKNOWN_INPUT") = 1
    /\ \A code \in {"MISSING_INPUT", "INPUT_TYPE_MISMATCH", "UNSEEN_CATEGORY",
                    "INPUT_OUT_OF_RANGE"} : Turn(code) = 2
    /\ Turn("RELATION_VIOLATION") = 3
    /\ Turn("UNKNOWN_INTERFERENCE") = 4
    /\ \A code \in {"MISSING_INTERFERENCE", "INTERFERENCE_OUT_OF_ENVELOPE"} : Turn(code) = 5
    /\ \A code \in {"MISSING_VERSION", "INVALID_VERSION", "UNSUPPORTED_VERSION"} :
          Turn(code) = 6
    /\ \A code \in {"NUMERICAL_BUDGET_UNSATISFIED", "INVALID_NUMERICAL_CERTIFICATE"} :
          Turn(code) = 7
    /\ \A code \in {"INVALID_MODEL_FEATURE", "MODEL_FEATURE_MISSING"} : Turn(code) = 8
    /\ \A code \in {"INVALID_PREDICTION", "INVALID_LATENCY_BOUND",
                    "LATENCY_SLO_UNSATISFIED", "INVALID_OOD_SCORE", "OOD_REJECTED",
                    "DRA_METADATA_REQUIRED", "DRA_REQUEST_MISSING",
                    "DRA_DEVICE_COUNT_MISMATCH"} : Turn(code) = 9
    /\ \A code \in {"DRA_ATTRIBUTE_MISSING", "DRA_ATTRIBUTE_MISMATCH"} : Turn(code) = 10
BY DEF Turn

LEMMA TurnOfIs ==
    /\ TurnOf("unknown inputs") = 1 /\ TurnOf("inputs") = 2 /\ TurnOf("relations") = 3
    /\ TurnOf("unknown interference") = 4 /\ TurnOf("interference") = 5
    /\ TurnOf("versions") = 6 /\ TurnOf("features") = 8 /\ TurnOf("devices") = 10
BY DEF TurnOf

KeyLoops == {"unknown inputs", "inputs", "unknown interference", "interference", "versions"}

IsNamed(f) == f = <<f[1], f[2]>> /\ f[1] # 0 /\ f[2] \in DOMAIN Rank

\* A reason of a loop is about none of the keys K.
Past(r, p, loop, K) ==
    /\ loop \in KeyLoops => IsNamed(r.field) /\ r.field[2] \notin K
    /\ loop \in {"relations", "devices"} => \A k \in K : r.item < k
    /\ loop = "features" =>
         IF r.code = "INVALID_MODEL_FEATURE" THEN \A k \in K : r.item < k
         ELSE IsNamed(r.field) /\ \A k \in K : r.field # Names(p)[k]

\* The reasons of the loops before are not tied with those of this one, and
\* those of this one are about what it has visited.
OrderInv ==
    pc \in Loops =>
        /\ Distinct(reasons)
        /\ \A k \in DOMAIN reasons :
              /\ reasons[k].item \in Int
              /\ Turn(reasons[k].code) \in 0..TurnOf(pc)
              /\ Turn(reasons[k].code) = TurnOf(pc) => Past(reasons[k], profile, pc, todo)

\* All about one field and one item, and no code twice.
Says(s, C, f, item) ==
    /\ IsSequence(s)
    /\ \A k \in DOMAIN s : s[k].code \in C /\ s[k].field = f /\ s[k].item = item
    /\ \A j, k \in DOMAIN s : s[j].code = s[k].code => j = k

LEMMA EmptySays == ASSUME NEW C, NEW f, NEW item PROVE Says(<< >>, C, f, item)
BY EmptyIs DEF Says

LEMMA RejectSays ==
    ASSUME NEW C, NEW code \in C, NEW f, NEW item
    PROVE  Says(Reject(code, f, item), C, f, item)
<1> DEFINE r == [code |-> code, field |-> f, item |-> item]
<1>1. r.code = code /\ r.field = f /\ r.item = item
  OBVIOUS
<1> HIDE DEF r
<1>2. DOMAIN <<r>> = {1} /\ <<r>>[1] = r /\ Reject(code, f, item) = <<r>>
  BY DEF Reject, r
<1> QED
  BY <1>1, <1>2, RejectIs DEF Says

LEMMA WhenSays ==
    ASSUME NEW C, NEW r, NEW D, NEW f, NEW item, Says(r, D, f, item)
    PROVE  Says(When(C, r), D, f, item)
BY EmptySays DEF When

LEMMA WiderSays ==
    ASSUME NEW s, NEW C, NEW D, NEW f, NEW item, Says(s, C, f, item), C \subseteq D
    PROVE  Says(s, D, f, item)
BY DEF Says

LEMMA ConcatSays ==
    ASSUME NEW s, NEW t, NEW C, NEW D, NEW E, NEW f, NEW item,
           Says(s, C, f, item), Says(t, D, f, item), C \cap D = {}, E = C \cup D
    PROVE  Says(s \o t, E, f, item)
<1>1. IsSequence(s) /\ IsSequence(t)
  BY DEF Says
<1>2. /\ DOMAIN s = 1..Len(s) /\ DOMAIN t = 1..Len(t) /\ Len(s) \in Nat /\ Len(t) \in Nat
      /\ DOMAIN (s \o t) = 1..Len(s) + Len(t)
      /\ \A k \in 1..Len(s) : (s \o t)[k] = s[k]
      /\ \A k \in 1..Len(t) : (s \o t)[Len(s) + k] = t[k]
      /\ \A k \in 1..Len(s) + Len(t) :
            k \in 1..Len(s) \/ \E m \in 1..Len(t) : k = Len(s) + m
  BY <1>1, ConcatPlaces
<1>3. IsSequence(s \o t)
  BY <1>1, ConcatIs
<1> DEFINE u == s \o t
<1>4. \A k \in 1..Len(s) : u[k].code \in C /\ u[k].field = f /\ u[k].item = item
  BY <1>2 DEF Says
<1>5. \A k \in 1..Len(t) :
         u[Len(s) + k].code \in D /\ u[Len(s) + k].field = f /\ u[Len(s) + k].item = item
  BY <1>2 DEF Says
<1>6. /\ \A j, k \in 1..Len(s) : u[j].code = u[k].code => j = k
      /\ \A j, k \in 1..Len(t) : u[Len(s) + j].code = u[Len(s) + k].code => j = k
  <2>1. /\ \A m \in 1..Len(s) : u[m] = s[m]
        /\ \A m \in 1..Len(t) : u[Len(s) + m] = t[m]
    BY <1>2
  <2>2. /\ \A j, k \in 1..Len(s) : s[j].code = s[k].code => j = k
        /\ \A j, k \in 1..Len(t) : t[j].code = t[k].code => j = k
    BY <1>2 DEF Says
  <2> HIDE DEF u
  <2>3. \A j, k \in 1..Len(s) : u[j].code = u[k].code => j = k
    BY <2>1, <2>2
  <2>4. \A j, k \in 1..Len(t) : u[Len(s) + j].code = u[Len(s) + k].code => j = k
    BY <2>1, <2>2
  <2> QED
    BY <2>3, <2>4
<1> HIDE DEF u
<1>7. ASSUME NEW j \in 1..Len(s) + Len(t), NEW k \in 1..Len(s) + Len(t),
             u[j].code = u[k].code
      PROVE  j = k
  <2>1. CASE j \in 1..Len(s)
    <3>1. k \in 1..Len(s)
      BY <1>2, <1>4, <1>5, <1>7, <2>1
    <3> QED
      BY <1>6, <1>7, <2>1, <3>1
  <2>2. CASE j \notin 1..Len(s)
    <3>1. PICK m \in 1..Len(t) : j = Len(s) + m
      BY <1>2, <2>2
    <3>2. k \notin 1..Len(s)
      BY <1>4, <1>5, <1>7, <3>1
    <3>3. PICK l \in 1..Len(t) : k = Len(s) + l
      BY <1>2, <3>2
    <3> QED
      BY <1>6, <1>7, <3>1, <3>3
  <2> QED
    BY <2>1, <2>2
<1>8. \A k \in 1..Len(s) + Len(t) : u[k].code \in E /\ u[k].field = f /\ u[k].item = item
  <2> TAKE k \in 1..Len(s) + Len(t)
  <2>1. CASE k \in 1..Len(s)
    BY <1>4, <2>1
  <2>2. CASE k \notin 1..Len(s)
    <3>1. PICK m \in 1..Len(t) : k = Len(s) + m
      BY <1>2, <2>2
    <3>2. u[Len(s) + m].code \in D /\ u[Len(s) + m].field = f /\ u[Len(s) + m].item = item
      BY <1>5
    <3> QED
      BY <3>1, <3>2
  <2> QED
    BY <2>1, <2>2
<1> QED
  BY <1>2, <1>3, <1>7, <1>8 DEF Says, u

\* What says is distinct.
LEMMA SaysDistinct ==
    ASSUME NEW s, NEW C, NEW f, NEW item, Says(s, C, f, item) PROVE Distinct(s)
<1>1. \A j, k \in DOMAIN s : j \in Int /\ k \in Int
  BY DEF Says, IsSequence
<1> QED
  BY <1>1 DEF Says, Distinct, Tied

-----------------------------------------------------------------------------
(* What every check finds says. *)

InputCodes == {"MISSING_INPUT", "INPUT_TYPE_MISMATCH", "UNSEEN_CATEGORY",
               "INPUT_OUT_OF_RANGE"}

LEMMA InputSays ==
    ASSUME NEW c, NEW name PROVE Says(InputReasons(c, name), InputCodes, Input(name), 0)
<1> DEFINE spec == c.profile.domain[name]
           v == c.request.inputs[name]
           f == Input(name)
           mismatch == Reject("INPUT_TYPE_MISMATCH", f, 0)
           a == When(spec.kind = "integer" /\ ~Integral(v[2]), mismatch)
           b == When(OutOfRange(spec, v[2]), Reject("INPUT_OUT_OF_RANGE", f, 0))
<1>1. \A code \in InputCodes : Says(Reject(code, f, 0), {code}, f, 0)
                               /\ Says(Reject(code, f, 0), InputCodes, f, 0)
  BY RejectSays
<1> HIDE DEF f
<1>2. Says(a, {"INPUT_TYPE_MISMATCH"}, f, 0) /\ Says(b, {"INPUT_OUT_OF_RANGE"}, f, 0)
  BY <1>1, WhenSays DEF InputCodes
<1>3. Says(a \o b, {"INPUT_TYPE_MISMATCH", "INPUT_OUT_OF_RANGE"}, f, 0)
  <2> HIDE DEF a, b
  <2>1. /\ {"INPUT_TYPE_MISMATCH"} \cap {"INPUT_OUT_OF_RANGE"} = {}
        /\ {"INPUT_TYPE_MISMATCH", "INPUT_OUT_OF_RANGE"} =
             {"INPUT_TYPE_MISMATCH"} \cup {"INPUT_OUT_OF_RANGE"}
    OBVIOUS
  <2> QED
    BY <1>2, <2>1, ConcatSays
<1>4. Says(a \o b, InputCodes, f, 0)
  <2> HIDE DEF a, b
  <2> QED
    BY <1>3, WiderSays DEF InputCodes
<1>5. /\ Says(When(spec.required, Reject("MISSING_INPUT", f, 0)), InputCodes, f, 0)
      /\ Says(When(v[2] \notin F!Range(spec.categories),
                   Reject("UNSEEN_CATEGORY", f, 0)), InputCodes, f, 0)
      /\ Says(mismatch, InputCodes, f, 0)
  BY <1>1, WhenSays DEF InputCodes
<1> QED
  BY <1>4, <1>5 DEF InputReasons, f

LEMMA UnknownSays ==
    ASSUME NEW c, NEW name
    PROVE  /\ Says(UnknownInput(c, name), {"UNKNOWN_INPUT"}, Input(name), 0)
           /\ Says(UnknownInterference(c, name), {"UNKNOWN_INTERFERENCE"},
                   Interference(name), 0)
BY RejectSays, WhenSays DEF UnknownInput, UnknownInterference

LEMMA RelationSays ==
    ASSUME NEW c, NEW k PROVE Says(RelationReasons(c, k), {"RELATION_VIOLATION"}, Fixed, k)
BY RejectSays, WhenSays DEF RelationReasons

MetricCodes == {"MISSING_INTERFERENCE", "INTERFERENCE_OUT_OF_ENVELOPE"}

LEMMA MetricSays ==
    ASSUME NEW c, NEW name
    PROVE  Says(InterferenceReasons(c, name), MetricCodes, Interference(name), 0)
<1> DEFINE f == Interference(name)
           x == ObservedInterference(c)[name]
           outside == ~IsFinite(x) \/ OutOfRange(c.profile.metrics[name], x)
<1>1. /\ Says(Reject("MISSING_INTERFERENCE", f, 0), MetricCodes, f, 0)
      /\ Says(Reject("INTERFERENCE_OUT_OF_ENVELOPE", f, 0), MetricCodes, f, 0)
  BY RejectSays DEF MetricCodes
<1>2. Says(When(outside, Reject("INTERFERENCE_OUT_OF_ENVELOPE", f, 0)), MetricCodes, f, 0)
  BY <1>1, WhenSays
<1> QED
  BY <1>1, <1>2 DEF InterferenceReasons

VersionCodes == {"MISSING_VERSION", "INVALID_VERSION", "UNSUPPORTED_VERSION"}

LEMMA VersionSays ==
    ASSUME NEW c, NEW component
    PROVE  Says(VersionReasons(c, component), VersionCodes, Version(component), 0)
<1> DEFINE match == Match(ObservedVersions(c)[component], c.profile.versions[component])
           f == Version(component)
           a == When(match = "error", Reject("INVALID_VERSION", f, 0))
           b == When(match = "differ", Reject("UNSUPPORTED_VERSION", f, 0))
           D == {"INVALID_VERSION", "UNSUPPORTED_VERSION"}
<1>1. Says(a, {"INVALID_VERSION"}, f, 0) /\ Says(b, {"UNSUPPORTED_VERSION"}, f, 0)
  BY RejectSays, WhenSays
<1>2. Says(Reject("MISSING_VERSION", f, 0), VersionCodes, f, 0)
  BY RejectSays DEF VersionCodes
<1>3. Says(a \o b, VersionCodes, f, 0)
  <2> HIDE DEF a, b, f
  <2>1. /\ {"INVALID_VERSION"} \cap {"UNSUPPORTED_VERSION"} = {}
        /\ D = {"INVALID_VERSION"} \cup {"UNSUPPORTED_VERSION"} /\ D \subseteq VersionCodes
    BY DEF VersionCodes
  <2>2. Says(a \o b, D, f, 0)
    BY <1>1, <2>1, ConcatSays
  <2> QED
    BY <2>1, <2>2, WiderSays
<1> QED
  BY <1>2, <1>3 DEF VersionReasons

NumericalCodes == {"NUMERICAL_BUDGET_UNSATISFIED", "INVALID_NUMERICAL_CERTIFICATE"}

LEMMA NumericalSays ==
    ASSUME NEW c PROVE Says(NumericalReasons(c), NumericalCodes, Fixed, 0)
<1> DEFINE a == When(c.profile.upperBound > c.request.maxNumericalError,
                     Reject("NUMERICAL_BUDGET_UNSATISFIED", Fixed, 0))
           b == When(c.profile.observedMax > c.profile.upperBound,
                     Reject("INVALID_NUMERICAL_CERTIFICATE", Fixed, 0))
<1>1. /\ Says(a, {"NUMERICAL_BUDGET_UNSATISFIED"}, Fixed, 0)
      /\ Says(b, {"INVALID_NUMERICAL_CERTIFICATE"}, Fixed, 0)
  BY RejectSays, WhenSays
<1>2. Says(a \o b, NumericalCodes, Fixed, 0)
  <2> HIDE DEF a, b
  <2>1. /\ {"NUMERICAL_BUDGET_UNSATISFIED"} \cap {"INVALID_NUMERICAL_CERTIFICATE"} = {}
        /\ NumericalCodes =
             {"NUMERICAL_BUDGET_UNSATISFIED"} \cup {"INVALID_NUMERICAL_CERTIFICATE"}
    BY DEF NumericalCodes
  <2> QED
    BY <1>1, <2>1, ConcatSays
<1> QED
  BY <1>2 DEF NumericalReasons

LoadCodes == {"INVALID_PREDICTION", "INVALID_LATENCY_BOUND", "LATENCY_SLO_UNSATISFIED",
              "INVALID_OOD_SCORE", "OOD_REJECTED", "DRA_METADATA_REQUIRED",
              "DRA_REQUEST_MISSING", "DRA_DEVICE_COUNT_MISMATCH"}

\* What is found between the features and the devices, in either case of both.
LEMMA LoadSays ==
    ASSUME NEW c, NEW value, NEW resolved \in BOOLEAN, NEW runtime \in BOOLEAN
    PROVE  Says((IF resolved THEN LatencyReasons(c, value) \o OODReasons(c, value)
                 ELSE << >>) \o
                (IF runtime THEN MetadataReasons(c) ELSE << >>), LoadCodes, Fixed, 0)
<1> DEFINE predicted == Predicted(c.profile, value)
           upper == LatencyUpper(c.profile, value)
           score == Score(c.profile.ood, value)
           A == {"INVALID_PREDICTION"}
           B == {"INVALID_LATENCY_BOUND", "LATENCY_SLO_UNSATISFIED"}
           O == {"INVALID_OOD_SCORE", "OOD_REJECTED"}
           M == {"DRA_METADATA_REQUIRED", "DRA_REQUEST_MISSING",
                 "DRA_DEVICE_COUNT_MISMATCH"}
           a == When(~IsFinite(predicted) \/ Less(predicted, 0),
                     Reject("INVALID_PREDICTION", Fixed, 0))
           b == IF ~IsFinite(upper) \/ Less(upper, 0)
                THEN Reject("INVALID_LATENCY_BOUND", Fixed, 0)
                ELSE When(Less(AvailableTime(c.request), upper),
                          Reject("LATENCY_SLO_UNSATISFIED", Fixed, 0))
           o == IF ~c.profile.ood.required THEN << >>
                ELSE IF ~IsFinite(score) \/ Less(score, 0)
                     THEN Reject("INVALID_OOD_SCORE", Fixed, 0)
                     ELSE When(Less(c.profile.ood.threshold, score),
                               Reject("OOD_REJECTED", Fixed, 0))
           m == IF runtime THEN MetadataReasons(c) ELSE << >>
           l == IF resolved THEN (a \o b) \o o ELSE << >>
<1>1. LatencyReasons(c, value) = a \o b /\ OODReasons(c, value) = o
  BY DEF LatencyReasons, OODReasons
<1>2. /\ A \cap B = {} /\ (A \cup B) \cap O = {} /\ ((A \cup B) \cup O) \cap M = {}
      /\ LoadCodes = ((A \cup B) \cup O) \cup M
  BY DEF LoadCodes
<1>3. Says(a, A, Fixed, 0)
  <2>1. Says(Reject("INVALID_PREDICTION", Fixed, 0), A, Fixed, 0)
    BY RejectSays
  <2> HIDE DEF A
  <2> QED
    BY <2>1, WhenSays
<1>4. Says(b, B, Fixed, 0)
  <2>1. \A code \in B : Says(Reject(code, Fixed, 0), B, Fixed, 0)
    BY RejectSays
  <2> HIDE DEF upper
  <2> QED
    BY <2>1, EmptySays DEF When
<1>5. Says(o, O, Fixed, 0)
  <2>1. \A code \in O : Says(Reject(code, Fixed, 0), O, Fixed, 0)
    BY RejectSays
  <2> HIDE DEF score
  <2> QED
    BY <2>1, EmptySays DEF When
<1>6. Says(m, M, Fixed, 0)
  <2>1. \A code \in M : Says(Reject(code, Fixed, 0), M, Fixed, 0)
    BY RejectSays
  <2> QED
    BY <2>1, EmptySays DEF MetadataReasons, When
<1> HIDE DEF a, b, o, m, A, B, O, M
<1>7. Says(a \o b, A \cup B, Fixed, 0)
  BY <1>2, <1>3, <1>4, ConcatSays
<1>8. Says((a \o b) \o o, (A \cup B) \cup O, Fixed, 0)
  BY <1>2, <1>5, <1>7, ConcatSays
<1>9. Says(l, (A \cup B) \cup O, Fixed, 0)
  BY <1>8, EmptySays
<1> HIDE DEF l
<1>10. Says(l \o m, LoadCodes, Fixed, 0)
  BY <1>2, <1>6, <1>9, ConcatSays
<1> QED
  BY <1>1, <1>10 DEF l, m

AttributeCodes == {"DRA_ATTRIBUTE_MISSING", "DRA_ATTRIBUTE_MISMATCH"}

LEMMA AttributeSays ==
    ASSUME NEW c, NEW k PROVE \E f : Says(AttributeReasons(c, k), AttributeCodes, f, k)
<1> DEFINE n == Len(c.profile.assertions)
           device == Devices(c)[1 + ((k - 1) \div n)]
           assertion == c.profile.assertions[1 + ((k - 1) % n)]
           f == Attribute(assertion.attribute)
<1>1. /\ Says(Reject("DRA_ATTRIBUTE_MISSING", f, k), AttributeCodes, f, k)
      /\ Says(Reject("DRA_ATTRIBUTE_MISMATCH", f, k), AttributeCodes, f, k)
  BY RejectSays DEF AttributeCodes
<1>2. AttributeReasons(c, k) =
        IF assertion.attribute \notin DOMAIN device
        THEN Reject("DRA_ATTRIBUTE_MISSING", f, k)
        ELSE When(~Satisfies(device[assertion.attribute], assertion),
                  Reject("DRA_ATTRIBUTE_MISMATCH", f, k))
  BY DEF AttributeReasons
<1> HIDE DEF device, assertion, f
<1>3. Says(AttributeReasons(c, k), AttributeCodes, f, k)
  BY <1>1, <1>2, EmptySays DEF When
<1> QED
  BY <1>3

-----------------------------------------------------------------------------
(* Every step keeps the reasons distinct. *)

LEMMA TurnOfType == \A loop \in Loops : TurnOf(loop) \in 1..10
<1> TAKE loop \in Loops
<1>1. \/ loop = "unknown inputs" \/ loop = "inputs" \/ loop = "relations"
      \/ loop = "unknown interference" \/ loop = "interference" \/ loop = "versions"
      \/ loop = "features" \/ loop = "devices"
  BY DEF Loops
<1>2. TurnOf(loop) \in {1, 2, 3, 4, 5, 6, 8, 10}
  BY <1>1, TurnOfIs, Zenon
<1> QED
  BY <1>2

\* A visit, if what it finds is only tied with what was found at earlier items.
LEMMA VisitOrders ==
    ASSUME OrderInv, NamedInv, pc \in Loops, NEW key, NEW found, Visit(key, found),
           Tidy(found), Distinct(found),
           \A k \in DOMAIN found : /\ found[k].item \in Int
                                   /\ Turn(found[k].code) = TurnOf(pc)
                                   /\ Past(found[k], profile, pc, todo \ {key}),
           \A k \in DOMAIN found, j \in DOMAIN reasons :
               Past(reasons[j], profile, pc, todo) /\ Tied(reasons[j], found[k]) =>
                   reasons[j].item < found[k].item
    PROVE  OrderInv'
<1>1. /\ reasons' = reasons \o found /\ todo' = todo \ {key} /\ pc' = pc
      /\ case' = case
  BY DEF Visit
<1>2. Tidy(reasons)
  BY DEF NamedInv
<1>3. IsSequence(reasons) /\ IsSequence(found)
  BY <1>2 DEF Tidy
<1>4. \A k \in DOMAIN found, j \in DOMAIN reasons :
         Tied(reasons[j], found[k]) => reasons[j].item < found[k].item
  BY DEF Tied, OrderInv
<1>5. Distinct(reasons')
  BY <1>1, <1>2, <1>4, ConcatDistinct DEF OrderInv
<1>6. \A r : Past(r, profile, pc, todo) => Past(r, profile, pc, todo \ {key})
  BY DEF Past
<1> DEFINE Good(r) == /\ r.item \in Int /\ Turn(r.code) \in 0..TurnOf(pc)
                      /\ Turn(r.code) = TurnOf(pc) => Past(r, profile, pc, todo \ {key})
<1>7. \A j \in DOMAIN reasons : Good(reasons[j])
  BY <1>6 DEF OrderInv
<1>8. \A k \in DOMAIN found : Good(found[k])
  BY TurnOfType
<1> HIDE DEF Good
<1>9. \A k \in DOMAIN (reasons \o found) : Good((reasons \o found)[k])
  BY <1>3, <1>7, <1>8, ConcatElements
<1> QED
  BY <1>1, <1>5, <1>9 DEF Good, OrderInv, profile

\* Going on to a later loop, if what is found in between is of a turn in between.
LEMMA EnterOrders ==
    ASSUME OrderInv, NamedInv, pc \in Loops, NEW loop \in Loops, NEW keys, NEW found,
           Enter(loop, keys, found), Tidy(found), Distinct(found),
           TurnOf(pc) < TurnOf(loop),
           \A k \in DOMAIN found : /\ found[k].item \in Int
                                   /\ Turn(found[k].code) \in Int
                                   /\ TurnOf(pc) < Turn(found[k].code)
                                   /\ Turn(found[k].code) < TurnOf(loop)
    PROVE  OrderInv'
<1>1. reasons' = reasons \o found /\ pc' = loop
  BY DEF Enter
<1>2. Tidy(reasons)
  BY DEF NamedInv
<1>3. IsSequence(reasons) /\ IsSequence(found)
  BY <1>2 DEF Tidy
<1>4. TurnOf(pc) \in Int /\ TurnOf(loop) \in Int /\ 0 <= TurnOf(pc)
  BY TurnOfType
<1>5. \A k \in DOMAIN found, j \in DOMAIN reasons : ~Tied(reasons[j], found[k])
  <2>1. \A j \in DOMAIN reasons : Turn(reasons[j].code) \in 0..TurnOf(pc)
    BY DEF OrderInv
  <2> QED
    BY <1>4, <2>1 DEF Tied
<1>6. Distinct(reasons')
  BY <1>1, <1>2, <1>5, ConcatDistinct DEF OrderInv
<1> DEFINE Good(r) == /\ r.item \in Int /\ Turn(r.code) \in 0..TurnOf(loop)
                      /\ Turn(r.code) # TurnOf(loop)
<1>7. \A j \in DOMAIN reasons : Good(reasons[j])
  <2>1. \A j \in DOMAIN reasons : /\ reasons[j].item \in Int
                                  /\ Turn(reasons[j].code) \in 0..TurnOf(pc)
    BY DEF OrderInv
  <2> QED
    BY <1>4, <2>1
<1>8. \A k \in DOMAIN found : Good(found[k])
  BY <1>4
<1> HIDE DEF Good
<1>9. \A k \in DOMAIN (reasons \o found) : Good((reasons \o found)[k])
  BY <1>3, <1>7, <1>8, ConcatElements
<1> QED
  BY <1>1, <1>6, <1>9 DEF Good, OrderInv

\* Going on with nothing found in between.
LEMMA PassOrders ==
    ASSUME OrderInv, NamedInv, pc \in Loops, NEW loop \in Loops, NEW keys,
           Enter(loop, keys, << >>), TurnOf(pc) < TurnOf(loop)
    PROVE  OrderInv'
<1>1. DOMAIN << >> = {}
  OBVIOUS
<1>2. Tidy(<< >>) /\ Distinct(<< >>)
  BY <1>1, EmptyTidy DEF Distinct
<1> QED
  BY <1>1, <1>2, EnterOrders

\* The keys of a map are visited once each, in any order.
LEMMA KeyOrders ==
    ASSUME OrderInv, NamedInv, pc \in KeyLoops, NEW name \in todo, name \in DOMAIN Rank,
           NEW n \in 1..3, NEW C, \A code \in C : Turn(code) = TurnOf(pc),
           NEW found, Tidy(found), Says(found, C, <<n, name>>, 0), Visit(name, found)
    PROVE  OrderInv'
<1>1. pc \in Loops
  BY DEF KeyLoops, Loops
<1>2. \A k \in DOMAIN found :
         /\ found[k].item \in Int /\ Turn(found[k].code) = TurnOf(pc)
         /\ found[k].field = <<n, name>>
  BY DEF Says
<1>3. <<n, name>>[1] = n /\ <<n, name>>[2] = name /\ n # 0 /\ <<n, name>> # Fixed
  BY DEF Fixed
<1>4. \A k \in DOMAIN found : Past(found[k], profile, pc, todo \ {name})
  BY <1>2, <1>3 DEF Past, IsNamed, KeyLoops
<1>5. \A k \in DOMAIN found, j \in DOMAIN reasons :
         Past(reasons[j], profile, pc, todo) => ~Tied(reasons[j], found[k])
  <2>1. \A f : IsNamed(f) /\ f[2] \notin todo => FieldRank(f) # Rank[name]
    <3> TAKE f
    <3> HAVE IsNamed(f) /\ f[2] \notin todo
    <3>1. f # Fixed
      BY DEF Fixed, IsNamed
    <3> QED
      BY <3>1, ValuesAssumption DEF FieldRank, IsNamed
  <2>2. FieldRank(<<n, name>>) = Rank[name]
    BY <1>3 DEF FieldRank
  <2> QED
    BY <1>2, <2>1, <2>2 DEF Past, Tied
<1>6. Distinct(found)
  BY SaysDistinct
<1> QED
  BY <1>1, <1>2, <1>4, <1>5, <1>6, VisitOrders

\* The indices of a slice are visited from the first.
LEMMA IndexOrders ==
    ASSUME OrderInv, NamedInv, pc \in {"relations", "devices"}, todo \subseteq Nat,
           todo # {}, NEW f, NEW C, \A code \in C : Turn(code) = TurnOf(pc),
           NEW found, Tidy(found), Says(found, C, f, FirstKey), Visit(FirstKey, found)
    PROVE  OrderInv'
<1>1. pc \in Loops
  BY DEF Loops
<1>2. FirstKey \in todo /\ \A k \in todo : FirstKey <= k
  BY LeastElement DEF FirstKey
<1>3. \A k \in DOMAIN found :
         /\ found[k].item \in Int /\ Turn(found[k].code) = TurnOf(pc)
         /\ found[k].item = FirstKey
  <2>1. FirstKey \in Int
    BY <1>2
  <2>2. \A k \in DOMAIN found : found[k].code \in C /\ found[k].item = FirstKey
    BY DEF Says
  <2> QED
    BY <2>1, <2>2
<1>4. \A k \in DOMAIN found : Past(found[k], profile, pc, todo \ {FirstKey})
  <2>1. \A k \in todo \ {FirstKey} : FirstKey < k
    BY <1>2
  <2>2. pc \notin KeyLoops /\ pc # "features"
    BY DEF KeyLoops
  <2> QED
    BY <1>3, <2>1, <2>2 DEF Past
<1>5. \A k \in DOMAIN found, j \in DOMAIN reasons :
         Past(reasons[j], profile, pc, todo) => reasons[j].item < found[k].item
  BY <1>2, <1>3 DEF Past
<1>6. Distinct(found)
  BY SaysDistinct
<1> QED
  BY <1>1, <1>3, <1>4, <1>5, <1>6, VisitOrders

\* A name is resolved at its first place only, so it is missed once.
LEMMA FeatureOrders ==
    ASSUME EvaluateInv, OrderInv, NamedInv, Features PROVE OrderInv'
<1> DEFINE found == FeatureReasons(case, FirstKey)
           f == Names(profile)[FirstKey]
<1>0. /\ pc = "features" /\ pc \in Loops /\ CaseOK(case) /\ todo # {}
      /\ todo \subseteq FirstNames(profile) /\ Visit(FirstKey, found)
  BY DEF Features, EvaluateInv, ControlInv, FeaturesInv, Loops
<1>1. DOMAIN Names(profile) \subseteq Nat /\ ProfileOK(profile)
  BY <1>0, NamesType DEF CaseOK, profile
<1>2. /\ FirstKey \in todo /\ \A k \in todo : FirstKey <= k
      /\ todo \subseteq Nat
  <2>1. todo \subseteq Nat
    BY <1>0, <1>1 DEF FirstNames
  <2> QED
    BY <1>0, <2>1, LeastElement DEF FirstKey
<1>3. \A k \in todo \ {FirstKey} : FirstKey < k /\ f # Names(profile)[k]
  <2>1. \A k \in todo \ {FirstKey} : FirstKey < k /\ 1 <= FirstKey
    BY <1>0, <1>1, <1>2, NamesType DEF FirstNames
  <2> QED
    BY <1>0, <1>2, <2>1 DEF FirstNames
<1>4. FeatureOK(f) /\ Tidy(found)
  BY <1>0, <1>1, FeatureKeyIs, NameIs, FeatureTidy DEF profile
<1>5. Turn("INVALID_MODEL_FEATURE") = TurnOf(pc) /\ Turn("MODEL_FEATURE_MISSING") = TurnOf(pc)
  BY <1>0, TurnIs, TurnOfIs
<1>6. pc \notin KeyLoops /\ pc \notin {"relations", "devices"}
  BY <1>0 DEF KeyLoops
<1>7. CASE ~IsInput(f) /\ ~IsInterference(f)
  <2>1. Says(found, {"INVALID_MODEL_FEATURE"}, Fixed, FirstKey)
    BY <1>7, RejectSays DEF FeatureReasons, profile
  <2> HIDE DEF found, f
  <2>2. \A k \in DOMAIN found : found[k].code = "INVALID_MODEL_FEATURE"
                                /\ found[k].item = FirstKey
    BY <2>1 DEF Says
  <2>3. \A k \in DOMAIN found : /\ found[k].item \in Int
                                /\ Turn(found[k].code) = TurnOf(pc)
                                /\ Past(found[k], profile, pc, todo \ {FirstKey})
    BY <1>2, <1>3, <1>5, <1>6, <2>2 DEF Past
  <2>4. \A k \in DOMAIN found, j \in DOMAIN reasons :
           Past(reasons[j], profile, pc, todo) /\ Tied(reasons[j], found[k]) =>
               reasons[j].item < found[k].item
    BY <1>0, <1>2, <2>2 DEF Past, Tied
  <2> QED
    BY <1>0, <1>2, <1>4, <2>1, <2>3, <2>4, SaysDistinct, VisitOrders
<1>8. CASE IsInput(f) \/ IsInterference(f)
  <2>1. Says(found, {"MODEL_FEATURE_MISSING"}, f, 0)
    BY <1>8, RejectSays, WhenSays DEF FeatureReasons, profile
  <2>2. IsNamed(f)
    BY <1>4, <1>8 DEF IsNamed, FeatureOK, IsInput, IsInterference
  <2> HIDE DEF found, f
  <2>3. \A k \in DOMAIN found : /\ found[k].code = "MODEL_FEATURE_MISSING"
                                /\ found[k].item = 0 /\ found[k].field = f
    BY <2>1 DEF Says
  <2>4. \A k \in DOMAIN found : /\ found[k].item \in Int
                                /\ Turn(found[k].code) = TurnOf(pc)
                                /\ Past(found[k], profile, pc, todo \ {FirstKey})
    BY <1>2, <1>3, <1>5, <1>6, <2>2, <2>3 DEF Past
  <2>5. \A g : IsNamed(g) /\ g[1] = f[1] /\ FieldRank(g) = FieldRank(f) => g = f
    <3>1. \A g : IsNamed(g) => g # Fixed
      BY DEF IsNamed, Fixed
    <3>2. \A g : IsNamed(g) => FieldRank(g) = Rank[g[2]]
      BY <3>1 DEF FieldRank
    <3> QED
      BY <2>2, <3>2, ValuesAssumption DEF IsNamed
  <2>6. \A k \in DOMAIN found, j \in DOMAIN reasons :
           Past(reasons[j], profile, pc, todo) => ~Tied(reasons[j], found[k])
    BY <1>0, <1>2, <2>3, <2>5 DEF Past, Tied, f
  <2> QED
    BY <1>0, <1>2, <1>4, <2>1, <2>4, <2>6, SaysDistinct, VisitOrders
<1> QED
  BY <1>7, <1>8

LEMMA TurnsRise ==
    /\ TurnOf("unknown inputs") < TurnOf("inputs") /\ TurnOf("inputs") < TurnOf("relations")
    /\ TurnOf("relations") < TurnOf("unknown interference")
    /\ TurnOf("unknown interference") < TurnOf("interference")
    /\ TurnOf("interference") < TurnOf("versions")
<1>1. 1 < 2 /\ 2 < 3 /\ 3 < 4 /\ 4 < 5 /\ 5 < 6
  OBVIOUS
<1> QED
  BY <1>1, TurnOfIs, Zenon

\* The five loops over maps.
LEMMA MapOrders ==
    ASSUME EvaluateInv, OrderInv, NamedInv,
           UnknownInputs \/ Inputs \/ UnknownMetrics \/ Metrics \/ Versions
    PROVE  OrderInv'
<1>0. pc \in Loops => CaseOK(case) /\ ValidProfile(profile)
  BY DEF EvaluateInv, ControlInv, Loops
<1>9. 1 \in 1..3 /\ 2 \in 1..3 /\ 3 \in 1..3
  OBVIOUS
<1>1. CASE UnknownInputs
  <2>0. pc = "unknown inputs" /\ pc \in KeyLoops /\ pc \in Loops /\ todo \subseteq DOMAIN Rank
    BY <1>0, <1>1, KeysAre
       DEF UnknownInputs, Each, Loops, KeyLoops, EvaluateInv, UnknownInputsInv, profile, request
  <2>1. ASSUME NEW name \in todo, Visit(name, UnknownInput(case, name)) PROVE OrderInv'
    <3>1. /\ Says(UnknownInput(case, name), {"UNKNOWN_INPUT"}, <<1, name>>, 0)
          /\ Tidy(UnknownInput(case, name))
      BY <2>0, UnknownSays, UnknownInputAbout DEF About, Input
    <3>2. \A code \in {"UNKNOWN_INPUT"} : Turn(code) = TurnOf(pc)
      BY <2>0, TurnIs, TurnOfIs
    <3> QED
      BY <1>9, <2>0, <2>1, <3>1, <3>2, KeyOrders
  <2>2. ASSUME Enter("inputs", DOMAIN profile.domain, << >>) PROVE OrderInv'
    <3>1. TurnOf(pc) < TurnOf("inputs") /\ "inputs" \in Loops
      BY <2>0, TurnsRise DEF Loops
    <3> QED
      BY <2>0, <2>2, <3>1, PassOrders
  <2> QED
    BY <1>1, <2>1, <2>2 DEF UnknownInputs, Each
<1>2. CASE Inputs
  <2>0. pc = "inputs" /\ pc \in KeyLoops /\ pc \in Loops /\ todo \subseteq DOMAIN Rank
    BY <1>0, <1>2, KeysAre
       DEF Inputs, Each, Loops, KeyLoops, EvaluateInv, InputsInv, profile
  <2>1. ASSUME NEW name \in todo, Visit(name, InputReasons(case, name)) PROVE OrderInv'
    <3>1. /\ Says(InputReasons(case, name), InputCodes, <<1, name>>, 0)
          /\ Tidy(InputReasons(case, name))
      BY <2>0, InputSays, InputAbout DEF About, Input
    <3>2. \A code \in InputCodes : Turn(code) = TurnOf(pc)
      BY <2>0, TurnIs, TurnOfIs DEF InputCodes
    <3> QED
      BY <1>9, <2>0, <2>1, <3>1, <3>2, KeyOrders
  <2>2. ASSUME Enter("relations", DOMAIN profile.relations, << >>) PROVE OrderInv'
    <3>1. TurnOf(pc) < TurnOf("relations") /\ "relations" \in Loops
      BY <2>0, TurnsRise DEF Loops
    <3> QED
      BY <2>0, <2>2, <3>1, PassOrders
  <2> QED
    BY <1>2, <2>1, <2>2 DEF Inputs, Each
<1>3. CASE UnknownMetrics
  <2>0. pc = "unknown interference" /\ pc \in KeyLoops /\ pc \in Loops /\ todo \subseteq DOMAIN Rank
    BY <1>0, <1>3, KeysAre
       DEF UnknownMetrics, Each, Loops, KeyLoops, EvaluateInv, UnknownMetricsInv, profile
  <2>1. ASSUME NEW name \in todo, Visit(name, UnknownInterference(case, name))
        PROVE  OrderInv'
    <3>1. /\ Says(UnknownInterference(case, name), {"UNKNOWN_INTERFERENCE"}, <<2, name>>, 0)
          /\ Tidy(UnknownInterference(case, name))
      BY <2>0, UnknownSays, UnknownMetricAbout DEF About, Interference
    <3>2. \A code \in {"UNKNOWN_INTERFERENCE"} : Turn(code) = TurnOf(pc)
      BY <2>0, TurnIs, TurnOfIs
    <3> QED
      BY <1>9, <2>0, <2>1, <3>1, <3>2, KeyOrders
  <2>2. ASSUME Enter("interference", DOMAIN profile.metrics, << >>) PROVE OrderInv'
    <3>1. TurnOf(pc) < TurnOf("interference") /\ "interference" \in Loops
      BY <2>0, TurnsRise DEF Loops
    <3> QED
      BY <2>0, <2>2, <3>1, PassOrders
  <2> QED
    BY <1>3, <2>1, <2>2 DEF UnknownMetrics, Each
<1>4. CASE Metrics
  <2>0. pc = "interference" /\ pc \in KeyLoops /\ pc \in Loops /\ todo \subseteq DOMAIN Rank
    BY <1>0, <1>4, KeysAre
       DEF Metrics, Each, Loops, KeyLoops, EvaluateInv, MetricsInv, profile
  <2>1. ASSUME NEW name \in todo, Visit(name, InterferenceReasons(case, name))
        PROVE  OrderInv'
    <3>1. /\ Says(InterferenceReasons(case, name), MetricCodes, <<2, name>>, 0)
          /\ Tidy(InterferenceReasons(case, name))
      BY <2>0, MetricSays, MetricAbout DEF About, Interference
    <3>2. \A code \in MetricCodes : Turn(code) = TurnOf(pc)
      BY <2>0, TurnIs, TurnOfIs DEF MetricCodes
    <3> QED
      BY <1>9, <2>0, <2>1, <3>1, <3>2, KeyOrders
  <2>2. ASSUME Enter("versions", DOMAIN profile.versions, << >>) PROVE OrderInv'
    <3>1. TurnOf(pc) < TurnOf("versions") /\ "versions" \in Loops
      BY <2>0, TurnsRise DEF Loops
    <3> QED
      BY <2>0, <2>2, <3>1, PassOrders
  <2> QED
    BY <1>4, <2>1, <2>2 DEF Metrics, Each
<1>5. CASE Versions
  <2>0. pc = "versions" /\ pc \in KeyLoops /\ pc \in Loops /\ todo \subseteq DOMAIN Rank
    BY <1>0, <1>5, KeysAre
       DEF Versions, Each, Loops, KeyLoops, EvaluateInv, VersionsInv, profile
  <2>1. ASSUME NEW component \in todo, Visit(component, VersionReasons(case, component))
        PROVE  OrderInv'
    <3>1. /\ Says(VersionReasons(case, component), VersionCodes, <<3, component>>, 0)
          /\ Tidy(VersionReasons(case, component))
      BY <2>0, VersionSays, VersionAbout DEF About, Version
    <3>2. \A code \in VersionCodes : Turn(code) = TurnOf(pc)
      BY <2>0, TurnIs, TurnOfIs DEF VersionCodes
    <3> QED
      BY <1>9, <2>0, <2>1, <3>1, <3>2, KeyOrders
  <2>2. ASSUME Enter("features", FirstNames(profile), NumericalReasons(case))
        PROVE  OrderInv'
    <3>1. \A code \in NumericalCodes : Turn(code) = 7
      BY TurnIs DEF NumericalCodes
    <3>2. \A k \in DOMAIN NumericalReasons(case) :
             /\ NumericalReasons(case)[k].item \in Int
             /\ Turn(NumericalReasons(case)[k].code) = 7
      BY <3>1, NumericalSays DEF Says
    <3>3. TurnOf(pc) = 6 /\ TurnOf("features") = 8 /\ pc \in Loops /\ "features" \in Loops
      BY <2>0, TurnOfIs DEF Loops
    <3> QED
      BY <2>2, <3>2, <3>3, NumericalSays, SaysDistinct, NumericalTidy, EnterOrders
  <2> QED
    BY <1>5, <2>1, <2>2 DEF Versions, Each, NumericalReasons, profile, request
<1> QED
  BY <1>1, <1>2, <1>3, <1>4, <1>5

LEMMA StartOrders ==
    ASSUME EvaluateInv, Start PROVE OrderInv'
<1> DEFINE mismatch == When(request.required \notin {None, profile.name},
                            Reject("PROFILE_MISMATCH", Fixed, 0))
           stale == When(~case.evidence.fresh, Reject("STALE_CERTIFICATE", Fixed, 0))
           C == {"PROFILE_MISMATCH", "STALE_CERTIFICATE"}
           found == mismatch \o stale
<1>1. Says(mismatch, {"PROFILE_MISMATCH"}, Fixed, 0) /\ Says(stale, {"STALE_CERTIFICATE"}, Fixed, 0)
  BY RejectSays, WhenSays
<1>2. Enter("unknown inputs", DOMAIN request.inputs, found) /\ reasons = << >>
  BY DEF Start, EvaluateInv, StartInv
<1> HIDE DEF mismatch, stale
<1>3. Says(found, C, Fixed, 0)
  <2>1. /\ {"PROFILE_MISMATCH"} \cap {"STALE_CERTIFICATE"} = {}
        /\ C = {"PROFILE_MISMATCH"} \cup {"STALE_CERTIFICATE"}
    OBVIOUS
  <2> HIDE DEF C
  <2> QED
    BY <1>1, <2>1, ConcatSays
<1> HIDE DEF found
<1>4. reasons' = found
  <2>1. \E V : found \in Seq(V)
    BY <1>3 DEF Says, IsSequence
  <2>2. reasons' = << >> \o found
    BY <1>2 DEF Enter
  <2> QED
    BY <2>1, <2>2
<1>5. \A k \in DOMAIN found : found[k].item \in Int /\ Turn(found[k].code) = 0
  BY <1>3, TurnIs DEF Says
<1>6. TurnOf(pc') = 1
  BY <1>2, TurnOfIs, Zenon DEF Enter
<1>7. Distinct(found)
  BY <1>3, SaysDistinct
<1>8. /\ Distinct(reasons')
      /\ \A k \in DOMAIN reasons' : reasons'[k].item \in Int /\ Turn(reasons'[k].code) = 0
  BY <1>4, <1>5, <1>7
<1> QED
  BY <1>6, <1>8 DEF OrderInv

LEMMA RelationOrders ==
    ASSUME EvaluateInv, OrderInv, NamedInv, Relations PROVE OrderInv'
<1>0. /\ pc = "relations" /\ pc \in Loops /\ todo \subseteq Nat
  <2>1. /\ pc = "relations" /\ CaseOK(case) /\ todo \subseteq DOMAIN profile.relations
    BY DEF Relations, EvaluateInv, ControlInv, RelationsInv, Loops
  <2> QED
    BY <2>1 DEF Loops, CaseOK, ProfileOK, IsSequence, profile
<1>1. CASE todo # {} /\ Visit(FirstKey, RelationReasons(case, FirstKey))
  <2>1. Says(RelationReasons(case, FirstKey), {"RELATION_VIOLATION"}, Fixed, FirstKey)
    BY RelationSays
  <2>2. \A code \in {"RELATION_VIOLATION"} : Turn(code) = TurnOf(pc)
    BY <1>0, TurnIs, TurnOfIs
  <2>3. Tidy(RelationReasons(case, FirstKey))
    BY <1>0, <1>1, RelationKeyIs, RelationTidy
  <2> QED
    BY <1>0, <1>1, <2>1, <2>2, <2>3, IndexOrders
<1>2. CASE Enter("unknown interference", DOMAIN ObservedInterference(case), << >>)
  <2>1. TurnOf(pc) < TurnOf("unknown interference")
        /\ "unknown interference" \in Loops
    BY <1>0, TurnsRise DEF Loops
  <2> QED
    BY <1>0, <1>2, <2>1, PassOrders
<1> QED
  BY <1>1, <1>2 DEF Relations

LEMMA BoundOrders ==
    ASSUME EvaluateInv, OrderInv, NamedInv, Bound PROVE OrderInv'
<1> DEFINE latency == LatencyReasons(case, features)
           ood == OODReasons(case, features)
           load == IF featureOK THEN latency \o ood ELSE << >>
           metadata == IF Runtime(case) THEN MetadataReasons(case) ELSE << >>
           found == load \o metadata
<1>0. pc = "features" /\ pc \in Loops
  BY DEF Bound, Loops
<1>1. Tidy(found)
  <2>1. Tidy(latency \o ood)
    BY LoadTidy, ConcatTidy
  <2>2. Tidy(load) /\ Tidy(metadata)
    BY <2>1, EmptyTidy, MetadataTidy
  <2> HIDE DEF load, metadata
  <2> QED
    BY <2>2, ConcatTidy
<1>2. Says(found, LoadCodes, Fixed, 0)
  <2>1. featureOK \in BOOLEAN /\ Runtime(case) \in BOOLEAN
    BY DEF featureOK, Runtime
  <2> QED
    BY <2>1, LoadSays
<1>3. CASE pc' = "panic in score"
  BY <1>3 DEF OrderInv, Loops
<1> HIDE DEF found
<1>4. ASSUME NEW keys, Enter("devices", keys, found) PROVE OrderInv'
  <2>1. \A code \in LoadCodes : Turn(code) = 9
    BY TurnIs DEF LoadCodes
  <2>2. \A k \in DOMAIN found : found[k].item \in Int /\ Turn(found[k].code) = 9
    BY <1>2, <2>1 DEF Says
  <2>3. TurnOf(pc) = 8 /\ TurnOf("devices") = 10 /\ "devices" \in Loops
    BY <1>0, TurnOfIs DEF Loops
  <2> QED
    BY <1>0, <1>1, <1>2, <1>4, <2>2, <2>3, SaysDistinct, EnterOrders
<1> QED
  BY <1>3, <1>4 DEF Bound, found

LEMMA AssertionOrders ==
    ASSUME EvaluateInv, OrderInv, NamedInv, ReasonsInOrder, Assertions
    PROVE  OrderInv' /\ ReasonsInOrder'
<1>0. /\ pc = "devices" /\ pc \in Loops /\ CaseOK(case) /\ todo \subseteq AssertionKeys(case)
      /\ todo \subseteq Nat
  BY DEF Assertions, EvaluateInv, ControlInv, DevicesInv, Loops, AssertionKeys, Pairs
<1>1. CASE todo # {} /\ Visit(FirstKey, AttributeReasons(case, FirstKey))
  <2>1. HasDevices(case) /\ FirstKey \in Pairs(case)
    BY <1>0, <1>1, FirstKeyIs DEF AssertionKeys
  <2>2. Tidy(AttributeReasons(case, FirstKey))
    BY <1>0, <2>1, AttributeTidy
  <2>3. PICK f : Says(AttributeReasons(case, FirstKey), AttributeCodes, f, FirstKey)
    BY AttributeSays
  <2>4. \A code \in AttributeCodes : Turn(code) = TurnOf(pc)
    BY <1>0, TurnIs, TurnOfIs DEF AttributeCodes
  <2>5. OrderInv'
    BY <1>0, <1>1, <2>2, <2>3, <2>4, IndexOrders
  <2>6. pc' # "done"
    BY <1>0, <1>1 DEF Visit
  <2> QED
    BY <2>5, <2>6 DEF ReasonsInOrder
<1>2. CASE Return(StableSort(reasons))
  <2>1. Tidy(reasons) /\ Distinct(reasons) /\ \A k \in DOMAIN reasons : reasons[k].item \in Int
    BY <1>0 DEF NamedInv, OrderInv
  <2>2. Len(StableSort(reasons)) = Len(reasons)
    BY <2>1, SortIs DEF Tidy
  <2>3. \A n \in 1..Len(reasons) - 1 :
           Precedes(StableSort(reasons)[n], StableSort(reasons)[n + 1])
    BY <2>1, SortOrders
  <2>4. reasons' = StableSort(reasons) /\ pc' = "done"
    BY <1>2 DEF Return
  <2>5. \A n \in 1..Len(reasons') - 1 : Precedes(reasons'[n], reasons'[n + 1])
    BY <2>2, <2>3, <2>4
  <2>6. OrderInv'
    BY <2>4 DEF OrderInv, Loops
  <2> QED
    BY <2>5, <2>6 DEF ReasonsInOrder
<1> QED
  BY <1>1, <1>2 DEF Assertions

LEMMA StepOrders ==
    ASSUME EvaluateInv, NamedInv, OrderInv, ReasonsInOrder, Step
    PROVE  OrderInv' /\ ReasonsInOrder'
<1>1. CASE RefusePhase \/ RefuseProfile \/ RefuseRequest \/ PanicInValidation
  <2>1. pc' = "done" => Len(reasons') = 1
    BY <1>1
       DEF RefusePhase, RefuseProfile, RefuseRequest, PanicInValidation, Return, Reject
  <2>2. pc' \in {"done", "panic in validation"}
    BY <1>1
       DEF RefusePhase, RefuseProfile, RefuseRequest, PanicInValidation, Return
  <2>3. ReasonsInOrder'
    <3>1. \A k \in 1..1 - 1 : FALSE
      OBVIOUS
    <3> QED
      BY <2>1, <3>1, Zenon DEF ReasonsInOrder
  <2>4. OrderInv'
    BY <2>2 DEF OrderInv, Loops
  <2> QED
    BY <2>3, <2>4
<1>2. CASE Assertions
  BY <1>2, AssertionOrders
<1>3. CASE \/ Start \/ UnknownInputs \/ Inputs \/ Relations \/ UnknownMetrics
           \/ Metrics \/ Versions \/ Features \/ Bound
  <2>1. OrderInv'
    BY <1>3, StartOrders, MapOrders, RelationOrders, FeatureOrders, BoundOrders
  <2>2. pc' # "done"
    BY <1>3
       DEF Start, UnknownInputs, Inputs, Relations, UnknownMetrics, Metrics, Versions,
           Features, Bound, Each, Visit, Enter
  <2> QED
    BY <2>1, <2>2 DEF ReasonsInOrder
<1> QED
  BY <1>1, <1>2, <1>3 DEF Step

OrderedInv == NamesInv /\ OrderInv /\ ReasonsInOrder

LEMMA OrderedInit == Init => OrderedInv
BY NamesInit DEF Init, Idle, OrderedInv, OrderInv, ReasonsInOrder, Loops

LEMMA OrderedNext == OrderedInv /\ [Next]_vars => OrderedInv'
<1> SUFFICES ASSUME OrderedInv, [Next]_vars PROVE OrderedInv'
  OBVIOUS
<1>1. NamesInv'
  BY NamesNext DEF OrderedInv
<1>2. CASE Evaluating
  BY <1>1, <1>2, StepOrders DEF Evaluating, OrderedInv, NamesInv, PlannerInv
<1>3. CASE pc' \in {"idle", "start"}
  BY <1>1, <1>3 DEF OrderedInv, OrderInv, ReasonsInOrder, Loops
<1>4. CASE UNCHANGED evaluation
  <2>1. case' = case /\ reasons' = reasons /\ todo' = todo /\ pc' = pc
    BY <1>4 DEF evaluation
  <2> QED
    BY <1>1, <2>1 DEF OrderedInv, OrderInv, ReasonsInOrder, profile
<1> QED
  BY <1>2, <1>3, <1>4
     DEF Next, Load, Direct, EvaluateNext, Refuse, Improve, Pass, Considered, Finish,
         Begin, Forget, vars

\* Whatever order Go takes the keys of the maps in, the reasons of a decision are in
\* the one order of code, field and item, with no two a reader could swap
\* (planner.go:134-140; "in deterministic code/field order",
\* docs/CONTRACT_SPEC.md:84): what code and field tell apart is sorted, and what
\* they do not tell apart is of one slice, found in the order of its items.
THEOREM PlannerOrdersReasons == Spec => []ReasonsInOrder
<1>1. OrderedInv => ReasonsInOrder
  BY DEF OrderedInv
<1> QED
  BY <1>1, OrderedInit, OrderedNext, PTL DEF Spec

-----------------------------------------------------------------------------
(* Selection. *)

\* The best profile so far is kept with what the documents say of it.
OfferedInv ==
    offered = IF call.caller = "select" /\ Loads
              THEN [k \in 1..Len(call.catalog) |-> Promised(k)] ELSE << >>

KeptInv ==
    /\ OfferedInv
    /\ best \in 0..i
    /\ first \in BOOLEAN
    /\ first => best = 0
    /\ ~first => kept.of \in 1..i
    /\ best # 0 => ~first /\ kept.latency = offered[best].latency

LEMMA PromisedType ==
    ASSUME NEW k, Promised(k).name \in Int PROVE Promised(k) \in S!Entry
<1> DEFINE lawful == Lawful(CaseOf(k))
<1>1. lawful \in BOOLEAN
  BY DEF Lawful
<1>2. lawful => LawfulUpper(CaseOf(k)) \in Int
  BY DEF Lawful, LawfulLoad
<1>3. Promised(k) =
        [name |-> Promised(k).name, admissible |-> lawful,
         latency |-> IF lawful THEN LawfulUpper(CaseOf(k)) ELSE 0]
  BY DEF Promised
<1> HIDE DEF lawful
<1>4. (IF lawful THEN LawfulUpper(CaseOf(k)) ELSE 0) \in Int
  BY <1>2
<1> QED
  BY <1>1, <1>3, <1>4 DEF S!Entry

LEMMA OfferedIs ==
    ASSUME CallInv, KeptInv
    PROVE  /\ offered \in Seq(S!Entry)
           /\ S!DistinctNames(offered)
           /\ call.caller = "select" /\ Loads =>
                /\ Len(offered) = Len(call.catalog)
                /\ \A k \in 1..Len(call.catalog) : offered[k] = Promised(k)
<1> DEFINE n == Len(call.catalog)
<1>1. n \in Nat /\ DOMAIN call.catalog = 1..n
      /\ \A k \in 1..n : call.catalog[k].name \in DOMAIN Rank
  BY CallIs DEF CallInv, CaseOK, ProfileOK, EvaluateCall
<1>2. CASE ~(call.caller = "select" /\ Loads)
  BY <1>2 DEF KeptInv, OfferedInv, S!DistinctNames
<1>3. CASE call.caller = "select" /\ Loads
  <2>1. offered = [k \in 1..n |-> Promised(k)]
    BY <1>3 DEF KeptInv, OfferedInv
  <2>2. \A k \in 1..n : Promised(k).name = Rank[call.catalog[k].name]
    BY DEF Promised
  <2>3. \A k \in 1..n : Promised(k) \in S!Entry
    BY <1>1, <2>2, PromisedType, ValuesAssumption
  <2>4. offered \in Seq(S!Entry) /\ Len(offered) = n
        /\ \A k \in 1..n : offered[k] = Promised(k)
    <3> HIDE DEF n
    <3> QED
      BY <1>1, <2>1, <2>3
  <2>5. \A j, k \in 1..n : call.catalog[j].name = call.catalog[k].name => j = k
    BY <1>1, <1>3 DEF Loads, ValidCatalog
  <2>6. S!DistinctNames(offered)
    <3> SUFFICES ASSUME NEW j \in 1..n, NEW k \in 1..n, offered[j].name = offered[k].name
                 PROVE  j = k
      BY <2>4 DEF S!DistinctNames
    <3>1. Rank[call.catalog[j].name] = Rank[call.catalog[k].name]
      BY <2>2, <2>4
    <3> QED
      BY <1>1, <2>5, <3>1, ValuesAssumption
  <2> QED
    BY <2>4, <2>6
<1> QED
  BY <1>2, <1>3

\* When Evaluate has returned, Select compares what the documents say.
LEMMA ConsideredIs ==
    ASSUME PlannerInv, KeptInv, Considered
    PROVE  LET entry == offered[i + 1] IN
           /\ i < Len(offered)
           /\ entry.admissible <=> Admissible
           /\ Admissible => entry.latency = LatencyUpper(profile, features)
           /\ entry.name = Rank[profile.name]
           /\ best # 0 => offered[best].name = Rank[call.catalog[best].name]
<1>1. /\ call.caller = "select" /\ Loads /\ i < Len(call.catalog) /\ i \in Nat
      /\ case = CaseOf(i + 1) /\ pc = "done" /\ call \in Call
  BY DEF PlannerInv, CallInv, Considered
<1>2. Len(offered) = Len(call.catalog)
      /\ \A k \in 1..Len(call.catalog) : offered[k] = Promised(k)
  BY <1>1, OfferedIs DEF PlannerInv
<1>3. i + 1 \in 1..Len(call.catalog) /\ best \in 0..Len(call.catalog)
  BY <1>1, CallIs DEF KeptInv
<1>4. profile = call.catalog[i + 1] /\ profile = case.profile
  BY <1>1 DEF profile, CaseOf, EvaluateCall
<1>5. /\ Admissible <=> Lawful(CaseOf(i + 1))
      /\ Admissible => features = LawfulValue(CaseOf(i + 1))
  BY <1>1 DEF PlannerInv, EvaluateInv, DoneInv, Admissible
<1>6. Admissible => LawfulUpper(CaseOf(i + 1)) = LatencyUpper(profile, features)
  BY <1>1, <1>4, <1>5 DEF LawfulUpper
<1>7. best # 0 => offered[best] = Promised(best)
  BY <1>2, <1>3
<1> DEFINE entry == offered[i + 1]
           lawful == Lawful(CaseOf(i + 1))
<1>8. entry = [name |-> Rank[profile.name], admissible |-> lawful,
               latency |-> IF lawful THEN LawfulUpper(CaseOf(i + 1)) ELSE 0]
  BY <1>2, <1>3, <1>4 DEF Promised
<1>9. lawful \in BOOLEAN
  BY DEF Lawful
<1> HIDE DEF lawful, entry
<1>10. entry.admissible = lawful /\ entry.name = Rank[profile.name]
       /\ (lawful => entry.latency = LawfulUpper(CaseOf(i + 1)))
  BY <1>8
<1>11. entry.admissible <=> Admissible
  BY <1>5, <1>9, <1>10 DEF lawful
<1>12. Admissible => entry.latency = LatencyUpper(profile, features)
  BY <1>5, <1>6, <1>10 DEF lawful
<1>13. best # 0 => offered[best].name = Rank[call.catalog[best].name]
  BY <1>7 DEF Promised
<1> QED
  BY <1>1, <1>2, <1>10, <1>11, <1>12, <1>13 DEF entry

LEMMA KeptInit == Init => KeptInv
BY CallIs DEF Init, KeptInv, OfferedInv

LEMMA OfferedKept ==
    ASSUME OfferedInv, UNCHANGED <<call, offered>> PROVE OfferedInv'
BY DEF OfferedInv, Loads, Panics, Promised, CaseOf

\* While the catalog is loaded and a profile is evaluated, nothing is kept.
LEMMA NothingKept ==
    ASSUME KeptInv, UNCHANGED <<call, offered, i, best, kept, first>> PROVE KeptInv'
BY OfferedKept DEF KeptInv


\* Each profile that Select considers is a step of Selection.
LEMMA RefuseStep ==
    ASSUME PlannerInv, KeptInv, Refuse PROVE S!Consider /\ KeptInv'
<1>1. Considered /\ ~Admissible
  BY DEF Refuse
<1>2. i < Len(offered) /\ ~offered[i + 1].admissible /\ stage = "loop" /\ stage' = stage
  BY <1>1, ConsideredIs DEF Considered
<1>3. i \in Nat /\ i' = i + 1 /\ call' = call /\ offered' = offered /\ best' = best
      /\ first' = FALSE /\ kept' = IF first THEN [of |-> i + 1, latency |-> 0] ELSE kept
  BY DEF Refuse, Considered, PlannerInv, CallInv
<1>4. S!Consider
  <2>1. first \in BOOLEAN /\ (~first => kept.of \in 1..i)
    BY DEF KeptInv
  <2>2. (IF first' THEN 0 ELSE kept'.of) = IF first THEN i + 1 ELSE kept.of
    BY <1>3, <2>1
  <2>3. (IF first THEN 0 ELSE kept.of) = 0 <=> first
    BY <1>3, <2>1
  <2> QED
    BY <1>2, <1>3, <2>1, <2>2, <2>3 DEF S!Consider
<1>5. KeptInv'
  <2>1. OfferedInv'
    BY <1>3, OfferedKept DEF KeptInv
  <2>2. kept'.of \in 1..i'
    BY <1>3 DEF KeptInv
  <2>3. best # 0 => kept' = kept
    BY <1>3 DEF KeptInv
  <2>4. best' \in 0..i'
    BY <1>3 DEF KeptInv
  <2> QED
    BY <1>3, <2>1, <2>2, <2>3, <2>4 DEF KeptInv
<1> QED
  BY <1>4, <1>5

\* Of two profiles the better one is the one that Selection prefers.
LEMMA BetterIs ==
    ASSUME PlannerInv, KeptInv, Considered, Admissible, best # 0
    PROVE  Better <=> S!Better(offered[i + 1], offered[best])
BY ConsideredIs DEF KeptInv, Better, S!Better

LEMMA ImproveStep ==
    ASSUME PlannerInv, KeptInv, Improve PROVE S!Consider /\ KeptInv'
<1>1. Considered /\ Admissible /\ (best # 0 => Better)
  BY DEF Improve
<1>2. /\ i < Len(offered) /\ offered[i + 1].admissible
      /\ offered[i + 1].latency = LatencyUpper(profile, features)
      /\ stage = "loop" /\ stage' = stage
      /\ best # 0 => S!Better(offered[i + 1], offered[best])
  BY <1>1, ConsideredIs, BetterIs DEF Considered
<1>3. /\ i \in Nat /\ i' = i + 1 /\ call' = call /\ offered' = offered
      /\ best' = i + 1 /\ first' = FALSE
      /\ kept' = [of |-> i + 1, latency |-> LatencyUpper(profile, features)]
  BY DEF Improve, Considered, PlannerInv, CallInv
<1>4. S!Consider
  BY <1>2, <1>3 DEF S!Consider
<1>5. KeptInv'
  <2>1. OfferedInv'
    BY <1>3, OfferedKept DEF KeptInv
  <2>2. kept'.of = i + 1 /\ kept'.latency = offered[i + 1].latency
    BY <1>2, <1>3
  <2>3. best' \in 0..i' /\ kept'.of \in 1..i' /\ kept'.latency = offered'[best'].latency
    BY <1>3, <2>2
  <2> QED
    BY <1>3, <2>1, <2>3 DEF KeptInv
<1> QED
  BY <1>4, <1>5

LEMMA PassStep ==
    ASSUME PlannerInv, KeptInv, Pass PROVE S!Consider /\ KeptInv'
<1>1. Considered /\ Admissible /\ best # 0 /\ ~Better
  BY DEF Pass
<1>2. /\ i < Len(offered) /\ stage = "loop" /\ stage' = stage
      /\ ~S!Better(offered[i + 1], offered[best])
  BY <1>1, ConsideredIs, BetterIs DEF Considered
<1>3. /\ i \in Nat /\ i' = i + 1 /\ call' = call /\ offered' = offered
      /\ best' = best /\ first' = first /\ kept' = kept
  BY DEF Pass, Considered, PlannerInv, CallInv
<1>4. ~first /\ kept.of \in 1..i
  BY <1>1 DEF KeptInv
<1>5. S!Consider
  BY <1>1, <1>2, <1>3, <1>4 DEF S!Consider
<1>6. KeptInv'
  <2>1. OfferedInv'
    BY <1>3, OfferedKept DEF KeptInv
  <2> QED
    BY <1>3, <1>4, <2>1 DEF KeptInv
<1> QED
  BY <1>5, <1>6

LEMMA SelectionInit == Init => S!Init
<1> SUFFICES ASSUME Init PROVE S!Init
  OBVIOUS
<1>1. CallInv /\ KeptInv
  BY PlannerInit, KeptInit DEF PlannerInv
<1> QED
  BY <1>1, OfferedIs DEF Init, S!Init

LEMMA SelectionNext == PlannerInv /\ KeptInv /\ [Next]_vars => [S!Next]_(S!vars) /\ KeptInv'
<1> SUFFICES ASSUME PlannerInv, KeptInv, [Next]_vars
             PROVE  [S!Next]_(S!vars) /\ KeptInv'
  OBVIOUS
<1>1. CASE Refuse \/ Improve \/ Pass
  BY <1>1, RefuseStep, ImproveStep, PassStep DEF S!Next
<1>2. CASE Finish
  <2>1. i = Len(offered)
    BY <1>2, OfferedIs DEF Finish, PlannerInv, CallInv
  <2> QED
    BY <1>2, <2>1, NothingKept DEF Finish, S!Next, S!Finish
<1>3. CASE Load
  BY <1>3, NothingKept DEF Load, S!vars
<1>4. CASE Direct \/ EvaluateNext \/ Evaluating
  BY <1>4, NothingKept DEF Direct, EvaluateNext, Evaluating, selection, S!vars
<1>5. CASE UNCHANGED vars
  BY <1>5, NothingKept DEF vars, selection, S!vars
<1> QED
  BY <1>1, <1>2, <1>3, <1>4, <1>5 DEF Next

\* Loading a catalog, evaluating its profiles and comparing them (planner.go:392-424)
\* does what Selection promises of what the documents say of the profiles, for
\* every catalog.
THEOREM SelectImplements == Spec => ImplementsSelection
BY PlannerInit, PlannerNext, KeptInit, SelectionInit, SelectionNext, PTL
   DEF Spec, ImplementsSelection, S!Spec

-----------------------------------------------------------------------------
(* What Selection promises of the best profile holds of the planner.         *)

Chosen == IF first THEN 0 ELSE kept.of

\* The best profile so far beats every other admissible one that was seen.
BestSoFar ==
    /\ best = 0 => \A j \in 1..i : ~offered[j].admissible
    /\ best # 0 =>
         /\ offered[best].admissible
         /\ \A j \in 1..i : offered[j].admissible /\ j # best =>
                                S!Better(offered[best], offered[j])

\* The decision kept goes with the best profile, or else with the first one.
DecisionSoFar ==
    Chosen = IF best # 0 THEN best ELSE IF i = 0 THEN 0 ELSE 1

SelectionInv ==
    /\ S!TypeOK
    /\ BestSoFar
    /\ DecisionSoFar
    /\ stage = "done" => i = Len(offered)

\* What is offered is a sequence of entries, whose names differ.
LEMMA OfferedType ==
    ASSUME S!TypeOK
    PROVE  /\ Len(offered) \in Nat /\ i \in 0..Len(offered) /\ i \in Nat
           /\ \A j \in 1..Len(offered) :
                 offered[j].name \in Int /\ offered[j].latency \in Int
           /\ \A j, k \in 1..Len(offered) : j # k => offered[j].name # offered[k].name
<1>1. offered \in Seq(S!Entry)
  BY DEF S!TypeOK, Chosen
<1>2. Len(offered) \in Nat /\ i \in 0..Len(offered)
  BY <1>1 DEF S!TypeOK, Chosen
<1>3. \A j \in 1..Len(offered) : offered[j] \in S!Entry
  BY <1>1
<1>4. i \in Nat
  BY <1>2
<1>5. \A j \in 1..Len(offered) : offered[j].name \in Int /\ offered[j].latency \in Int
  BY <1>3 DEF S!Entry
<1>6. S!DistinctNames(offered)
  BY DEF S!TypeOK
<1>7. \A j, k \in 1..Len(offered) : j # k => offered[j].name # offered[k].name
  BY <1>6, Zenon DEF S!DistinctNames
<1> QED
  BY <1>2, <1>4, <1>5, <1>7

\* Better is transitive, and of two entries with other names one is better.
LEMMA BetterOrder ==
    ASSUME NEW p, NEW q, NEW r,
           p.latency \in Int, q.latency \in Int, r.latency \in Int,
           p.name \in Int, q.name \in Int, r.name \in Int
    PROVE  /\ S!Better(p, q) /\ S!Better(q, r) => S!Better(p, r)
           /\ p.name # q.name => S!Better(p, q) \/ S!Better(q, p)
BY DEF S!Better

LEMMA SelectionInvInit == S!Init => SelectionInv
<1> SUFFICES ASSUME S!Init PROVE SelectionInv
  OBVIOUS
<1>1. offered \in Seq(S!Entry) /\ Len(offered) \in Nat
  BY DEF S!Init, Chosen
<1>2. i \in 0..Len(offered) /\ best \in 0..i /\ Chosen \in 0..i
  BY <1>1 DEF S!Init, Chosen
<1>3. S!TypeOK
  BY <1>2, Zenon DEF S!Init, S!TypeOK, Chosen
<1>4. QED
  BY <1>3 DEF S!Init, SelectionInv, BestSoFar, DecisionSoFar, Chosen

LEMMA SelectionInvNext == SelectionInv /\ [S!Next]_(S!vars) => SelectionInv'
<1> SUFFICES ASSUME SelectionInv, [S!Next]_(S!vars) PROVE SelectionInv'
  OBVIOUS
<1>t. S!TypeOK /\ BestSoFar /\ DecisionSoFar
  BY DEF SelectionInv
<1>c. /\ Len(offered) \in Nat /\ i \in 0..Len(offered) /\ i \in Nat
      /\ \A j \in 1..Len(offered) :
            offered[j].name \in Int /\ offered[j].latency \in Int
      /\ \A j, k \in 1..Len(offered) : j # k => offered[j].name # offered[k].name
  BY <1>t, OfferedType
<1>1. CASE S!Consider
  <2> DEFINE n == i + 1
             entry == offered[n]
  <2>1. /\ n \in 1..Len(offered) /\ n \in 0..Len(offered) /\ n \in Nat /\ n # 0
        /\ i' = n /\ offered' = offered /\ (stage' = "done" <=> stage = "done") /\ stage # "done"
        /\ 1..i \subseteq 1..n /\ 0..i \subseteq 0..n /\ n \in 0..n /\ 1 \in 0..n
        /\ \A j \in 1..n : j \in 1..i \/ j = n
        /\ 1..n \subseteq 1..Len(offered) /\ n \notin 1..i
    BY <1>1, <1>c DEF S!Consider, Chosen
  <2>2. CASE entry.admissible /\ (best # 0 => S!Better(entry, offered[best]))
    <3>1. best' = n /\ Chosen' = n
      BY <1>1, <2>2 DEF S!Consider, Chosen
    <3>2. S!TypeOK'
      BY <1>t, <2>1, <3>1 DEF S!TypeOK, Chosen
    <3>3. ASSUME NEW j \in 1..n, offered[j].admissible, j # n
          PROVE  S!Better(entry, offered[j])
      <4>1. j \in 1..i
        BY <2>1, <3>3
      <4>2. best # 0 /\ best \in 1..Len(offered)
        BY <4>1, <3>3, <1>t, <1>c DEF BestSoFar, S!TypeOK, Chosen
      <4>3. j = best \/ S!Better(offered[best], offered[j])
        BY <4>1, <4>2, <3>3, <1>t DEF BestSoFar
      <4>4. j \in 1..Len(offered)
        BY <2>1
      <4>5. QED
        BY <2>1, <2>2, <4>2, <4>3, <4>4, <1>c, BetterOrder
    <3>4. BestSoFar'
      BY <2>1, <2>2, <3>1, <3>3 DEF BestSoFar
    <3>5. DecisionSoFar'
      BY <2>1, <3>1 DEF DecisionSoFar
    <3>6. QED
      BY <2>1, <3>2, <3>4, <3>5 DEF SelectionInv
  <2>3. CASE ~(entry.admissible /\ (best # 0 => S!Better(entry, offered[best])))
    <3>1. best' = best /\ Chosen' = IF Chosen = 0 THEN n ELSE Chosen
      BY <1>1, <2>3 DEF S!Consider, Chosen
    <3>2. S!TypeOK'
      BY <1>t, <2>1, <3>1 DEF S!TypeOK, Chosen
    <3>3. ASSUME best # 0, entry.admissible
          PROVE  S!Better(offered[best], entry)
      <4>1. best \in 1..Len(offered) /\ best # n
        BY <3>3, <1>t, <1>c, <2>1 DEF S!TypeOK, Chosen
      <4>2. ~S!Better(entry, offered[best])
        BY <2>3, <3>3
      <4>3. QED
        BY <4>1, <4>2, <1>c, <2>1, BetterOrder
    <3>4. BestSoFar'
      BY <2>1, <2>3, <3>1, <3>3, <1>t DEF BestSoFar
    <3>5. DecisionSoFar'
      <4>1. i = 0 => best = 0 /\ n = 1
        BY <1>t, <1>c DEF S!TypeOK, Chosen
      <4>2. QED
        BY <4>1, <2>1, <3>1, <1>t DEF DecisionSoFar
    <3>6. QED
      BY <2>1, <3>2, <3>4, <3>5 DEF SelectionInv
  <2>4. QED
    BY <2>2, <2>3
<1>2. CASE S!Finish
  <2>1. UNCHANGED <<offered, i, best, Chosen>> 
        /\ i = Len(offered)
    BY <1>2 DEF S!Finish, Chosen
  <2>2. QED
    BY <1>t, <2>1 DEF SelectionInv, S!TypeOK, BestSoFar, DecisionSoFar, Chosen
<1>3. CASE S!vars' = S!vars
  BY <1>3 DEF SelectionInv, S!vars, S!TypeOK, BestSoFar, DecisionSoFar, Chosen
<1>4. QED
  BY <1>1, <1>2, <1>3 DEF S!Next

\* Select returns the best admissible profile of any catalog, and none only if
\* none is admissible (planner.go:397-424).
THEOREM Selects == Spec => []S!SelectsBest
<1>1. SelectionInv => S!SelectsBest
  BY DEF SelectionInv, BestSoFar, S!SelectsBest
<1>2. Spec => []SelectionInv
  BY SelectImplements, SelectionInvInit, SelectionInvNext, PTL DEF ImplementsSelection, S!Spec
<1>3. QED
  BY <1>1, <1>2, PTL

\* The decision is the returned profile's, or the first refusal
\* (planner.go:405-422).
THEOREM Decides == Spec => []S!DecisionMatches
<1>1. ASSUME SelectionInv PROVE offered = << >> <=> Len(offered) = 0
  <2>1. offered \in Seq(S!Entry)
    BY <1>1 DEF SelectionInv, S!TypeOK, Chosen
  <2>2. QED
    BY <2>1
<1>2. SelectionInv => S!DecisionMatches
  BY <1>1 DEF SelectionInv, S!DecisionMatches, DecisionSoFar, Chosen
<1>3. Spec => []SelectionInv
  BY SelectImplements, SelectionInvInit, SelectionInvNext, PTL DEF ImplementsSelection, S!Spec
<1>4. QED
  BY <1>2, <1>3, PTL


-----------------------------------------------------------------------------
(* Types.                                                                    *)

\* The types of what Evaluate keeps, and that nothing of a call is left once its
\* decision was taken.
EvaluationTyped ==
    /\ Tidy(reasons)
    /\ \A f \in DOMAIN features : IsFinite(features[f])
    /\ IsFiniteSet(todo)
    /\ pc = "idle" => case = None

TypedInv == EvaluationTyped /\ (first => kept = None)

\* Documents are finite.
LEMMA KeysFinite ==
    ASSUME NEW c, CaseOK(c)
    PROVE  /\ IsFiniteSet(DOMAIN c.request.inputs) /\ IsFiniteSet(DOMAIN c.profile.domain)
           /\ IsFiniteSet(DOMAIN ObservedInterference(c))
           /\ IsFiniteSet(DOMAIN c.profile.metrics)
           /\ IsFiniteSet(DOMAIN c.profile.versions)
           /\ IsFiniteSet(DOMAIN c.profile.relations) /\ IsFiniteSet(FirstNames(c.profile))
           /\ IsFiniteSet(AssertionKeys(c))
<1>1. /\ DOMAIN c.request.inputs \subseteq DOMAIN Rank
      /\ DOMAIN c.profile.domain \subseteq DOMAIN Rank
      /\ DOMAIN ObservedInterference(c) \subseteq DOMAIN Rank
      /\ DOMAIN c.profile.metrics \subseteq DOMAIN Rank
      /\ DOMAIN c.profile.versions \subseteq DOMAIN Rank
  BY DEF CaseOK, ProfileOK, RequestOK, EvidenceOK, ObservedInterference, Observed
<1>2. \A D : D \subseteq DOMAIN Rank => IsFiniteSet(D)
  BY ValuesAssumption, FS_Subset
<1>3. ASSUME NEW n \in Nat, NEW D, D \subseteq 1..n PROVE IsFiniteSet(D)
  <2>1. IsFiniteSet(1..n)
    BY FS_Interval
  <2> QED
    BY <1>3, <2>1, FS_Subset
<1>4. IsFiniteSet(DOMAIN c.profile.relations)
  <2>1. \E n \in Nat : DOMAIN c.profile.relations = 1..n
    BY DEF CaseOK, ProfileOK, IsSequence
  <2> QED
    BY <2>1, <1>3
<1>5. IsFiniteSet(FirstNames(c.profile))
  <2>1. \E n \in Nat : DOMAIN Names(c.profile) = 1..n
    BY NamesType DEF CaseOK
  <2>2. FirstNames(c.profile) \subseteq DOMAIN Names(c.profile)
    BY DEF FirstNames
  <2> QED
    BY <2>1, <2>2, <1>3
<1>6. IsFiniteSet(AssertionKeys(c))
  <2>1. CASE Runtime(c) /\ HasDevices(c)
    <3>1. Len(Devices(c)) \in Nat /\ Len(c.profile.assertions) \in Nat
      BY <2>1 DEF CaseOK, ProfileOK, EvidenceOK, HasDevices, Devices, IsSequence
    <3>2. Len(Devices(c)) * Len(c.profile.assertions) \in Nat
      BY <3>1
    <3> QED
      BY <2>1, <3>2, <1>3 DEF AssertionKeys, Pairs
  <2>2. CASE ~(Runtime(c) /\ HasDevices(c))
    BY <2>2, FS_EmptySet DEF AssertionKeys
  <2> QED
    BY <2>1, <2>2
<1> QED
  BY <1>1, <1>2, <1>4, <1>5, <1>6

\* What a feature is resolved to is finite.
LEMMA ResolvedFinite ==
    ASSUME NEW c, CaseOK(c), NEW k, FeatureReasons(c, k) = << >>
    PROVE  IsFinite(Resolve(c, Names(c.profile)[k]))
<1> DEFINE f == Names(c.profile)[k]
<1>1. Available(c, f)
  BY RejectIs DEF FeatureReasons, When
<1>2. CASE IsInput(f)
  <2>1. HasNumber(c.request, f[2])
    BY <1>1, <1>2 DEF Available, IsInput, IsInterference
  <2>2. IsFinite(c.request.inputs[f[2]][2])
    BY <2>1 DEF HasNumber, CaseOK, RequestOK, ScalarOK
  <2> QED
    BY <1>2, <2>2 DEF Resolve
<1>3. CASE ~IsInput(f)
  BY <1>1, <1>3 DEF Available, Resolve
<1> QED
  BY <1>2, <1>3

LEMMA VisitTyped ==
    ASSUME EvaluationTyped, pc # "idle", NEW key, NEW found, Tidy(found), Visit(key, found),
           \A f \in DOMAIN features' : IsFinite(features'[f])
    PROVE  EvaluationTyped'
<1>1. Tidy(reasons') /\ pc' = pc /\ todo' \subseteq todo
  BY ConcatTidy DEF Visit, EvaluationTyped
<1>2. IsFiniteSet(todo')
  BY <1>1, FS_Subset DEF EvaluationTyped
<1> QED
  BY <1>1, <1>2 DEF EvaluationTyped

LEMMA EnterTyped ==
    ASSUME EvaluationTyped, NEW loop, loop # "idle", NEW keys, IsFiniteSet(keys),
           NEW found, Tidy(found), Enter(loop, keys, found)
    PROVE  EvaluationTyped'
BY ConcatTidy DEF Enter, EvaluationTyped

\* The loops over maps.
LEMMA MapTyped ==
    ASSUME EvaluateInv, EvaluationTyped,
           UnknownInputs \/ Inputs \/ UnknownMetrics \/ Metrics \/ Versions
    PROVE  EvaluationTyped'
<1>0. CaseOK(case) /\ ValidProfile(profile) /\ pc \in Loops /\ pc # "idle"
  BY DEF UnknownInputs, Inputs, UnknownMetrics, Metrics, Versions, Each, EvaluateInv,
         ControlInv, Loops
<1>1. /\ DOMAIN request.inputs \cup DOMAIN profile.domain \subseteq DOMAIN Rank
      /\ DOMAIN ObservedInterference(case) \subseteq DOMAIN Rank
      /\ DOMAIN profile.metrics \cup DOMAIN profile.versions \subseteq DOMAIN Rank
  BY <1>0, KeysAre DEF request, profile
<1>2. \A f \in DOMAIN features : IsFinite(features[f])
  BY DEF EvaluationTyped
<1>3. CASE UnknownInputs
  <2>1. todo \subseteq DOMAIN Rank
    BY <1>1, <1>3 DEF UnknownInputs, Each, EvaluateInv, UnknownInputsInv
  <2>2. \A name \in todo : Tidy(UnknownInput(case, name))
    BY <2>1, UnknownInputAbout DEF About
  <2> QED
    BY <1>0, <1>2, <1>3, <2>2, VisitTyped, EnterTyped, EmptyTidy, KeysFinite
       DEF UnknownInputs, Each, profile
<1>4. CASE Inputs
  <2>1. todo \subseteq DOMAIN Rank
    BY <1>1, <1>4 DEF Inputs, Each, EvaluateInv, InputsInv
  <2>2. \A name \in todo : Tidy(InputReasons(case, name))
    BY <2>1, InputAbout DEF About
  <2> QED
    BY <1>0, <1>2, <1>4, <2>2, VisitTyped, EnterTyped, EmptyTidy, KeysFinite
       DEF Inputs, Each, profile
<1>5. CASE UnknownMetrics
  <2>1. todo \subseteq DOMAIN Rank
    BY <1>1, <1>5 DEF UnknownMetrics, Each, EvaluateInv, UnknownMetricsInv
  <2>2. \A name \in todo : Tidy(UnknownInterference(case, name))
    BY <2>1, UnknownMetricAbout DEF About
  <2> QED
    BY <1>0, <1>2, <1>5, <2>2, VisitTyped, EnterTyped, EmptyTidy, KeysFinite
       DEF UnknownMetrics, Each, profile
<1>6. CASE Metrics
  <2>1. todo \subseteq DOMAIN Rank
    BY <1>1, <1>6 DEF Metrics, Each, EvaluateInv, MetricsInv
  <2>2. \A name \in todo : Tidy(InterferenceReasons(case, name))
    BY <2>1, MetricAbout DEF About
  <2> QED
    BY <1>0, <1>2, <1>6, <2>2, VisitTyped, EnterTyped, EmptyTidy, KeysFinite
       DEF Metrics, Each, profile
<1>7. CASE Versions
  <2>1. todo \subseteq DOMAIN Rank
    BY <1>1, <1>7 DEF Versions, Each, EvaluateInv, VersionsInv
  <2>2. \A component \in todo : Tidy(VersionReasons(case, component))
    BY <2>1, VersionAbout DEF About
  <2>3. ASSUME Enter("features", FirstNames(profile), NumericalReasons(case))
        PROVE  EvaluationTyped'
    BY <1>0, <2>3, NumericalTidy, EnterTyped, KeysFinite DEF profile
  <2>4. pc = "versions" /\ \/ \E component \in todo :
                               /\ Visit(component, VersionReasons(case, component))
                               /\ UNCHANGED features
                           \/ Enter("features", FirstNames(profile), NumericalReasons(case))
    BY <1>7 DEF Versions, Each, NumericalReasons, profile, request
  <2> QED
    BY <1>0, <1>2, <2>2, <2>3, <2>4, VisitTyped
<1> QED
  BY <1>3, <1>4, <1>5, <1>6, <1>7

\* The loops over slices.
LEMMA SliceTyped ==
    ASSUME EvaluateInv, EvaluationTyped, Relations \/ Features PROVE EvaluationTyped'
<1>0. CaseOK(case) /\ pc # "idle" /\ pc \in {"relations", "features"}
  BY DEF Relations, Features, EvaluateInv, ControlInv
<1>1. CASE Relations
  <2>1. todo # {} => Tidy(RelationReasons(case, FirstKey))
    BY <1>1, RelationKeyIs, RelationTidy DEF Relations
  <2>2. \A f \in DOMAIN features : IsFinite(features[f])
    BY DEF EvaluationTyped
  <2> QED
    BY <1>0, <1>1, <2>1, <2>2, VisitTyped, EnterTyped, EmptyTidy, KeysFinite
       DEF Relations
<1>2. CASE Features
  <2> DEFINE f == Names(profile)[FirstKey]
             found == FeatureReasons(case, FirstKey)
  <2>1. Tidy(found)
    BY <1>0, <1>2, FeatureKeyIs, NameIs, FeatureTidy DEF Features, CaseOK, profile
  <2>2. found = << >> => IsFinite(Resolve(case, f))
    BY <1>0, ResolvedFinite DEF profile
  <2>3. Visit(FirstKey, found)
        /\ features' = IF found # << >> THEN features
                       ELSE [g \in DOMAIN features \cup {f} |->
                                IF g = f THEN Resolve(case, f) ELSE features[g]]
    BY <1>2 DEF Features
  <2> HIDE DEF found, f
  <2>4. \A g \in DOMAIN features' : IsFinite(features'[g])
    BY <2>2, <2>3 DEF EvaluationTyped
  <2> QED
    BY <1>0, <2>1, <2>3, <2>4, VisitTyped
<1> QED
  BY <1>1, <1>2

LEMMA BoundTyped ==
    ASSUME EvaluateInv, EvaluationTyped, Bound PROVE EvaluationTyped'
<1> DEFINE latency == LatencyReasons(case, features)
           ood == OODReasons(case, features)
           load == IF featureOK THEN latency \o ood ELSE << >>
           metadata == IF Runtime(case) THEN MetadataReasons(case) ELSE << >>
<1>1. Tidy(load) /\ Tidy(metadata)
  <2>1. Tidy(latency \o ood)
    BY LoadTidy, ConcatTidy
  <2> QED
    BY <2>1, EmptyTidy, MetadataTidy
<1>2. Tidy(load \o metadata)
  BY <1>1, ConcatTidy
<1>3. CASE pc' = "panic in score" /\ UNCHANGED <<case, reasons, features, todo>>
  BY <1>3 DEF EvaluationTyped
<1>4. CASE Enter("devices", AssertionKeys(case), load \o metadata)
  <2>1. IsFiniteSet(AssertionKeys(case))
    BY KeysFinite DEF Bound, EvaluateInv, ControlInv
  <2> HIDE DEF load, metadata
  <2> QED
    BY <1>2, <1>4, <2>1, EnterTyped
<1> QED
  BY <1>3, <1>4 DEF Bound, AssertionKeys

\* Every reason that comes out of the sort went into it.
LEMMA SortTidy ==
    ASSUME NEW s, Tidy(s) PROVE Tidy(StableSort(s))
<1> DEFINE D == DOMAIN s
<1>1. Len(s) \in Nat /\ D = 1..Len(s) /\ DOMAIN StableSort(s) = D
  BY DEF Tidy, IsSequence, StableSort
<1>2. PICK to \in [D -> D] :
        /\ \A k \in D : StableSort(s)[to[k]] = s[k]
        /\ \A j, m \in D : j # m =>
              \/ InFront(s, j, m) /\ to[j] < to[m]
              \/ InFront(s, m, j) /\ to[m] < to[j]
  BY SortMoves
<1>3. to \in Surjection(D, D)
  <2>1. IsFiniteSet(D)
    BY <1>1, FS_Interval
  <2>2. \A j, m \in D : to[j] = to[m] => j = m
    <3>1. \A j \in D : to[j] \in Int
      BY <1>1, <1>2
    <3> QED
      BY <1>2, <3>1
  <2>3. to \in Injection(D, D)
    BY <1>2, <2>2 DEF Injection, IsInjective
  <2> QED
    BY <2>1, <2>3, FS_Injection
<1>4. ASSUME NEW n \in D PROVE Sortable(StableSort(s)[n])
  <2>1. PICK k \in D : to[k] = n
    BY <1>3 DEF Surjection
  <2>2. StableSort(s)[n] = s[k]
    BY <1>2, <2>1
  <2> QED
    BY <2>2 DEF Tidy
<1>5. IsSequence(StableSort(s))
  BY SortIs DEF Tidy
<1> QED
  BY <1>1, <1>4, <1>5 DEF Tidy

LEMMA AssertionsTyped ==
    ASSUME EvaluateInv, EvaluationTyped, Assertions PROVE EvaluationTyped'
<1>0. /\ pc = "devices" /\ CaseOK(case) /\ todo \subseteq AssertionKeys(case)
      /\ Tidy(reasons) /\ \A f \in DOMAIN features : IsFinite(features[f])
  BY DEF Assertions, EvaluateInv, ControlInv, DevicesInv, EvaluationTyped
<1>1. CASE todo # {} /\ Visit(FirstKey, AttributeReasons(case, FirstKey)) /\ UNCHANGED features
  <2>1. HasDevices(case) /\ todo \subseteq Pairs(case)
    BY <1>0, <1>1 DEF AssertionKeys
  <2>2. todo \subseteq Nat
    BY <2>1 DEF Pairs
  <2>3. FirstKey \in Pairs(case)
    BY <1>1, <2>1, <2>2, FirstKeyIs
  <2>4. Tidy(AttributeReasons(case, FirstKey))
    BY <1>0, <2>1, <2>3, AttributeTidy
  <2> QED
    BY <1>0, <1>1, <2>4, VisitTyped
<1>2. CASE Return(StableSort(reasons))
  BY <1>0, <1>2, SortTidy DEF Return, EvaluationTyped
<1> QED
  BY <1>1, <1>2 DEF Assertions

LEMMA StartTyped ==
    ASSUME EvaluateInv, EvaluationTyped,
           RefusePhase \/ RefuseProfile \/ PanicInValidation \/ RefuseRequest \/ Start
    PROVE  EvaluationTyped'
<1>0. pc = "start" /\ CaseOK(case)
  BY DEF RefusePhase, RefuseProfile, PanicInValidation, RefuseRequest, Start, EvaluateInv,
         ControlInv
<1>1. \A code \in {"INVALID_PHASE", "INVALID_PROFILE", "INVALID_REQUEST",
                   "PROFILE_MISMATCH", "STALE_CERTIFICATE"} : Tidy(Reject(code, Fixed, 0))
  BY CodesAre, FixedTidy
<1>2. CASE RefusePhase \/ RefuseProfile \/ RefuseRequest
  <2>1. PICK found : Tidy(found) /\ Return(found)
    BY <1>1, <1>2 DEF RefusePhase, RefuseProfile, RefuseRequest
  <2> QED
    BY <2>1 DEF Return, EvaluationTyped
<1>3. CASE PanicInValidation
  BY <1>3 DEF PanicInValidation, EvaluationTyped
<1>4. CASE Start
  <2> DEFINE mismatch == When(request.required \notin {None, profile.name},
                              Reject("PROFILE_MISMATCH", Fixed, 0))
             stale == When(~case.evidence.fresh, Reject("STALE_CERTIFICATE", Fixed, 0))
  <2>1. Enter("unknown inputs", DOMAIN request.inputs, mismatch \o stale)
    BY <1>4 DEF Start
  <2>2. Tidy(mismatch) /\ Tidy(stale)
    BY <1>1, WhenTidy
  <2> HIDE DEF mismatch, stale
  <2>3. Tidy(mismatch \o stale)
    BY <2>2, ConcatTidy
  <2>4. IsFiniteSet(DOMAIN request.inputs)
    BY <1>0, KeysFinite DEF request
  <2> QED
    BY <2>1, <2>3, <2>4, EnterTyped
<1> QED
  BY <1>2, <1>3, <1>4

LEMMA StepTyped ==
    ASSUME EvaluateInv, EvaluationTyped, Step PROVE EvaluationTyped'
BY StartTyped, MapTyped, SliceTyped, BoundTyped, AssertionsTyped DEF Step

LEMMA IdleTyped == ASSUME Idle PROVE EvaluationTyped
BY EmptyTidy, FS_EmptySet DEF Idle, EvaluationTyped

LEMMA ForgetTyped == ASSUME Forget PROVE EvaluationTyped'
BY EmptyTidy, FS_EmptySet DEF Forget, EvaluationTyped

LEMMA TypedInit == Init => TypedInv
BY IdleTyped DEF Init, TypedInv

LEMMA TypedNext == PlannerInv /\ KeptInv /\ TypedInv /\ [Next]_vars => TypedInv'
<1> SUFFICES ASSUME PlannerInv, KeptInv, TypedInv, [Next]_vars PROVE TypedInv'
  OBVIOUS
<1>0. EvaluateInv /\ EvaluationTyped /\ (first => kept = None)
  BY DEF PlannerInv, TypedInv
<1>1. CASE Load \/ Finish \/ UNCHANGED vars
  BY <1>0, <1>1 DEF Load, Finish, vars, selection, evaluation, TypedInv, EvaluationTyped
<1>2. CASE Direct \/ EvaluateNext
  BY <1>0, <1>2
     DEF Direct, EvaluateNext, Begin, selection, TypedInv, EvaluationTyped
<1>3. CASE Evaluating
  BY <1>0, <1>3, StepTyped DEF Evaluating, selection, TypedInv
<1>4. CASE Refuse \/ Improve \/ Pass
  <2>1. EvaluationTyped'
    BY <1>4, ForgetTyped DEF Refuse, Improve, Pass, Considered
  <2>2. first' => kept' = None
    BY <1>0, <1>4 DEF Refuse, Improve, Pass
  <2> QED
    BY <2>1, <2>2 DEF TypedInv
<1> QED
  BY <1>1, <1>2, <1>3, <1>4 DEF Next

\* The planner's state is what its types say: a decision is of known codes and fields,
\* each about one place, and what the model of a profile is fed is finite, for any documents.
THEOREM PlannerTypeCorrect == Spec => []TypeOK
<1>1. ASSUME PlannerInv, KeptInv, TypedInv PROVE TypeOK
  <2>1. DecisionOK
    <3>1. \A k \in DOMAIN reasons : Sortable(reasons[k])
      BY <1>1 DEF TypedInv, EvaluationTyped, Tidy
    <3>2. CodeSet = {Codes[m] : m \in DOMAIN Codes}
      BY DEF CodeSet, Codes
    <3>3. pc \in Loops \cup {"idle", "start", "done", "panic in validation"}
      BY <1>1 DEF PlannerInv, EvaluateInv, ControlInv
    <3> QED
      BY <1>1, <3>1, <3>2, <3>3 DEF Sortable, DecisionOK, Loops, TypedInv, EvaluationTyped
  <2>2. case = IF pc = "idle" THEN None ELSE CaseOf(i + 1)
    BY <1>1 DEF PlannerInv, CallInv, TypedInv, EvaluationTyped
  <2> QED
    BY <1>1, <2>1, <2>2 DEF TypeOK, PlannerInv, CallInv, KeptInv, TypedInv
<1>2. Spec => [](PlannerInv /\ KeptInv /\ TypedInv)
  BY PlannerInit, PlannerNext, KeptInit, SelectionNext, TypedInit, TypedNext, PTL DEF Spec
<1> QED
  BY <1>1, <1>2, PTL


-----------------------------------------------------------------------------
(* The score is not far below zero.  First recursion and sums.                *)

LEMMA Induction ==
    ASSUME NEW n \in Nat, NEW T, 0 \in T, \A k \in 0..n - 1 : k \in T => k + 1 \in T
    PROVE  0..n \subseteq T
<1> DEFINE U == 0..n \ T
<1> SUFFICES ASSUME U # {} PROVE FALSE
  OBVIOUS
<1>1. U \subseteq Nat
  OBVIOUS
<1>2. PICK x \in U : \A y \in U : x <= y
  BY <1>1, LeastElement
<1>3. x \in 1..n /\ x - 1 \in 0..n - 1 /\ x - 1 \in 0..n /\ (x - 1) + 1 = x /\ ~(x <= x - 1)
  OBVIOUS
<1> QED
  BY <1>2, <1>3

LEMMA Descent ==
    ASSUME NEW n \in Nat, NEW T, n \in T, \A k \in 1..n : k \in T => k - 1 \in T
    PROVE  0..n \subseteq T
<1> DEFINE U == {k \in 0..n : n - k \in T}
<1>1. 0 \in U
  OBVIOUS
<1>2. ASSUME NEW k \in 0..n - 1, k \in U PROVE k + 1 \in U
  <2>1. n - k \in 1..n /\ (n - k) - 1 = n - (k + 1) /\ k + 1 \in 0..n
    OBVIOUS
  <2> QED
    BY <1>2, <2>1
<1>3. 0..n \subseteq U
  BY <1>1, <1>2, Induction
<1>4. \A k \in 0..n : n - k \in 0..n /\ n - (n - k) = k
  OBVIOUS
<1> QED
  BY <1>3, <1>4

\* The values of a loop whose k-th round is step[k].
LEMMA LoopValues ==
    ASSUME NEW V, NEW x \in V, NEW n \in Nat, NEW step \in [1..n -> [V -> V]]
    PROVE  \E s \in [0..n -> V] : s[0] = x /\ \A k \in 1..n : s[k] = step[k][s[k - 1]]
<1> DEFINE Runs(m, s) == /\ s \in [0..m -> V] /\ s[0] = x
                         /\ \A k \in 1..m : s[k] = step[k][s[k - 1]]
           T == {m \in 0..n : \E s : Runs(m, s)}
<1>1. 0 \in T
  <2>1. Runs(0, [k \in 0..0 |-> x])
    OBVIOUS
  <2> HIDE DEF Runs
  <2>2. 0 \in 0..n
    OBVIOUS
  <2> QED
    BY <2>1, <2>2, Zenon
<1>2. ASSUME NEW m \in 0..n - 1, m \in T PROVE m + 1 \in T
  <2>1. PICK s : Runs(m, s)
    BY <1>2
  <2> DEFINE r == [k \in 0..m + 1 |-> IF k = m + 1 THEN step[m + 1][s[m]] ELSE s[k]]
  <2>2. /\ m \in 0..m /\ m + 1 \in 1..n /\ m + 1 \in 0..n /\ 0 # m + 1 /\ m # m + 1
        /\ \A k \in 0..m + 1 : k # m + 1 => k \in 0..m
        /\ \A k \in 1..m + 1 : k \in 1..m \/ (k = m + 1 /\ k - 1 = m)
        /\ \A k \in 1..m : k \in 0..m /\ k - 1 \in 0..m /\ k # m + 1 /\ k - 1 # m + 1
        /\ 0..m \subseteq 0..m + 1 /\ 0 \in 0..m + 1 /\ m + 1 \in 0..m + 1
    OBVIOUS
  <2>3. step[m + 1][s[m]] \in V
    BY <2>1, <2>2
  <2>4. r \in [0..m + 1 -> V]
    BY <2>1, <2>2, <2>3
  <2>5. r[0] = x /\ r[m + 1] = step[m + 1][s[m]] /\ \A k \in 0..m : r[k] = s[k]
    BY <2>1, <2>2
  <2> HIDE DEF r
  <2>6. \A k \in 1..m + 1 : r[k] = step[k][r[k - 1]]
    BY <2>1, <2>2, <2>5
  <2> QED
    BY <2>2, <2>4, <2>5, <2>6
<1>3. n \in T
  <2>1. 0..n \subseteq T
    BY <1>1, <1>2, Induction
  <2> QED
    BY <2>1
<1> QED
  BY <1>3

\* s[k] is t[1] + ... + t[k].
Sums(t, n, s) ==
    /\ s \in [0..n -> Int] /\ s[0] = 0
    /\ \A k \in 1..n : t[k] \in Int /\ s[k] = s[k - 1] + t[k]

LEMMA SumsExist ==
    ASSUME NEW n \in Nat, NEW t, \A k \in 1..n : t[k] \in Int
    PROVE  \E s : Sums(t, n, s)
<1> DEFINE step == [k \in 1..n |-> [v \in Int |-> v + t[k]]]
           V == Int
           x == 0
<1>1. step \in [1..n -> [V -> V]] /\ x \in V
  OBVIOUS
<1>2. \A k \in 1..n, v \in Int : step[k][v] = v + t[k]
  OBVIOUS
<1> HIDE DEF step, V, x
<1>3. PICK s \in [0..n -> V] : s[0] = x /\ \A k \in 1..n : s[k] = step[k][s[k - 1]]
  BY <1>1, LoopValues
<1> USE DEF V, x
<1>4. \A k \in 1..n : s[k - 1] \in Int
  OBVIOUS
<1>5. \A k \in 1..n : s[k] = s[k - 1] + t[k]
  BY <1>2, <1>3, <1>4
<1> QED
  BY <1>3, <1>5, Zenon DEF Sums

LEMMA SumsOfZeros ==
    ASSUME NEW n \in Nat, NEW t, NEW s, Sums(t, n, s), \A k \in 1..n : t[k] = 0
    PROVE  s[n] = 0
<1> DEFINE T == {k \in 0..n : s[k] = 0}
<1>1. 0 \in T
  BY DEF Sums
<1>2. ASSUME NEW k \in 0..n - 1, k \in T PROVE k + 1 \in T
  <2>1. k + 1 \in 1..n /\ k + 1 \in 0..n /\ (k + 1) - 1 = k
    OBVIOUS
  <2>2. s[k + 1] = s[k] + t[k + 1]
    BY <2>1 DEF Sums
  <2> QED
    BY <1>2, <2>1, <2>2
<1>3. 0..n \subseteq T
  BY <1>1, <1>2, Induction
<1> QED
  BY <1>3

\* p times a term of t is a term of u and one of w.
Splits(p, t, u, w, n) == \A k \in 1..n : p * t[k] = u[k] + w[k]

LEMMA SumsAdd ==
    ASSUME NEW n \in Nat, NEW p \in Int, NEW t, NEW u, NEW w,
           NEW s, NEW r, NEW q, Sums(t, n, s), Sums(u, n, r), Sums(w, n, q),
           Splits(p, t, u, w, n)
    PROVE  p * s[n] = r[n] + q[n]
<1> DEFINE T == {k \in 0..n : p * s[k] = r[k] + q[k]}
<1>1. 0 \in T
  BY DEF Sums
<1>2. ASSUME NEW k \in 0..n - 1, k \in T PROVE k + 1 \in T
  <2>1. k + 1 \in 1..n /\ k + 1 \in 0..n /\ (k + 1) - 1 = k /\ k \in 0..n
    OBVIOUS
  <2>2. /\ s[k + 1] = s[k] + t[k + 1] /\ r[k + 1] = r[k] + u[k + 1]
        /\ q[k + 1] = q[k] + w[k + 1]
        /\ s[k] \in Int /\ r[k] \in Int /\ q[k] \in Int
    BY <2>1 DEF Sums
  <2>3. t[k + 1] \in Int /\ u[k + 1] \in Int /\ w[k + 1] \in Int
        /\ p * t[k + 1] = u[k + 1] + w[k + 1]
    BY <2>1 DEF Sums, Splits
  <2>4. p * (s[k] + t[k + 1]) = p * s[k] + p * t[k + 1]
    BY <2>2, <2>3
  <2> QED
    BY <1>2, <2>1, <2>2, <2>3, <2>4
<1>3. 0..n \subseteq T
  BY <1>1, <1>2, Induction
<1> QED
  BY <1>3

-----------------------------------------------------------------------------
(* Sums over a square, row by row. *)

Row(n, m) == 1 + ((m - 1) \div n)
Col(n, m) == 1 + ((m - 1) % n)

LEMMA RowAndCol ==
    ASSUME NEW n \in Nat, NEW m \in 1..n * n
    PROVE  Row(n, m) \in 1..n /\ Col(n, m) \in 1..n
<1> DEFINE q == (m - 1) \div n
           r == (m - 1) % n
<1>1. n # 0 /\ n * n \in Nat
  OBVIOUS
<1>2. q \in Int /\ r \in 0..n - 1 /\ m - 1 = q * n + r
  BY <1>1
<1>3. Row(n, m) = 1 + q /\ Col(n, m) = 1 + r
  BY DEF Row, Col
<1> HIDE DEF q, r
<1>4. q >= 0
  BY <1>1, <1>2
<1>5. q < n
  BY <1>1, <1>2
<1> QED
  BY <1>2, <1>3, <1>4, <1>5

LEMMA PlaceInSquare ==
    ASSUME NEW n \in Nat, NEW d \in 0..n - 1, NEW a \in 1..n
    PROVE  /\ d * n + a \in 1..n * n
           /\ Row(n, d * n + a) = d + 1 /\ Col(n, d * n + a) = a
<1> DEFINE k == d * n + a
<1>1. n \in Nat \ {0} /\ d \in Nat
  OBVIOUS
<1>2. d * n \in Nat /\ n * n \in Nat
  BY <1>1
<1>3. d * n + n = (d + 1) * n
  BY <1>1
<1>4. (d + 1) * n <= n * n
  BY <1>1
<1>5. k \in 1..n * n
  BY <1>2, <1>3, <1>4
<1>6. k - 1 = d * n + (a - 1) /\ a - 1 \in 0..n - 1
  BY <1>2
<1>7. (k - 1) \div n = d /\ (k - 1) % n = a - 1
  BY <1>1, <1>6
<1> QED
  BY <1>5, <1>7 DEF Row, Col

\* t holds the products of a term of u and one of v.
Products(t, u, v, n, N) ==
    N = n * n /\ \A m \in 1..N : t[m] = u[Row(n, m)] * v[Col(n, m)]

LEMMA SumsMultiply ==
    ASSUME NEW n \in Nat, NEW N, NEW u, NEW v, NEW t, NEW U, NEW V, NEW s,
           Sums(u, n, U), Sums(v, n, V), Sums(t, N, s), Products(t, u, v, n, N)
    PROVE  s[N] = U[n] * V[n]
<1>0. /\ U[0] = 0 /\ V[0] = 0 /\ s[0] = 0
      /\ \A k \in 0..n : U[k] \in Int /\ V[k] \in Int
      /\ \A k \in 1..n : U[k] = U[k - 1] + u[k] /\ V[k] = V[k - 1] + v[k]
      /\ \A k \in 1..n : u[k] \in Int /\ v[k] \in Int
      /\ \A m \in 0..n * n : s[m] \in Int
      /\ \A m \in 1..n * n : s[m] = s[m - 1] + t[m]
      /\ \A m \in 1..n * n : t[m] = u[Row(n, m)] * v[Col(n, m)]
      /\ N = n * n
  BY DEF Sums, Products
<1>1. ASSUME NEW d \in 0..n - 1, s[d * n] = U[d] * V[n] PROVE s[(d + 1) * n] = U[d + 1] * V[n]
  <2> DEFINE T == {a \in 0..n : s[d * n + a] = U[d] * V[n] + u[d + 1] * V[a]}
  <2>1. d \in 0..n /\ d + 1 \in 1..n /\ (d + 1) - 1 = d /\ n \in 0..n /\ 0 \in 0..n
        /\ d * n \in Int
    OBVIOUS
  <2>2. U[d] \in Int /\ V[n] \in Int /\ u[d + 1] \in Int /\ U[d] * V[n] \in Int
    BY <1>0, <2>1
  <2>3. 0 \in T
    <3>1. u[d + 1] * V[0] = 0 /\ d * n + 0 = d * n
      BY <1>0, <2>1, <2>2
    <3> QED
      BY <1>1, <2>1, <2>2, <3>1
  <2>4. ASSUME NEW a \in 0..n - 1, a \in T PROVE a + 1 \in T
    <3>1. a + 1 \in 1..n /\ a + 1 \in 0..n /\ (a + 1) - 1 = a /\ a \in 0..n
          /\ (d * n + (a + 1)) - 1 = d * n + a
      BY <2>1
    <3>2. /\ d * n + (a + 1) \in 1..n * n
          /\ Row(n, d * n + (a + 1)) = d + 1 /\ Col(n, d * n + (a + 1)) = a + 1
      BY <3>1, PlaceInSquare
    <3>3. s[d * n + (a + 1)] = s[d * n + a] + u[d + 1] * v[a + 1]
      BY <1>0, <3>1, <3>2
    <3>4. V[a + 1] = V[a] + v[a + 1] /\ V[a] \in Int /\ v[a + 1] \in Int
      BY <1>0, <3>1
    <3>5. u[d + 1] * V[a + 1] = u[d + 1] * V[a] + u[d + 1] * v[a + 1]
      BY <2>2, <3>4
    <3>6. u[d + 1] * V[a] \in Int /\ u[d + 1] * v[a + 1] \in Int
      BY <2>2, <3>4
    <3>7. s[d * n + a] = U[d] * V[n] + u[d + 1] * V[a]
      BY <2>4
    <3>8. s[d * n + (a + 1)] = U[d] * V[n] + u[d + 1] * V[a + 1]
      BY <2>2, <3>3, <3>5, <3>6, <3>7
    <3> QED
      BY <3>1, <3>8
  <2>5. 0..n \subseteq T
    BY <2>3, <2>4, Induction
  <2>6. s[d * n + n] = U[d] * V[n] + u[d + 1] * V[n]
    BY <2>1, <2>5
  <2>7. d * n + n = (d + 1) * n
    OBVIOUS
  <2>8. U[d + 1] = U[d] + u[d + 1]
    BY <1>0, <2>1
  <2>9. (U[d] + u[d + 1]) * V[n] = U[d] * V[n] + u[d + 1] * V[n]
    BY <2>2
  <2> QED
    BY <2>6, <2>7, <2>8, <2>9
<1> DEFINE D == {d \in 0..n : s[d * n] = U[d] * V[n]}
<1>2. 0 \in D
  <2>1. 0 * n = 0 /\ 0 * V[n] = 0 /\ 0 \in 0..n
    BY <1>0
  <2> QED
    BY <1>0, <2>1
<1>3. ASSUME NEW d \in 0..n - 1, d \in D PROVE d + 1 \in D
  <2>1. d + 1 \in 0..n
    OBVIOUS
  <2> QED
    BY <1>1, <1>3, <2>1
<1>4. 0..n \subseteq D
  BY <1>2, <1>3, Induction
<1> QED
  <2>1. n \in D /\ N = n * n
    BY <1>0, <1>4
  <2> QED
    BY <2>1

-----------------------------------------------------------------------------
(* A symmetric matrix whose pivots are positive gives no negative form, and   *)
(* one that is nearly symmetric none that is far below zero.                  *)

Matrix(n) == [1..n -> [1..n -> Int]]

IsSymmetric(R, n) == \A d, a \in 1..n : R[d][a] = R[a][d]

\* What is left of R once row and column k are eliminated.
Eliminate(R, k, n) ==
    [d \in 1..n |-> [a \in 1..n |-> R[d][a] * R[k][k] - R[d][k] * R[k][a]]]

\* The terms of the quadratic form of R at x.
FormOf(R, x, n) ==
    [m \in 1..n * n |-> (x[Row(n, m)] * R[Row(n, m)][Col(n, m)]) * x[Col(n, m)]]

LEMMA FormType ==
    ASSUME NEW n \in Nat, NEW R \in Matrix(n), NEW x \in [1..n -> Int]
    PROVE  \A m \in 1..n * n : FormOf(R, x, n)[m] \in Int
<1>1. \A d, a \in 1..n : R[d][a] \in Int /\ x[d] \in Int /\ x[a] \in Int
  BY DEF Matrix
<1>2. ASSUME NEW m \in 1..n * n PROVE FormOf(R, x, n)[m] \in Int
  <2> DEFINE d == Row(n, m)
             a == Col(n, m)
  <2>1. R[d][a] \in Int /\ x[d] \in Int /\ x[a] \in Int
    BY <1>1, RowAndCol
  <2>2. FormOf(R, x, n)[m] = (x[d] * R[d][a]) * x[a]
    BY DEF FormOf
  <2> HIDE DEF d, a
  <2> QED
    BY <2>1, <2>2
<1> QED
  BY <1>2

\* Elimination leaves a symmetric matrix, whose row k is zero, as are the rows
\* that were zero before.
LEMMA EliminateIs ==
    ASSUME NEW n \in Nat, NEW k \in 1..n, NEW R \in Matrix(n), IsSymmetric(R, n),
           \A d, a \in 1..n : d < k => R[d][a] = 0
    PROVE  /\ Eliminate(R, k, n) \in Matrix(n) /\ IsSymmetric(Eliminate(R, k, n), n)
           /\ \A d, a \in 1..n : d < k + 1 => Eliminate(R, k, n)[d][a] = 0
<1> DEFINE E == Eliminate(R, k, n)
<1>1. \A d, a \in 1..n : R[d][a] \in Int
  BY DEF Matrix
<1>2. \A d, a \in 1..n : E[d][a] = R[d][a] * R[k][k] - R[d][k] * R[k][a]
  BY DEF Eliminate
<1>3. E \in Matrix(n)
  <2>1. \A d, a \in 1..n : R[d][a] * R[k][k] - R[d][k] * R[k][a] \in Int
    BY <1>1
  <2> QED
    BY <2>1 DEF Eliminate, Matrix
<1> HIDE DEF E
<1>4. ASSUME NEW d \in 1..n, NEW a \in 1..n PROVE E[d][a] = E[a][d]
  <2>1. R[d][a] = R[a][d] /\ R[d][k] = R[k][d] /\ R[k][a] = R[a][k]
    BY DEF IsSymmetric
  <2>2. R[k][d] \in Int /\ R[a][k] \in Int
    BY <1>1
  <2>3. R[k][d] * R[a][k] = R[a][k] * R[k][d]
    BY <2>2
  <2> QED
    BY <1>2, <2>1, <2>3
<1>5. ASSUME NEW d \in 1..n, NEW a \in 1..n, d < k + 1 PROVE E[d][a] = 0
  <2>1. R[d][a] \in Int /\ R[k][k] \in Int /\ R[d][k] \in Int /\ R[k][a] \in Int
    BY <1>1
  <2>2. CASE d < k
    <3>1. R[d][a] = 0 /\ R[d][k] = 0
      BY <2>2
    <3>2. 0 * R[k][k] - 0 * R[k][a] = 0
      BY <2>1
    <3> QED
      BY <1>2, <3>1, <3>2
  <2>3. CASE d = k
    <3>1. R[k][a] * R[k][k] = R[k][k] * R[k][a] /\ R[k][k] * R[k][a] \in Int
      BY <2>1
    <3> QED
      BY <1>2, <2>3, <3>1
  <2> QED
    BY <1>5, <2>2, <2>3
<1> QED
  BY <1>3, <1>4, <1>5 DEF E, IsSymmetric

\* Completing the square.
Completes(b, c, e, p, y, z) ==
    p * ((y * b) * z) = (y * (b * p - c * e)) * z + (c * y) * (e * z)

LEMMA Completing ==
    ASSUME NEW b \in Int, NEW c \in Int, NEW e \in Int, NEW p \in Int,
           NEW y \in Int, NEW z \in Int
    PROVE  Completes(b, c, e, p, y, z)
<1>1. y * (b * p - c * e) = y * (b * p) - y * (c * e)
  OBVIOUS
<1>2. (y * (b * p) - y * (c * e)) * z = (y * (b * p)) * z - (y * (c * e)) * z
  OBVIOUS
<1>3. (y * (b * p)) * z = p * ((y * b) * z)
  OBVIOUS
<1>4. (y * (c * e)) * z = (c * y) * (e * z)
  OBVIOUS
<1>5. p * ((y * b) * z) \in Int /\ (c * y) * (e * z) \in Int
  OBVIOUS
<1> QED
  BY <1>1, <1>2, <1>3, <1>4, <1>5 DEF Completes

\* If what is left has no negative form, neither had the matrix before.
LEMMA FormBefore ==
    ASSUME NEW n \in Nat, NEW k \in 1..n, NEW R \in Matrix(n), IsSymmetric(R, n),
           Eliminate(R, k, n) \in Matrix(n), R[k][k] > 0, NEW x \in [1..n -> Int],
           NEW s, Sums(FormOf(R, x, n), n * n, s),
           NEW r, Sums(FormOf(Eliminate(R, k, n), x, n), n * n, r), r[n * n] >= 0
    PROVE  s[n * n] >= 0
<1> DEFINE p == R[k][k]
           v == [a \in 1..n |-> R[k][a] * x[a]]
           w == [m \in 1..n * n |-> v[Row(n, m)] * v[Col(n, m)]]
           t == FormOf(R, x, n)
           u == FormOf(Eliminate(R, k, n), x, n)
           N == n * n
<1>0. N \in Nat
  OBVIOUS
<1>1. \A d, a \in 1..n : R[d][a] \in Int /\ x[a] \in Int
  BY DEF Matrix
<1>2. p \in Int /\ \A a \in 1..n : v[a] \in Int /\ v[a] = R[k][a] * x[a]
  BY <1>1
<1>3. PICK V : Sums(v, n, V)
  BY <1>2, SumsExist
<1>4. \A m \in 1..N : w[m] = v[Row(n, m)] * v[Col(n, m)]
  OBVIOUS
<1> HIDE DEF v, w
<1>5. ASSUME NEW m \in 1..N PROVE w[m] \in Int
  <2> DEFINE d == Row(n, m)
             a == Col(n, m)
  <2>1. d \in 1..n /\ a \in 1..n
    BY RowAndCol
  <2>2. w[m] = v[d] * v[a]
    BY <1>4
  <2> HIDE DEF d, a
  <2>3. v[d] \in Int /\ v[a] \in Int
    BY <1>2, <2>1
  <2> QED
    BY <2>2, <2>3
<1>6. PICK q : Sums(w, N, q)
  BY <1>0, <1>5, SumsExist
<1>7. q[N] = V[n] * V[n]
  <2>1. Products(w, v, v, n, N)
    BY <1>4 DEF Products
  <2> HIDE DEF N
  <2> QED
    BY <2>1, <1>3, <1>6, SumsMultiply
<1>8. ASSUME NEW m \in 1..N PROVE p * t[m] = u[m] + w[m]
  <2> DEFINE d == Row(n, m)
             a == Col(n, m)
  <2>1. d \in 1..n /\ a \in 1..n
    BY RowAndCol
  <2>2. t[m] = (x[d] * R[d][a]) * x[a] /\ w[m] = v[d] * v[a]
    BY <1>4 DEF FormOf
  <2>3. u[m] = (x[d] * Eliminate(R, k, n)[d][a]) * x[a]
    BY DEF FormOf
  <2> HIDE DEF d, a
  <2>4. Eliminate(R, k, n)[d][a] = R[d][a] * p - R[k][d] * R[k][a]
    BY <2>1 DEF Eliminate, IsSymmetric
  <2>5. v[d] = R[k][d] * x[d] /\ v[a] = R[k][a] * x[a]
    BY <1>2, <2>1
  <2>6. /\ R[d][a] \in Int /\ R[k][d] \in Int /\ R[k][a] \in Int
        /\ x[d] \in Int /\ x[a] \in Int
    BY <1>1, <2>1
  <2> HIDE DEF p
  <2>7. Completes(R[d][a], R[k][d], R[k][a], p, x[d], x[a])
    BY <1>2, <2>6, Completing
  <2> QED
    BY <2>2, <2>3, <2>4, <2>5, <2>7 DEF Completes
<1>10. Sums(t, N, s) /\ Sums(u, N, r) /\ r[N] >= 0
  OBVIOUS
<1>11. p > 0
  OBVIOUS
<1> HIDE DEF p, t, u, N
<1>12. p * s[N] = r[N] + q[N]
  <2>1. Splits(p, t, u, w, N)
    BY <1>8 DEF Splits
  <2> QED
    BY <1>0, <1>2, <1>6, <1>10, <2>1, SumsAdd
<1>13. /\ s[N] \in Int /\ r[N] \in Int /\ V[n] \in Int
  BY <1>0, <1>3, <1>10 DEF Sums
<1>14. V[n] * V[n] >= 0 /\ V[n] * V[n] \in Int
  BY <1>13
<1>15. p * s[N] >= 0
  BY <1>7, <1>10, <1>12, <1>13, <1>14
<1>16. s[N] >= 0
  BY <1>2, <1>11, <1>13, <1>15
<1> QED
  BY <1>16 DEF N

LEMMA EntryType ==
    ASSUME NEW n, NEW R \in Matrix(n), NEW d \in 1..n, NEW e \in 1..n
    PROVE  R[d][e] \in Int
BY DEF Matrix

LEMMA EliminateType ==
    ASSUME NEW n, NEW k \in 1..n, NEW R \in Matrix(n)
    PROVE  Eliminate(R, k, n) \in Matrix(n)
<1>1. \A d, e \in 1..n : R[d][e] \in Int
  BY EntryType
<1>2. \A d, e \in 1..n : R[d][e] * R[k][k] - R[d][k] * R[k][e] \in Int
  BY <1>1
<1> QED
  BY <1>2 DEF Eliminate, Matrix

\* Elimination as PositivePivots has it, which keeps to the lower triangle.
Reduce(R, k, n) ==
    [d \in 1..n |-> [a \in 1..n |-> R[d][a] * R[k][k] - R[d][k] * R[a][k]]]

\* The matrices that PositivePivots goes through; their pivots are positive.
LEMMA PivotsAre ==
    ASSUME NEW a, Len(a) \in Nat, a \in Matrix(Len(a)), PositivePivots(a)
    PROVE  \E rest : /\ rest \in [0..Len(a) -> Matrix(Len(a))] /\ rest[0] = a
                     /\ \A k \in 1..Len(a) : rest[k] = Reduce(rest[k - 1], k, Len(a))
                     /\ \A k \in 1..Len(a) : rest[k - 1][k][k] > 0
<1> DEFINE n == Len(a)
           M == Matrix(n)
           T == ToleranceInverse
           step == [k \in 1..n |-> [R \in Matrix(n) |-> Reduce(R, k, n)]]
           Is(rest) == rest = [k \in 0..n |->
                                 IF k = 0 THEN a
                                 ELSE [i_1 \in 1..n |-> [j \in 1..n |->
                                     rest[k - 1][i_1][j] * rest[k - 1][k][k]
                                     - rest[k - 1][i_1][k] * rest[k - 1][j][k]]]]
<1>1. ASSUME NEW k \in 1..n, NEW R \in Matrix(n) PROVE Reduce(R, k, n) \in Matrix(n)
  <2>1. \A d, e \in 1..n : R[d][e] \in Int
    BY DEF Matrix
  <2>2. \A d, e \in 1..n : R[d][e] * R[k][k] - R[d][k] * R[e][k] \in Int
    BY <2>1
  <2> QED
    BY <2>2 DEF Reduce, Matrix
<1>2. step \in [1..n -> [M -> M]] /\ a \in M /\ n \in Nat
  BY <1>1
<1>3. \A k \in 1..n, R \in Matrix(n) : step[k][R] = Reduce(R, k, n)
  OBVIOUS
<1> HIDE DEF step, M, n
<1>4. PICK s \in [0..n -> M] : s[0] = a /\ \A k \in 1..n : s[k] = step[k][s[k - 1]]
  BY <1>2, LoopValues
<1> USE DEF M
<1>5. \A k \in 1..n : s[k] = Reduce(s[k - 1], k, n)
  <2>1. \A k \in 1..n : k - 1 \in 0..n
    BY <1>2
  <2>2. \A k \in 1..n : s[k - 1] \in M
    BY <2>1
  <2> QED
    BY <1>3, <1>4, <2>2
<1>6. Is(s)
  <2>1. \A k \in 0..n : s[k] = IF k = 0 THEN a ELSE Reduce(s[k - 1], k, n)
    BY <1>4, <1>5
  <2>2. s = [k \in 0..n |-> IF k = 0 THEN a ELSE Reduce(s[k - 1], k, n)]
    BY <1>4, <2>1
  <2> QED
    BY <2>2 DEF Reduce
<1> DEFINE rest == CHOOSE rest : Is(rest)
           IsScale(c) == c = [k \in 0..n |-> IF k = 0 THEN 1 ELSE c[k - 1] * rest[k - 1][k][k]]
           scale == CHOOSE c : IsScale(c)
<1>8. \A k \in 1..n : rest[k - 1][k][k] * T > scale[k - 1]
  BY DEF PositivePivots, n
<1> HIDE DEF Is, IsScale, scale
<1>7. Is(rest)
  BY <1>6, Zenon
<1> USE DEF Is
<1> HIDE DEF rest
<1>9. /\ rest[0] = a /\ \A k \in 1..n : rest[k] = Reduce(rest[k - 1], k, n)
      /\ rest = [k \in 0..n |-> rest[k]]
  <2>1. rest = [k \in 0..n |-> IF k = 0 THEN a ELSE Reduce(rest[k - 1], k, n)]
    BY <1>7 DEF Reduce
  <2> HIDE DEF Is
  <2>2. \A k \in 0..n : rest[k] = IF k = 0 THEN a ELSE Reduce(rest[k - 1], k, n)
    BY <2>1
  <2>3. 0 \in 0..n /\ \A k \in 1..n : k \in 0..n /\ k # 0
    BY <1>2
  <2>4. rest = [k \in 0..n |-> rest[k]]
    BY <2>1
  <2> QED
    BY <2>2, <2>3, <2>4
<1> HIDE DEF Is
<1> DEFINE G == {k \in 0..n : rest[k] \in Matrix(n)}
<1>10. \A k \in 0..n : rest[k] \in Matrix(n)
  <2>1. 0 \in G
    BY <1>2, <1>9
  <2>2. ASSUME NEW k \in 0..n - 1, k \in G PROVE k + 1 \in G
    <3>1. k + 1 \in 1..n /\ k + 1 \in 0..n /\ (k + 1) - 1 = k
      BY <1>2
    <3>2. rest[k + 1] = Reduce(rest[k], k + 1, n)
      BY <1>9, <3>1
    <3> QED
      BY <1>1, <2>2, <3>1, <3>2
  <2>3. 0..n \subseteq G
    BY <1>2, <2>1, <2>2, Induction
  <2> QED
    BY <2>3
<1> DEFINE pivot == [k \in 1..n |-> rest[k - 1][k][k]]
<1>11. \A k \in 1..n : pivot[k] \in Int /\ pivot[k] = rest[k - 1][k][k]
  <2>1. \A k \in 1..n : k - 1 \in 0..n
    BY <1>2
  <2>2. \A k \in 1..n : rest[k - 1] \in Matrix(n)
    BY <1>10, <2>1
  <2>3. \A k \in 1..n : rest[k - 1][k][k] \in Int
    BY <2>2, EntryType
  <2> QED
    BY <2>3
<1>12. \A k \in 1..n : scale[k - 1] \in Int /\ scale[k - 1] > 0
  <2> DEFINE V == Int
             x == 1
             times == [k \in 1..n |-> [v \in Int |-> v * pivot[k]]]
  <2>1. times \in [1..n -> [V -> V]] /\ x \in V /\ n \in Nat
    BY <1>2, <1>11
  <2>2. \A k \in 1..n, v \in Int : times[k][v] = v * pivot[k]
    OBVIOUS
  <2> HIDE DEF times, V, x, pivot, scale, rest
  <2>3. PICK c \in [0..n -> V] : c[0] = x /\ \A k \in 1..n : c[k] = times[k][c[k - 1]]
    BY ONLY <2>1, LoopValues
  <2> USE DEF V, x
  <2>4. \A k \in 1..n : c[k] = c[k - 1] * pivot[k]
    <3>1. \A k \in 1..n : c[k - 1] \in Int
      BY <1>2
    <3> QED
      BY <2>2, <2>3, <3>1
  <2>5. IsScale(c)
    <3>1. \A k \in 0..n : k # 0 => k \in 1..n
      BY <1>2
    <3>2. \A k \in 0..n : c[k] = IF k = 0 THEN 1 ELSE c[k - 1] * rest[k - 1][k][k]
      BY <1>11, <2>3, <2>4, <3>1
    <3> QED
      BY <2>3, <3>2 DEF IsScale
  <2>6. IsScale(scale)
    BY <2>5, Zenon DEF scale
  <2>7. /\ scale[0] = 1
        /\ \A k \in 1..n : scale[k] = scale[k - 1] * pivot[k]
    <3>1. \A k \in 0..n : scale[k] = IF k = 0 THEN 1 ELSE scale[k - 1] * rest[k - 1][k][k]
      BY <2>6 DEF IsScale
    <3>2. 0 \in 0..n /\ \A k \in 1..n : k \in 0..n /\ k # 0
      BY <1>2
    <3> QED
      BY <1>11, <3>1, <3>2
  <2> DEFINE Good == {k \in 0..n : scale[k] \in Int /\ scale[k] > 0}
  <2>8. 0 \in Good
    BY <1>2, <2>7
  <2>9. ASSUME NEW k \in 0..n - 1, k \in Good PROVE k + 1 \in Good
    <3>1. k + 1 \in 1..n /\ k + 1 \in 0..n /\ (k + 1) - 1 = k
      BY <1>2
    <3>2. pivot[k + 1] \in Int /\ pivot[k + 1] * T > scale[k] /\ T \in Nat \ {0}
      BY <1>8, <1>11, <3>1, ValidationAssumption
    <3>3. scale[k + 1] = scale[k] * pivot[k + 1]
      BY <2>7, <3>1
    <3>4. pivot[k + 1] > 0
      BY <2>9, <3>2
    <3> QED
      BY <2>9, <3>1, <3>2, <3>3, <3>4
  <2>10. 0..n \subseteq Good
    BY <1>2, <2>8, <2>9, Induction
  <2>11. \A k \in 1..n : k - 1 \in 0..n
    BY <1>2
  <2> QED
    BY <2>10, <2>11
<1>13. \A k \in 1..n : rest[k - 1][k][k] > 0
  <2>1. ASSUME NEW k \in 1..n PROVE pivot[k] > 0
    <3>1. pivot[k] * T > scale[k - 1] /\ pivot[k] \in Int /\ T \in Nat \ {0}
      BY <1>8, <1>11, ValidationAssumption
    <3> QED
      BY <1>12, <3>1
  <2> QED
    BY <1>11, <2>1
<1>14. rest \in [0..n -> Matrix(n)]
  BY <1>9, <1>10
<1> QED
  BY <1>9, <1>13, <1>14 DEF n

LEMMA EliminationRuns ==
    ASSUME NEW n \in Nat, NEW b \in Matrix(n)
    PROVE  \E s : /\ s \in [0..n -> Matrix(n)] /\ s[0] = b
                  /\ \A k \in 1..n : s[k] = Eliminate(s[k - 1], k, n)
<1> DEFINE V == Matrix(n)
           x == b
           step == [k \in 1..n |-> [R \in V |-> Eliminate(R, k, n)]]
<1>1. step \in [1..n -> [V -> V]] /\ x \in V
  BY EliminateType
<1>2. \A k \in 1..n, R \in V : step[k][R] = Eliminate(R, k, n)
  OBVIOUS
<1> HIDE DEF step, V, x
<1>3. PICK s \in [0..n -> V] : s[0] = x /\ \A k \in 1..n : s[k] = step[k][s[k - 1]]
  BY <1>1, LoopValues
<1>4. \A k \in 1..n : s[k - 1] \in V
  OBVIOUS
<1>5. \A k \in 1..n : s[k] = Eliminate(s[k - 1], k, n)
  BY <1>2, <1>3, <1>4
<1> QED
  BY <1>3, <1>5 DEF V, x

\* The same matrices with the lower triangle reflected.
LEMMA PivotsReflected ==
    ASSUME NEW a, NEW n \in Nat, n = Len(a), a \in Matrix(n), PositivePivots(a),
           NEW b \in Matrix(n), IsSymmetric(b, n),
           \A d, e \in 1..n : e <= d => b[d][e] = a[d][e]
    PROVE  \E rest : /\ rest[0] = b
                     /\ \A k \in 1..n : rest[k] = Eliminate(rest[k - 1], k, n)
                     /\ \A k \in 1..n : rest[k - 1][k][k] > 0
<1>1. PICK r : /\ r \in [0..n -> Matrix(n)] /\ r[0] = a
               /\ \A k \in 1..n : r[k] = Reduce(r[k - 1], k, n)
               /\ \A k \in 1..n : r[k - 1][k][k] > 0
  BY PivotsAre
<1>2. PICK s : /\ s \in [0..n -> Matrix(n)] /\ s[0] = b
               /\ \A k \in 1..n : s[k] = Eliminate(s[k - 1], k, n)
  BY EliminationRuns
<1>3. \A k \in 1..n : s[k] = Eliminate(s[k - 1], k, n)
  BY <1>2
<1> DEFINE Agree(k) == /\ IsSymmetric(s[k], n)
                       /\ \A d, e \in 1..n : k < e /\ e <= d => s[k][d][e] = r[k][d][e]
           G == {k \in 0..n : Agree(k)}
<1>4. 0 \in G
  BY <1>1, <1>2
<1>5. ASSUME NEW k \in 0..n - 1, k \in G PROVE k + 1 \in G
  <2> DEFINE R == r[k]
             Q == s[k]
             p == k + 1
  <2>1. p \in 1..n /\ p \in 0..n /\ p - 1 = k /\ k < p /\ k \in 0..n
    OBVIOUS
  <2>2. s[p] = Eliminate(Q, p, n) /\ r[p] = Reduce(R, p, n)
    BY <1>1, <1>3, <2>1
  <2>3. /\ \A d, e \in 1..n : Q[d][e] = Q[e][d]
        /\ \A d, e \in 1..n : k < e /\ e <= d => Q[d][e] = R[d][e]
    BY <1>5 DEF IsSymmetric
  <2>4. Q \in Matrix(n) /\ \A d, e \in 1..n : Q[d][e] \in Int
    <3>1. Q \in Matrix(n)
      BY <1>2, <2>1
    <3> HIDE DEF Q
    <3> QED
      BY <3>1, EntryType
  <2> HIDE DEF R, Q, p, G, Agree
  <2>5. IsSymmetric(s[p], n)
    <3>1. \A d, e \in 1..n : s[p][d][e] = Q[d][e] * Q[p][p] - Q[d][p] * Q[p][e]
      BY <2>2 DEF Eliminate
    <3>2. ASSUME NEW d \in 1..n, NEW e \in 1..n PROVE s[p][d][e] = s[p][e][d]
      <4>1. Q[d][p] * Q[p][e] = Q[e][p] * Q[p][d]
        <5>1. Q[d][p] = Q[p][d] /\ Q[e][p] = Q[p][e]
          BY <2>1, <2>3
        <5>2. Q[p][d] \in Int /\ Q[p][e] \in Int
          BY <2>1, <2>4
        <5> QED
          BY <5>1, <5>2
      <4>2. Q[d][e] = Q[e][d]
        BY <2>3
      <4> QED
        BY <3>1, <4>1, <4>2
    <3> QED
      BY <3>2 DEF IsSymmetric
  <2>6. ASSUME NEW d \in 1..n, NEW e \in 1..n, p < e, e <= d PROVE s[p][d][e] = r[p][d][e]
    <3>1. k < e /\ k < p /\ p <= d /\ p <= e
      BY <2>6 DEF p
    <3>2. /\ Q[d][e] = R[d][e] /\ Q[p][p] = R[p][p] /\ Q[d][p] = R[d][p]
          /\ Q[p][e] = R[e][p]
      <4>1. p <= p
        BY <2>1
      <4> QED
        BY <2>1, <2>3, <2>6, <3>1, <4>1
    <3>3. s[p][d][e] = Q[d][e] * Q[p][p] - Q[d][p] * Q[p][e]
      BY <2>2 DEF Eliminate
    <3>4. r[p][d][e] = R[d][e] * R[p][p] - R[d][p] * R[e][p]
      BY <2>2 DEF Reduce
    <3> QED
      BY <3>2, <3>3, <3>4
  <2> QED
    BY <2>1, <2>5, <2>6 DEF G, Agree, p
<1>6. 0..n \subseteq G
  BY <1>4, <1>5, Induction
<1>7. ASSUME NEW k \in 1..n PROVE s[k - 1][k][k] > 0
  <2>1. k - 1 \in 0..n /\ k - 1 < k /\ k <= k
    OBVIOUS
  <2>2. Agree(k - 1)
    BY <1>6, <2>1
  <2>3. s[k - 1][k][k] = r[k - 1][k][k]
    BY <2>1, <2>2
  <2> QED
    BY <1>1, <2>3
<1> QED
  BY <1>2, <1>3, <1>7

\* A quadratic form whose pivots are positive is not negative.
LEMMA FormNotNegative ==
    ASSUME NEW a, NEW n \in Nat, a \in Matrix(n), IsSymmetric(a, n), NEW rest,
           rest[0] = a, \A k \in 1..n : rest[k] = Eliminate(rest[k - 1], k, n),
           \A k \in 1..n : rest[k - 1][k][k] > 0, NEW x \in [1..n -> Int],
           NEW s, Sums(FormOf(a, x, n), n * n, s)
    PROVE  s[n * n] >= 0
<1>1. /\ rest[0] = a
      /\ \A k \in 1..n : rest[k] = Eliminate(rest[k - 1], k, n)
      /\ \A k \in 1..n : rest[k - 1][k][k] > 0
  OBVIOUS
<1> DEFINE Fits(k) == /\ rest[k] \in Matrix(n) /\ IsSymmetric(rest[k], n)
                      /\ \A d, e \in 1..n : d < k + 1 => rest[k][d][e] = 0
           G == {k \in 0..n : Fits(k)}
<1>2. 0 \in G
  BY <1>1
<1>3. ASSUME NEW k \in 0..n - 1, k \in G PROVE k + 1 \in G
  <2>1. k + 1 \in 1..n /\ k + 1 \in 0..n /\ (k + 1) - 1 = k
    OBVIOUS
  <2>2. rest[k + 1] = Eliminate(rest[k], k + 1, n)
    BY <1>1, <2>1
  <2>3. Fits(k)
    BY <1>3
  <2>4. ASSUME NEW R, R = rest[k] PROVE Fits(k + 1)
    <3>1. R \in Matrix(n) /\ IsSymmetric(R, n)
      BY <2>3, <2>4
    <3>2. \A d, e \in 1..n : d < k + 1 => R[d][e] = 0
      BY <2>3, <2>4
    <3>3. rest[k + 1] = Eliminate(R, k + 1, n)
      BY <2>2, <2>4
    <3> HIDE DEF Fits, G
    <3>4. /\ Eliminate(R, k + 1, n) \in Matrix(n)
          /\ IsSymmetric(Eliminate(R, k + 1, n), n)
          /\ \A d, e \in 1..n : d < (k + 1) + 1 => Eliminate(R, k + 1, n)[d][e] = 0
      BY <2>1, <3>1, <3>2, EliminateIs
    <3> QED
      BY <3>3, <3>4 DEF Fits
  <2> QED
    BY <2>1, <2>4
<1>4. \A k \in 0..n : Fits(k)
  <2>1. 0..n \subseteq G
    BY <1>2, <1>3, Induction
  <2> QED
    BY <2>1
<1> DEFINE NotNegative(k) == \A r : Sums(FormOf(rest[k], x, n), n * n, r) => r[n * n] >= 0
           T == {k \in 0..n : NotNegative(k)}
<1>5. n \in T
  <2>1. \A d, e \in 1..n : rest[n][d][e] = 0
    BY <1>4
  <2>2. ASSUME NEW m \in 1..n * n PROVE FormOf(rest[n], x, n)[m] = 0
    <3>1. rest[n][Row(n, m)][Col(n, m)] = 0 /\ x[Row(n, m)] \in Int /\ x[Col(n, m)] \in Int
      BY <2>1, RowAndCol
    <3>2. FormOf(rest[n], x, n)[m] =
             (x[Row(n, m)] * rest[n][Row(n, m)][Col(n, m)]) * x[Col(n, m)]
      BY DEF FormOf
    <3>3. (x[Row(n, m)] * 0) * x[Col(n, m)] = 0
      BY <3>1
    <3> QED
      BY <3>1, <3>2, <3>3
  <2>3. n * n \in Nat
    OBVIOUS
  <2>4. NotNegative(n)
    BY <2>2, <2>3, SumsOfZeros
  <2>5. n \in 0..n
    OBVIOUS
  <2> QED
    BY <2>4, <2>5
<1>6. ASSUME NEW k \in 1..n, k \in T PROVE k - 1 \in T
  <2>1. k - 1 \in 0..n /\ k \in 0..n
    OBVIOUS
  <2>2. rest[k] = Eliminate(rest[k - 1], k, n) /\ rest[k - 1][k][k] > 0
    BY <1>1
  <2>3. Fits(k - 1) /\ Fits(k) /\ NotNegative(k)
    BY <1>4, <1>6, <2>1
  <2>4. n * n \in Nat
    OBVIOUS
  <2>5. PICK r : Sums(FormOf(rest[k], x, n), n * n, r)
    BY <2>3, <2>4, FormType, SumsExist
  <2>6. r[n * n] >= 0
    BY <2>3, <2>5
  <2>7. NotNegative(k - 1)
    BY <2>2, <2>3, <2>5, <2>6, FormBefore
  <2> QED
    BY <2>1, <2>7
<1>7. 0 \in T
  <2>1. 0..n \subseteq T
    BY <1>5, <1>6, Descent
  <2> QED
    BY <2>1
<1> QED
  BY <1>1, <1>7


-----------------------------------------------------------------------------
(* What validation and the score have to do with it.                         *)

LEMMA MagnitudeIs ==
    ASSUME NEW u \in Int, NEW v \in Int
    PROVE  Magnitude(u, v) \in Int
<1> DEFINE Is(m) == 1 <= m /\ Absolute(u) <= m /\ Absolute(v) <= m
           Sizes == {1, Absolute(u), Absolute(v)}
<1>1. Absolute(u) \in Int /\ Absolute(v) \in Int
  BY DEF Absolute
<1>2. \E m \in Sizes : Is(m)
  BY <1>1
<1>3. Magnitude(u, v) \in Sizes
  BY <1>2 DEF Magnitude
<1> QED
  BY <1>1, <1>3

\* A matrix that passes is square, of finite entries and symmetric to the tolerance.
LEMMA SymmetricIs ==
    ASSUME NEW a, Len(a) \in Nat, Symmetric(a) = "passed",
           NEW d \in 1..Len(a), NEW e \in 1..Len(a)
    PROVE  /\ Len(a[d]) = Len(a) /\ IsFinite(a[d][e])
           /\ IsFinite(a[e][d]) =>
                 ~(Absolute(a[d][e] - a[e][d]) * ToleranceInverse
                     > Magnitude(a[d][e], a[e][d]))
<1> DEFINE n == Len(a)
           N == n * n
           cell(m) == Cell(a, 1 + ((m - 1) \div n), 1 + ((m - 1) % n))
           bad(k) == cell(k) # "passed"
           stop == CHOOSE k \in 1..N + 1 : (k <= N => bad(k)) /\ \A j \in 1..k - 1 : ~bad(j)
           T == {k \in 1..N : bad(k)}
<1>1. N \in Nat
  OBVIOUS
<1>2. Symmetric(a) = IF n = 0 THEN "refused" ELSE IF stop > N THEN "passed" ELSE cell(stop)
  BY DEF Symmetric, FirstBad
<1>3. \E k \in 1..N + 1 : (k <= N => k \in T) /\ \A j \in 1..k - 1 : j \notin T
  BY <1>1, FirstOf
<1>4. \A j \in 1..N : cell(j) = Cell(a, Row(n, j), Col(n, j))
  BY DEF Row, Col
<1> HIDE DEF cell, N
<1>5. \E k \in 1..N + 1 : (k <= N => bad(k)) /\ \A j \in 1..k - 1 : ~bad(j)
  BY <1>1, <1>3
<1>6. /\ stop \in 1..N + 1 /\ (stop <= N => bad(stop))
      /\ \A j \in 1..stop - 1 : ~bad(j)
  BY <1>5
<1> HIDE DEF stop
<1>7. stop > N
  BY <1>1, <1>2, <1>6
<1>8. \A j \in 1..N : cell(j) = "passed"
  BY <1>1, <1>6, <1>7
<1> DEFINE m == (d - 1) * n + e
<1>9. m \in 1..N /\ Row(n, m) = d /\ Col(n, m) = e
  <2>1. d - 1 \in 0..n - 1 /\ (d - 1) + 1 = d
    OBVIOUS
  <2> QED
    BY <2>1, PlaceInSquare DEF N
<1> HIDE DEF m
<1>10. Cell(a, d, e) = "passed"
  BY <1>4, <1>8, <1>9
<1> QED
  BY <1>10 DEF Cell

\* The infinities and NaN are not finite.
LEMMA NotFinite ==
    /\ NaN \in Int /\ ~IsFinite(NaN)
    /\ \A positive : Infinity(positive) \in Int /\ ~IsFinite(Infinity(positive))
BY ValuesAssumption DEF NaN, Infinity, PosInf, NegInf, IsFinite

LEMMA RoundIs ==
    ASSUME NEW x
    PROVE  Round(x) \in Int /\ (IsFinite(Round(x)) => IsFinite(x) /\ Round(x) = x)
<1>1. IsFinite(x) => x \in Int
  BY ValuesAssumption DEF IsFinite
<1> QED
  BY <1>1, NotFinite DEF Round

LEMMA PlusIs ==
    ASSUME NEW x, NEW y
    PROVE  /\ Plus(x, y) \in Int
           /\ IsFinite(Plus(x, y)) => IsFinite(x) /\ IsFinite(y) /\ Plus(x, y) = x + y
<1>1. CASE IsFinite(x) /\ IsFinite(y)
  <2>1. Plus(x, y) = Round(x + y)
    BY <1>1 DEF Plus
  <2> QED
    BY <1>1, <2>1, RoundIs
<1>2. CASE ~(IsFinite(x) /\ IsFinite(y))
  <2>1. Plus(x, y) = NaN \/ \E positive : Plus(x, y) = Infinity(positive)
    BY <1>2 DEF Plus
  <2> QED
    BY <2>1, NotFinite
<1> QED
  BY <1>1, <1>2

LEMMA TimesIs ==
    ASSUME NEW x, NEW y
    PROVE  IsFinite(Times(x, y)) => IsFinite(x) /\ IsFinite(y) /\ Times(x, y) = x * y
<1>1. CASE IsFinite(x) /\ IsFinite(y)
  <2>1. Times(x, y) = Round(x * y)
    BY <1>1 DEF Times
  <2> QED
    BY <1>1, <2>1, RoundIs
<1>2. CASE ~(IsFinite(x) /\ IsFinite(y))
  <2>1. Times(x, y) = NaN \/ \E positive : Times(x, y) = Infinity(positive)
    BY <1>2 DEF Times
  <2> QED
    BY <2>1, NotFinite
<1> QED
  BY <1>1, <1>2

\* A sum as the loop takes it.
LEMMA PlusLoop ==
    ASSUME NEW n \in Nat, NEW t
    PROVE  \E s : s = [k \in 0..n |-> IF k = 0 THEN 0 ELSE Plus(s[k - 1], t[k])]
<1> DEFINE V == Int
           x == 0
           step == [k \in 1..n |-> [y \in V |-> Plus(y, t[k])]]
<1>1. step \in [1..n -> [V -> V]] /\ x \in V
  BY PlusIs
<1>2. \A k \in 1..n, y \in V : step[k][y] = Plus(y, t[k])
  OBVIOUS
<1> HIDE DEF step, V, x
<1>3. PICK s \in [0..n -> V] : s[0] = x /\ \A k \in 1..n : s[k] = step[k][s[k - 1]]
  BY <1>1, LoopValues
<1>4. \A k \in 1..n : s[k - 1] \in V
  OBVIOUS
<1>5. \A k \in 1..n : s[k] = Plus(s[k - 1], t[k])
  BY <1>2, <1>3, <1>4
<1>6. \A k \in 0..n : k # 0 => k \in 1..n
  OBVIOUS
<1>7. \A k \in 0..n : s[k] = IF k = 0 THEN 0 ELSE Plus(s[k - 1], t[k])
  BY <1>3, <1>5, <1>6 DEF x
<1> QED
  BY <1>3, <1>7

\* How far the features are from the mean.
Deltas(o, value) == [d \in 1..Len(o.features) |-> Delta(o, value, d)]

\* A score that is finite is the quadratic form: no partial sum overflowed.
LEMMA ScoreIs ==
    ASSUME NEW o, NEW value, Len(o.features) \in Nat, IsFinite(Score(o, value))
    PROVE  LET n == Len(o.features) IN
           \E s : /\ Sums(FormOf(o.inverse, Deltas(o, value), n), n * n, s)
                  /\ Score(o, value) = s[n * n]
<1> DEFINE n == Len(o.features)
           N == n * n
           delta(d) == Delta(o, value, d)
           term(m) == Times(Times(delta(1 + ((m - 1) \div n)),
                                  o.inverse[1 + ((m - 1) \div n)][1 + ((m - 1) % n)]),
                            delta(1 + ((m - 1) % n)))
           Is(z) == z = [k \in 0..N |-> IF k = 0 THEN 0 ELSE Plus(z[k - 1], term(k))]
           t == [k \in 1..N |-> term(k)]
           form == FormOf(o.inverse, Deltas(o, value), n)
<1>1. N \in Nat
  OBVIOUS
<1>2. Score(o, value) = (CHOOSE z : Is(z))[N]
  BY DEF Score, SumOf
<1>3. \A m \in 1..N : IsFinite(term(m)) => term(m) = form[m] /\ term(m) \in Int
  <2>1. ASSUME NEW m \in 1..N, IsFinite(term(m)) PROVE term(m) = form[m] /\ term(m) \in Int
    <3> DEFINE d == Row(n, m)
               e == Col(n, m)
    <3>1. d \in 1..n /\ e \in 1..n
      BY RowAndCol
    <3>2. term(m) = Times(Times(delta(d), o.inverse[d][e]), delta(e))
      BY DEF Row, Col
    <3>3. form[m] = (delta(d) * o.inverse[d][e]) * delta(e)
      BY <3>1 DEF FormOf, Deltas
    <3> HIDE DEF d, e, delta, form
    <3>4. term(m) = Times(delta(d), o.inverse[d][e]) * delta(e)
          /\ IsFinite(Times(delta(d), o.inverse[d][e]))
      BY <2>1, <3>2, TimesIs
    <3>5. Times(delta(d), o.inverse[d][e]) = delta(d) * o.inverse[d][e]
      BY <3>4, TimesIs
    <3> HIDE DEF term
    <3>6. term(m) \in Int
      BY <2>1, ValuesAssumption DEF IsFinite
    <3> QED
      BY <3>3, <3>4, <3>5, <3>6
  <2> QED
    BY <2>1
<1> HIDE DEF term, N, form
<1>4. PICK s : s = [k \in 0..N |-> IF k = 0 THEN 0 ELSE Plus(s[k - 1], t[k])]
  BY <1>1, PlusLoop
<1>7. Is(s)
  <2>1. \A k \in 0..N : k # 0 => k \in 1..N
    BY <1>1
  <2>2. \A k \in 1..N : t[k] = term(k)
    OBVIOUS
  <2> QED
    BY <1>4, <2>1, <2>2
<1> DEFINE z == CHOOSE z : Is(z)
<1> HIDE DEF Is
<1>8. Is(z)
  BY <1>7, Zenon
<1>9. Score(o, value) = z[N]
  BY <1>2
<1> HIDE DEF z
<1>10. /\ z = [k \in 0..N |-> z[k]] /\ z[0] = 0
       /\ \A k \in 1..N : z[k] = Plus(z[k - 1], term(k))
  <2>1. z = [k \in 0..N |-> IF k = 0 THEN 0 ELSE Plus(z[k - 1], term(k))]
    BY <1>8 DEF Is
  <2>2. 0 \in 0..N /\ \A k \in 1..N : k \in 0..N /\ k # 0
    BY <1>1
  <2>3. z = [k \in 0..N |-> z[k]]
    BY <2>1
  <2> QED
    BY <2>1, <2>2, <2>3
<1> DEFINE T == {k \in 0..N : IsFinite(z[k])}
<1>11. N \in T
  BY <1>1, <1>9
<1>12. ASSUME NEW k \in 1..N, k \in T PROVE k - 1 \in T
  <2>1. k - 1 \in 0..N
    BY <1>1
  <2>2. IsFinite(Plus(z[k - 1], term(k)))
    BY <1>10, <1>12
  <2> QED
    BY <2>1, <2>2, PlusIs
<1>13. \A k \in 0..N : IsFinite(z[k])
  BY <1>1, <1>11, <1>12, Descent
<1>14. \A k \in 1..N : form[k] \in Int /\ z[k] = z[k - 1] + form[k]
  <2>1. ASSUME NEW k \in 1..N PROVE form[k] \in Int /\ z[k] = z[k - 1] + form[k]
    <3>1. k \in 0..N
      BY <1>1
    <3>2. IsFinite(Plus(z[k - 1], term(k)))
      BY <1>10, <1>13, <3>1
    <3>3. IsFinite(term(k)) /\ z[k] = z[k - 1] + term(k)
      BY <1>10, <3>2, PlusIs
    <3> QED
      BY <1>3, <3>3
  <2> QED
    BY <2>1
<1>15. z \in [0..N -> Int]
  <2>1. \A k \in 0..N : z[k] \in Int
    BY <1>13, ValuesAssumption DEF IsFinite
  <2> QED
    BY <1>10, <2>1
<1>16. Sums(form, N, z)
  BY <1>10, <1>14, <1>15 DEF Sums
<1> QED
  BY <1>9, <1>16 DEF form, N

\* The terms of Slack.
SlackOf(a, x, n) ==
    [m \in 1..n * n |->
        IF Row(n, m) < Col(n, m)
        THEN Magnitude(a[Row(n, m)][Col(n, m)], a[Col(n, m)][Row(n, m)])
             * Absolute(x[Row(n, m)] * x[Col(n, m)])
        ELSE 0]

LEMMA SlackType ==
    ASSUME NEW n \in Nat, NEW a \in Matrix(n), NEW x \in [1..n -> Int]
    PROVE  \A m \in 1..n * n : SlackOf(a, x, n)[m] \in Int
<1>1. ASSUME NEW m \in 1..n * n PROVE SlackOf(a, x, n)[m] \in Int
  <2> DEFINE d == Row(n, m)
             e == Col(n, m)
  <2>1. /\ a[d][e] \in Int /\ a[e][d] \in Int /\ x[d] \in Int /\ x[e] \in Int
    BY RowAndCol DEF Matrix
  <2>2. SlackOf(a, x, n)[m] = IF d < e THEN Magnitude(a[d][e], a[e][d]) * Absolute(x[d] * x[e])
                              ELSE 0
    BY DEF SlackOf
  <2> HIDE DEF d, e
  <2>3. Magnitude(a[d][e], a[e][d]) \in Int
    BY <2>1, MagnitudeIs
  <2>4. x[d] * x[e] \in Int
    BY <2>1
  <2>5. Absolute(x[d] * x[e]) \in Int
    BY <2>4 DEF Absolute
  <2>6. Magnitude(a[d][e], a[e][d]) * Absolute(x[d] * x[e]) \in Int
    BY <2>3, <2>5
  <2> QED
    BY <2>2, <2>6
<1> QED
  BY <1>1

LEMMA SlackIs ==
    ASSUME NEW o, NEW value, Len(o.features) \in Nat, o.inverse \in Matrix(Len(o.features))
    PROVE  LET n == Len(o.features) IN
           \E q : /\ Sums(SlackOf(o.inverse, Deltas(o, value), n), n * n, q)
                  /\ Slack(o, value) = q[n * n]
<1> DEFINE n == Len(o.features)
           N == n * n
           x == Deltas(o, value)
           t == SlackOf(o.inverse, x, n)
           term(d, e) == IF d < e THEN Magnitude(o.inverse[d][e], o.inverse[e][d])
                                       * Absolute(Delta(o, value, d) * Delta(o, value, e))
                         ELSE 0
           Is(z) == z = [m \in 0..N |->
                           IF m = 0 THEN 0
                           ELSE z[m - 1] + term(1 + ((m - 1) \div n), 1 + ((m - 1) % n))]
<1>1. N \in Nat
  OBVIOUS
<1>2. Slack(o, value) = (CHOOSE z : Is(z))[N]
  BY DEF Slack
<1>3. x \in [1..n -> Int]
  BY PlusIs DEF Deltas, Delta
<1>4. \A m \in 1..N : t[m] \in Int
  BY <1>3, SlackType
<1>5. ASSUME NEW m \in 1..N
      PROVE  term(1 + ((m - 1) \div n), 1 + ((m - 1) % n)) = t[m]
  <2> DEFINE d == Row(n, m)
             e == Col(n, m)
  <2>1. d \in 1..n /\ e \in 1..n
    BY RowAndCol
  <2>2. t[m] = IF d < e THEN Magnitude(o.inverse[d][e], o.inverse[e][d]) * Absolute(x[d] * x[e])
               ELSE 0
    BY DEF SlackOf
  <2>3. term(1 + ((m - 1) \div n), 1 + ((m - 1) % n)) = term(d, e)
    BY DEF Row, Col
  <2> HIDE DEF d, e, t
  <2>4. x[d] = Delta(o, value, d) /\ x[e] = Delta(o, value, e)
    BY <2>1 DEF Deltas
  <2> QED
    BY <2>2, <2>3, <2>4
<1> HIDE DEF term, N, t, x
<1>6. PICK q : Sums(t, N, q)
  BY <1>1, <1>4, SumsExist
<1>7. Is(q)
  <2>1. q = [m \in 0..N |-> q[m]]
    BY <1>6 DEF Sums
  <2>2. \A m \in 0..N : m # 0 => m \in 1..N
    BY <1>1
  <2>3. \A m \in 0..N : q[m] = IF m = 0 THEN 0
            ELSE q[m - 1] + term(1 + ((m - 1) \div n), 1 + ((m - 1) % n))
    BY <1>5, <1>6, <2>2 DEF Sums
  <2> QED
    BY <2>1, <2>3
<1> DEFINE z == CHOOSE z : Is(z)
<1> HIDE DEF Is
<1>8. Is(z)
  BY <1>7, Zenon
<1>9. Slack(o, value) = z[N]
  BY <1>2
<1> HIDE DEF z
<1>10. Sums(t, N, z)
  <2>1. z = [m \in 0..N |->
               IF m = 0 THEN 0
               ELSE z[m - 1] + term(1 + ((m - 1) \div n), 1 + ((m - 1) % n))]
    BY <1>8 DEF Is
  <2>2. 0 \in 0..N /\ \A m \in 1..N : m \in 0..N /\ m # 0
    BY <1>1
  <2>3. z[0] = 0 /\ \A m \in 1..N : z[m] = z[m - 1] + t[m]
    BY <1>5, <2>1, <2>2
  <2>4. z = [m \in 0..N |-> z[m]]
    BY <2>1
  <2> DEFINE T == {m \in 0..N : z[m] \in Int}
  <2>5. 0 \in T
    BY <1>1, <2>3
  <2>6. ASSUME NEW m \in 0..N - 1, m \in T PROVE m + 1 \in T
    <3>1. m + 1 \in 1..N /\ m + 1 \in 0..N /\ (m + 1) - 1 = m
      BY <1>1
    <3> QED
      BY <1>4, <2>3, <2>6, <3>1
  <2>7. 0..N \subseteq T
    BY <1>1, <2>5, <2>6, Induction
  <2>8. z \in [0..N -> Int]
    BY <2>4, <2>7
  <2> QED
    BY <1>4, <2>3, <2>8 DEF Sums
<1> QED
  BY <1>9, <1>10 DEF N, t, x

\* f times a term of t, with the one of w, is at least f times the one of u.
AtLeast(f, t, w, u, n) == \A k \in 1..n : f * t[k] + w[k] >= f * u[k]

LEMMA SumsAtLeast ==
    ASSUME NEW n \in Nat, NEW f \in Int, NEW t, NEW w, NEW u,
           NEW s, NEW q, NEW r, Sums(t, n, s), Sums(w, n, q), Sums(u, n, r),
           AtLeast(f, t, w, u, n)
    PROVE  f * s[n] + q[n] >= f * r[n]
<1> DEFINE T == {k \in 0..n : f * s[k] + q[k] >= f * r[k]}
<1>1. 0 \in T
  BY DEF Sums
<1>2. ASSUME NEW k \in 0..n - 1, k \in T PROVE k + 1 \in T
  <2>1. k + 1 \in 1..n /\ k + 1 \in 0..n /\ (k + 1) - 1 = k /\ k \in 0..n
    OBVIOUS
  <2>2. /\ s[k + 1] = s[k] + t[k + 1] /\ r[k + 1] = r[k] + u[k + 1]
        /\ q[k + 1] = q[k] + w[k + 1]
        /\ s[k] \in Int /\ r[k] \in Int /\ q[k] \in Int
    BY <2>1 DEF Sums
  <2>3. t[k + 1] \in Int /\ u[k + 1] \in Int /\ w[k + 1] \in Int
        /\ f * t[k + 1] + w[k + 1] >= f * u[k + 1]
    BY <2>1 DEF Sums, AtLeast
  <2>4. /\ f * (s[k] + t[k + 1]) = f * s[k] + f * t[k + 1]
        /\ f * (r[k] + u[k + 1]) = f * r[k] + f * u[k + 1]
    BY <2>2, <2>3
  <2>5. f * s[k] \in Int /\ f * t[k + 1] \in Int /\ f * r[k] \in Int /\ f * u[k + 1] \in Int
    BY <2>2, <2>3
  <2> QED
    BY <1>2, <2>1, <2>2, <2>3, <2>4, <2>5
<1>3. 0..n \subseteq T
  BY <1>1, <1>2, Induction
<1> QED
  BY <1>3

\* What one asymmetry takes from a form.
LEMMA Asymmetry ==
    ASSUME NEW f \in Int, f > 0, NEW u \in Int, NEW v \in Int, NEW y \in Int,
           NEW z \in Int, NEW m \in Int, ~(Absolute(u - v) * f > m)
    PROVE  f * ((y * u) * z) + m * Absolute(y * z) >= f * ((y * v) * z)
<1> DEFINE g == (u - v) * f
           h == y * z
<1>1. g \in Int /\ h \in Int
  OBVIOUS
<1>2. -m <= g /\ g <= m
  <2>1. CASE u - v < 0
    <3>1. (-(u - v)) * f = -g /\ g <= 0
      BY <2>1
    <3>2. -g <= m
      BY <1>1, <2>1, <3>1 DEF Absolute
    <3> QED
      BY <1>1, <3>1, <3>2
  <2>2. CASE ~(u - v < 0)
    <3>1. g <= m /\ g >= 0
      BY <2>2 DEF Absolute
    <3> QED
      BY <1>1, <3>1
  <2> QED
    BY <2>1, <2>2
<1>3. f * ((y * u) * z) = f * ((y * v) * z) + g * h
  <2>1. (y * u) * z = u * h /\ (y * v) * z = v * h
    OBVIOUS
  <2>2. f * (u * h) = f * (v * h) + g * h
    BY <1>1
  <2> HIDE DEF g, h
  <2> QED
    BY <2>1, <2>2
<1>4. f * ((y * v) * z) \in Int
  OBVIOUS
<1> HIDE DEF g, h
<1>5. g * h + m * Absolute(h) >= 0
  <2>1. CASE h >= 0
    <3>1. Absolute(h) = h
      BY <1>1, <2>1 DEF Absolute
    <3>2. g * h + m * h = (g + m) * h /\ (g + m) * h >= 0
      BY <1>1, <1>2, <2>1
    <3> QED
      BY <3>1, <3>2
  <2>2. CASE h < 0
    <3>1. Absolute(h) = -h
      BY <1>1, <2>2 DEF Absolute
    <3>2. g * h + m * (-h) = (m - g) * (-h) /\ (m - g) * (-h) >= 0
      BY <1>1, <1>2, <2>2
    <3> QED
      BY <3>1, <3>2
  <2> QED
    BY <1>1, <2>1, <2>2
<1>6. Absolute(h) \in Int
  BY <1>1 DEF Absolute
<1>7. g * h \in Int /\ m * Absolute(h) \in Int
  BY <1>1, <1>6
<1> QED
  BY <1>3, <1>4, <1>5, <1>7 DEF h

LEMMA FormBound ==
    ASSUME NEW a, NEW n \in Nat, n = Len(a), a \in Matrix(n), PositivePivots(a),
           \A d, e \in 1..n : ~(Absolute(a[d][e] - a[e][d]) * ToleranceInverse
                                   > Magnitude(a[d][e], a[e][d])),
           NEW x \in [1..n -> Int],
           NEW s, Sums(FormOf(a, x, n), n * n, s),
           NEW q, Sums(SlackOf(a, x, n), n * n, q)
    PROVE  s[n * n] * ToleranceInverse >= -q[n * n]
<1> DEFINE b == [d \in 1..n |-> [e \in 1..n |-> IF e <= d THEN a[d][e] ELSE a[e][d]]]
           N == n * n
           f == ToleranceInverse
           t == FormOf(a, x, n)
           w == SlackOf(a, x, n)
           u == FormOf(b, x, n)
<1>0. f \in Int /\ f > 0 /\ N \in Nat
  BY ValidationAssumption
<1>1. \A d, e \in 1..n : a[d][e] \in Int /\ x[d] \in Int
  BY DEF Matrix
<1>2. \A d, e \in 1..n : b[d][e] = IF e <= d THEN a[d][e] ELSE a[e][d]
  OBVIOUS
<1>3. b \in Matrix(n)
  BY <1>1 DEF Matrix
<1>4. \A d, e \in 1..n : e <= d => b[d][e] = a[d][e]
  BY <1>2
<1> HIDE DEF b
<1>5. IsSymmetric(b, n)
  <2>1. ASSUME NEW d \in 1..n, NEW e \in 1..n PROVE b[d][e] = b[e][d]
    <3>1. d < e \/ d = e \/ e < d
      OBVIOUS
    <3> QED
      BY <1>2, <3>1
  <2> QED
    BY <2>1 DEF IsSymmetric
<1>6. PICK rest : /\ rest[0] = b
                  /\ \A k \in 1..n : rest[k] = Eliminate(rest[k - 1], k, n)
                  /\ \A k \in 1..n : rest[k - 1][k][k] > 0
  BY <1>3, <1>4, <1>5, PivotsReflected
<1>7. PICK r : Sums(u, N, r)
  BY <1>0, <1>3, FormType, SumsExist
<1>8. r[N] >= 0
  BY <1>3, <1>5, <1>6, <1>7, FormNotNegative
<1>9. ASSUME NEW m \in 1..N PROVE f * t[m] + w[m] >= f * u[m]
  <2> DEFINE d == Row(n, m)
             e == Col(n, m)
  <2>1. d \in 1..n /\ e \in 1..n
    BY RowAndCol
  <2>2. t[m] = (x[d] * a[d][e]) * x[e] /\ u[m] = (x[d] * b[d][e]) * x[e]
    BY DEF FormOf
  <2>3. w[m] = IF d < e THEN Magnitude(a[d][e], a[e][d]) * Absolute(x[d] * x[e]) ELSE 0
    BY DEF SlackOf
  <2> HIDE DEF d, e, t, u, w
  <2>4. /\ a[d][e] \in Int /\ a[e][d] \in Int /\ x[d] \in Int /\ x[e] \in Int
        /\ ~(Absolute(a[d][e] - a[e][d]) * f > Magnitude(a[d][e], a[e][d]))
    BY <1>1, <2>1
  <2> HIDE DEF f
  <2>5. CASE d < e
    <3>1. b[d][e] = a[e][d]
      BY <1>2, <2>1, <2>5
    <3>2. Magnitude(a[d][e], a[e][d]) \in Int
      BY <2>4, MagnitudeIs
    <3>3. f * ((x[d] * a[d][e]) * x[e])
            + Magnitude(a[d][e], a[e][d]) * Absolute(x[d] * x[e])
          >= f * ((x[d] * a[e][d]) * x[e])
      BY <1>0, <2>4, <3>2, Asymmetry
    <3> QED
      BY <2>2, <2>3, <2>5, <3>1, <3>3
  <2>6. CASE ~(d < e)
    <3>1. b[d][e] = a[d][e]
      BY <1>2, <2>1, <2>6
    <3>2. f * t[m] \in Int
      BY <1>0, <2>2, <2>4
    <3> QED
      BY <2>2, <2>3, <2>6, <3>1, <3>2
  <2> QED
    BY <2>5, <2>6
<1>10. Sums(t, N, s) /\ Sums(w, N, q)
  OBVIOUS
<1> HIDE DEF t, u, w, N, f
<1>11. f * s[N] + q[N] >= f * r[N]
  <2>1. AtLeast(f, t, w, u, N)
    BY <1>9 DEF AtLeast
  <2> QED
    BY <1>0, <1>7, <1>10, <2>1, SumsAtLeast
<1>12. s[N] \in Int /\ q[N] \in Int /\ r[N] \in Int
  BY <1>0, <1>7, <1>10 DEF Sums
<1>13. f * r[N] >= 0 /\ f * s[N] = s[N] * f /\ f * s[N] \in Int /\ f * r[N] \in Int
  BY <1>0, <1>8, <1>12
<1>14. s[N] * f >= -q[N]
  BY <1>11, <1>12, <1>13
<1> QED
  BY <1>14 DEF N, f

\* What was validated has a score that is below zero by no more than the slack,
\* whatever it is fed.
LEMMA ValidScore ==
    ASSUME NEW p, ProfileOK(p), ValidOOD(p), p.ood.required, NEW value,
           IsFinite(Score(p.ood, value))
    PROVE  Score(p.ood, value) * ToleranceInverse >= -Slack(p.ood, value)
<1> DEFINE o == p.ood
           n == Len(o.features)
           a == o.inverse
           x == Deltas(o, value)
<1>1. /\ n \in Nat /\ DOMAIN o.features = 1..n
      /\ Len(a) = n /\ DOMAIN a = 1..n /\ Symmetric(a) = "passed" /\ PositivePivots(a)
  BY DEF ProfileOK, IsSequence, ValidOOD, Shape, PositiveDefinite
<1>2. \A d, e \in 1..n : Len(a[d]) = n /\ IsFinite(a[d][e])
  BY <1>1, SymmetricIs
<1>3. a \in Matrix(n)
  <2>1. a = [d \in 1..n |-> a[d]]
    BY <1>1 DEF ProfileOK, IsSequence
  <2>2. ASSUME NEW d \in 1..n PROVE a[d] \in [1..n -> Int]
    <3>1. IsSequence(a[d]) /\ Len(a[d]) = n
      BY <1>1, <1>2 DEF ProfileOK
    <3>2. a[d] = [e \in 1..n |-> a[d][e]]
      BY <3>1 DEF IsSequence
    <3>3. \A e \in 1..n : a[d][e] \in Int
      BY <1>2, ValuesAssumption DEF IsFinite
    <3> QED
      BY <3>2, <3>3
  <2> HIDE DEF a
  <2> QED
    BY <2>1, <2>2 DEF Matrix
<1>4. \A d, e \in 1..n : ~(Absolute(a[d][e] - a[e][d]) * ToleranceInverse
                               > Magnitude(a[d][e], a[e][d]))
  BY <1>1, <1>2, SymmetricIs
<1>5. x \in [1..n -> Int]
  BY PlusIs DEF Deltas, Delta
<1>6. PICK s : Sums(FormOf(a, x, n), n * n, s) /\ Score(o, value) = s[n * n]
  BY <1>1, ScoreIs
<1>7. PICK q : Sums(SlackOf(a, x, n), n * n, q) /\ Slack(o, value) = q[n * n]
  BY <1>1, <1>3, SlackIs
<1> HIDE DEF a, x, n
<1>8. s[n * n] * ToleranceInverse >= -q[n * n]
  BY <1>1, <1>3, <1>4, <1>5, <1>6, <1>7, FormBound
<1> QED
  BY <1>6, <1>7, <1>8

\* The score that admission compares with the threshold (planner.go:294-310) is
\* below zero by no more than the asymmetry within the tolerance can take from
\* it, for detectors of any size: validation (validate.go:538-583) takes only
\* matrices that are symmetric to the tolerance and have a Cholesky decomposition.
THEOREM PlannerScoreWithinTolerance == Spec => []ScoreWithinTolerance
<1>1. ASSUME PlannerInv, TypedInv PROVE ScoreWithinTolerance
  <2> SUFFICES ASSUME pc = "devices", featureOK, profile.ood.required,
                      IsFinite(Score(profile.ood, features))
               PROVE  Score(profile.ood, features) * ToleranceInverse
                        >= -Slack(profile.ood, features)
    BY DEF ScoreWithinTolerance
  <2>1. ProfileOK(profile) /\ ValidOOD(profile)
    BY <1>1 DEF PlannerInv, EvaluateInv, ControlInv, Loops, CaseOK, profile, ValidProfile
  <2> QED
    BY <2>1, ValidScore
<1>2. Spec => [](PlannerInv /\ TypedInv)
  BY PlannerInit, PlannerNext, KeptInit, SelectionNext, TypedInit, TypedNext, PTL DEF Spec
<1> QED
  BY <1>1, <1>2, PTL
=============================================================================
