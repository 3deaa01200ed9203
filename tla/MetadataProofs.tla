--------------------------- MODULE MetadataProofs ---------------------------
(***************************************************************************)
(* Proofs about the strict decoder and the reader of metadata, for         *)
(* documents of any length, any depth, any keys and any bodies.            *)
(*                                                                         *)
(* First the level of a token, which is a sum over the document; then what *)
(* the stack of the descent stands for; then the loop over the objects,    *)
(* and what an attribute holds.                                            *)
(***************************************************************************)
EXTENDS Metadata, TLAPS, WellFoundedInduction, FiniteSetTheorems

-----------------------------------------------------------------------------
(* Induction over an interval. *)

Smaller == {p \in Nat \X Nat : p[1] < p[2]}

LEMMA SmallerWellFounded == IsWellFoundedOn(Smaller, Nat)
<1>1. OpToRel(<, Nat) = Smaller
  BY DEF OpToRel, Smaller
<1> QED
  BY <1>1, NatLessThanWellFounded DEF OpToRel, Smaller

LEMMA Induction ==
    ASSUME NEW n \in Nat, NEW T, 0 \in T, \A k \in 0..n - 1 : k \in T => k + 1 \in T
    PROVE  0..n \subseteq T
<1> DEFINE U == 0..n \ T
<1> SUFFICES ASSUME U # {} PROVE FALSE
  OBVIOUS
<1>1. U \subseteq Nat
  OBVIOUS
<1>2. PICK x \in U : \A y \in U : <<y, x>> \notin Smaller
  BY <1>1, SmallerWellFounded, WFMin
<1>3. x \in 1..n /\ x - 1 \in 0..n - 1 /\ x - 1 \in 0..n /\ (x - 1) + 1 = x
  OBVIOUS
<1>4. <<x - 1, x>> \in Smaller
  BY <1>3 DEF Smaller
<1>5. x - 1 \notin U
  BY <1>2, <1>4
<1> QED
  BY <1>3, <1>5

-----------------------------------------------------------------------------
(* The level is a running sum. *)

Counts(doc, m, c) == c = [k \in 0..m |-> IF k = 0 THEN 0 ELSE c[k - 1] + Deeper(doc[k])]

LEMMA DeeperIs ==
    ASSUME NEW t
    PROVE  /\ Deeper(t) \in {-1, 0, 1}
           /\ IsOpener(t) <=> Deeper(t) = 1
           /\ IsCloser(t) <=> Deeper(t) = -1
<1>1. ~(IsOpener(t) /\ IsCloser(t))
  BY DEF IsOpener, IsCloser
<1> QED
  BY <1>1 DEF Deeper

LEMMA CountsIs ==
    ASSUME NEW doc, NEW m \in Nat, NEW c, Counts(doc, m, c)
    PROVE  /\ c[0] = 0
           /\ \A k \in 1..m : c[k] = c[k - 1] + Deeper(doc[k])
           /\ \A k \in 0..m : c[k] \in Int
<1>1. \A k \in 0..m : c[k] = IF k = 0 THEN 0 ELSE c[k - 1] + Deeper(doc[k])
  BY DEF Counts
<1>2. c[0] = 0 /\ \A k \in 1..m : c[k] = c[k - 1] + Deeper(doc[k])
  BY <1>1
<1> DEFINE T == {k \in 0..m : c[k] \in Int}
<1>3. 0 \in T
  BY <1>2
<1>4. ASSUME NEW k \in 0..m - 1, k \in T PROVE k + 1 \in T
  BY <1>2, <1>4, DeeperIs
<1>5. 0..m \subseteq T
  BY <1>3, <1>4, Induction
<1> QED
  BY <1>2, <1>5

LEMMA CountsExist == ASSUME NEW doc, NEW m \in Nat PROVE \E c : Counts(doc, m, c)
<1> DEFINE T == {k \in 0..m : \E c : Counts(doc, k, c)}
<1>1. 0 \in T
  <2> DEFINE c == [k \in 0..0 |-> 0]
  <2>1. Counts(doc, 0, c)
    BY DEF Counts
  <2> QED
    BY <2>1
<1>2. ASSUME NEW n \in 0..m - 1, n \in T PROVE n + 1 \in T
  <2>1. PICK c : Counts(doc, n, c)
    BY <1>2
  <2> DEFINE d == [k \in 0..n + 1 |-> IF k = n + 1 THEN c[n] + Deeper(doc[n + 1]) ELSE c[k]]
  <2>2. \A k \in 0..n : c[k] = IF k = 0 THEN 0 ELSE c[k - 1] + Deeper(doc[k])
    BY <2>1 DEF Counts
  <2>3. ASSUME NEW k \in 0..n + 1
        PROVE  d[k] = IF k = 0 THEN 0 ELSE d[k - 1] + Deeper(doc[k])
    <3>1. CASE k = n + 1
      BY <3>1
    <3>2. CASE k \in 0..n
      <4>1. d[k] = c[k] /\ (k # 0 => d[k - 1] = c[k - 1])
        BY <3>2
      <4> QED
        BY <2>2, <3>2, <4>1
    <3> QED
      BY <3>1, <3>2
  <2>4. Counts(doc, n + 1, d)
    <3>1. d = [k \in 0..n + 1 |-> d[k]]
      OBVIOUS
    <3> HIDE DEF d
    <3> QED
      BY <2>3, <3>1 DEF Counts
  <2> QED
    BY <2>4
<1>3. 0..m \subseteq T
  BY <1>1, <1>2, Induction
<1> QED
  BY <1>3

LEMMA CountsAgree ==
    ASSUME NEW doc, NEW also, NEW m \in Nat, NEW n \in Nat, NEW c, NEW d,
           Counts(doc, m, c), Counts(also, n, d), m <= n,
           \A k \in 1..m : doc[k] = also[k]
    PROVE  \A k \in 0..m : c[k] = d[k]
<1> DEFINE T == {k \in 0..m : c[k] = d[k]}
<1>0. c[0] = 0 /\ d[0] = 0
  BY CountsIs, Zenon
<1>1. 0 \in T
  BY <1>0
<1>2. ASSUME NEW k \in 0..m - 1, k \in T PROVE k + 1 \in T
  <2>1. k + 1 \in 1..m /\ k + 1 \in 1..n /\ (k + 1) - 1 = k
    OBVIOUS
  <2>2. c[k + 1] = c[k] + Deeper(doc[k + 1]) /\ d[k + 1] = d[k] + Deeper(also[k + 1])
    BY <2>1, CountsIs
  <2> QED
    BY <1>2, <2>1, <2>2
<1>3. 0..m \subseteq T
  BY <1>1, <1>2, Induction
<1> QED
  BY <1>3

LEMMA LevelCounts ==
    ASSUME NEW doc, NEW n \in Nat
    PROVE  \E c : Counts(doc, n, c) /\ Level(doc, n) = c[n]
<1> DEFINE c == CHOOSE c : Counts(doc, n, c)
<1>1. Counts(doc, n, c)
  BY CountsExist
<1>2. Level(doc, n) = c[n]
  BY DEF Level, Counts
<1> QED
  BY <1>1, <1>2

\* The level counts, and depends on no later token.
LEMMA LevelIs ==
    ASSUME NEW doc
    PROVE  /\ Level(doc, 0) = 0
           /\ \A n \in Nat : Level(doc, n) \in Int
           /\ \A n \in Nat \ {0} : Level(doc, n) = Level(doc, n - 1) + Deeper(doc[n])
<1>1. Level(doc, 0) = 0
  BY LevelCounts, CountsIs
<1>2. ASSUME NEW n \in Nat PROVE Level(doc, n) \in Int
  <2>1. PICK c : Counts(doc, n, c) /\ Level(doc, n) = c[n]
    BY LevelCounts
  <2>2. n \in 0..n
    OBVIOUS
  <2> QED
    BY <2>1, <2>2, CountsIs
<1>3. ASSUME NEW n \in Nat \ {0} PROVE Level(doc, n) = Level(doc, n - 1) + Deeper(doc[n])
  <2>1. PICK c : Counts(doc, n, c) /\ Level(doc, n) = c[n]
    BY LevelCounts
  <2>2. PICK d : Counts(doc, n - 1, d) /\ Level(doc, n - 1) = d[n - 1]
    BY LevelCounts
  <2>3. d[n - 1] = c[n - 1]
    BY <2>1, <2>2, CountsAgree
  <2> QED
    BY <2>1, <2>2, <2>3, CountsIs
<1> QED
  BY <1>1, <1>2, <1>3

LEMMA LevelOfPrefix ==
    ASSUME NEW doc, NEW also, NEW n \in Nat, \A k \in 1..n : doc[k] = also[k]
    PROVE  \A k \in 0..n : Level(doc, k) = Level(also, k)
<1> TAKE k \in 0..n
<1>1. PICK c : Counts(doc, k, c) /\ Level(doc, k) = c[k]
  BY LevelCounts
<1>2. PICK d : Counts(also, k, d) /\ Level(also, k) = d[k]
  BY LevelCounts
<1>3. c[k] = d[k]
  <2>1. k \in Nat /\ k <= k /\ k \in 0..k /\ \A j \in 1..k : doc[j] = also[j]
    OBVIOUS
  <2> QED
    BY <1>1, <1>2, <2>1, CountsAgree
<1> QED
  BY <1>1, <1>2, <1>3

-----------------------------------------------------------------------------
(* The opening around a token. *)

LEMMA Greatest ==
    ASSUME NEW n \in Nat, NEW T, T \subseteq 1..n, T # {}
    PROVE  \E x \in T : \A y \in T : y <= x
<1> DEFINE U == {n - x : x \in T}
<1>1. U \subseteq Nat /\ U # {}
  <2>1. PICK x \in T : TRUE
    OBVIOUS
  <2>2. n - x \in U
    BY <2>1
  <2> QED
    BY <2>2
<1>2. PICK u \in U : \A v \in U : <<v, u>> \notin Smaller
  BY <1>1, SmallerWellFounded, WFMin
<1>3. PICK x \in T : u = n - x
  BY <1>2
<1>4. ASSUME NEW y \in T PROVE y <= x
  <2>1. n - y \in U /\ n - y \in Nat /\ n - x \in Nat
    BY <1>1
  <2>2. ~(n - y < n - x)
    BY <1>2, <1>3, <2>1 DEF Smaller
  <2> QED
    BY <2>2
<1> QED
  BY <1>4

\* What may lie around the token at p.
Outer(doc, p) ==
    {q \in 1..p - 1 :
        /\ IsOpener(doc[q]) /\ Level(doc, q) = Level(doc, p - 1)
        /\ \A r \in q..p - 1 : Level(doc, r) >= Level(doc, q)}

Last(T) == CHOOSE q \in T : \A r \in T : r <= q

LEMMA AroundLast ==
    ASSUME NEW doc, NEW p
    PROVE  Around(doc, p) = IF Outer(doc, p) = {} THEN 0 ELSE Last(Outer(doc, p))
BY DEF Around, Outer, Last

LEMMA AroundIs ==
    ASSUME NEW doc, NEW p \in Nat \ {0}
    PROVE  /\ Outer(doc, p) = {} => Around(doc, p) = 0
           /\ Outer(doc, p) # {} =>
                Around(doc, p) \in Outer(doc, p)
                /\ \A r \in Outer(doc, p) : r <= Around(doc, p)
<1> DEFINE o == Outer(doc, p)
<1>1. o \subseteq 1..p - 1 /\ p - 1 \in Nat
  BY DEF Outer
<1>2. o # {} => \E q \in o : \A r \in o : r <= q
  BY <1>1, Greatest
<1> HIDE DEF o
<1>3. o # {} => Last(o) \in o /\ \A r \in o : r <= Last(o)
  BY <1>2 DEF Last
<1> QED
  BY <1>3, AroundLast DEF o

\* At level 0 there is none.
LEMMA AroundNothing ==
    ASSUME NEW doc, NEW p \in Nat \ {0}, Level(doc, p - 1) = 0,
           \A r \in 0..p - 1 : Level(doc, r) >= 0
    PROVE  Around(doc, p) = 0
<1>1. ASSUME NEW q \in Outer(doc, p) PROVE FALSE
  <2>1. q \in 1..p - 1 /\ IsOpener(doc[q]) /\ Level(doc, q) = 0
    BY DEF Outer
  <2>2. q \in Nat \ {0} /\ q - 1 \in 0..p - 1
    BY <2>1
  <2>3. Level(doc, q) = Level(doc, q - 1) + 1 /\ Level(doc, q - 1) \in Int
    BY <2>1, <2>2, LevelIs, DeeperIs
  <2> QED
    BY <2>1, <2>2, <2>3
<1> QED
  BY <1>1, AroundIs

\* After an opening that nothing has closed, the tokens that lie in it directly are
\* those at its level.
LEMMA AroundOpen ==
    ASSUME NEW doc, NEW n \in Nat, NEW d \in Nat, NEW o \in 1..n,
           IsOpener(doc[o]), Level(doc, o) = d,
           \A r \in o..n : Level(doc, r) >= d,
           NEW p \in o + 1..n + 1
    PROVE  Around(doc, p) = o <=> Level(doc, p - 1) = d
<1>1. p \in Nat \ {0} /\ p - 1 \in o..n /\ o # 0
  OBVIOUS
<1>2. ASSUME Around(doc, p) = o PROVE Level(doc, p - 1) = d
  <2>1. o \in Outer(doc, p)
    BY <1>1, <1>2, AroundIs
  <2> QED
    BY <2>1 DEF Outer
<1>3. ASSUME Level(doc, p - 1) = d PROVE Around(doc, p) = o
  <2>1. o \in Outer(doc, p)
    BY <1>1, <1>3 DEF Outer
  <2>2. Around(doc, p) \in Outer(doc, p) /\ o <= Around(doc, p)
    BY <1>1, <2>1, AroundIs
  <2> DEFINE a == Around(doc, p)
  <2>3. a \in 1..p - 1 /\ IsOpener(doc[a]) /\ Level(doc, a) = d
    BY <1>3, <2>2 DEF Outer
  <2>4. ASSUME a # o PROVE FALSE
    <3>1. a \in Nat \ {0} /\ a - 1 \in o..n
      BY <2>2, <2>3, <2>4
    <3>2. Level(doc, a) = Level(doc, a - 1) + 1 /\ Level(doc, a - 1) \in Int
      BY <2>3, <3>1, LevelIs, DeeperIs
    <3> QED
      BY <2>3, <3>1, <3>2
  <2> QED
    BY <2>4
<1> QED
  BY <1>2, <1>3

\* What is lawful at p depends on no later token.
LEMMA AroundOfPrefix ==
    ASSUME NEW doc, NEW also, NEW p \in Nat \ {0}, \A k \in 1..p - 1 : doc[k] = also[k]
    PROVE  Around(doc, p) = Around(also, p)
<1>p. p - 1 \in Nat
  OBVIOUS
<1>1. \A k \in 0..p - 1 : Level(doc, k) = Level(also, k)
  BY <1>p, LevelOfPrefix
<1>2. ASSUME NEW q \in 1..p - 1
      PROVE  /\ IsOpener(doc[q]) <=> IsOpener(also[q])
             /\ Level(doc, q) = Level(doc, p - 1) <=> Level(also, q) = Level(also, p - 1)
             /\ (\A r \in q..p - 1 : Level(doc, r) >= Level(doc, q))
                 <=> (\A r \in q..p - 1 : Level(also, r) >= Level(also, q))
  BY <1>1
<1>3. Outer(doc, p) = Outer(also, p)
  BY <1>2 DEF Outer
<1> QED
  BY <1>3, AroundLast

LEMMA LawfulOfPrefix ==
    ASSUME NEW doc, NEW also, NEW p \in Nat \ {0}, \A k \in 1..p : doc[k] = also[k]
    PROVE  LawfulAt(doc, p) <=> LawfulAt(also, p)
<1>1. \A q \in 1..p : Around(doc, q) = Around(also, q)
  BY AroundOfPrefix
<1>2. Level(doc, p - 1) = Level(also, p - 1)
  BY LevelOfPrefix
<1> DEFINE a == Around(also, p)
<1>3. doc[p] = also[p] /\ (p # 1 => doc[p - 1] = also[p - 1]) /\ Around(doc, p) = a
  BY <1>1
<1>4. a = 0 \/ a \in 1..p - 1
  BY AroundIs DEF Outer
<1>5. a # 0 => doc[a] = also[a] /\ p # 1
  BY <1>4
<1>6. (\A q \in a + 1..p - 1 : Around(doc, q) = a => doc[q] # doc[p])
       <=> (\A q \in a + 1..p - 1 : Around(also, q) = a => also[q] # also[p])
  BY <1>1, <1>3, <1>4
<1> HIDE DEF a
<1> DEFINE value == (doc[p] = "scalar" \/ IsOpener(doc[p])) /\ Level(doc, p - 1) <= MaxDepth
<1>7. LawfulAt(doc, p) <=>
        IF a = 0 THEN IF p = 1 THEN value ELSE doc[p] = "end"
        ELSE IF doc[a] = "[" THEN value \/ doc[p] = "]"
        ELSE IF doc[p - 1] \in Key THEN value
        ELSE \/ doc[p] = "}"
             \/ doc[p] \in Key /\ \A q \in a + 1..p - 1 : Around(doc, q) = a => doc[q] # doc[p]
  BY <1>3 DEF LawfulAt
<1> QED
  BY <1>2, <1>3, <1>5, <1>6, <1>7 DEF a, LawfulAt

-----------------------------------------------------------------------------
(* What the stack stands for: each frame for an opening that nothing has      *)
(* closed, at its level, with the keys that lie in it directly.               *)

Closers == {"}", "]"}

FrameType == [closer: Closers, seen: SUBSET Key]

\* The keys at level d after place o.
KeysAt(doc, o, d) ==
    {doc[q] : q \in {q \in o + 1..Len(doc) : doc[q] \in Key /\ Level(doc, q) = d}}

\* The token t as one more key at level d, if it comes at that level.
Joined(t, level, d) == IF t \in Key /\ level = d THEN {t} ELSE {}

OpenAt(doc, d, o) ==
    /\ Level(doc, o) = d
    /\ \A r \in o..Len(doc) : Level(doc, r) >= d

FrameAt(doc, closer, seen, d, o) ==
    /\ OpenAt(doc, d, o)
    /\ doc[o] = IF closer = "}" THEN "{" ELSE "["
    /\ closer = "}" => seen = KeysAt(doc, o, d)

Stands(doc, frames) ==
    /\ \A r \in 0..Len(doc) : Level(doc, r) >= 0
    /\ Level(doc, Len(doc)) = Len(frames)
    /\ \A d \in 1..Len(frames) : \E o \in 1..Len(doc) : 
            FrameAt(doc, frames[d].closer, frames[d].seen, d, o)

LEMMA TokensDiffer ==
    ASSUME NEW t \in Token
    PROVE  /\ t \in Key => t \notin {"{", "}", "[", "]", "scalar", "bad", "end"}
           /\ t \in Key \/ t \in {"{", "}", "[", "]", "scalar", "bad", "end"}
           /\ t \in Key => Deeper(t) = 0
BY StrictJSONAssumption DEF Token, Deeper, IsOpener, IsCloser

\* One token more.
LEMMA GrownIs ==
    ASSUME NEW doc \in Seq(Token), NEW t \in Token
    PROVE  LET more == Append(doc, t)
               p == Len(doc) + 1
           IN  /\ more \in Seq(Token) /\ Len(more) = p /\ more[p] = t
               /\ p \in Nat \ {0} /\ p - 1 = Len(doc) /\ Len(doc) \in Nat
               /\ \A k \in 1..Len(doc) : more[k] = doc[k]
               /\ \A k \in 0..Len(doc) : Level(more, k) = Level(doc, k) /\ Level(doc, k) \in Int
               /\ Level(more, p) = Level(doc, Len(doc)) + Deeper(t)
<1> DEFINE more == Append(doc, t)
           p == Len(doc) + 1
<1>1. /\ more \in Seq(Token) /\ Len(more) = p /\ more[p] = t
      /\ p \in Nat \ {0} /\ p - 1 = Len(doc) /\ Len(doc) \in Nat
      /\ \A k \in 1..Len(doc) : more[k] = doc[k]
  OBVIOUS
<1> HIDE DEF more
<1>2. \A k \in 0..Len(doc) : Level(more, k) = Level(doc, k)
  BY <1>1, LevelOfPrefix
<1>3. \A k \in 0..Len(doc) : Level(doc, k) \in Int
  BY <1>1, LevelIs
<1>4. Level(more, p) = Level(more, p - 1) + Deeper(more[p])
  BY <1>1, LevelIs
<1>5. Level(more, p) = Level(doc, Len(doc)) + Deeper(t)
  BY <1>1, <1>2, <1>4
<1> QED
  BY <1>1, <1>2, <1>3, <1>5 DEF more

\* An opening outlives a token that does not close it.
LEMMA OpenStays ==
    ASSUME NEW doc \in Seq(Token), NEW t \in Token,
           NEW d \in Nat \ {0}, NEW o \in 1..Len(doc), OpenAt(doc, d, o),
           Level(doc, Len(doc)) + Deeper(t) >= d
    PROVE  o \in 1..Len(Append(doc, t)) /\ OpenAt(Append(doc, t), d, o)
<1> DEFINE more == Append(doc, t)
           p == Len(doc) + 1
<1>1. /\ Len(more) = p /\ p - 1 = Len(doc) /\ Len(doc) \in Nat
      /\ \A k \in 0..Len(doc) : Level(more, k) = Level(doc, k)
      /\ Level(more, p) = Level(doc, Len(doc)) + Deeper(t)
  BY GrownIs
<1> HIDE DEF more
<1>2. Level(more, o) = d
  BY <1>1 DEF OpenAt
<1>3. ASSUME NEW r \in o..p PROVE Level(more, r) >= d
  <2>1. CASE r = p
    BY <1>1, <2>1
  <2>2. CASE r \in o..Len(doc)
    <3>1. Level(more, r) = Level(doc, r)
      BY <1>1, <2>2
    <3> QED
      BY <2>2, <3>1 DEF OpenAt
  <2> QED
    BY <1>1, <2>1, <2>2
<1>4. o \in 1..Len(more)
  BY <1>1
<1> QED
  BY <1>1, <1>2, <1>3, <1>4 DEF OpenAt, more

\* Its keys: those before and the token, if it is a key at this level.
LEMMA KeysGrow ==
    ASSUME NEW doc \in Seq(Token), NEW t \in Token,
           NEW d \in Nat \ {0}, NEW o \in 1..Len(doc)
    PROVE  KeysAt(Append(doc, t), o, d) =
             KeysAt(doc, o, d)
             \cup Joined(t, Level(doc, Len(doc)), d)
<1> DEFINE more == Append(doc, t)
           p == Len(doc) + 1
<1>1. /\ Len(more) = p /\ p - 1 = Len(doc) /\ Len(doc) \in Nat
      /\ more[p] = t
      /\ \A k \in 1..Len(doc) : more[k] = doc[k]
      /\ \A k \in 0..Len(doc) : Level(more, k) = Level(doc, k) /\ Level(doc, k) \in Int
      /\ Level(more, p) = Level(doc, Len(doc)) + Deeper(t)
  BY GrownIs
<1>2. t \in Key => Level(more, p) = Level(doc, Len(doc))
  <2>1. t \in Key => Deeper(t) = 0
    BY TokensDiffer
  <2>2. Level(doc, Len(doc)) \in Int
    BY <1>1
  <2> QED
    BY <1>1, <2>1, <2>2
<1> HIDE DEF more
<1> DEFINE Is(q) == more[q] \in Key /\ Level(more, q) = d
           Was(q) == doc[q] \in Key /\ Level(doc, q) = d
<1>3. \A q \in o + 1..Len(doc) : (Is(q) <=> Was(q)) /\ more[q] = doc[q]
  BY <1>1
<1>4. Is(p) <=> t \in Key /\ Level(doc, Len(doc)) = d
  BY <1>1, <1>2
<1>5. o + 1..Len(more) = (o + 1..Len(doc)) \cup {p} /\ p \notin o + 1..Len(doc)
  BY <1>1
<1>6. /\ KeysAt(more, o, d) = {more[q] : q \in {q \in o + 1..Len(more) : Is(q)}}
      /\ KeysAt(doc, o, d) = {doc[q] : q \in {q \in o + 1..Len(doc) : Was(q)}}
  BY DEF KeysAt
<1> HIDE DEF Is, Was
<1> DEFINE I == o + 1..Len(doc)
<1>7. /\ \A q \in I : (Is(q) <=> Was(q)) /\ more[q] = doc[q]
      /\ o + 1..Len(more) = I \cup {p} /\ more[p] = t
      /\ KeysAt(more, o, d) = {more[q] : q \in {q \in I \cup {p} : Is(q)}}
      /\ KeysAt(doc, o, d) = {doc[q] : q \in {q \in I : Was(q)}}
  BY <1>1, <1>3, <1>5, <1>6
<1> HIDE DEF I, p
<1>8. ASSUME NEW x \in KeysAt(more, o, d), x \notin KeysAt(doc, o, d)
      PROVE  Is(p) /\ x = t
  <2>1. PICK q \in I \cup {p} : Is(q) /\ x = more[q]
    BY <1>7, <1>8
  <2>2. q = p
    BY <1>7, <1>8, <2>1
  <2> QED
    BY <1>7, <2>1, <2>2
<1>9. ASSUME NEW x \in KeysAt(doc, o, d) PROVE x \in KeysAt(more, o, d)
  <2>1. PICK q \in I : Was(q) /\ x = doc[q]
    BY <1>7, <1>9
  <2> QED
    BY <1>7, <2>1
<1>10. Is(p) => t \in KeysAt(more, o, d)
  BY <1>7
<1>11. KeysAt(more, o, d) = KeysAt(doc, o, d) \cup (IF Is(p) THEN {t} ELSE {})
  BY <1>8, <1>9, <1>10
<1> QED
  BY <1>4, <1>11 DEF more, Joined

\* A frame outlives such a token, with the token as one more key if it is one.
LEMMA FrameStays ==
    ASSUME NEW doc \in Seq(Token), NEW t \in Token, NEW closer, NEW seen,
           NEW d \in Nat \ {0}, NEW o \in 1..Len(doc), FrameAt(doc, closer, seen, d, o),
           Level(doc, Len(doc)) + Deeper(t) >= d
    PROVE  /\ o \in 1..Len(Append(doc, t))
           /\ FrameAt(Append(doc, t), closer,
                      seen \cup Joined(t, Level(doc, Len(doc)), d),
                      d, o)
<1> DEFINE more == Append(doc, t)
           with == Joined(t, Level(doc, Len(doc)), d)
<1>1. o \in 1..Len(more) /\ OpenAt(more, d, o)
  BY OpenStays DEF FrameAt
<1>2. KeysAt(more, o, d) = KeysAt(doc, o, d) \cup with
  BY KeysGrow
<1>3. more[o] = doc[o]
  BY GrownIs
<1>4. /\ doc[o] = IF closer = "}" THEN "{" ELSE "["
      /\ closer = "}" => seen = KeysAt(doc, o, d)
  BY DEF FrameAt
<1> HIDE DEF more, with
<1>5. more[o] = IF closer = "}" THEN "{" ELSE "["
  BY <1>3, <1>4
<1>6. closer = "}" => seen \cup with = KeysAt(more, o, d)
  BY <1>2, <1>4
<1>7. FrameAt(more, closer, seen \cup with, d, o)
  BY <1>1, <1>5, <1>6 DEF FrameAt
<1> QED
  BY <1>1, <1>7 DEF more, with

\* What one token more leaves of a stack.
LeftOf(more, frames, n, t) ==
    /\ \A r \in 0..Len(more) : Level(more, r) >= 0
    /\ Level(more, Len(more)) = n + Deeper(t)
    /\ \A d \in 1..n : d <= n + Deeper(t) =>
          \E o \in 1..Len(more) :
              FrameAt(more, frames[d].closer, frames[d].seen \cup Joined(t, n, d), d, o)

LEMMA StandsBelow ==
    ASSUME NEW doc \in Seq(Token), NEW frames \in Seq(FrameType), Stands(doc, frames),
           NEW t \in Token, Len(frames) + Deeper(t) >= 0
    PROVE  LeftOf(Append(doc, t), frames, Len(frames), t)
<1> DEFINE more == Append(doc, t)
           n == Len(frames)
           p == Len(doc) + 1
<1>0. n \in Nat /\ Level(doc, Len(doc)) = n /\ \A r \in 0..Len(doc) : Level(doc, r) >= 0
  BY DEF Stands
<1>1. /\ Len(more) = p /\ Len(doc) \in Nat
      /\ \A k \in 0..Len(doc) : Level(more, k) = Level(doc, k)
      /\ Level(more, p) = Level(doc, Len(doc)) + Deeper(t)
  BY GrownIs
<1>2. ASSUME NEW d \in 1..n, d <= n + Deeper(t)
      PROVE  \E o \in 1..Len(more) :
                FrameAt(more, frames[d].closer,
                        frames[d].seen \cup Joined(t, n, d), d, o)
  <2>1. PICK o \in 1..Len(doc) : FrameAt(doc, frames[d].closer, frames[d].seen, d, o)
    BY DEF Stands
  <2>2. d \in Nat \ {0} /\ n + Deeper(t) >= d
    BY <1>0, <1>2, DeeperIs
  <2> QED
    BY <1>0, <2>1, <2>2, FrameStays
<1> HIDE DEF more
<1>3. ASSUME NEW r \in 0..Len(more) PROVE Level(more, r) >= 0
  <2>1. CASE r = p
    BY <1>0, <1>1, <2>1
  <2>2. CASE r \in 0..Len(doc)
    BY <1>0, <1>1, <2>2
  <2> QED
    BY <1>1, <2>1, <2>2
<1>4. Level(more, Len(more)) = n + Deeper(t)
  BY <1>0, <1>1
<1> QED
  BY <1>2, <1>3, <1>4 DEF more, LeftOf

LEMMA LeftIs ==
    ASSUME NEW more, NEW frames, NEW n, NEW t, LeftOf(more, frames, n, t),
           NEW d \in 1..n, d <= n + Deeper(t)
    PROVE  \E o \in 1..Len(more) :
              FrameAt(more, frames[d].closer, frames[d].seen \cup Joined(t, n, d), d, o)
BY Zenon DEF LeftOf

LEMMA NotJoined ==
    ASSUME NEW t, NEW n, NEW d, NEW seen, t \in Key => n # d
    PROVE  seen \cup Joined(t, n, d) = seen
BY DEF Joined

\* A token that opens and closes nothing, and is no key of an object.
LEMMA StandsStill ==
    ASSUME NEW doc \in Seq(Token), NEW frames \in Seq(FrameType), Stands(doc, frames),
           NEW t \in Token, Deeper(t) = 0,
           t \in Key => Len(frames) = 0
    PROVE  Stands(Append(doc, t), frames)
<1> DEFINE more == Append(doc, t)
           n == Len(frames)
<1>1. n \in Nat /\ (t \in Key => n = 0) /\ n + Deeper(t) = n
  OBVIOUS
<1>2. LeftOf(more, frames, n, t)
  BY <1>1, StandsBelow
<1> HIDE DEF more
<1>3. ASSUME NEW d \in 1..n
      PROVE  \E o \in 1..Len(more) : FrameAt(more, frames[d].closer, frames[d].seen, d, o)
  <2>1. PICK o \in 1..Len(more) :
           FrameAt(more, frames[d].closer,
                   frames[d].seen \cup Joined(t, n, d), d, o)
    <3>1. d <= n + Deeper(t)
      BY <1>1
    <3> QED
      BY <1>2, <3>1, LeftIs
  <2>2. frames[d].seen \cup Joined(t, n, d) = frames[d].seen
    <3>1. t \in Key => n # d
      BY <1>1
    <3> QED
      BY <3>1, NotJoined
  <2> QED
    BY <2>1, <2>2
<1>4. Level(more, Len(more)) = n
  BY <1>1, <1>2 DEF LeftOf
<1> QED
  BY <1>2, <1>3, <1>4 DEF LeftOf, Stands, more

LEMMA StandsWithKey ==
    ASSUME NEW doc \in Seq(Token), NEW frames \in Seq(FrameType), Stands(doc, frames),
           frames # << >>, NEW t \in Token, t \in Key
    PROVE  Stands(Append(doc, t),
                  [frames EXCEPT ![Len(frames)].seen =
                      frames[Len(frames)].seen \cup {t}])
<1> DEFINE more == Append(doc, t)
           n == Len(frames)
           now == [frames EXCEPT ![n].seen = frames[n].seen \cup {t}]
<1>0. n \in Nat /\ n >= 1
  OBVIOUS
<1>t. Deeper(t) = 0
  BY TokensDiffer
<1>1. n \in Nat /\ n >= 1 /\ Deeper(t) = 0 /\ n + Deeper(t) = n
  BY <1>0, <1>t
<1>2. LeftOf(more, frames, n, t)
  BY <1>1, StandsBelow
<1>3. /\ Len(now) = n
      /\ \A d \in 1..n :
            /\ now[d].closer = frames[d].closer
            /\ now[d].seen = frames[d].seen \cup Joined(t, n, d)
  <2> DEFINE frame == [frames[n] EXCEPT !.seen = frames[n].seen \cup {t}]
  <2>1. now = [frames EXCEPT ![n] = frame]
    OBVIOUS
  <2>2. frames[n] \in FrameType
    BY <1>0
  <2>3. frame.closer = frames[n].closer /\ frame.seen = frames[n].seen \cup {t}
    BY <2>2 DEF FrameType
  <2> HIDE DEF frame, now
  <2>4. ASSUME NEW d \in 1..n
        PROVE  now[d].closer = frames[d].closer /\ now[d].seen = frames[d].seen \cup Joined(t, n, d)
    <3>1. CASE d = n
      <4>1. now[d] = frame
        BY <1>0, <2>1, <3>1
      <4>2. Joined(t, n, d) = {t}
        BY <3>1 DEF Joined
      <4> QED
        BY <2>3, <3>1, <4>1, <4>2
    <3>2. CASE d # n
      <4>1. now[d] = frames[d]
        BY <1>0, <2>1, <3>2
      <4>2. Joined(t, n, d) = {}
        BY <3>2 DEF Joined
      <4> QED
        BY <4>1, <4>2
    <3> QED
      BY <3>1, <3>2
  <2>5. Len(now) = n
    BY <2>1
  <2> QED
    BY <2>4, <2>5
<1> HIDE DEF more, now
<1>4. ASSUME NEW d \in 1..n
      PROVE  \E o \in 1..Len(more) : FrameAt(more, now[d].closer, now[d].seen, d, o)
  <2>1. PICK o \in 1..Len(more) :
           FrameAt(more, frames[d].closer,
                   frames[d].seen \cup Joined(t, n, d), d, o)
    <3>1. d <= n + Deeper(t)
      BY <1>1
    <3> QED
      BY <1>2, <3>1, LeftIs
  <2>2. frames[d].seen \cup Joined(t, n, d) = now[d].seen
    BY <1>3
  <2>3. now[d].closer = frames[d].closer
    BY <1>3
  <2> QED
    BY <2>1, <2>2, <2>3
<1>5. Level(more, Len(more)) = n
  BY <1>1, <1>2 DEF LeftOf
<1> QED
  BY <1>2, <1>3, <1>4, <1>5 DEF LeftOf, Stands, more, now

Opens(t, closer) == (t = "{" /\ closer = "}") \/ (t = "[" /\ closer = "]")

LEMMA OpensIs ==
    ASSUME NEW t \in Token, NEW closer, Opens(t, closer)
    PROVE  t \notin Key /\ Deeper(t) = 1 /\ t = IF closer = "}" THEN "{" ELSE "["
<1>1. t \notin Key
  BY TokensDiffer DEF Opens
<1>2. IsOpener(t)
  BY DEF Opens, IsOpener
<1>3. t = IF closer = "}" THEN "{" ELSE "["
  BY DEF Opens
<1> QED
  BY <1>1, <1>2, <1>3, DeeperIs

LEMMA StandsDeeper ==
    ASSUME NEW doc \in Seq(Token), NEW frames \in Seq(FrameType), Stands(doc, frames),
           NEW t \in Token, NEW closer,
           Opens(t, closer)
    PROVE  Stands(Append(doc, t), Append(frames, Frame(closer)))
<1> DEFINE more == Append(doc, t)
           n == Len(frames)
           now == Append(frames, Frame(closer))
<1>0. n \in Nat
  OBVIOUS
<1>t. Deeper(t) = 1 /\ t \notin Key
  BY OpensIs
<1>1. n \in Nat /\ n + Deeper(t) = n + 1 /\ t \notin Key
  BY <1>0, <1>t
<1>2. LeftOf(more, frames, n, t)
  BY <1>1, StandsBelow
<1>3. /\ Len(now) = n + 1 /\ now[n + 1].closer = closer /\ now[n + 1].seen = {}
      /\ \A d \in 1..n : now[d] = frames[d]
  BY DEF Frame
<1>4. Len(more) = Len(doc) + 1 /\ Len(doc) \in Nat /\ more[Len(more)] = t
  OBVIOUS
<1> HIDE DEF more, now
<1>5. ASSUME NEW d \in 1..n
      PROVE  \E o \in 1..Len(more) : FrameAt(more, now[d].closer, now[d].seen, d, o)
  <2>1. PICK o \in 1..Len(more) :
           FrameAt(more, frames[d].closer,
                   frames[d].seen \cup Joined(t, n, d), d, o)
    <3>1. d <= n + Deeper(t)
      BY <1>1
    <3> QED
      BY <1>2, <3>1, LeftIs
  <2>2. frames[d].seen \cup Joined(t, n, d) = now[d].seen
    BY <1>1, <1>3 DEF Joined
  <2>3. now[d].closer = frames[d].closer
    BY <1>3
  <2> QED
    BY <2>1, <2>2, <2>3
<1>6. FrameAt(more, closer, {}, n + 1, Len(more))
  <2>1. OpenAt(more, n + 1, Len(more))
    BY <1>1, <1>2, <1>4 DEF LeftOf, OpenAt
  <2>2. KeysAt(more, Len(more), n + 1) = {}
    BY <1>4 DEF KeysAt
  <2>3. more[Len(more)] = IF closer = "}" THEN "{" ELSE "["
    BY <1>4, OpensIs
  <2> QED
    BY <2>1, <2>2, <2>3 DEF FrameAt
<1>7. ASSUME NEW d \in 1..n + 1
      PROVE  \E o \in 1..Len(more) : FrameAt(more, now[d].closer, now[d].seen, d, o)
  <2>1. CASE d = n + 1
    <3>1. Len(more) \in 1..Len(more)
      BY <1>4
    <3>2. FrameAt(more, now[d].closer, now[d].seen, d, Len(more))
      BY <1>3, <1>6, <2>1
    <3> QED
      BY <3>1, <3>2
  <2>2. CASE d \in 1..n
    BY <1>5, <2>2
  <2> QED
    BY <1>1, <2>1, <2>2
<1>8. Level(more, Len(more)) = n + 1
  BY <1>1, <1>2 DEF LeftOf
<1> QED
  BY <1>2, <1>3, <1>7, <1>8 DEF LeftOf, Stands, more, now

LEMMA PoppedIs ==
    ASSUME NEW T, NEW s \in Seq(T), s # << >>
    PROVE  /\ SubSeq(s, 1, Len(s) - 1) \in Seq(T)
           /\ Len(SubSeq(s, 1, Len(s) - 1)) = Len(s) - 1
           /\ \A d \in 1..Len(s) - 1 : SubSeq(s, 1, Len(s) - 1)[d] = s[d]
<1> DEFINE n == Len(s) - 1
<1>1. n \in Nat /\ Len(s) = n + 1
  OBVIOUS
<1>2. \A i \in 1..n + 1 : s[i] \in T
  BY <1>1
<1>3. SubSeq(s, 1, n) = [i \in 1..n |-> s[i]]
  BY <1>1
<1> HIDE DEF n
<1>4. SubSeq(s, 1, n) \in Seq(T)
  BY <1>1, <1>2, <1>3
<1>5. Len(SubSeq(s, 1, n)) = n /\ \A d \in 1..n : SubSeq(s, 1, n)[d] = s[d]
  BY <1>1, <1>3
<1> QED
  BY <1>4, <1>5 DEF n

LEMMA StandsClosed ==
    ASSUME NEW doc \in Seq(Token), NEW frames \in Seq(FrameType), Stands(doc, frames),
           frames # << >>, NEW t \in Token, IsCloser(t)
    PROVE  Stands(Append(doc, t), SubSeq(frames, 1, Len(frames) - 1))
<1> DEFINE more == Append(doc, t)
           n == Len(frames)
           now == SubSeq(frames, 1, n - 1)
<1>0. n \in Nat /\ n >= 1
  OBVIOUS
<1>t. Deeper(t) = -1 /\ t \notin Key
  BY TokensDiffer, DeeperIs DEF IsCloser
<1>1. n \in Nat /\ n >= 1 /\ n + Deeper(t) = n - 1 /\ t \notin Key
  BY <1>0, <1>t
<1>2. LeftOf(more, frames, n, t)
  BY <1>1, StandsBelow
<1>3. Len(now) = n - 1 /\ \A d \in 1..n - 1 : now[d] = frames[d]
  BY PoppedIs
<1> HIDE DEF more, now
<1>4. ASSUME NEW d \in 1..n - 1
      PROVE  \E o \in 1..Len(more) : FrameAt(more, now[d].closer, now[d].seen, d, o)
  <2>1. d \in 1..n /\ d <= n + Deeper(t)
    BY <1>1
  <2>2. PICK o \in 1..Len(more) :
           FrameAt(more, frames[d].closer,
                   frames[d].seen \cup Joined(t, n, d), d, o)
    BY <1>2, <2>1 DEF LeftOf
  <2>3. frames[d].seen \cup Joined(t, n, d) = now[d].seen
    BY <1>1, <1>3 DEF Joined
  <2>4. now[d].closer = frames[d].closer
    BY <1>3
  <2> QED
    BY <2>2, <2>3, <2>4
<1>5. Level(more, Len(more)) = n - 1
  BY <1>1, <1>2 DEF LeftOf
<1> QED
  BY <1>2, <1>3, <1>4, <1>5 DEF LeftOf, Stands, more, now

-----------------------------------------------------------------------------
(* What is lawful next, told from the stack.                                 *)

ValueNext(depth, t) == (t = "scalar" \/ IsOpener(t)) /\ depth <= MaxDepth

LEMMA LawfulOutside ==
    ASSUME NEW doc \in Seq(Token), NEW frames \in Seq(FrameType), Stands(doc, frames),
           NEW t \in Token, Len(frames) = 0
    PROVE  LawfulAt(Append(doc, t), Len(doc) + 1) <=>
             IF Len(doc) = 0 THEN ValueNext(Len(frames), t) ELSE t = "end"
<1> DEFINE more == Append(doc, t)
           p == Len(doc) + 1
<1>1. /\ p \in Nat \ {0} /\ p - 1 = Len(doc) /\ Len(doc) \in Nat /\ more[p] = t
      /\ \A k \in 0..Len(doc) : Level(more, k) = Level(doc, k)
  BY GrownIs
<1>2. Level(doc, Len(doc)) = Len(frames) /\ \A r \in 0..Len(doc) : Level(doc, r) >= 0
  BY DEF Stands
<1> HIDE DEF more, p
<1>3. Level(more, p - 1) = Len(frames)
  BY <1>1, <1>2
<1>4. \A r \in 0..p - 1 : Level(more, r) >= 0
  BY <1>1, <1>2
<1>5. Around(more, p) = 0
  BY <1>1, <1>3, <1>4, AroundNothing
<1>6. p = 1 <=> Len(doc) = 0
  BY <1>1 DEF p
<1>7. LawfulAt(more, p) <=>
        IF p = 1 THEN (t = "scalar" \/ IsOpener(t)) /\ Len(frames) <= MaxDepth ELSE t = "end"
  BY <1>1, <1>3, <1>5 DEF LawfulAt
<1> QED
  BY <1>6, <1>7 DEF more, p, ValueNext

\* The opening on top of the stack is the one around the next token.
LEMMA AroundTop ==
    ASSUME NEW doc \in Seq(Token), NEW t \in Token, NEW d \in Nat \ {0},
           NEW o \in 1..Len(doc), OpenAt(doc, d, o), IsOpener(doc[o]),
           Level(doc, Len(doc)) = d
    PROVE  /\ Around(Append(doc, t), Len(doc) + 1) = o
           /\ \A q \in o + 1..Len(doc) :
                 Around(Append(doc, t), q) = o <=> Level(doc, q - 1) = d
<1> DEFINE more == Append(doc, t)
           p == Len(doc) + 1
           n == Len(doc)
<1>1. /\ p \in Nat \ {0} /\ p - 1 = n /\ n \in Nat
      /\ \A k \in 1..n : more[k] = doc[k]
      /\ \A k \in 0..n : Level(more, k) = Level(doc, k)
  BY GrownIs
<1> HIDE DEF more
<1>2. IsOpener(more[o]) /\ Level(more, o) = d /\ \A r \in o..n : Level(more, r) >= d
  BY <1>1 DEF OpenAt
<1>3. ASSUME NEW q \in o + 1..n + 1 PROVE Around(more, q) = o <=> Level(more, q - 1) = d
  <2>1. n \in Nat /\ d \in Nat /\ o \in 1..n /\ q \in o + 1..n + 1
    BY <1>1
  <2> HIDE DEF n
  <2> QED
    BY <1>2, <2>1, AroundOpen
<1>4. p \in o + 1..n + 1 /\ Level(more, p - 1) = d
  BY <1>1
<1>5. ASSUME NEW q \in o + 1..n PROVE Around(more, q) = o <=> Level(doc, q - 1) = d
  <2>1. q \in o + 1..n + 1 /\ q - 1 \in 0..n
    BY <1>1
  <2> QED
    BY <1>1, <1>3, <2>1
<1> QED
  BY <1>3, <1>4, <1>5 DEF more

\* What it has for a key is what lies in that opening directly.
LEMMA SeenIs ==
    ASSUME NEW doc \in Seq(Token), NEW t \in Key, NEW d \in Nat \ {0},
           NEW o \in 1..Len(doc), NEW more,
           \A q \in 1..Len(doc) : more[q] = doc[q],
           \A q \in o + 1..Len(doc) : Around(more, q) = o <=> Level(doc, q - 1) = d
    PROVE  (\A q \in o + 1..Len(doc) : Around(more, q) = o => more[q] # t)
           <=> t \notin KeysAt(doc, o, d)
<1>1. ASSUME NEW q \in o + 1..Len(doc), doc[q] = t
      PROVE  Level(doc, q - 1) = d <=> Level(doc, q) = d
  <2>1. t \in Token
    BY DEF Token
  <2>2. Deeper(doc[q]) = 0
    BY <1>1, <2>1, TokensDiffer
  <2>3. q \in Nat \ {0} /\ q - 1 \in Nat
    OBVIOUS
  <2>4. Level(doc, q) = Level(doc, q - 1) + Deeper(doc[q]) /\ Level(doc, q - 1) \in Int
    BY <2>3, LevelIs
  <2> QED
    BY <2>2, <2>4
<1>2. t \in KeysAt(doc, o, d) <=> \E q \in o + 1..Len(doc) : doc[q] = t /\ Level(doc, q) = d
  BY DEF KeysAt
<1>3. ASSUME NEW q \in o + 1..Len(doc)
      PROVE  more[q] = doc[q] /\ (Around(more, q) = o <=> Level(doc, q - 1) = d)
  OBVIOUS
<1> QED
  BY <1>1, <1>2, <1>3

LEMMA LawfulUnder ==
    ASSUME NEW doc \in Seq(Token), NEW t \in Token, NEW d \in Nat \ {0},
           NEW o \in 1..Len(doc), NEW closer, NEW seen, FrameAt(doc, closer, seen, d, o),
           Level(doc, Len(doc)) = d, closer \in Closers
    PROVE  LawfulAt(Append(doc, t), Len(doc) + 1) <=>
             IF closer = "]" THEN ValueNext(d, t) \/ t = "]"
             ELSE IF doc[Len(doc)] \in Key THEN ValueNext(d, t)
             ELSE t = "}" \/ (t \in Key /\ t \notin seen)
<1>2. OpenAt(doc, d, o) /\ doc[o] = IF closer = "}" THEN "{" ELSE "["
  BY DEF FrameAt
<1>4. IsOpener(doc[o])
  BY <1>2 DEF IsOpener
<1>0. /\ Around(Append(doc, t), Len(doc) + 1) = o
      /\ \A q \in o + 1..Len(doc) :
            Around(Append(doc, t), q) = o <=> Level(doc, q - 1) = d
  <2>1. OpenAt(doc, d, o)
    BY <1>2
  <2> QED
    BY <1>4, <2>1, AroundTop
<1> DEFINE more == Append(doc, t)
           p == Len(doc) + 1
<1>1. /\ p \in Nat \ {0} /\ p - 1 = Len(doc) /\ Len(doc) \in Nat /\ more[p] = t
      /\ \A k \in 1..Len(doc) : more[k] = doc[k]
      /\ \A k \in 0..Len(doc) : Level(more, k) = Level(doc, k)
  BY GrownIs
<1>3. closer = "}" => seen = KeysAt(doc, o, d)
  BY DEF FrameAt
<1>5. /\ Around(more, p) = o
      /\ \A q \in o + 1..Len(doc) : Around(more, q) = o <=> Level(doc, q - 1) = d
  BY <1>0
<1> HIDE DEF more
<1>6. t \in Key => ((\A q \in o + 1..Len(doc) : Around(more, q) = o => more[q] # t)
                    <=> t \notin KeysAt(doc, o, d))
  BY <1>1, <1>5, SeenIs
<1>7. o # 0 /\ more[o] = doc[o] /\ more[p - 1] = doc[Len(doc)] /\ Level(more, p - 1) = d
  BY <1>1
<1> HIDE DEF p
<1>8. LawfulAt(more, p) <=>
        IF doc[o] = "[" THEN ValueNext(d, t) \/ t = "]"
        ELSE IF doc[Len(doc)] \in Key THEN ValueNext(d, t)
        ELSE \/ t = "}"
             \/ t \in Key /\ \A q \in o + 1..Len(doc) : Around(more, q) = o => more[q] # t
  BY <1>1, <1>5, <1>7 DEF LawfulAt, ValueNext
<1>9. (doc[o] = "[" <=> closer = "]") /\ (closer = "]" \/ closer = "}")
  BY <1>2 DEF Closers
<1> QED
  BY <1>3, <1>6, <1>8, <1>9 DEF more, p

LEMMA LawfulInside ==
    ASSUME NEW doc \in Seq(Token), NEW frames \in Seq(FrameType), Stands(doc, frames),
           NEW t \in Token, Len(frames) # 0
    PROVE  LawfulAt(Append(doc, t), Len(doc) + 1) <=>
             LET top == frames[Len(frames)]
             IN  IF top.closer = "]" THEN ValueNext(Len(frames), t) \/ t = "]"
                 ELSE IF doc[Len(doc)] \in Key THEN ValueNext(Len(frames), t)
                 ELSE t = "}" \/ (t \in Key /\ t \notin top.seen)
<1> DEFINE n == Len(frames)
           top == frames[n]
<1>1. n \in 1..n /\ n \in Nat \ {0} /\ top \in FrameType
  OBVIOUS
<1>2. Level(doc, Len(doc)) = n
  BY DEF Stands
<1>3. PICK o \in 1..Len(doc) : FrameAt(doc, top.closer, top.seen, n, o)
  BY <1>1 DEF Stands
<1>4. top.closer \in Closers
  BY <1>1 DEF FrameType
<1> HIDE DEF n, top
<1>5. LawfulAt(Append(doc, t), Len(doc) + 1) <=>
        IF top.closer = "]" THEN ValueNext(n, t) \/ t = "]"
        ELSE IF doc[Len(doc)] \in Key THEN ValueNext(n, t)
        ELSE t = "}" \/ (t \in Key /\ t \notin top.seen)
  BY <1>1, <1>2, <1>3, <1>4, LawfulUnder
<1> QED
  BY <1>5 DEF n, top

-----------------------------------------------------------------------------
(* The descent follows what is lawful, one token after the other.            *)

PCs == {"value", "more", "eof", "malformed", "decode", "decoded", "refused"}

JsonType == read \in Seq(Token) /\ stack \in Seq(FrameType) /\ pc \in PCs

\* Where the descent stands in the document.
Expects ==
    /\ pc = "value" =>
          IF Len(stack) = 0 THEN Len(read) = 0
          ELSE Top.closer = "}" /\ read[Len(read)] \in Key
    /\ pc = "more" => Len(stack) # 0 /\ read[Len(read)] \notin Key
    /\ pc \in {"eof", "decode", "decoded", "refused"} => Len(stack) = 0 /\ Len(read) # 0

Follows ==
    /\ pc = "malformed" => ~Lawful(read)
    /\ pc # "malformed" => Lawful(read) /\ Stands(read, stack) /\ Expects

JsonInv == JsonType /\ Follows

Fits(t) == LawfulAt(Append(read, t), Len(read) + 1)

LEMMA LawfulGrows ==
    ASSUME NEW doc \in Seq(Token), NEW t \in Token
    PROVE  Lawful(Append(doc, t)) <=> Lawful(doc) /\ LawfulAt(Append(doc, t), Len(doc) + 1)
<1> DEFINE more == Append(doc, t)
           p == Len(doc) + 1
<1>1. /\ Len(doc) \in Nat /\ p \in Nat \ {0} /\ DOMAIN doc = 1..Len(doc)
      /\ DOMAIN more = 1..p /\ \A k \in 1..Len(doc) : more[k] = doc[k]
  OBVIOUS
<1> HIDE DEF more
<1>2. ASSUME NEW k \in 1..Len(doc) PROVE LawfulAt(more, k) <=> LawfulAt(doc, k)
  <2>1. k \in Nat \ {0} /\ \A j \in 1..k : more[j] = doc[j]
    BY <1>1
  <2> QED
    BY <2>1, LawfulOfPrefix
<1>3. 1..p = (1..Len(doc)) \cup {p}
  BY <1>1
<1>4. Lawful(more) <=> \A k \in 1..p : LawfulAt(more, k)
  BY <1>1 DEF Lawful
<1>5. Lawful(doc) <=> \A k \in 1..Len(doc) : LawfulAt(doc, k)
  BY <1>1 DEF Lawful
<1> HIDE DEF p
<1> QED
  BY <1>2, <1>3, <1>4, <1>5 DEF more, p

LEMMA EmptyFollows == Lawful(<< >>) /\ Stands(<< >>, << >>)
<1>1. Lawful(<< >>)
  BY DEF Lawful
<1>2. Level(<< >>, 0) = 0
  BY LevelIs
<1>3. Len(<< >>) = 0
  OBVIOUS
<1> QED
  BY <1>1, <1>2, <1>3 DEF Stands

LEMMA ValueFits ==
    ASSUME JsonInv, NEW t \in Token, CallsParseValue(t)
    PROVE  Fits(t) <=> ValueNext(Len(stack), t)
<1>1. read \in Seq(Token) /\ stack \in Seq(FrameType)
  BY DEF JsonInv, JsonType
<1>2. pc # "malformed" /\ Stands(read, stack) /\ Expects
  BY DEF JsonInv, Follows, CallsParseValue
<1>3. CASE Len(stack) = 0
  <2>1. Len(read) = 0
    BY <1>2, <1>3 DEF CallsParseValue, Expects
  <2> QED
    BY <1>1, <1>2, <1>3, <2>1, LawfulOutside DEF Fits
<1>4. CASE Len(stack) # 0
  <2>1. LawfulAt(Append(read, t), Len(read) + 1) <=>
           IF Top.closer = "]" THEN ValueNext(Len(stack), t) \/ t = "]"
           ELSE IF read[Len(read)] \in Key THEN ValueNext(Len(stack), t)
           ELSE t = "}" \/ (t \in Key /\ t \notin Top.seen)
    BY <1>1, <1>2, <1>4, LawfulInside DEF Top
  <2>2. CASE pc = "value"
    BY <1>2, <1>4, <2>1, <2>2 DEF Expects, Fits
  <2>3. CASE pc = "more" /\ Top.closer = "]" /\ t # "]"
    BY <2>1, <2>3 DEF Fits
  <2> QED
    BY <2>2, <2>3 DEF CallsParseValue
<1> QED
  BY <1>3, <1>4

LEMMA MalformedFollows ==
    ASSUME JsonInv, NEW t \in Token, read' = Append(read, t), ~Fits(t), Malformed
    PROVE  JsonInv'
<1>1. read' \in Seq(Token) /\ stack' \in Seq(FrameType) /\ pc' = "malformed"
  BY DEF JsonInv, JsonType, Malformed
<1>2. ~Lawful(read')
  BY LawfulGrows DEF JsonInv, JsonType, Fits
<1> QED
  BY <1>1, <1>2 DEF JsonInv, JsonType, Follows, PCs

LEMMA FittingFollows ==
    ASSUME JsonInv, pc # "malformed", NEW t \in Token, read' = Append(read, t), Fits(t),
           stack' \in Seq(FrameType), Stands(read', stack'),
           pc' \in PCs \ {"malformed"}, Expects'
    PROVE  JsonInv'
<1>1. read' \in Seq(Token)
  BY DEF JsonInv, JsonType
<1>2. Lawful(read')
  BY LawfulGrows DEF JsonInv, JsonType, Follows, Fits
<1> QED
  BY <1>1, <1>2 DEF JsonInv, JsonType, Follows

LEMMA DepthNat == MaxDepth \in Nat
BY StrictJSONAssumption

LEMMA AppendedIs ==
    ASSUME NEW T, NEW s \in Seq(T), NEW e \in T
    PROVE  /\ Append(s, e) \in Seq(T) /\ Len(Append(s, e)) = Len(s) + 1
           /\ \A d \in 1..Len(s) : Append(s, e)[d] = s[d]
           /\ Append(s, e)[Len(s) + 1] = e
           /\ Append(s, e) = [d \in 1..Len(s) + 1 |-> Append(s, e)[d]]
<1>1. /\ Append(s, e) \in Seq(T) /\ Len(Append(s, e)) = Len(s) + 1
      /\ \A d \in 1..Len(s) : Append(s, e)[d] = s[d]
      /\ Append(s, e)[Len(s) + 1] = e
  OBVIOUS
<1> DEFINE new == Append(s, e)
<1> HIDE DEF new
<1>2. new \in Seq(T) /\ Len(new) = Len(s) + 1
  BY <1>1 DEF new
<1>3. new = [d \in 1..Len(s) + 1 |-> new[d]]
  BY <1>2
<1> QED
  BY <1>1, <1>3 DEF new

LEMMA EmptyIs ==
    ASSUME NEW T, NEW s \in Seq(T)
    PROVE  s = << >> <=> Len(s) = 0
OBVIOUS

LEMMA JsonInvIs ==
    ASSUME JsonInv
    PROVE  /\ read \in Seq(Token) /\ stack \in Seq(FrameType) /\ pc \in PCs
           /\ pc # "malformed" => Lawful(read) /\ Stands(read, stack) /\ Expects
BY DEF JsonInv, JsonType, Follows

LEMMA ReadIs ==
    ASSUME JsonInv, NEW t \in Token, read' = Append(read, t)
    PROVE  read'[Len(read')] = t /\ Len(read') # 0
<1>1. read \in Seq(Token)
  BY DEF JsonInv, JsonType
<1> QED
  BY <1>1

LEMMA FrameTyped ==
    ASSUME NEW closer, NEW t, Opens(t, closer)
    PROVE  Frame(closer) \in FrameType
BY DEF Frame, FrameType, Closers, Opens

LEMMA OpeningFollows ==
    ASSUME JsonInv, NEW t \in Token, NEW closer, Opens(t, closer), read' = Append(read, t),
           pc # "malformed", Fits(t), pc' = "more", stack' = Append(stack, Frame(closer))
    PROVE  JsonInv'
<1>1. read \in Seq(Token) /\ stack \in Seq(FrameType) /\ Stands(read, stack)
  BY JsonInvIs
<1>2. Frame(closer) \in FrameType
  BY FrameTyped
<1>3. Stands(read', stack')
  BY <1>1, StandsDeeper
<1>4. stack' \in Seq(FrameType) /\ Len(stack') # 0
  BY <1>1, <1>2
<1>5. t \notin Key
  BY OpensIs
<1>6. read'[Len(read')] \notin Key
  BY <1>5, ReadIs
<1>7. pc' \in PCs \ {"malformed"}
  BY DEF PCs
<1>8. Expects'
  BY <1>4, <1>6 DEF Expects
<1> QED
  BY <1>3, <1>4, <1>7, <1>8, FittingFollows

LEMMA ScalarFollows ==
    ASSUME JsonInv, NEW t \in Token, t = "scalar", read' = Append(read, t),
           pc # "malformed", Fits(t), pc' = After(stack), stack' = stack
    PROVE  JsonInv'
<1>1. read \in Seq(Token) /\ stack \in Seq(FrameType) /\ Stands(read, stack)
  BY JsonInvIs
<1>2. t \notin Key /\ Deeper(t) = 0
  BY TokensDiffer DEF Deeper, IsOpener, IsCloser
<1>3. Stands(read', stack')
  BY <1>1, <1>2, StandsStill
<1>4. read'[Len(read')] \notin Key /\ Len(read') # 0
  BY <1>2, ReadIs
<1>5. pc' = IF Len(stack) = 0 THEN "eof" ELSE "more"
  BY <1>1, EmptyIs DEF After
<1>6. pc' \in PCs \ {"malformed"}
  BY <1>5 DEF PCs
<1>7. Expects'
  BY <1>4, <1>5 DEF Expects
<1> QED
  BY <1>1, <1>3, <1>6, <1>7, FittingFollows

LEMMA ParseValueFollows ==
    ASSUME JsonInv, NEW t \in Token, read' = Append(read, t), ParseValue(t)
    PROVE  JsonInv'
<1>1. pc # "malformed" /\ (Fits(t) <=> ValueNext(Len(stack), t))
  BY ValueFits DEF ParseValue, CallsParseValue
<1>2. CASE TooDeep
  <2>1. Len(stack) \in Nat
    BY JsonInvIs
  <2>2. ~ValueNext(Len(stack), t)
    BY <1>2, <2>1, DepthNat DEF TooDeep, ValueNext
  <2>3. Malformed
    BY <1>2 DEF ParseValue
  <2> QED
    BY <1>1, <2>2, <2>3, MalformedFollows
<1>3. CASE ~TooDeep
  <2>1. Len(stack) \in Nat
    BY JsonInvIs
  <2>2. Len(stack) <= MaxDepth
    BY <1>3, <2>1, DepthNat DEF TooDeep
  <2>3. CASE t = "scalar" /\ pc' = After(stack) /\ UNCHANGED stack
    <3>1. Fits(t)
      BY <1>1, <2>2, <2>3 DEF ValueNext
    <3> QED
      BY <1>1, <2>3, <3>1, ScalarFollows
  <2>4. CASE t = "{" /\ pc' = "more" /\ stack' = Append(stack, Frame("}"))
    <3>1. Fits(t) /\ Opens(t, "}")
      BY <1>1, <2>2, <2>4 DEF ValueNext, Opens, IsOpener
    <3> QED
      BY <1>1, <2>4, <3>1, OpeningFollows
  <2>5. CASE t = "[" /\ pc' = "more" /\ stack' = Append(stack, Frame("]"))
    <3>1. Fits(t) /\ Opens(t, "]")
      BY <1>1, <2>2, <2>5 DEF ValueNext, Opens, IsOpener
    <3> QED
      BY <1>1, <2>5, <3>1, OpeningFollows
  <2>6. CASE t \notin {"scalar", "{", "["} /\ Malformed
    <3>1. ~Fits(t)
      BY <1>1, <2>6 DEF ValueNext, IsOpener
    <3> QED
      BY <2>6, <3>1, MalformedFollows
  <2> QED
    BY <1>3, <2>3, <2>4, <2>5, <2>6 DEF ParseValue
<1> QED
  BY <1>2, <1>3

LEMMA TopReplaced ==
    ASSUME NEW frames \in Seq(FrameType), Len(frames) # 0, NEW k \in Key
    PROVE  LET n == Len(frames)
               frame == [frames[n] EXCEPT !.seen = frames[n].seen \cup {k}]
           IN  /\ Append(SubSeq(frames, 1, n - 1), frame)
                    = [frames EXCEPT ![n].seen = frames[n].seen \cup {k}]
               /\ Append(SubSeq(frames, 1, n - 1), frame) \in Seq(FrameType)
               /\ Append(SubSeq(frames, 1, n - 1), frame)[n].closer = frames[n].closer
               /\ Len(Append(SubSeq(frames, 1, n - 1), frame)) = n
<1> DEFINE n == Len(frames)
           frame == [frames[n] EXCEPT !.seen = frames[n].seen \cup {k}]
           below == SubSeq(frames, 1, n - 1)
<1>1. n \in Nat /\ n - 1 \in Nat /\ (n - 1) + 1 = n /\ frames[n] \in FrameType
  OBVIOUS
<1>2. /\ below \in Seq(FrameType) /\ Len(below) = n - 1
      /\ \A d \in 1..n - 1 : below[d] = frames[d]
  BY PoppedIs
<1>3. frame \in FrameType /\ frame.closer = frames[n].closer
  BY <1>1 DEF FrameType
<1>4. [frames EXCEPT ![n].seen = frames[n].seen \cup {k}] = [frames EXCEPT ![n] = frame]
  OBVIOUS
<1> HIDE DEF frame, below
<1>5. /\ Append(below, frame) \in Seq(FrameType)
      /\ Len(Append(below, frame)) = (n - 1) + 1
      /\ \A d \in 1..n - 1 : Append(below, frame)[d] = below[d]
      /\ Append(below, frame)[(n - 1) + 1] = frame
      /\ Append(below, frame) = [d \in 1..(n - 1) + 1 |-> Append(below, frame)[d]]
  <2>1. below \in Seq(FrameType) /\ frame \in FrameType
    BY <1>2, <1>3
  <2> QED
    BY <1>2, <2>1, AppendedIs
<1> DEFINE new == Append(below, frame)
<1>6. /\ Len(new) = n /\ new[n] = frame /\ \A d \in 1..n - 1 : new[d] = frames[d]
      /\ new = [d \in 1..n |-> new[d]]
  BY <1>1, <1>2, <1>5
<1>7. [frames EXCEPT ![n] = frame] = [d \in 1..n |-> IF d = n THEN frame ELSE frames[d]]
  OBVIOUS
<1> HIDE DEF new
<1>8. \A d \in 1..n : new[d] = IF d = n THEN frame ELSE frames[d]
  <2> SUFFICES ASSUME NEW d \in 1..n
               PROVE  new[d] = IF d = n THEN frame ELSE frames[d]
    OBVIOUS
  <2> HIDE DEF n
  <2>1. CASE d = n
    BY <1>6, <2>1
  <2>2. CASE d # n
    <3>1. d \in 1..n - 1
      BY <1>1, <2>2
    <3> QED
      BY <1>6, <2>2, <3>1
  <2> QED
    BY <2>1, <2>2
<1>9. new = [frames EXCEPT ![n] = frame]
  BY <1>6, <1>7, <1>8
<1> QED
  BY <1>3, <1>4, <1>5, <1>6, <1>9 DEF frame, below, new

\* Within brackets, when no value is due.
LEMMA InsideFits ==
    ASSUME JsonInv, NEW t \in Token, pc = "more"
    PROVE  /\ Len(stack) # 0 /\ Top \in FrameType
           /\ Fits(t) <=>
                IF Top.closer = "]" THEN ValueNext(Len(stack), t) \/ t = "]"
                ELSE t = "}" \/ (t \in Key /\ t \notin Top.seen)
<1>1. read \in Seq(Token) /\ stack \in Seq(FrameType) /\ Stands(read, stack) /\ Expects
  BY JsonInvIs
<1>2. Len(stack) # 0 /\ read[Len(read)] \notin Key
  BY <1>1 DEF Expects
<1>3. LawfulAt(Append(read, t), Len(read) + 1) <=>
         IF Top.closer = "]" THEN ValueNext(Len(stack), t) \/ t = "]"
         ELSE IF read[Len(read)] \in Key THEN ValueNext(Len(stack), t)
         ELSE t = "}" \/ (t \in Key /\ t \notin Top.seen)
  BY <1>1, <1>2, LawfulInside DEF Top
<1>4. Top \in FrameType
  BY <1>1, <1>2 DEF Top
<1> QED
  BY <1>2, <1>3, <1>4 DEF Fits

LEMMA NewKeyFollows ==
    ASSUME JsonInv, NEW t \in Token, read' = Append(read, t), pc = "more", Top.closer = "}",
           t \in Key, Fits(t), pc' = "value",
           stack' = Append(Pop, [Top EXCEPT !.seen = Top.seen \cup {t}])
    PROVE  JsonInv'
<1>1. read \in Seq(Token) /\ stack \in Seq(FrameType) /\ Stands(read, stack) /\ pc # "malformed"
  BY JsonInvIs
<1>2. Len(stack) # 0
  BY InsideFits
<1>3. /\ stack' = [stack EXCEPT ![Len(stack)].seen = stack[Len(stack)].seen \cup {t}]
      /\ stack' \in Seq(FrameType)
      /\ stack'[Len(stack)].closer = stack[Len(stack)].closer
      /\ Len(stack') = Len(stack)
  BY <1>1, <1>2, TopReplaced DEF Top, Pop
<1>4. stack # << >>
  BY <1>1, <1>2, EmptyIs
<1>5. Stands(read', stack')
  BY <1>1, <1>3, <1>4, StandsWithKey
<1>6. stack'[Len(stack')].closer = "}"
  BY <1>3 DEF Top
<1>7. read'[Len(read')] = t
  BY ReadIs
<1>8. Expects'
  <2>1. pc' = "value" /\ Len(stack') # 0 /\ read'[Len(read')] \in Key
    BY <1>2, <1>3, <1>7
  <2> QED
    BY <1>6, <2>1 DEF Expects, Top
<1>9. pc' \in PCs \ {"malformed"}
  BY DEF PCs
<1> QED
  BY <1>1, <1>3, <1>5, <1>8, <1>9, FittingFollows

LEMMA ObjectKeyFollows ==
    ASSUME JsonInv, NEW t \in Token, read' = Append(read, t), ObjectKey(t)
    PROVE  JsonInv'
<1>1. pc = "more" /\ Top.closer = "}" /\ t # "}"
  BY DEF ObjectKey
<1>2. Fits(t) <=> t \in Key \ Top.seen
  BY <1>1, InsideFits
<1>3. CASE t \in Key \ Top.seen
  <2>1. /\ stack' = Append(Pop, [Top EXCEPT !.seen = Top.seen \cup {t}])
        /\ pc' = "value"
    BY <1>3 DEF ObjectKey, Remember
  <2> QED
    BY <1>1, <1>2, <1>3, <2>1, NewKeyFollows
<1>4. CASE t \notin Key \ Top.seen
  <2>1. Malformed
    BY <1>4 DEF ObjectKey
  <2> QED
    BY <1>2, <1>4, <2>1, MalformedFollows
<1> QED
  BY <1>3, <1>4

LEMMA ClosingFollows ==
    ASSUME JsonInv, NEW t \in Token, read' = Append(read, t), pc = "more", IsCloser(t),
           Fits(t), stack' = Pop, pc' = After(Pop)
    PROVE  JsonInv'
<1>1. read \in Seq(Token) /\ stack \in Seq(FrameType) /\ Stands(read, stack) /\ pc # "malformed"
  BY JsonInvIs
<1>2. Len(stack) # 0
  BY InsideFits
<1>3. stack # << >>
  BY <1>2
<1>4. stack' \in Seq(FrameType)
  BY <1>1, <1>3, PoppedIs DEF Pop
<1>5. Stands(read', stack')
  BY <1>1, <1>3, StandsClosed DEF Pop
<1>6. t \notin Key
  BY TokensDiffer DEF IsCloser
<1>7. read'[Len(read')] \notin Key /\ Len(read') # 0
  BY <1>6, ReadIs
<1>8. pc' = IF Len(stack') = 0 THEN "eof" ELSE "more"
  BY <1>4, EmptyIs DEF After
<1>9. Expects'
  BY <1>7, <1>8 DEF Expects
<1>10. pc' \in PCs \ {"malformed"}
  BY <1>8 DEF PCs
<1> QED
  BY <1>1, <1>4, <1>5, <1>9, <1>10, FittingFollows

LEMMA CloseFollows ==
    ASSUME JsonInv, NEW t \in Token, read' = Append(read, t), Close(t)
    PROVE  JsonInv'
<1>1. pc = "more" /\ t \in {"]", "}", "end"}
  BY DEF Close
<1>2. Top.closer \in Closers
  BY <1>1, InsideFits DEF FrameType
<1>3. ~ValueNext(Len(stack), t) /\ t \notin Key
  BY <1>1, TokensDiffer DEF ValueNext, IsOpener
<1>4. Fits(t) <=> t = Top.closer
  <2>1. Fits(t) <=> IF Top.closer = "]" THEN t = "]" ELSE t = "}"
    BY <1>1, <1>3, InsideFits
  <2> QED
    BY <1>2, <2>1 DEF Closers
<1>5. CASE t = Top.closer
  <2>1. stack' = Pop /\ pc' = After(Pop) /\ IsCloser(t)
    BY <1>2, <1>5 DEF Close, Closers, IsCloser
  <2> QED
    BY <1>1, <1>4, <1>5, <2>1, ClosingFollows
<1>6. CASE t # Top.closer
  BY <1>4, <1>6, MalformedFollows DEF Close
<1> QED
  BY <1>5, <1>6

LEMMA RequireEOFFollows ==
    ASSUME JsonInv, NEW t \in Token, read' = Append(read, t), RequireEOF(t)
    PROVE  JsonInv'
<1>1. pc = "eof" /\ pc' = (IF t = "end" THEN "decode" ELSE "malformed") /\ stack' = stack
  BY DEF RequireEOF
<1>2. read \in Seq(Token) /\ stack \in Seq(FrameType) /\ Stands(read, stack) /\ Expects
  BY <1>1, JsonInvIs
<1>3. Len(stack) = 0 /\ Len(read) # 0
  BY <1>1, <1>2 DEF Expects
<1>4. Fits(t) <=> t = "end"
  BY <1>2, <1>3, LawfulOutside DEF Fits
<1>5. CASE t = "end"
  <2>1. Deeper(t) = 0 /\ t \notin Key
    BY <1>5, TokensDiffer DEF Deeper, IsOpener, IsCloser
  <2>2. Stands(read', stack')
    BY <1>1, <1>2, <2>1, StandsStill
  <2>3. Len(read') # 0
    BY ReadIs
  <2>4. pc' = "decode"
    BY <1>1, <1>5
  <2>5. Expects'
    BY <1>1, <1>3, <2>3, <2>4 DEF Expects
  <2>6. pc' \in PCs \ {"malformed"} /\ pc # "malformed" /\ stack' \in Seq(FrameType)
    BY <1>1, <1>2, <2>4 DEF PCs
  <2> QED
    BY <1>4, <1>5, <2>2, <2>5, <2>6, FittingFollows
<1>6. CASE t # "end"
  <2>1. Malformed
    BY <1>1, <1>6 DEF Malformed
  <2> QED
    BY <1>4, <1>6, <2>1, MalformedFollows
<1> QED
  BY <1>5, <1>6

LEMMA DecodeFollows == ASSUME JsonInv, Decode PROVE JsonInv'
<1>1. pc = "decode" /\ pc' \in {"refused", "decoded"} /\ UNCHANGED <<read, stack>>
  BY DEF Decode
<1>2. JsonType'
  BY <1>1 DEF JsonInv, JsonType, PCs
<1>3. Lawful(read) /\ Stands(read, stack) /\ Len(stack) = 0 /\ Len(read) # 0
  BY <1>1 DEF JsonInv, Follows, Expects
<1>4. Follows'
  BY <1>1, <1>3 DEF Follows, Expects
<1> QED
  BY <1>2, <1>4 DEF JsonInv

LEMMA OfferedToken == Offered \subseteq Token
BY DEF Offered, Token

LEMMA RejectFollows == ASSUME JsonInv, RejectDuplicateKeys PROVE JsonInv'
<1>1. PICK t \in Offered :
         Read(t) /\ (ParseValue(t) \/ ObjectKey(t) \/ Close(t) \/ RequireEOF(t))
  BY DEF RejectDuplicateKeys
<1>2. t \in Token /\ read' = Append(read, t)
  BY <1>1, OfferedToken DEF Read
<1> QED
  BY <1>1, <1>2, ParseValueFollows, ObjectKeyFollows, CloseFollows, RequireEOFFollows

\* A new document.
LEMMA SkipFollows == ASSUME Skip PROVE JsonInv'
<1>1. read' = << >> /\ stack' = << >> /\ pc' = "value"
  BY DEF Skip
<1>2. Lawful(read') /\ Stands(read', stack')
  BY <1>1, EmptyFollows
<1>3. read' \in Seq(Token) /\ stack' \in Seq(FrameType) /\ Len(stack') = 0 /\ Len(read') = 0
  BY <1>1
<1>4. Expects'
  BY <1>1, <1>3 DEF Expects
<1> QED
  BY <1>1, <1>2, <1>3, <1>4 DEF JsonInv, JsonType, Follows, PCs

LEMMA JsonUnchanged == ASSUME JsonInv, UNCHANGED <<read, stack, pc>> PROVE JsonInv'
BY DEF JsonInv, JsonType, Follows, Expects, Top

-----------------------------------------------------------------------------
(* The steps of the reader.                                                  *)

LEMMA JsonInit == ASSUME Init PROVE JsonInv
<1>1. read = << >> /\ stack = << >> /\ pc = "value"
  BY DEF Init, NewDocument
<1>2. Lawful(read) /\ Stands(read, stack)
  BY <1>1, EmptyFollows
<1>3. read \in Seq(Token) /\ stack \in Seq(FrameType) /\ Len(stack) = 0 /\ Len(read) = 0
  BY <1>1
<1>4. Expects
  BY <1>1, <1>3 DEF Expects
<1> QED
  BY <1>1, <1>2, <1>3, <1>4 DEF JsonInv, JsonType, Follows, PCs

\* The strict decoder goes on from the end of a single object.
LEMMA AcceptedFollows ==
    ASSUME JsonInv, pc = "eof", pc' = "decode", UNCHANGED <<read, stack>>
    PROVE  JsonInv'
BY DEF JsonInv, JsonType, Follows, Expects, Top, PCs

LEMMA JsonNext == ASSUME JsonInv, [Next]_vars PROVE JsonInv'
<1>1. CASE Strict
  BY <1>1, RejectFollows, DecodeFollows DEF Strict, DecodeStrict
<1>2. CASE ReadObject
  <2>1. PICK t \in Offered : Read(t) /\ (ParseValue(t) \/ ObjectKey(t) \/ Close(t))
    BY <1>2 DEF ReadObject
  <2>2. t \in Token /\ read' = Append(read, t)
    BY <2>1, OfferedToken DEF Read
  <2> QED
    BY <2>1, <2>2, ParseValueFollows, ObjectKeyFollows, CloseFollows
<1>3. CASE EndOfStream
  BY <1>3, JsonUnchanged DEF EndOfStream, jsonVars
<1>4. CASE TypeMeta
  <2>1. pc = "eof" /\ (UNCHANGED jsonVars \/ Skip \/ (pc' = "decode" /\ UNCHANGED <<read, stack>>))
    BY <1>4 DEF TypeMeta
  <2> QED
    BY <2>1, JsonUnchanged, SkipFollows, AcceptedFollows DEF jsonVars
<1>5. CASE DecodeObject
  BY <1>5, DecodeFollows DEF DecodeObject
<1>6. CASE Return
  BY <1>6, JsonUnchanged DEF Return, Invalid, jsonVars
<1>7. CASE UNCHANGED vars
  BY <1>7, JsonUnchanged DEF vars
<1> QED
  BY <1>1, <1>2, <1>3, <1>4, <1>5, <1>6, <1>7 DEF Next

LEMMA JsonHolds == Spec => []JsonInv
<1>1. Init => JsonInv
  BY JsonInit
<1>2. JsonInv /\ [Next]_vars => JsonInv'
  BY JsonNext
<1> QED
  BY <1>1, <1>2, PTL DEF Spec

\* The descent lets through exactly the documents that are lawful when told from
\* the sequence of their tokens alone, whatever their length, depth and keys
\* (jsonsafe.go:48-110).
THEOREM StrictPassesExactly == Spec => []PassesExactly
<1>1. JsonInv => PassesExactly
  <2> SUFFICES ASSUME JsonInv PROVE PassesExactly
    OBVIOUS
  <2>1. ASSUME pc \in {"eof", "decode", "decoded", "refused"}
        PROVE  Lawful(read) /\ Level(read, Len(read)) = 0
    <3>1. Lawful(read) /\ Stands(read, stack) /\ Len(stack) = 0
      BY <2>1 DEF JsonInv, Follows, Expects
    <3> QED
      BY <3>1 DEF Stands
  <2>2. pc = "malformed" => ~Lawful(read)
    BY DEF JsonInv, Follows
  <2> QED
    BY <2>1, <2>2 DEF PassesExactly
<1> QED
  BY <1>1, JsonHolds, PTL

-----------------------------------------------------------------------------
(* What became of the objects.                                               *)

Claims == [version: Version \cup {""}, kind: {"DeviceMetadata", "other", ""}, sound: BOOLEAN]

Supported(o) == o.version = APIVersion /\ o.kind = "DeviceMetadata" /\ o.sound

AllUnknown(found, n) == \A k \in 1..n : Unknown(found[k])

Usable(found) ==
    /\ Len(found) # 0 /\ Len(found) - 1 <= MaxUnknownVersions
    /\ AllUnknown(found, Len(found) - 1) /\ Supported(found[Len(found)])

StreamInv ==
    /\ step \in {"strict", "object", "decode", "failed", "done"}
    /\ objects \in Seq(Claims)
    /\ Len(objects) <= MaxUnknownVersions + 1
    /\ step \in {"strict", "object"} =>
          Len(objects) <= MaxUnknownVersions /\ AllUnknown(objects, Len(objects))
    /\ step \in {"decode", "done"} => Usable(objects)
    /\ step = "failed" => ~Usable(objects) \/ pc = "malformed"

LEMMA LimitNat == MaxUnknownVersions \in Nat
BY MetadataAssumption

LEMMA UnknownNotSupported == ASSUME NEW o, Unknown(o) PROVE ~Supported(o)
BY DEF Unknown, Supported

LEMMA ClaimIs ==
    ASSUME NEW version \in Version \cup {""}, NEW kind \in {"DeviceMetadata", "other", ""},
           NEW sound \in BOOLEAN
    PROVE  LET o == [version |-> version, kind |-> kind, sound |-> sound]
           IN  /\ o \in Claims
               /\ Supported(o) <=> version = APIVersion /\ kind = "DeviceMetadata" /\ sound
               /\ Unknown(o) <=> version \notin {"", APIVersion} /\ kind # ""
BY DEF Claims, Supported, Unknown

\* One object more after unknown ones.
LEMMA FoundMore ==
    ASSUME NEW found \in Seq(Claims), NEW o \in Claims,
           AllUnknown(found, Len(found)), Len(found) <= MaxUnknownVersions
    PROVE  LET more == Append(found, o)
           IN  /\ more \in Seq(Claims) /\ Len(more) = Len(found) + 1
               /\ Len(more) <= MaxUnknownVersions + 1
               /\ ~(Len(found) >= MaxUnknownVersions) => Len(more) <= MaxUnknownVersions
               /\ Usable(more) <=> Supported(o)
               /\ Unknown(o) => AllUnknown(more, Len(more))
<1> DEFINE more == Append(found, o)
           n == Len(found)
<1>1. /\ more \in Seq(Claims) /\ Len(more) = n + 1 /\ more[n + 1] = o
      /\ \A d \in 1..n : more[d] = found[d]
  BY AppendedIs
<1>2. /\ n \in Nat /\ (n + 1) - 1 = n /\ n + 1 # 0 /\ n + 1 <= MaxUnknownVersions + 1
      /\ ~(n >= MaxUnknownVersions) => n + 1 <= MaxUnknownVersions
  BY LimitNat
<1> HIDE DEF more, n
<1>3. AllUnknown(more, n)
  BY <1>1 DEF AllUnknown, n
<1>4. Usable(more) <=> Supported(o)
  BY <1>1, <1>2, <1>3 DEF Usable, n
<1>5. ASSUME Unknown(o) PROVE AllUnknown(more, n + 1)
  <2>1. ASSUME NEW k \in 1..n + 1 PROVE Unknown(more[k])
    <3>1. k = n + 1 \/ k \in 1..n
      BY <1>2
    <3> QED
      BY <1>1, <1>3, <1>5, <3>1 DEF AllUnknown
  <2> QED
    BY <2>1 DEF AllUnknown
<1> QED
  BY <1>1, <1>2, <1>4, <1>5 DEF more, n

\* The last one turned out to be broken.
LEMMA FoundBroken ==
    ASSUME NEW found \in Seq(Claims), Len(found) # 0
    PROVE  LET now == [found EXCEPT ![Len(found)].sound = FALSE]
           IN  now \in Seq(Claims) /\ Len(now) = Len(found) /\ ~Usable(now)
<1> DEFINE n == Len(found)
           o == [found[n] EXCEPT !.sound = FALSE]
           now == [found EXCEPT ![n].sound = FALSE]
<1>1. n \in Nat /\ n \in 1..n /\ found[n] \in Claims
  OBVIOUS
<1>2. o \in Claims /\ ~o.sound
  BY <1>1 DEF Claims
<1>3. ~Supported(o)
  BY <1>2 DEF Supported
<1>4. now = [found EXCEPT ![n] = o]
  OBVIOUS
<1> HIDE DEF o, now
<1>5. now \in Seq(Claims) /\ Len(now) = n /\ now[n] = o
  BY <1>1, <1>2, <1>4
<1>6. ~Usable(now)
  BY <1>3, <1>5 DEF Usable
<1> QED
  BY <1>5, <1>6 DEF now

LEMMA NothingUsable ==
    ASSUME NEW found \in Seq(Claims), AllUnknown(found, Len(found))
    PROVE  ~Usable(found)
<1>1. Len(found) # 0 => Unknown(found[Len(found)])
  BY DEF AllUnknown
<1> QED
  BY <1>1, UnknownNotSupported DEF Usable

LEMMA StreamInit == ASSUME Init PROVE StreamInv
<1>1. step \in {"strict", "object"} /\ objects = << >>
  BY DEF Init
<1>2. objects \in Seq(Claims) /\ Len(objects) = 0
  BY <1>1
<1>3. AllUnknown(objects, Len(objects))
  BY <1>2 DEF AllUnknown
<1> QED
  BY <1>1, <1>2, <1>3, LimitNat DEF StreamInv

LEMMA TypeMetaStream ==
    ASSUME StreamInv, TypeMeta
    PROVE  StreamInv'
<1>1. PICK version \in In(Version, "apiVersion"),
           kind \in In({"DeviceMetadata", "other", ""}, "kind") :
         /\ Claim(version, kind, TRUE)
         /\ IF version = "" \/ kind = "" THEN Fail /\ UNCHANGED jsonVars
            ELSE IF version # APIVersion THEN
               IF TooManyUnknown THEN Fail /\ UNCHANGED jsonVars ELSE Skip
            ELSE IF kind # "DeviceMetadata" THEN Fail /\ UNCHANGED jsonVars
            ELSE /\ step' = "decode" /\ pc' = "decode"
                 /\ UNCHANGED <<read, stack, dst, result>>
  BY DEF TypeMeta
<1> DEFINE o == [version |-> version, kind |-> kind, sound |-> TRUE]
<1>2. version \in Version \cup {""} /\ kind \in {"DeviceMetadata", "other", ""}
  BY DEF In
<1>3. objects' = Append(objects, o)
  BY <1>1 DEF Claim
<1>4. /\ o \in Claims
      /\ Supported(o) <=> version = APIVersion /\ kind = "DeviceMetadata"
      /\ Unknown(o) <=> version \notin {"", APIVersion} /\ kind # ""
  BY <1>2, ClaimIs
<1> HIDE DEF o
<1>5. /\ objects \in Seq(Claims) /\ Len(objects) <= MaxUnknownVersions
      /\ AllUnknown(objects, Len(objects))
  BY DEF StreamInv, TypeMeta
<1>6. /\ objects' \in Seq(Claims) /\ Len(objects') = Len(objects) + 1
      /\ Len(objects') <= MaxUnknownVersions + 1
      /\ ~TooManyUnknown => Len(objects') <= MaxUnknownVersions
      /\ Usable(objects') <=> Supported(o)
      /\ Unknown(o) => AllUnknown(objects', Len(objects'))
  BY <1>3, <1>4, <1>5, FoundMore DEF TooManyUnknown
<1>7. APIVersion # ""
  BY MetadataAssumption
<1>8. CASE Fail /\ ~Supported(o)
  <2>1. step' = "failed"
    BY <1>8 DEF Fail
  <2> QED
    BY <1>6, <1>8, <2>1 DEF StreamInv
<1>9. CASE Skip /\ Unknown(o) /\ ~TooManyUnknown
  <2>1. step' = "object"
    BY <1>9 DEF Skip
  <2> QED
    BY <1>6, <1>9, <2>1 DEF StreamInv
<1>10. CASE step' = "decode" /\ Supported(o)
  BY <1>6, <1>10 DEF StreamInv
<1>11. CASE version = "" \/ kind = ""
  BY <1>1, <1>4, <1>7, <1>8, <1>11
<1>12. CASE version # "" /\ kind # "" /\ version # APIVersion
  BY <1>1, <1>4, <1>8, <1>9, <1>12
<1>13. CASE version = APIVersion /\ kind # "" /\ version # ""
  BY <1>1, <1>4, <1>8, <1>10, <1>13
<1> QED
  BY <1>11, <1>12, <1>13

LEMMA BrokenStream ==
    ASSUME StreamInv, step = "decode", Fail, Found(FALSE)
    PROVE  StreamInv'
<1>1. objects \in Seq(Claims) /\ Len(objects) # 0 /\ Len(objects) <= MaxUnknownVersions + 1
  BY DEF StreamInv, Usable
<1>2. step' = "failed" /\ objects' = [objects EXCEPT ![Len(objects)].sound = FALSE]
  BY DEF Fail, Found
<1>3. objects' \in Seq(Claims) /\ Len(objects') = Len(objects) /\ ~Usable(objects')
  BY <1>1, <1>2, FoundBroken
<1>4. Len(objects') <= MaxUnknownVersions + 1
  BY <1>1, <1>3
<1> QED
  BY <1>2, <1>3, <1>4 DEF StreamInv

LEMMA StreamNext == ASSUME StreamInv, [Next]_vars PROVE StreamInv'
<1>1. CASE step # "failed" /\ UNCHANGED <<step, objects>>
  BY <1>1 DEF StreamInv
<1>2. CASE Strict \/ ReadObject
  <2>1. step # "failed" /\ UNCHANGED <<step, objects>>
    BY <1>2 DEF Strict, ReadObject
  <2> QED
    BY <1>1, <2>1
<1>3. CASE EndOfStream
  <2>1. step = "object" /\ UNCHANGED objects /\ step' = "failed"
    BY <1>3 DEF EndOfStream, Fail
  <2>2. ~Usable(objects')
    BY <2>1, NothingUsable DEF StreamInv
  <2> QED
    BY <2>1, <2>2 DEF StreamInv
<1>4. CASE TypeMeta
  BY <1>4, TypeMetaStream
<1>5. CASE DecodeObject
  <2>1. step = "decode" /\ ((Fail /\ Found(FALSE)) \/ UNCHANGED <<step, objects>>)
    BY <1>5 DEF DecodeObject
  <2> QED
    BY <1>1, <2>1, BrokenStream
<1>6. CASE Return
  <2>1. CASE Fail /\ Found(FALSE)
    BY <1>6, <2>1, BrokenStream DEF Return
  <2>2. CASE step' = "done" /\ UNCHANGED objects
    <3>1. step = "decode"
      BY <1>6 DEF Return
    <3> QED
      BY <2>2, <3>1 DEF StreamInv
  <2> QED
    BY <1>6, <2>1, <2>2 DEF Return, Invalid
<1>7. CASE UNCHANGED vars
  BY <1>7 DEF StreamInv, vars
<1> QED
  BY <1>2, <1>3, <1>4, <1>5, <1>6, <1>7 DEF Next

LEMMA StreamHolds == Spec => []StreamInv
<1>1. Init => StreamInv
  BY StreamInit
<1>2. StreamInv /\ [Next]_vars => StreamInv'
  BY StreamNext
<1> QED
  BY <1>1, <1>2, PTL DEF Spec

\* Of a stream of any length, what is returned is the first object that claims the
\* supported version, exactly if it is a valid one and no more came before it than
\* may be skipped (metadata.go:180-237).
THEOREM FirstIsReturned == Spec => []FirstSupported
<1>1. StreamInv => FirstSupported
  BY DEF StreamInv, FirstSupported, Usable, AllUnknown, Supported
<1> QED
  BY <1>1, StreamHolds, PTL

-----------------------------------------------------------------------------
(* Types, and what was returned.                                             *)

ResultInv ==
    /\ DOMAIN dst = Field
    /\ result \in Body \cup {None}
    /\ step = "done" => result \in Body /\ Validate(result)

LEMMA DecodeKeepsFields == ASSUME DOMAIN dst = Field, Decode PROVE DOMAIN dst' = Field
BY DEF Decode

LEMMA ReturnIsValid == ASSUME ResultInv, Return PROVE ResultInv'
<1>1. PICK requests \in IF dst["requests"] # 0 THEN Body ELSE {<< >>} :
         IF Validate(requests)
         THEN /\ result' = requests /\ step' = "done"
              /\ UNCHANGED <<jsonVars, objects>>
         ELSE Invalid /\ Found(FALSE)
  BY DEF Return
<1>2. requests \in Body
  BY MetadataAssumption
<1>3. CASE Validate(requests)
  BY <1>1, <1>2, <1>3 DEF ResultInv, jsonVars
<1>4. CASE ~Validate(requests)
  BY <1>1, <1>4 DEF ResultInv, Invalid, Fail, jsonVars
<1> QED
  BY <1>3, <1>4

LEMMA ResultNext == ASSUME ResultInv, [Next]_vars PROVE ResultInv'
<1>1. CASE step' # "done" /\ UNCHANGED <<dst, result>>
  BY <1>1 DEF ResultInv
<1>2. CASE Strict
  <2>1. step' # "done" /\ UNCHANGED result
    BY <1>2 DEF Strict
  <2>2. DOMAIN dst' = Field
    BY <1>2, DecodeKeepsFields DEF Strict, DecodeStrict, RejectDuplicateKeys, Read, ResultInv
  <2> QED
    BY <2>1, <2>2 DEF ResultInv
<1>3. CASE ReadObject \/ EndOfStream
  BY <1>1, <1>3 DEF ReadObject, EndOfStream, Read, Fail, jsonVars
<1>4. CASE TypeMeta
  <2>1. step' # "done" /\ UNCHANGED result /\ (UNCHANGED dst \/ dst' = Unset)
    BY <1>4 DEF TypeMeta, Fail, Skip, jsonVars
  <2>2. DOMAIN dst' = Field
    BY <2>1 DEF Unset, ResultInv
  <2> QED
    BY <2>1, <2>2 DEF ResultInv
<1>5. CASE DecodeObject
  <2>1. step' # "done" /\ UNCHANGED result
    BY <1>5 DEF DecodeObject, Fail
  <2>2. DOMAIN dst' = Field
    BY <1>5, DecodeKeepsFields DEF DecodeObject, ResultInv
  <2> QED
    BY <2>1, <2>2 DEF ResultInv
<1>6. CASE Return
  BY <1>6, ReturnIsValid
<1>7. CASE UNCHANGED vars
  BY <1>7 DEF ResultInv, vars
<1> QED
  BY <1>2, <1>3, <1>4, <1>5, <1>6, <1>7 DEF Next

LEMMA ResultHolds == Spec => []ResultInv
<1>1. Init => ResultInv
  BY DEF Init, NewDocument, Unset, ResultInv
<1>2. ResultInv /\ [Next]_vars => ResultInv'
  BY ResultNext
<1> QED
  BY <1>1, <1>2, PTL DEF Spec

\* The variables of the decoder and of the reader stay within their types.
THEOREM TypeCorrect == Spec => []TypeOK
<1>1. JsonInv /\ StreamInv /\ ResultInv => TypeOK
  <2> SUFFICES ASSUME JsonInv, StreamInv, ResultInv PROVE TypeOK
    OBVIOUS
  <2>1. read \in Seq(Token) /\ pc \in PCs /\ stack \in Seq(FrameType)
    BY DEF JsonInv, JsonType
  <2>2. ASSUME NEW n \in DOMAIN stack PROVE stack[n].seen \subseteq Key
    <3>1. stack[n] \in FrameType
      BY <2>1
    <3> QED
      BY <3>1 DEF FrameType
  <2> QED
    BY <2>1, <2>2 DEF TypeOK, StreamInv, ResultInv, PCs
<1> QED
  BY <1>1, JsonHolds, StreamHolds, ResultHolds, PTL

-----------------------------------------------------------------------------
(* What an attribute holds.                                                  *)

Exact == -MaxExactInteger..MaxExactInteger

LEMMA ExactOdd == MaxExactInteger \in Nat /\ MaxExactInteger % 2 = 1
BY MetadataAssumption

\* No inexact integer is rounded to an exact one.
LEMMA FloatIs ==
    ASSUME NEW n \in Int, NEW k \in Exact
    PROVE  Float(n) = k <=> n = k
<1> DEFINE m == MaxExactInteger
<1>1. PICK u \in Nat : m = 2 * u + 1
  <2>1. m \div 2 \in Nat /\ m = 2 * (m \div 2) + 1
    BY ExactOdd
  <2> QED
    BY <2>1
<1>2. CASE IsExact(n)
  BY <1>2 DEF Float
<1>3. CASE ~IsExact(n) /\ n % 2 = 0
  BY <1>3 DEF Float, IsExact, Exact
<1>4. CASE ~IsExact(n) /\ n % 2 # 0
  <2>1. n \div 2 \in Int /\ n = 2 * (n \div 2) + 1
    BY <1>4
  <2> DEFINE v == n \div 2
  <2>2. n > m \/ n < -m
    BY <1>1, <1>4 DEF IsExact
  <2> HIDE DEF m, v
  <2>3. v \in Int /\ n = 2 * v + 1
    BY <2>1 DEF v
  <2>4. n >= m + 2 \/ n <= -m - 2
    BY <1>1, <2>2, <2>3
  <2>5. Float(n) = n + 1 \/ Float(n) = n - 1
    BY <1>4 DEF Float
  <2>6. k >= -m /\ k <= m /\ k \in Int /\ m \in Int
    BY <1>1 DEF Exact, m
  <2> QED
    BY <2>4, <2>5, <2>6
<1> QED
  BY <1>2, <1>3, <1>4

LEMMA PairIs ==
    ASSUME NEW x, NEW y, NEW u, NEW v
    PROVE  <<x, y>> = <<u, v>> <=> x = u /\ y = v
OBVIOUS

LEMMA NumberIs ==
    ASSUME NEW x, NEW y
    PROVE  /\ Number(x) = Number(y) <=> x = y
           /\ Number(x) # <<"bool", y>> /\ Number(x) # <<"string", y>>
BY PairIs DEF Number

Members == {"int", "bool", "string", "version"} \cup Lists

LEMMA OneMember ==
    ASSUME NEW a, AttributeOK(a), AttributeValid(a)
    PROVE  \E m \in Members : DOMAIN a = {m}
<1>1. DOMAIN a \subseteq Members /\ Cardinality(DOMAIN a) = 1
  BY DEF AttributeOK, AttributeValid, Members
<1>2. IsFiniteSet(Members)
  <2>1. \A T, x : IsFiniteSet(T) => IsFiniteSet(T \cup {x})
    BY FS_AddElement
  <2> DEFINE scalars == (({"int"} \cup {"bool"}) \cup {"string"}) \cup {"version"}
             all == (((scalars \cup {"ints"}) \cup {"bools"}) \cup {"strings"}) \cup {"versions"}
  <2>2. IsFiniteSet({"int"})
    BY FS_Singleton
  <2>3. IsFiniteSet(scalars)
    BY <2>1, <2>2
  <2> HIDE DEF scalars
  <2>4. IsFiniteSet(all)
    BY <2>1, <2>3
  <2>5. Members = all
    BY DEF Members, Lists, scalars
  <2> QED
    BY <2>4, <2>5
<1>3. IsFiniteSet(DOMAIN a)
  BY <1>1, <1>2, FS_Subset
<1>4. PICK m : DOMAIN a = {m}
  BY <1>1, <1>3, FS_Singleton
<1> QED
  BY <1>1, <1>4

\* What AttributeMeansItsValue asks of an attribute.
MeansItsValue(a) ==
    /\ \A m \in DOMAIN a : m \notin Lists => Scalar(a) \subseteq
          {Number(n) : n \in Held(a, "number")}
          \cup {<<"bool", b>> : b \in Held(a, "bool")}
          \cup {<<"string", s>> : s \in Held(a, "string")}
    /\ \A f \in PolicyNumber :
          Contains(a, Number(f)) <=>
              \/ IsExact(f) /\ f \in Held(a, "number")
              \/ RoundedMember(a, f)
    /\ \A s \in Held(a, "string") : Contains(a, <<"string", s>>)
    /\ \A b \in Held(a, "bool") : Contains(a, <<"bool", b>>)

\* What it holds, member by member.
LEMMA HeldIs ==
    ASSUME NEW a, NEW m \in Members, DOMAIN a = {m}
    PROVE  /\ Held(a, "number") = (IF m = "int" THEN {a[m]} ELSE IF m = "ints" THEN a[m] ELSE {})
           /\ Held(a, "bool") = (IF m = "bool" THEN {a[m]} ELSE IF m = "bools" THEN a[m] ELSE {})
           /\ Held(a, "string") = (IF m \in {"string", "version"} THEN {a[m]}
                                   ELSE IF m \in {"strings", "versions"} THEN a[m] ELSE {})
<1> DEFINE Of(S) == UNION {IF i \in Lists THEN a[i] ELSE {a[i]} : i \in {m} \cap S}
<1>1. /\ Held(a, "number") = Of({"int", "ints"})
      /\ Held(a, "bool") = Of({"bool", "bools"})
      /\ Held(a, "string") = Of({"string", "version", "strings", "versions"})
  BY DEF Held
<1>2. \A S : Of(S) = IF m \in S THEN IF m \in Lists THEN a[m] ELSE {a[m]} ELSE {}
  <2> SUFFICES ASSUME NEW S
               PROVE  Of(S) = IF m \in S THEN IF m \in Lists THEN a[m] ELSE {a[m]} ELSE {}
    OBVIOUS
  <2>1. CASE m \in S
    <3>1. {m} \cap S = {m}
      BY <2>1
    <3> QED
      BY <2>1, <3>1
  <2>2. CASE m \notin S
    <3>1. {m} \cap S = {}
      BY <2>2
    <3> QED
      BY <2>2, <3>1
  <2> QED
    BY <2>1, <2>2
<1> HIDE DEF Of
<1> QED
  BY <1>1, <1>2 DEF Members, Lists

\* What it is equal to, and what it contains.
LEMMA ScalarIs ==
    ASSUME NEW a, NEW m \in Members, DOMAIN a = {m}
    PROVE  Scalar(a) = IF m = "int" THEN {Number(n) : n \in {a[m]} \cap Exact}
                       ELSE IF m = "bool" THEN {<<"bool", a[m]>>}
                       ELSE IF m \in {"string", "version"} THEN {<<"string", a[m]>>}
                       ELSE {}
<1>1. CASE m = "int"
  BY <1>1 DEF Scalar, Exact
<1>2. CASE m = "bool"
  BY <1>2 DEF Scalar
<1>3. CASE m \notin {"int", "bool"}
  <2>1. Scalar(a) = {<<"string", a[i]>> : i \in {m} \cap {"string", "version"}}
    BY <1>3 DEF Scalar
  <2>2. CASE m \in {"string", "version"}
    <3>1. {m} \cap {"string", "version"} = {m}
      BY <2>2
    <3>2. Scalar(a) = {<<"string", a[m]>>}
      BY <2>1, <3>1
    <3> QED
      BY <1>3, <2>2, <3>2
  <2>3. CASE m \notin {"string", "version"}
    <3>1. {m} \cap {"string", "version"} = {}
      BY <2>3
    <3>2. Scalar(a) = {}
      BY <2>1, <3>1
    <3> QED
      BY <1>3, <2>3, <3>2
  <2> QED
    BY <2>2, <2>3
<1> QED
  BY <1>1, <1>2, <1>3

LEMMA ContainsIs ==
    ASSUME NEW a, NEW m, DOMAIN a = {m}, NEW v
    PROVE  /\ Scalar(a) # {} => (Contains(a, v) <=> v \in Scalar(a))
           /\ Scalar(a) = {} =>
                (Contains(a, v) <=>
                   \/ m = "ints" /\ \E n \in a[m] : v = Number(Float(n))
                   \/ m = "bools" /\ \E b \in a[m] : v = <<"bool", b>>
                   \/ m \in {"strings", "versions"} /\ \E s \in a[m] : v = <<"string", s>>)
<1>1. Scalar(a) # {} => (Contains(a, v) <=> v \in Scalar(a))
  BY DEF Contains
<1>2. Scalar(a) = {} =>
        (Contains(a, v) <=>
           \/ "ints" \in {m} /\ v \in {Number(Float(n)) : n \in a["ints"]}
           \/ "bools" \in {m} /\ v \in {<<"bool", b>> : b \in a["bools"]}
           \/ \E i \in {m} \cap {"strings", "versions"} : v \in {<<"string", s>> : s \in a[i]})
  BY DEF Contains
<1>3. "ints" \in {m} /\ v \in {Number(Float(n)) : n \in a["ints"]}
       <=> m = "ints" /\ \E n \in a[m] : v = Number(Float(n))
  OBVIOUS
<1>4. "bools" \in {m} /\ v \in {<<"bool", b>> : b \in a["bools"]}
       <=> m = "bools" /\ \E b \in a[m] : v = <<"bool", b>>
  OBVIOUS
<1>5. (\E i \in {m} \cap {"strings", "versions"} : v \in {<<"string", s>> : s \in a[i]})
       <=> m \in {"strings", "versions"} /\ \E s \in a[m] : v = <<"string", s>>
  OBVIOUS
<1> QED
  BY <1>1, <1>2, <1>3, <1>4, <1>5

\* One value: what is contained is the scalar.
LEMMA ScalarMeans ==
    ASSUME NEW a, NEW m, DOMAIN a = {m}, m \notin Lists,
           NEW numbers \in SUBSET Exact, NEW bools, NEW strings,
           Held(a, "number") = numbers, Held(a, "bool") = bools, Held(a, "string") = strings,
           Scalar(a) = {Number(n) : n \in numbers}
                       \cup {<<"bool", b>> : b \in bools} \cup {<<"string", s>> : s \in strings},
           Scalar(a) # {}
    PROVE  MeansItsValue(a)
<1>1. \A v : Contains(a, v) <=> v \in Scalar(a)
  BY ContainsIs
<1>2. \A k : Number(k) \in Scalar(a) <=> k \in numbers
  <2>1. \A k, n : Number(k) = Number(n) <=> k = n
    BY NumberIs
  <2>2. \A k, b : Number(k) # <<"bool", b>> /\ Number(k) # <<"string", b>>
    BY NumberIs
  <2> QED
    BY <2>1, <2>2
<1>3. \A s \in strings : <<"string", s>> \in Scalar(a)
  BY Zenon
<1>4. \A b \in bools : <<"bool", b>> \in Scalar(a)
  BY Zenon
<1>5. Scalar(a) \subseteq {Number(n) : n \in Held(a, "number")}
          \cup {<<"bool", b>> : b \in Held(a, "bool")}
          \cup {<<"string", s>> : s \in Held(a, "string")}
  BY Zenon
<1>6. ASSUME NEW f
      PROVE  Contains(a, Number(f)) <=> \/ IsExact(f) /\ f \in Held(a, "number")
                                        \/ RoundedMember(a, f)
  <2>1. ~RoundedMember(a, f)
    BY DEF RoundedMember, Lists
  <2>2. Contains(a, Number(f)) <=> f \in numbers
    BY <1>1, <1>2
  <2>3. f \in numbers => IsExact(f)
    BY DEF Exact, IsExact
  <2> QED
    BY <2>1, <2>2, <2>3
<1>7. /\ \A s \in Held(a, "string") : Contains(a, <<"string", s>>)
      /\ \A b \in Held(a, "bool") : Contains(a, <<"bool", b>>)
  BY <1>1, <1>3, <1>4
<1> QED
  BY <1>5, <1>6, <1>7, Zenon DEF MeansItsValue

\* An integer that no float stands for is equal to nothing, and contained in nothing.
LEMMA InexactMeans ==
    ASSUME NEW a, DOMAIN a = {"int"}, a["int"] \in Int \ Exact
    PROVE  MeansItsValue(a)
<1>1. "int" \in Members
  BY DEF Members
<1>2. /\ Held(a, "number") = {a["int"]} /\ Held(a, "bool") = {} /\ Held(a, "string") = {}
      /\ Scalar(a) = {Number(n) : n \in {a["int"]} \cap Exact}
  BY <1>1, HeldIs, ScalarIs
<1>3. Scalar(a) = {}
  BY <1>2
<1>4. \A v : ~Contains(a, v)
  BY <1>3, ContainsIs
<1>5. \A f : ~RoundedMember(a, f) /\ ~(IsExact(f) /\ f \in Held(a, "number"))
  BY <1>2 DEF RoundedMember, Exact, IsExact
<1> QED
  BY <1>2, <1>3, <1>4, <1>5 DEF MeansItsValue

LEMMA ListMeans ==
    ASSUME NEW a, NEW m \in Lists, DOMAIN a = {m}, m = "ints" => a[m] \subseteq Int
    PROVE  MeansItsValue(a)
<1>1. m \in Members /\ m \notin {"int", "bool", "string", "version"}
  BY DEF Members, Lists
<1>2. Scalar(a) = {}
  BY <1>1, ScalarIs
<1>3. CASE m = "ints"
  <2>1. Held(a, "number") = a[m] /\ Held(a, "bool") = {} /\ Held(a, "string") = {}
    BY <1>1, <1>3, HeldIs
  <2>2. \A v : Contains(a, v) <=> \E n \in a[m] : v = Number(Float(n))
    BY <1>2, <1>3, ContainsIs
  <2>3. ASSUME NEW f
        PROVE  Contains(a, Number(f)) <=> \/ IsExact(f) /\ f \in Held(a, "number")
                                          \/ RoundedMember(a, f)
    <3>1. Contains(a, Number(f)) <=> \E n \in a[m] : f = Float(n)
      BY <2>2, NumberIs
    <3>2. CASE ~IsExact(f)
      BY <1>3, <3>1, <3>2 DEF RoundedMember
    <3>3. CASE IsExact(f)
      <4>1. f \in Exact
        BY <3>3 DEF IsExact, Exact
      <4>2. \A n \in a[m] : f = Float(n) <=> n = f
        BY <1>3, <4>1, FloatIs
      <4> QED
        BY <2>1, <3>1, <3>3, <4>2 DEF RoundedMember
    <3> QED
      BY <3>2, <3>3
  <2> QED
    BY <1>2, <2>1, <2>3 DEF MeansItsValue
<1>4. CASE m = "bools"
  <2>1. Held(a, "number") = {} /\ Held(a, "bool") = a[m] /\ Held(a, "string") = {}
    BY <1>1, <1>4, HeldIs
  <2>2. \A v : Contains(a, v) <=> \E b \in a[m] : v = <<"bool", b>>
    BY <1>2, <1>4, ContainsIs
  <2>3. \A k : ~Contains(a, Number(k)) /\ ~RoundedMember(a, k)
    <3>1. \A k, b : Number(k) # <<"bool", b>>
      BY NumberIs
    <3> QED
      BY <1>4, <2>2, <3>1 DEF RoundedMember
  <2>4. \A b \in a[m] : Contains(a, <<"bool", b>>)
    BY <2>2, Zenon
  <2> QED
    BY <1>2, <2>1, <2>3, <2>4 DEF MeansItsValue
<1>5. CASE m \in {"strings", "versions"}
  <2>1. Held(a, "number") = {} /\ Held(a, "bool") = {} /\ Held(a, "string") = a[m]
    BY <1>1, <1>5, HeldIs
  <2>2. \A v : Contains(a, v) <=> \E s \in a[m] : v = <<"string", s>>
    BY <1>2, <1>5, ContainsIs
  <2>3. \A k : ~Contains(a, Number(k)) /\ ~RoundedMember(a, k)
    <3>1. \A k, s : Number(k) # <<"string", s>>
      BY NumberIs
    <3> QED
      BY <1>5, <2>2, <3>1 DEF RoundedMember
  <2>4. \A s \in a[m] : Contains(a, <<"string", s>>)
    BY <2>2, Zenon
  <2> QED
    BY <1>2, <2>1, <2>3, <2>4 DEF MeansItsValue
<1> QED
  BY <1>3, <1>4, <1>5 DEF Lists

LEMMA AttributeMeans ==
    ASSUME NEW a, AttributeOK(a), AttributeValid(a)
    PROVE  MeansItsValue(a)
<1>1. PICK m \in Members : DOMAIN a = {m}
  BY OneMember
<1>2. CASE m \in Lists
  BY <1>1, <1>2, ListMeans DEF AttributeOK
<1>3. CASE m = "int"
  <2>1. a["int"] \in Int
    BY <1>1, <1>3 DEF AttributeOK
  <2>2. CASE a["int"] \notin Exact
    BY <1>1, <1>3, <2>1, <2>2, InexactMeans
  <2>3. CASE a["int"] \in Exact
    <3>1. Held(a, "number") = {a[m]} /\ Held(a, "bool") = {} /\ Held(a, "string") = {}
      BY <1>1, <1>3, HeldIs
    <3>2. Scalar(a) = {Number(n) : n \in {a[m]} \cap Exact} /\ {a[m]} \cap Exact = {a[m]}
      BY <1>1, <1>3, <2>3, ScalarIs
    <3>3. Scalar(a) = {Number(n) : n \in {a[m]}}
                      \cup {<<"bool", b>> : b \in {}} \cup {<<"string", s>> : s \in {}}
      BY <3>2
    <3>4. Scalar(a) # {}
      BY <3>2
    <3>5. m \notin Lists /\ {a[m]} \in SUBSET Exact
      BY <1>3, <1>1, <2>3 DEF Lists
    <3> QED
      BY <1>1, <3>1, <3>3, <3>4, <3>5, ScalarMeans, Zenon
  <2> QED
    BY <2>2, <2>3
<1>4. CASE m = "bool"
  <2>1. Held(a, "number") = {} /\ Held(a, "bool") = {a[m]} /\ Held(a, "string") = {}
    BY <1>1, <1>4, HeldIs
  <2>2. Scalar(a) = {<<"bool", a[m]>>}
    BY <1>1, <1>4, ScalarIs
  <2>3. Scalar(a) = {Number(n) : n \in {}}
                    \cup {<<"bool", b>> : b \in {a[m]}} \cup {<<"string", s>> : s \in {}}
    BY <2>2
  <2>4. m \notin Lists /\ {} \in SUBSET Exact /\ Scalar(a) # {}
    BY <1>4, <2>2 DEF Lists
  <2> QED
    BY <1>1, <2>1, <2>3, <2>4, ScalarMeans, Zenon
<1>5. CASE m \in {"string", "version"}
  <2>1. Held(a, "number") = {} /\ Held(a, "bool") = {} /\ Held(a, "string") = {a[m]}
    BY <1>1, <1>5, HeldIs
  <2>2. Scalar(a) = {<<"string", a[m]>>}
    BY <1>1, <1>5, ScalarIs
  <2>3. Scalar(a) = {Number(n) : n \in {}}
                    \cup {<<"bool", b>> : b \in {}} \cup {<<"string", s>> : s \in {a[m]}}
    BY <2>2
  <2>4. m \notin Lists /\ {} \in SUBSET Exact /\ Scalar(a) # {}
    BY <1>5, <2>2 DEF Lists
  <2> QED
    BY <1>1, <2>1, <2>3, <2>4, ScalarMeans, Zenon
<1> QED
  BY <1>2, <1>3, <1>4, <1>5 DEF Members

\* Nothing shadows what an accepted attribute holds; a scalar integer is compared as
\* the value it is or not at all, and a member of a list of integers matches another
\* number only if neither is exact and the member rounds to it, as 2^53 + 1 does to
\* 9007199254740992.0 (value.go:13-16, 84, metadata.go:105-156).
THEOREM AttributesMean == Spec => []AttributeMeansItsValue
<1>1. ResultInv => AttributeMeansItsValue
  <2> SUFFICES ASSUME ResultInv, step = "done",
                      NEW i \in DOMAIN result, NEW d \in DOMAIN result[i].devices,
                      NEW name \in DOMAIN result[i].devices[d].attributes
               PROVE  MeansItsValue(result[i].devices[d].attributes[name])
    BY DEF AttributeMeansItsValue, MeansItsValue, Exact
  <2>1. result \in Body /\ Validate(result)
    BY DEF ResultInv
  <2>2. AttributeOK(result[i].devices[d].attributes[name])
    BY <2>1, MetadataAssumption
  <2>3. DeviceValid(result[i].devices[d])
    BY <2>1 DEF Validate
  <2>4. AttributeValid(result[i].devices[d].attributes[name])
    BY <2>3 DEF DeviceValid
  <2> QED
    BY <2>2, <2>4, AttributeMeans
<1> QED
  BY <1>1, ResultHolds, PTL
=============================================================================
