------------------------------- MODULE SemVer -------------------------------
(***************************************************************************)
(* Versions and ranges of versions (semver.go).                            *)
(*                                                                         *)
(* The text of a version is its numbers, the compact tag of a PEP-440      *)
(* pre-release (the "b2" of 1.0.0b2, with the number apart), and the       *)
(* identifiers after the hyphen, or after the compact tag.  What neither   *)
(* changes the order nor the outcome is left out: a leading v, build       *)
(* metadata, blanks.  An identifier is a number if ParseInt makes it one;  *)
(* no two texts of one number (2 and 02) occur.                            *)
(***************************************************************************)
EXTENDS Values

Text(numbers, compact, pre) ==
    [numbers |-> numbers, compact |-> compact, pre |-> pre]

\* Faulty variant: the compact tag stays one word, which the pattern has no room for.
NormalizeNot(text) == text

\* 1.0.0b2 is read as 1.0.0-b.2.
Normalize(text) ==
    IF Len(text.numbers) = 3 /\ text.compact # << >>
    THEN Text(text.numbers, << >>, text.compact \o text.pre)
    ELSE text

Parses(text) == Len(text.numbers) = 3 /\ text.compact = << >>

\* Numbers come before words.
IdentifierLess(a, b) ==
    \/ IsNum(a) /\ IsNum(b) /\ a[2] < b[2]
    \/ IsNum(a) /\ IsStr(b)
    \/ IsStr(a) /\ IsStr(b) /\ Rank[a[2]] < Rank[b[2]]

\* Where two slices first differ, up to n.
FirstDifference(a, b, n) == FirstBad(n, LAMBDA j : a[j] # b[j])

Smaller(m, n) == IF m < n THEN m ELSE n

\* comparePrerelease: the first identifiers that differ decide, or the length.
PrereleaseLess(a, b) ==
    LET n == Smaller(Len(a), Len(b))
        k == FirstDifference(a, b, n)
    IN  IF k <= n THEN IdentifierLess(a[k], b[k]) ELSE Len(a) < Len(b)

\* Faulty variant: a release is before its pre-releases.
VersionLessByText(v, w) ==
    LET k == FirstDifference(v.numbers, w.numbers, 3) IN
    IF k <= 3 THEN v.numbers[k] < w.numbers[k] ELSE PrereleaseLess(v.pre, w.pre)

\* semVersion.compare: the first number that differs decides; a release is after
\* its pre-releases.
VersionLess(v, w) ==
    LET k == FirstDifference(v.numbers, w.numbers, 3) IN
    IF k <= 3 THEN v.numbers[k] < w.numbers[k]
    ELSE IF v.pre = << >> \/ w.pre = << >> THEN v.pre # w.pre /\ w.pre = << >>
    ELSE PrereleaseLess(v.pre, w.pre)

Sign(v, w) == IF VersionLess(v, w) THEN -1 ELSE IF v = w THEN 0 ELSE 1

\* A range is None if empty, << >> if "*", or its comparators, each an operator
\* and a text.
Target(comparator) == Normalize(comparator.text)

Stops(v, comparator) ==
    \/ ~Parses(Target(comparator))
    \/ ~Compare(comparator.op, Sign(v, Target(comparator)), 0)

\* The comparators are read one by one, and only until one fails: what comes
\* after it may be no comparator at all.
FirstStop(v, range) == FirstBad(Len(range), LAMBDA k : Stops(v, range[k]))

Match(text, range) ==
    LET v == Normalize(text)
        k == FirstStop(v, range)
    IN
    IF ~Parses(v) THEN "error"
    ELSE IF range = None \/ k > Len(range) THEN "match"
    ELSE IF Parses(Target(range[k])) THEN "differ" ELSE "error"

-----------------------------------------------------------------------------
Identifier == ({"number"} \X Int) \cup ({"string"} \X DOMAIN Rank)

TextOK(t) ==
    /\ t = Text(t.numbers, t.compact, t.pre)
    /\ t.numbers \in Seq(Int)
    /\ t.compact \in Seq(Identifier) /\ t.pre \in Seq(Identifier)

RangeOK(range) ==
    range # None =>
        /\ IsSequence(range)
        /\ \A k \in DOMAIN range :
              range[k].op \in Comparisons /\ TextOK(range[k].text)
=============================================================================
