------------------------------- MODULE Values -------------------------------
(***************************************************************************)
(* Numbers and scalars of a contract (value.go).                           *)
(*                                                                         *)
(* A float is a whole number of its unit: halves for inputs, observations  *)
(* and times, so that some are not integers, ones for what multiplies them *)
(* (coefficients, the OOD matrix), quarters for the OOD score.  Beyond the *)
(* finite ones there are the infinities and NaN, which has no order.       *)
(* Rounding within the range is left out.                                  *)
(***************************************************************************)
EXTENDS Integers, Sequences, FiniteSets

CONSTANTS
    Rank,      \* names -> Int, the lexical order of the names that occur
    MaxFloat,  \* the largest finite number
    None

ASSUME ValuesAssumption ==
    /\ MaxFloat \in Nat
    /\ IsFiniteSet(DOMAIN Rank)
    /\ \A n \in DOMAIN Rank : Rank[n] \in Int
    /\ \A m, n \in DOMAIN Rank : Rank[m] = Rank[n] => m = n

IsFinite(x) == x \in -MaxFloat..MaxFloat
PosInf == MaxFloat + 1
NegInf == -PosInf
NaN    == MaxFloat + 2
IsFloat(x) == x \in NegInf..NaN

Infinity(positive) == IF positive THEN PosInf ELSE NegInf
Round(x) == IF IsFinite(x) THEN x ELSE Infinity(x > 0)

Plus(x, y) ==
    IF IsFinite(x) /\ IsFinite(y) THEN Round(x + y)
    ELSE IF NaN \in {x, y} \/ {PosInf, NegInf} = {x, y} THEN NaN
    ELSE Infinity(PosInf \in {x, y})

Times(x, y) ==
    IF IsFinite(x) /\ IsFinite(y) THEN Round(x * y)
    ELSE IF NaN \in {x, y} \/ 0 \in {x, y} THEN NaN
    ELSE Infinity((x > 0) = (y > 0))

\* As Go compares: NaN is not less than anything, nor is anything less than it.
Less(x, y) == NaN \notin {x, y} /\ x < y

Absolute(x) == IF x < 0 THEN -x ELSE x

FiniteNonNegative(x) == IsFinite(x) /\ x >= 0
FinitePositive(x)    == IsFinite(x) /\ x > 0

\* Sum of term(1), ..., term(n) on top of x, from the left as the loop does it.
SumOf(x, n, term(_)) ==
    LET sum[k \in 0..n] == IF k = 0 THEN x ELSE Plus(sum[k - 1], term(k))
    IN  sum[n]

\* A scalar is its kind and what it holds; Go's zero Value is of no kind.
Num(x) == <<"number", x>>
Str(s) == <<"string", s>>
Unset  == <<"", None>>
IsNum(v) == v[1] = "number"
IsStr(v) == v[1] = "string"
IsSet(v) == v # Unset

Integral(x) == x % 2 = 0

Compare(op, x, y) ==
    \/ op = "<"  /\ x < y
    \/ op = "<=" /\ x <= y
    \/ op = "="  /\ x = y
    \/ op = ">=" /\ x >= y
    \/ op = ">"  /\ x > y

Comparisons == {"<", "<=", "=", ">=", ">"}

\* Go's slices.
IsSequence(s) == s \in Seq({s[k] : k \in DOMAIN s})

\* A kind with what is of it; a number is one that fits a float.
ScalarOK(v) == v = <<v[1], v[2]>> /\ (IsNum(v) => IsFinite(v[2]))

\* The first of 1, ..., n for which bad holds, or n + 1.
FirstBad(n, bad(_)) ==
    CHOOSE k \in 1..n + 1 : (k <= n => bad(k)) /\ \A j \in 1..k - 1 : ~bad(j)
=============================================================================
