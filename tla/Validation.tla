----------------------------- MODULE Validation -----------------------------
(***************************************************************************)
(* ValidateProfile and ValidateRequest (validate.go), for what the planner *)
(* goes by.  The issues are only counted: there are none, or the document  *)
(* is refused.                                                             *)
(*                                                                         *)
(* The fields the planner never reads (artifact, target, precision, the    *)
(* statistics, policy, provenance, the times, which Certificate models),   *)
(* the spelling of names and the limits on sizes are one flag, intact; and *)
(* sealed is what VerifySeal says.  A pointer that is nil is None.         *)
(***************************************************************************)
EXTENDS SemVer

\* The tolerance of the test of the OOD matrix is the inverse of this.
CONSTANT ToleranceInverse

ASSUME ValidationAssumption == ToleranceInverse \in Nat \ {0}

F == INSTANCE Functions

\* A feature of a model is a field of the request's inputs or interference, or
\* a name in neither namespace.
Input(name)        == <<1, name>>
Interference(name) == <<2, name>>
IsInput(f)        == f[1] = 1
IsInterference(f) == f[1] = 2

Numeric(spec) == spec.kind \in {"number", "integer"}

ValidRange(r) ==
    IsFinite(r.minimum) /\ IsFinite(r.maximum) /\ r.minimum <= r.maximum

ValidFeature(spec) ==
    \/ /\ Numeric(spec) /\ spec.categories = << >>
       /\ None \notin {spec.minimum, spec.maximum} /\ ValidRange(spec)
    \/ /\ spec.kind = "category" /\ spec.categories # << >>
       /\ "" \notin F!Range(spec.categories) /\ F!IsInjective(spec.categories)

ValidRelation(p, rel) ==
    /\ \A name \in {rel.left, rel.right} :
          name \in DOMAIN p.domain /\ Numeric(p.domain[name])
    /\ rel.op \in Comparisons

ValidDomain(p) ==
    /\ DOMAIN p.domain # {} /\ "" \notin DOMAIN p.domain
    /\ \A name \in DOMAIN p.domain : ValidFeature(p.domain[name])
    /\ \A k \in DOMAIN p.relations : ValidRelation(p, p.relations[k])

ValidNumerical(p) ==
    /\ FiniteNonNegative(p.upperBound) /\ FiniteNonNegative(p.observedMax)
    /\ p.observedMax <= p.upperBound

\* validateNumericFeatureReference
NumericReference(p, f) ==
    \/ IsInput(f) /\ f[2] \in DOMAIN p.domain /\ Numeric(p.domain[f[2]])
    \/ IsInterference(f) /\ f[2] \in DOMAIN p.metrics

ValidModel(p) ==
    /\ \A k \in DOMAIN p.budgets : FiniteNonNegative(p.budgets[k])
    /\ IsFinite(p.intercept)
    /\ F!IsInjective(p.order)
    /\ \A k \in DOMAIN p.order :
          p.order[k] \in DOMAIN p.coefficients /\ NumericReference(p, p.order[k])
    /\ Len(p.order) = Cardinality(DOMAIN p.coefficients)
    /\ \A f \in DOMAIN p.coefficients : IsFinite(p.coefficients[f])

ValidMetrics(p) ==
    \A name \in DOMAIN p.metrics : name # "" /\ ValidRange(p.metrics[name])

\* A range is tried on one version, so only the comparators up to the first that
\* 1.0.0 fails are looked at.
ValidVersions(p) ==
    \A component \in DOMAIN p.versions :
        /\ component # "" /\ p.versions[component] # None
        /\ Match(Text(<<1, 0, 0>>, << >>, << >>), p.versions[component]) # "error"

ValidAssertions(p) ==
    \A k \in DOMAIN p.assertions :
        LET a == p.assertions[k] IN
        /\ a.attribute # "" /\ IsSet(a.value)
        /\ a.op \in {"eq", "ne", "gte", "lte", "contains"}

\* What the tolerance is relative to.
Magnitude(x, y) ==
    CHOOSE m \in {1, Absolute(x), Absolute(y)} :
        1 <= m /\ Absolute(x) <= m /\ Absolute(y) <= m

\* What the symmetry test of positiveDefiniteSymmetric meets at row i, column j.
\* It indexes row j before it has looked at the length of that row.  An entry
\* there that is not finite passes: it is refused at its own place.
Cell(a, i, j) ==
    IF Len(a[i]) # Len(a) \/ ~IsFinite(a[i][j]) THEN "refused"
    ELSE IF Len(a[j]) < i THEN "panic"
    ELSE IF /\ IsFinite(a[j][i])
            /\ Absolute(a[i][j] - a[j][i]) * ToleranceInverse
                  > Magnitude(a[i][j], a[j][i])
         THEN "refused"
    ELSE "passed"

Symmetric(a) ==
    LET n == Len(a)
        cell(m) == Cell(a, 1 + ((m - 1) \div n), 1 + ((m - 1) % n))
        m == FirstBad(n * n, LAMBDA k : cell(k) # "passed")
    IN  IF n = 0 THEN "refused" ELSE IF m > n * n THEN "passed" ELSE cell(m)

\* The pivots of the Cholesky decomposition, which reads the lower triangle only,
\* are above the tolerance.  What is left after k of them is kept as integers:
\* it is multiplied by scale[k].
PositivePivots(a) ==
    LET n == Len(a)
        rest[k \in 0..n] ==
            IF k = 0 THEN a
            ELSE [i \in 1..n |-> [j \in 1..n |->
                     rest[k - 1][i][j] * rest[k - 1][k][k]
                     - rest[k - 1][i][k] * rest[k - 1][j][k]]]
        scale[k \in 0..n] == IF k = 0 THEN 1 ELSE scale[k - 1] * rest[k - 1][k][k]
    IN  \A k \in 1..n : rest[k - 1][k][k] * ToleranceInverse > scale[k - 1]

\* Faulty variant: a symmetric matrix is good enough.
PositiveDefiniteSymmetric(a) == Symmetric(a) = "passed"

PositiveDefinite(a) == Symmetric(a) = "passed" /\ PositivePivots(a)

\* Faulty variant: the length of the mean is not compared.
ShapeWithoutMean(o) ==
    /\ o.features # << >> /\ Len(o.inverse) = Len(o.features)
    /\ \A i \in DOMAIN o.inverse : Len(o.inverse[i]) = Len(o.features)

\* The detector's dimensions agree.
Shape(o) ==
    /\ o.features # << >>
    /\ Len(o.mean) = Len(o.features) /\ Len(o.inverse) = Len(o.features)
    /\ \A i \in DOMAIN o.inverse : Len(o.inverse[i]) = Len(o.features)

\* What is not required is not looked at.
ValidOOD(p) ==
    p.ood.required =>
        /\ Shape(p.ood)
        /\ F!IsInjective(p.ood.features)
        /\ \A k \in DOMAIN p.ood.features : NumericReference(p, p.ood.features[k])
        /\ \A k \in DOMAIN p.ood.mean : IsFinite(p.ood.mean[k])
        /\ PositiveDefinite(p.ood.inverse)
        /\ FinitePositive(p.ood.threshold)

\* The matrix is tried whenever it has as many rows as there are features,
\* whatever was found before.
ValidationPanics(p) ==
    /\ p.ood.required /\ Len(p.ood.inverse) = Len(p.ood.features)
    /\ Symmetric(p.ood.inverse) = "panic"

\* ValidateProfile with the seal required.
ValidProfile(p) ==
    /\ p.intact /\ p.sealed
    /\ ValidDomain(p) /\ ValidNumerical(p) /\ ValidModel(p) /\ ValidMetrics(p)
    /\ ValidVersions(p) /\ ValidAssertions(p) /\ ValidOOD(p)

ValidRequest(r) ==
    /\ r.intact
    /\ FinitePositive(r.deadline)
    /\ FiniteNonNegative(r.margin) /\ r.margin < r.deadline
    /\ FiniteNonNegative(r.maxNumericalError)
    /\ DOMAIN r.inputs # {}
    /\ \A name \in DOMAIN r.inputs : name # "" /\ IsSet(r.inputs[name])
    /\ \A name \in DOMAIN r.interference : name # "" /\ IsFinite(r.interference[name])
    /\ \A component \in DOMAIN r.versions :
          component # "" /\ r.versions[component].numbers # << >>
=============================================================================
