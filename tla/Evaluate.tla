------------------------------ MODULE Evaluate ------------------------------
(***************************************************************************)
(* planner.Evaluate: one profile against one request, in the plan phase or *)
(* on the node.  Every check appends its reasons to reject, and the reasons*)
(* are sorted at the end.  Go ranges over a map in any order, so each loop *)
(* over a map visits its keys in any order here; loops over slices go by   *)
(* the index.                                                              *)
(*                                                                         *)
(* Freshness of the certificate (Certificate models it) is an outcome that *)
(* the evidence carries.                                                   *)
(***************************************************************************)
EXTENDS Validation

VARIABLES
    case,      \* [profile, request, phase, evidence] of this call, or None
    reasons,   \* Decision.Reasons
    features,  \* the result of modelFeatures, as far as it got
    todo,      \* keys or indices the present loop has not visited
    pc         \* the loop or check Evaluate is in

evaluation == <<case, reasons, features, todo, pc>>

-----------------------------------------------------------------------------
(* What a call is like: slices are slices, numbers are numbers and names are   *)
(* names.  Everything else is for validation to find out.                      *)

FeatureOK(f) == f = <<f[1], f[2]>> /\ f[2] \in DOMAIN Rank

ProfileOK(p) ==
    /\ {p.name} \cup DOMAIN p.domain \cup DOMAIN p.metrics \cup DOMAIN p.versions
          \subseteq DOMAIN Rank
    /\ \A k \in DOMAIN p.assertions : p.assertions[k].attribute \in DOMAIN Rank
    /\ \A k \in DOMAIN p.order : FeatureOK(p.order[k])
    /\ \A k \in DOMAIN p.ood.features : FeatureOK(p.ood.features[k])
    /\ IsSequence(p.relations) /\ IsSequence(p.assertions) /\ IsSequence(p.order)
    /\ IsSequence(p.ood.features) /\ IsSequence(p.ood.mean) /\ IsSequence(p.ood.inverse)
    /\ \A k \in DOMAIN p.ood.inverse : IsSequence(p.ood.inverse[k])
    /\ \A component \in DOMAIN p.versions : RangeOK(p.versions[component])

RequestOK(r) ==
    /\ DOMAIN r.inputs \cup DOMAIN r.interference \subseteq DOMAIN Rank
    /\ \A name \in DOMAIN r.inputs : ScalarOK(r.inputs[name])
    /\ \A component \in DOMAIN r.versions : TextOK(r.versions[component])

EvidenceOK(e) ==
    /\ e.interference # None =>
          \A name \in DOMAIN e.interference :
              name \in DOMAIN Rank /\ IsFloat(e.interference[name])
    /\ e.versions # None =>
          \A component \in DOMAIN e.versions : TextOK(e.versions[component])
    /\ e.metadata # None =>
          \A name \in DOMAIN e.metadata : IsSequence(e.metadata[name])

CaseOK(c) ==
    ProfileOK(c.profile) /\ RequestOK(c.request) /\ EvidenceOK(c.evidence)

-----------------------------------------------------------------------------
profile  == case.profile
request  == case.request

\* The checks take the whole of a call, as c, or the parts they read.
Runtime(c) == c.phase = "runtime"

Known(c) == c.phase \in {"plan", "runtime"}

-----------------------------------------------------------------------------
(* Reasons. *)

\* The codes in their lexical order.
Codes == <<"DRA_ATTRIBUTE_MISMATCH", "DRA_ATTRIBUTE_MISSING",
    "DRA_DEVICE_COUNT_MISMATCH", "DRA_METADATA_REQUIRED", "DRA_REQUEST_MISSING",
    "INPUT_OUT_OF_RANGE", "INPUT_TYPE_MISMATCH", "INTERFERENCE_OUT_OF_ENVELOPE",
    "INVALID_LATENCY_BOUND", "INVALID_MODEL_FEATURE",
    "INVALID_NUMERICAL_CERTIFICATE", "INVALID_OOD_SCORE", "INVALID_PHASE",
    "INVALID_PREDICTION", "INVALID_PROFILE", "INVALID_REQUEST", "INVALID_VERSION",
    "LATENCY_SLO_UNSATISFIED", "MISSING_INPUT", "MISSING_INTERFERENCE",
    "MISSING_VERSION", "MODEL_FEATURE_MISSING", "NUMERICAL_BUDGET_UNSATISFIED",
    "OOD_REJECTED", "PROFILE_MISMATCH", "RELATION_VIOLATION", "STALE_CERTIFICATE",
    "UNKNOWN_INPUT", "UNKNOWN_INTERFERENCE", "UNSEEN_CATEGORY",
    "UNSUPPORTED_VERSION">>

CodeRank(code) == CHOOSE k \in DOMAIN Codes : Codes[k] = code

\* A field is a section of the request (Input and Interference are the first
\* two) and a name in it; a code that has one
\* field only does without.  item tells apart what only the message tells apart.
Version(name)   == <<3, name>>
Attribute(name) == <<4, name>>
Fixed           == <<0, None>>

FieldRank(f) == IF f = Fixed THEN 0 ELSE Rank[f[2]]

Reject(code, field, item) == <<[code |-> code, field |-> field, item |-> item]>>

When(condition, rejection) == IF condition THEN rejection ELSE << >>

\* Faulty variant: the field is not looked at.
BeforeByCode(a, b) == CodeRank(a.code) < CodeRank(b.code)

\* The order of the final sort.
Before(a, b) ==
    \/ CodeRank(a.code) < CodeRank(b.code)
    \/ /\ a.code = b.code
       /\ \/ a.field[1] < b.field[1]
          \/ a.field[1] = b.field[1] /\ FieldRank(a.field) < FieldRank(b.field)

\* What stays in its place relative to the others where the order says nothing.
StableSort(s) ==
    LET place(k) == Cardinality({j \in DOMAIN s :
                        \/ Before(s[j], s[k])
                        \/ ~Before(s[k], s[j]) /\ j <= k})
    IN  [n \in DOMAIN s |-> s[CHOOSE k \in DOMAIN s : place(k) = n]]

-----------------------------------------------------------------------------
(* What each check finds. *)

UnknownInput(c, name) ==
    When(name \notin DOMAIN c.profile.domain, Reject("UNKNOWN_INPUT", Input(name), 0))

OutOfRange(spec, x) == Less(x, spec.minimum) \/ Less(spec.maximum, x)

InputReasons(c, name) ==
    LET spec == c.profile.domain[name]
        v == c.request.inputs[name]
        mismatch == Reject("INPUT_TYPE_MISMATCH", Input(name), 0)
    IN
    IF name \notin DOMAIN c.request.inputs THEN
        When(spec.required, Reject("MISSING_INPUT", Input(name), 0))
    ELSE IF spec.kind = "category" THEN
        IF ~IsStr(v) THEN mismatch
        ELSE When(v[2] \notin F!Range(spec.categories),
                  Reject("UNSEEN_CATEGORY", Input(name), 0))
    ELSE IF ~IsNum(v) THEN mismatch
    ELSE When(spec.kind = "integer" /\ ~Integral(v[2]), mismatch) \o
         When(OutOfRange(spec, v[2]), Reject("INPUT_OUT_OF_RANGE", Input(name), 0))

\* A number among the inputs.
HasNumber(r, name) == name \in DOMAIN r.inputs /\ IsNum(r.inputs[name])

\* A relation is only judged if both its operands are there as numbers.
RelationReasons(c, k) ==
    LET rel == c.profile.relations[k] IN
    When(/\ HasNumber(c.request, rel.left) /\ HasNumber(c.request, rel.right)
         /\ ~Compare(rel.op, c.request.inputs[rel.left][2],
                      c.request.inputs[rel.right][2]),
         Reject("RELATION_VIOLATION", Fixed, k))

\* Faulty variant: the request is believed whatever is observed on the node.
ObservedByRequest(c, fromEvidence, fromRequest) == fromRequest

\* On the node, evidence takes the place of what the request says.
Observed(c, fromEvidence, fromRequest) ==
    IF Runtime(c) /\ fromEvidence # None THEN fromEvidence ELSE fromRequest

ObservedInterference(c) == Observed(c, c.evidence.interference, c.request.interference)
ObservedVersions(c) == Observed(c, c.evidence.versions, c.request.versions)

UnknownInterference(c, name) ==
    When(name \notin DOMAIN c.profile.metrics,
         Reject("UNKNOWN_INTERFERENCE", Interference(name), 0))

\* Faulty variant: NaN is in every range.
InterferenceReasonsByRange(c, name) ==
    IF name \notin DOMAIN ObservedInterference(c)
    THEN Reject("MISSING_INTERFERENCE", Interference(name), 0)
    ELSE When(OutOfRange(c.profile.metrics[name], ObservedInterference(c)[name]),
              Reject("INTERFERENCE_OUT_OF_ENVELOPE", Interference(name), 0))

InterferenceReasons(c, name) ==
    LET x == ObservedInterference(c)[name] IN
    IF name \notin DOMAIN ObservedInterference(c)
    THEN Reject("MISSING_INTERFERENCE", Interference(name), 0)
    ELSE When(~IsFinite(x) \/ OutOfRange(c.profile.metrics[name], x),
              Reject("INTERFERENCE_OUT_OF_ENVELOPE", Interference(name), 0))

VersionReasons(c, component) ==
    LET range == c.profile.versions[component] IN
    IF component \notin DOMAIN ObservedVersions(c)
    THEN Reject("MISSING_VERSION", Version(component), 0)
    ELSE LET match == Match(ObservedVersions(c)[component], range) IN
         When(match = "error", Reject("INVALID_VERSION", Version(component), 0)) \o
         When(match = "differ", Reject("UNSUPPORTED_VERSION", Version(component), 0))

\* The features of the latency model, then those of the OOD detector.
Names(p) == p.order \o p.ood.features

\* Each is resolved once.
FirstNames(p) ==
    {k \in DOMAIN Names(p) : \A j \in 1..k - 1 : Names(p)[j] # Names(p)[k]}

\* Faulty variant: an observation need not be finite.
AvailableUnbounded(c, f) ==
    \/ IsInput(f) /\ HasNumber(c.request, f[2])
    \/ IsInterference(f) /\ f[2] \in DOMAIN ObservedInterference(c)

Available(c, f) ==
    \/ IsInput(f) /\ HasNumber(c.request, f[2])
    \/ /\ IsInterference(f) /\ f[2] \in DOMAIN ObservedInterference(c)
       /\ IsFinite(ObservedInterference(c)[f[2]])

Resolve(c, f) ==
    IF IsInput(f) THEN c.request.inputs[f[2]][2] ELSE ObservedInterference(c)[f[2]]

FeatureReasons(c, k) ==
    LET f == Names(c.profile)[k] IN
    IF ~IsInput(f) /\ ~IsInterference(f)
    THEN Reject("INVALID_MODEL_FEATURE", Fixed, k)
    ELSE When(~Available(c, f), Reject("MODEL_FEATURE_MISSING", f, 0))

featureOK ==
    \A k \in DOMAIN Names(profile) : Names(profile)[k] \in DOMAIN features

Predicted(p, value) ==
    SumOf(p.intercept, Len(p.order),
          LAMBDA k : Times(p.coefficients[p.order[k]], value[p.order[k]]))

\* The budgets are the residual, the I/O budget and the jitter.
LatencyUpper(p, value) ==
    SumOf(Predicted(p, value), Len(p.budgets), LAMBDA k : p.budgets[k])

AvailableTime(r) == Plus(r.deadline, -r.margin)

LatencyReasons(c, value) ==
    LET predicted == Predicted(c.profile, value)
        upper == LatencyUpper(c.profile, value)
    IN
    When(~IsFinite(predicted) \/ Less(predicted, 0),
         Reject("INVALID_PREDICTION", Fixed, 0)) \o
    (IF ~IsFinite(upper) \/ Less(upper, 0) THEN Reject("INVALID_LATENCY_BOUND", Fixed, 0)
     ELSE When(Less(AvailableTime(c.request), upper),
               Reject("LATENCY_SLO_UNSATISFIED", Fixed, 0)))

Delta(o, value, i) == Plus(value[o.features[i]], -o.mean[i])

\* The Mahalanobis score, row by row.
Score(o, value) ==
    LET n == Len(o.features)
        term(m) == LET i == 1 + (m - 1) \div n
                       j == 1 + ((m - 1) % n)
                   IN  Times(Times(Delta(o, value, i), o.inverse[i][j]),
                             Delta(o, value, j))
    IN  SumOf(0, n * n, term)

\* The score has an index for the mean and two for the matrix.
OutOfBounds(o) ==
    LET n == Len(o.features) IN
    /\ o.required
    /\ \/ Len(o.mean) < n \/ Len(o.inverse) < n
       \/ \E i \in 1..n : Len(o.inverse[i]) < n

OODReasons(c, value) ==
    LET score == Score(c.profile.ood, value) IN
    IF ~c.profile.ood.required THEN << >>
    ELSE IF ~IsFinite(score) \/ Less(score, 0) THEN Reject("INVALID_OOD_SCORE", Fixed, 0)
    ELSE When(Less(c.profile.ood.threshold, score), Reject("OOD_REJECTED", Fixed, 0))

RequestName(c) == IF c.evidence.draRequest = None THEN "gpu" ELSE c.evidence.draRequest

Devices(c) == c.evidence.metadata[RequestName(c)]

\* A scalar of its own kind, or a member of a list; what is neither (an integer
\* beyond the exact ones) contains nothing.
Contains(attribute, v) ==
    \/ attribute.kind = "scalar" /\ attribute.value = v
    \/ attribute.kind = "list" /\ v \in attribute.values

Satisfies(attribute, assertion) ==
    LET v == attribute.value IN
    \/ assertion.op = "contains" /\ Contains(attribute, assertion.value)
    \/ /\ attribute.kind = "scalar"
       /\ \/ assertion.op = "eq" /\ v = assertion.value
          \/ assertion.op = "ne" /\ v # assertion.value
          \/ /\ IsNum(v) /\ IsNum(assertion.value)
             /\ \/ assertion.op = "gte" /\ v[2] >= assertion.value[2]
                \/ assertion.op = "lte" /\ v[2] <= assertion.value[2]

\* The assertions are taken one by one for each device in turn.
Pairs(c) == 1..Len(Devices(c)) * Len(c.profile.assertions)

AttributeReasons(c, k) ==
    LET n == Len(c.profile.assertions)
        device == Devices(c)[1 + ((k - 1) \div n)]
        assertion == c.profile.assertions[1 + ((k - 1) % n)]
    IN
    IF assertion.attribute \notin DOMAIN device
    THEN Reject("DRA_ATTRIBUTE_MISSING", Attribute(assertion.attribute), k)
    ELSE When(~Satisfies(device[assertion.attribute], assertion),
              Reject("DRA_ATTRIBUTE_MISMATCH", Attribute(assertion.attribute), k))

HasDevices(c) ==
    /\ c.evidence.metadata # None
    /\ RequestName(c) \in DOMAIN c.evidence.metadata

\* What is found before any assertion is looked at.
MetadataReasons(c) ==
    IF c.evidence.metadata = None THEN Reject("DRA_METADATA_REQUIRED", Fixed, 0)
    ELSE IF ~HasDevices(c) THEN Reject("DRA_REQUEST_MISSING", Fixed, 0)
    ELSE When(Len(Devices(c)) # c.profile.deviceCount,
              Reject("DRA_DEVICE_COUNT_MISMATCH", Fixed, 0))

-----------------------------------------------------------------------------
(* The steps of Evaluate. *)

Idle ==
    /\ case = None
    /\ reasons = << >>
    /\ features = << >>
    /\ todo = {}
    /\ pc = "idle"

\* Once the caller has the decision, nothing of the call is left.
Forget ==
    /\ case' = None
    /\ reasons' = << >>
    /\ features' = << >>
    /\ todo' = {}
    /\ pc' = "idle"

Begin(c) ==
    /\ pc = "idle"
    /\ case' = c
    /\ pc' = "start"
    /\ UNCHANGED <<reasons, features, todo>>

Return(found) ==
    /\ reasons' = found
    /\ pc' = "done"
    /\ UNCHANGED <<case, features, todo>>

RefusePhase ==
    /\ pc = "start" /\ ~Known(case)
    /\ Return(Reject("INVALID_PHASE", Fixed, 0))

RefuseProfile ==
    /\ pc = "start" /\ Known(case)
    /\ ~ValidProfile(profile) /\ ~ValidationPanics(profile)
    /\ Return(Reject("INVALID_PROFILE", Fixed, 0))

\* An index out of range ends the program.
PanicInValidation ==
    /\ pc = "start" /\ Known(case)
    /\ ValidationPanics(profile)
    /\ pc' = "panic in validation"
    /\ UNCHANGED <<case, reasons, features, todo>>

RefuseRequest ==
    /\ pc = "start" /\ Known(case) /\ ValidProfile(profile) /\ ~ValidRequest(request)
    /\ Return(Reject("INVALID_REQUEST", Fixed, 0))

\* Go on to the next loop, over keys, with what was found in between.
Enter(loop, keys, found) ==
    /\ reasons' = reasons \o found
    /\ todo' = keys
    /\ pc' = loop
    /\ UNCHANGED <<case, features>>

Start ==
    /\ pc = "start" /\ Known(case) /\ ValidProfile(profile) /\ ValidRequest(request)
    /\ Enter("unknown inputs", DOMAIN request.inputs,
             When(request.required \notin {None, profile.name},
                  Reject("PROFILE_MISMATCH", Fixed, 0)) \o
             When(~case.evidence.fresh, Reject("STALE_CERTIFICATE", Fixed, 0)))

\* Visit one key of the present loop.
Visit(key, found) ==
    /\ reasons' = reasons \o found
    /\ todo' = todo \ {key}
    /\ UNCHANGED <<case, pc>>

\* A slice is gone through by the index.
FirstKey == CHOOSE k \in todo : \A j \in todo : k <= j

\* A loop over the keys of a map, and what comes after it.
Each(loop, found(_, _), next, keys, then) ==
    /\ pc = loop
    /\ \/ \E name \in todo : Visit(name, found(case, name)) /\ UNCHANGED features
       \/ todo = {} /\ Enter(next, keys, then)

UnknownInputs ==
    Each("unknown inputs", UnknownInput, "inputs", DOMAIN profile.domain, << >>)

\* Faulty variant: the first input that is wrong ends the loop.
InputsUntilFirst ==
    /\ pc = "inputs"
    /\ \/ \E name \in todo :
             /\ reasons' = reasons \o InputReasons(case, name)
             /\ todo' = IF InputReasons(case, name) = << >> THEN todo \ {name} ELSE {}
             /\ UNCHANGED <<case, pc, features>>
       \/ todo = {} /\ Enter("relations", DOMAIN profile.relations, << >>)

Inputs == Each("inputs", InputReasons, "relations", DOMAIN profile.relations, << >>)

Relations ==
    /\ pc = "relations"
    /\ \/ /\ todo # {}
          /\ Visit(FirstKey, RelationReasons(case, FirstKey)) /\ UNCHANGED features
       \/ /\ todo = {}
          /\ Enter("unknown interference", DOMAIN ObservedInterference(case), << >>)

UnknownMetrics ==
    Each("unknown interference", UnknownInterference,
         "interference", DOMAIN profile.metrics, << >>)

Metrics == Each("interference", InterferenceReasons,
                "versions", DOMAIN profile.versions, << >>)

Versions ==
    Each("versions", VersionReasons, "features", FirstNames(profile),
         When(profile.upperBound > request.maxNumericalError,
              Reject("NUMERICAL_BUDGET_UNSATISFIED", Fixed, 0)) \o
         When(profile.observedMax > profile.upperBound,
              Reject("INVALID_NUMERICAL_CERTIFICATE", Fixed, 0)))

Features ==
    /\ pc = "features" /\ todo # {}
    /\ LET f == Names(profile)[FirstKey] IN
       /\ Visit(FirstKey, FeatureReasons(case, FirstKey))
       /\ features' =
            IF FeatureReasons(case, FirstKey) # << >> THEN features
            ELSE [g \in DOMAIN features \cup {f} |->
                     IF g = f THEN Resolve(case, f) ELSE features[g]]

\* The bound and the score are taken only if every feature was resolved; then
\* the assertions are looked at, if there are devices to look at.
Bound ==
    /\ pc = "features" /\ todo = {}
    /\ IF featureOK /\ OutOfBounds(profile.ood)
       THEN pc' = "panic in score" /\ UNCHANGED <<case, reasons, features, todo>>
       ELSE Enter("devices",
                  IF Runtime(case) /\ HasDevices(case) THEN Pairs(case) ELSE {},
                  (IF featureOK
                   THEN LatencyReasons(case, features) \o OODReasons(case, features)
                   ELSE << >>) \o
                  (IF Runtime(case) THEN MetadataReasons(case) ELSE << >>))

Assertions ==
    /\ pc = "devices"
    /\ \/ /\ todo # {}
          /\ Visit(FirstKey, AttributeReasons(case, FirstKey)) /\ UNCHANGED features
       \/ todo = {} /\ Return(StableSort(reasons))

Step ==
    \/ RefusePhase \/ RefuseProfile \/ PanicInValidation \/ RefuseRequest \/ Start
    \/ UnknownInputs \/ Inputs \/ Relations \/ UnknownMetrics \/ Metrics
    \/ Versions \/ Features \/ Bound \/ Assertions

Admissible == pc = "done" /\ reasons = << >>

-----------------------------------------------------------------------------
Field == {Fixed} \cup ((1..4) \X DOMAIN Rank)

\* Types of what a call keeps; what a model is fed is finite.
DecisionOK ==
    /\ \A k \in DOMAIN reasons :
          /\ reasons[k].code \in {Codes[m] : m \in DOMAIN Codes}
          /\ reasons[k].field \in Field
          /\ reasons[k].item \in Nat
    /\ \A f \in DOMAIN features : IsFinite(features[f])
    /\ pc \in {"idle", "start", "unknown inputs", "inputs", "relations",
               "unknown interference", "interference", "versions", "features",
               "devices", "done", "panic in validation", "panic in score"}
    /\ IsFiniteSet(todo)

\* What was calibrated for an input.
Calibrated(spec) ==
    IF spec.kind = "category" THEN {Str(c) : c \in F!Range(spec.categories)}
    ELSE {Num(x) : x \in {y \in spec.minimum..spec.maximum :
                            spec.kind = "integer" => Integral(y)}}

LawfulInput(c, name) ==
    /\ name \in DOMAIN c.profile.domain
    /\ IF name \in DOMAIN c.request.inputs
       THEN c.request.inputs[name] \in Calibrated(c.profile.domain[name])
       ELSE ~c.profile.domain[name].required

\* What the decision has to go by.
Seen(c, fromEvidence, fromRequest) ==
    IF c.phase = "plan" \/ fromEvidence = None THEN fromRequest ELSE fromEvidence

LawfulMetric(c, name) ==
    LET seen == Seen(c, c.evidence.interference, c.request.interference) IN
    /\ name \in DOMAIN c.profile.metrics /\ name \in DOMAIN seen
    /\ seen[name] \in c.profile.metrics[name].minimum..c.profile.metrics[name].maximum

\* Precedence of versions, independent of how semver.go finds it: numbers, then
\* identifiers; the end comes before a number, a number before a word, and
\* all of them before a release.
Key(text) ==
    LET pre == text.compact \o text.pre
        n == Len(pre)
        rank(a) == IF IsNum(a) THEN <<1, a[2]>> ELSE <<2, Rank[a[2]]>>
    IN  [k \in 1..n + 4 |-> IF k <= 3 THEN <<0, text.numbers[k]>>
                            ELSE IF k <= n + 3 THEN rank(pre[k - 3])
                            ELSE IF n = 0 THEN <<3, 0>> ELSE <<0, 0>>]

LexicallyLess(s, t) ==
    \E k \in DOMAIN s \cap DOMAIN t :
        /\ \A j \in 1..k - 1 : s[j] = t[j]
        /\ \/ s[k][1] < t[k][1]
           \/ s[k][1] = t[k][1] /\ s[k][2] < t[k][2]

Admits(comparator, text) ==
    LET x == Key(text)
        y == Key(comparator.text)
    IN  \/ comparator.op \in {"=", "<=", ">="} /\ x = y
        \/ comparator.op \in {"<", "<="} /\ LexicallyLess(x, y)
        \/ comparator.op \in {">", ">="} /\ LexicallyLess(y, x)

Readable(text) == Len(text.numbers) = 3

LawfulVersion(c, component) ==
    LET seen == Seen(c, c.evidence.versions, c.request.versions)
        range == c.profile.versions[component]
    IN
    /\ component \in DOMAIN seen /\ Readable(seen[component])
    /\ \A k \in DOMAIN range :
          Readable(range[k].text) /\ Admits(range[k], seen[component])

RelationHolds(r, rel) ==
    Compare(rel.op, r.inputs[rel.left][2], r.inputs[rel.right][2])

Used(p) == {Names(p)[k] : k \in DOMAIN Names(p)}

LawfulValue(c) ==
    LET seen == Seen(c, c.evidence.interference, c.request.interference) IN
    [f \in Used(c.profile) |->
        IF IsInput(f) THEN c.request.inputs[f[2]][2] ELSE seen[f[2]]]

LawfulUpper(c) == LatencyUpper(c.profile, LawfulValue(c))

\* The latency and the score are within their bounds (ARCHITECTURE.md section 3).
LawfulLoad(c) ==
    /\ \A f \in Used(c.profile) :
          \/ IsInput(f) /\ HasNumber(c.request, f[2])
          \/ /\ IsInterference(f)
             /\ f[2] \in DOMAIN Seen(c, c.evidence.interference, c.request.interference)
    /\ Predicted(c.profile, LawfulValue(c)) \in 0..MaxFloat
    /\ LawfulUpper(c) \in 0..AvailableTime(c.request)
    /\ c.profile.ood.required =>
          Score(c.profile.ood, LawfulValue(c)) \in 0..c.profile.ood.threshold

LawfulDevices(c) ==
    /\ c.evidence.metadata # None /\ RequestName(c) \in DOMAIN c.evidence.metadata
    /\ Len(Devices(c)) = c.profile.deviceCount
    /\ \A d \in DOMAIN Devices(c), a \in DOMAIN c.profile.assertions :
          LET assertion == c.profile.assertions[a] IN
          /\ assertion.attribute \in DOMAIN Devices(c)[d]
          /\ Satisfies(Devices(c)[d][assertion.attribute], assertion)

\* Everything the documents ask of an admission (CONTRACT_SPEC.md sections 3 to
\* 6, ARCHITECTURE.md section 3), in no order.
Lawful(c) ==
    /\ Known(c) /\ ValidProfile(c.profile) /\ ValidRequest(c.request)
    /\ c.evidence.fresh
    /\ c.request.required \in {None, c.profile.name}
    /\ \A name \in DOMAIN c.profile.domain \cup DOMAIN c.request.inputs :
          LawfulInput(c, name)
    /\ \A k \in DOMAIN c.profile.relations :
          LET rel == c.profile.relations[k] IN
          {rel.left, rel.right} \subseteq DOMAIN c.request.inputs =>
              RelationHolds(c.request, rel)
    /\ \A name \in DOMAIN c.profile.metrics
                \cup DOMAIN Seen(c, c.evidence.interference, c.request.interference) :
          LawfulMetric(c, name)
    /\ \A component \in DOMAIN c.profile.versions : LawfulVersion(c, component)
    /\ c.profile.upperBound <= c.request.maxNumericalError
    /\ LawfulLoad(c)
    /\ Runtime(c) => LawfulDevices(c)

\* Fail closed, and no more than that: a profile is admitted exactly if all that
\* is asked of it holds, though the checks skip one another in many ways
\* (planner.go:57-141).
AdmitsExactly == pc = "done" => (Admissible <=> Lawful(case))

\* a comes before b by code, by field, and then by the place the loops give it.
Precedes(a, b) ==
    LET x == <<CodeRank(a.code), a.field[1], FieldRank(a.field), a.item>>
        y == <<CodeRank(b.code), b.field[1], FieldRank(b.field), b.item>>
    IN  \E n \in 1..4 : x[n] < y[n] /\ \A m \in 1..n - 1 : x[m] = y[m]

\* The reasons are in the one order of code and field, with no two that a reader
\* could swap, whatever order Go takes the keys of the maps in
\* (planner.go:134-140; docs/CONTRACT_SPEC.md:84).
ReasonsInOrder ==
    pc = "done" =>
        \A k \in 1..Len(reasons) - 1 : Precedes(reasons[k], reasons[k + 1])

Named(field) == \E k \in DOMAIN reasons : reasons[k].field = field

\* No fault hides another: every input, metric and version that is not lawful is
\* named, whatever else is wrong (docs/CONTRACT_SPEC.md:84, "all detected reasons").
EveryFaultNamed ==
    pc = "done" /\ Known(case) /\ ValidProfile(profile) /\ ValidRequest(request) =>
        /\ \A name \in DOMAIN profile.domain \cup DOMAIN request.inputs :
              ~LawfulInput(case, name) => Named(Input(name))
        /\ \A name \in DOMAIN profile.metrics \cup DOMAIN ObservedInterference(case) :
              ~LawfulMetric(case, name) => Named(Interference(name))
        /\ \A component \in DOMAIN profile.versions :
              ~LawfulVersion(case, component) => Named(Version(component))

\* What validation lets through is in bounds: the score never takes an index that
\* the mean or the matrix does not have (validate.go:454-483, planner.go:294-299).
ScoreInBounds == pc # "panic in score"

\* What an asymmetry within the tolerance can take from a score, multiplied by
\* ToleranceInverse.
Slack(o, value) ==
    LET n == Len(o.features)
        term(i, j) == IF i < j THEN Magnitude(o.inverse[i][j], o.inverse[j][i])
                                    * Absolute(Delta(o, value, i) * Delta(o, value, j))
                      ELSE 0
        slack[m \in 0..n * n] ==
            IF m = 0 THEN 0
            ELSE slack[m - 1] + term(1 + (m - 1) \div n, 1 + ((m - 1) % n))
    IN  slack[n * n]

\* "Merely checking that it is square would allow" a profile "to create
\* negative/indefinite OOD scores and silently widen admission" (validate.go:534-537).
\* With the test a finite score is below zero by no more than the asymmetry that
\* the tolerance lets through: a matrix that is symmetric gives none.
ScoreWithinTolerance ==
    pc = "devices" /\ featureOK /\ profile.ood.required =>
        LET score == Score(profile.ood, features) IN
        IsFinite(score) => score * ToleranceInverse >= -Slack(profile.ood, features)

\* A matrix whose rows differ in length is an issue to report ("OOD inverse
\* covariance matrix is not square", validate.go:475), so validation returns on it.
ValidationReturns == pc # "panic in validation"
=============================================================================
