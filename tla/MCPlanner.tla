----------------------------- MODULE MCPlanner ------------------------------
(***************************************************************************)
(* Calls for TLC.  Direct calls of Evaluate differ from one that is        *)
(* admitted in at most two of the places that Alternatives lists; profiles *)
(* that validation refuses, and those it lets through by what they look    *)
(* like, stand alone.  Catalogs have up to three profiles.                 *)
(***************************************************************************)
EXTENDS Planner, TLC

Feature(kind, required, minimum, maximum, categories) ==
    [kind |-> kind, required |-> required, minimum |-> minimum,
     maximum |-> maximum, categories |-> categories]

Scalar(v) == [kind |-> "scalar", value |-> v]
List(vs)  == [kind |-> "list", values |-> vs, value |-> None]

Release(a, b, c) == Text(<<a, b, c>>, << >>, << >>)
Beta(n) == Text(<<1, 0, 0>>, <<Str("b"), Num(n)>>, << >>)
Broken  == Text(<<1, 0>>, << >>, << >>)
Blank   == Text(<< >>, << >>, << >>)

Comparator(op, text) == [op |-> op, text |-> text]

\* ">=1.0.0b2,<1.1.0" and ">=1.36.0,<1.37.0", of the tests.
MojoRange == <<Comparator(">=", Beta(2)), Comparator("<", Release(1, 1, 0))>>
K8sRange  == <<Comparator(">=", Release(1, 36, 0)), Comparator("<", Release(1, 37, 0))>>

BaseOOD == [required |-> TRUE, features |-> <<Input("batch"), Input("ues")>>,
            mean |-> <<4, 4>>, inverse |-> <<<<1, 0>>, <<0, 1>>>>, threshold |-> 4]

BaseProfile ==
    [intact |-> TRUE, sealed |-> TRUE, name |-> "p", deviceCount |-> 1,
     upperBound |-> 1, observedMax |-> 1,
     domain |-> [batch |-> Feature("integer", TRUE, 2, 8, << >>),
                 ues |-> Feature("number", FALSE, 2, 6, << >>),
                 mode |-> Feature("category", FALSE, None, None, <<"fast", "safe">>)],
     relations |-> <<[left |-> "ues", op |-> "<=", right |-> "batch"],
                     [left |-> "ues", op |-> "=", right |-> "ues"]>>,
     metrics |-> [cpu |-> [minimum |-> 0, maximum |-> 4],
                  io |-> [minimum |-> 0, maximum |-> 2]],
     versions |-> [k8s |-> K8sRange, mojo |-> MojoRange],
     order |-> <<Input("batch"), Interference("cpu")>>,
     coefficients |-> (Input("batch") :> 1) @@ (Interference("cpu") :> 2),
     intercept |-> 2, budgets |-> <<1, 1, 0>>, ood |-> BaseOOD,
     assertions |-> <<[attribute |-> "arch", op |-> "contains", value |-> Str("sm")],
                      [attribute |-> "mem", op |-> "gte", value |-> Num(4)]>>]

Device == [arch |-> Scalar(Str("sm")), mem |-> Scalar(Num(4))]

Base ==
    [profile |-> BaseProfile,
     inputs |-> [batch |-> Num(4), ues |-> Num(4)],
     interference |-> [cpu |-> 1, io |-> 1],
     versions |-> [k8s |-> Release(1, 36, 3), mojo |-> Beta(10)],
     time |-> [deadline |-> 11, margin |-> 1], maxNumericalError |-> 1,
     required |-> None, intact |-> TRUE, fresh |-> TRUE, phase |-> "runtime",
     evidence |-> [interference |-> None, versions |-> None],
     metadata |-> [gpu |-> <<Device>>], draRequest |-> "gpu"]

Alternatives ==
    [profile |->
        LET p == Base.profile IN
        {p,
         [p EXCEPT !.relations[2] = [left |-> "batch", op |-> "<", right |-> "ues"]],
         [p EXCEPT !.ood.features = <<Input("batch")>>, !.ood.mean = <<4>>,
                   !.ood.inverse = <<<<1>>>>],
         [p EXCEPT !.ood.required = FALSE,
                   !.ood.features = <<<<0, "x">>, <<0, "mode">>, <<0, "x">>>>],
         [p EXCEPT !.intercept = -10],
         [p EXCEPT !.intercept = -10, !.budgets[2] = 0],
         [p EXCEPT !.coefficients = (Input("batch") :> 60) @@ (Interference("cpu") :> -60)],
         [p EXCEPT !.ood.inverse = <<<<30, 0>>, <<0, 30>>>>],
         [p EXCEPT !.ood.inverse = <<<<150, -149>>, <<-149, 150>>>>],
         [p EXCEPT !.deviceCount = 2],
         [p EXCEPT !.assertions[1].op = "eq", !.assertions[2].op = "lte"],
         [p EXCEPT !.assertions[1].op = "ne"]},
     inputs |->
        {Base.inputs,
         [batch |-> Num(6), ues |-> Num(4)],
         [batch |-> Num(6), ues |-> Num(6)],
         [batch |-> Num(4), ues |-> Num(5)],
         [batch |-> Num(3), ues |-> Num(3)],
         [batch |-> Num(9), ues |-> Num(7), mode |-> Str("slow")],
         [batch |-> Num(4)],
         [ues |-> Num(4), mode |-> Num(2)],
         [batch |-> Str("many"), ues |-> Num(4), mode |-> <<"bool", TRUE>>],
         [batch |-> Num(4), ues |-> Num(4), mode |-> Str("fast")],
         [batch |-> Num(4), x |-> Num(0), mode |-> Str("slow"), ues |-> Str("few")]},
     interference |->
        {Base.interference, [cpu |-> 1], [cpu |-> 5, io |-> 3],
         [cpu |-> 1, io |-> 1, net |-> 0], [cpu |-> 0, io |-> 0]},
     versions |->
        {Base.versions, [mojo |-> Beta(1)],
         [k8s |-> Release(1, 37, 0), mojo |-> Broken],
         [k8s |-> Broken, mojo |-> Release(1, 0, 0)]},
     time |-> {Base.time, [deadline |-> 11, margin |-> 2]},
     maxNumericalError |-> {1, 0},
     required |-> {None, "p", "q"}, intact |-> BOOLEAN, fresh |-> BOOLEAN,
     phase |-> {"runtime", "plan", "later"},
     evidence |->
        {Base.evidence,
         [interference |-> [cpu |-> 0, io |-> 0], versions |-> Base.versions],
         [interference |-> [cpu |-> PosInf, io |-> 0], versions |-> None],
         [interference |-> [cpu |-> 0, io |-> NaN], versions |-> None],
         [interference |-> [cpu |-> 5, net |-> 0],
          versions |-> [k8s |-> Release(1, 35, 9)]]},
     draRequest |-> {"gpu", None, "other"},
     metadata |->
        {Base.metadata, None, [other |-> <<Device>>],
         [gpu |-> <<Device, Device>>],
         [gpu |-> <<Device, [arch |-> List({Str("gfx")}), mem |-> Scalar(Num(2))]>>],
         [gpu |-> <<[arch |-> List({Str("sm"), Str("gfx")}), mem |-> Scalar(Str("big"))]>>],
         [gpu |-> <<[arch |-> Scalar(Str("gfx"))]>>]}]

Pairs2 ==
    UNION {UNION {{[[Base EXCEPT ![d] = v] EXCEPT ![e] = w] :
                     v \in Alternatives[d], w \in Alternatives[e]} :
                  e \in DOMAIN Base} : d \in DOMAIN Base}

-----------------------------------------------------------------------------
(* What only validation or the ranges of versions tell apart. *)

\* Profiles that are refused, and matrices that are no matrices.
Refused ==
    LET p == Base.profile
        ood(names, mean, inverse) ==
            [p EXCEPT !.ood.features = names, !.ood.mean = mean, !.ood.inverse = inverse]
        two == p.ood.features
        unit == p.ood.inverse
    IN  {[p EXCEPT !.intact = FALSE], [p EXCEPT !.sealed = FALSE],
         [p EXCEPT !.domain.ues.maximum = None], [p EXCEPT !.domain.mode.categories = << >>],
         [p EXCEPT !.domain.mode.categories = <<"fast", "fast">>],
         [p EXCEPT !.domain.ues.minimum = 7], [p EXCEPT !.relations[1].left = "mode"],
         [p EXCEPT !.relations[1].op = "!="],
         [p EXCEPT !.observedMax = 2], [p EXCEPT !.budgets[3] = -1],
         [p EXCEPT !.order = <<Input("batch"), Input("batch")>>],
         [p EXCEPT !.order = <<Input("batch")>>],
         [p EXCEPT !.order = <<Input("batch"), Input("mode")>>],
         [p EXCEPT !.metrics.io.maximum = -1],
         [p EXCEPT !.versions.k8s = None], [p EXCEPT !.versions.k8s[1].text = Broken],
         [p EXCEPT !.assertions[1].value = Unset], [p EXCEPT !.ood.threshold = 0],
         ood(<< >>, << >>, << >>), ood(two, <<4>>, unit), ood(two, <<4, 4>>, <<<<1>>>>),
         ood(<<two[1], two[1]>>, <<4, 4>>, unit), ood(<<two[1], <<0, "x">>>>, <<4, 4>>, unit),
         ood(two, <<4, NaN>>, unit), ood(two, <<4, 4>>, <<<<1, 0>>, <<0, -1>>>>),
         ood(two, <<4, 4>>, <<<<101, 10>>, <<10, 1>>>>),
         ood(two, <<4, 4>>, <<<<1, 2>>, <<2, 1>>>>), ood(two, <<4, 4>>, <<<<1, 1>>, <<0, 1>>>>),
         ood(two, <<4, 4>>, <<<<1>>, <<0, 1>>>>), ood(two, <<4, 4>>, <<<<1, 0>>, <<0>>>>),
         ood(two, <<4, 4>>, <<<<1, 0>>, << >>>>)}

\* A matrix that is positive definite with all entries positive or not, and one
\* that passes for symmetric, with a mean that is and one that is not near it.
Skewed ==
    {[Base.profile EXCEPT !.ood.inverse = m] :
        m \in {<<<<2, 1>>, <<1, 1>>>>, <<<<1, -1>>, <<-1, 2>>>>}} \cup
    {[Base.profile EXCEPT !.ood.mean = mean,
                          !.ood.inverse = <<<<100, 101>>, <<99, 99>>>>] :
        mean \in {<<3, 5>>, <<4, 4>>}}

Validated ==
    {[Base EXCEPT !.profile = p, !.inputs = v] :
        p \in Refused \cup Skewed,
        v \in {Base.inputs, [batch |-> Num(6), ues |-> Num(4)],
               [batch |-> Num(4), ues |-> Num(5)], [batch |-> Num(6), ues |-> Num(3)]}}

\* A request is refused for its times, for an input that is not set and for a
\* version without a text.
Requests ==
    {[Base EXCEPT !.time = t] :
        t \in {[deadline |-> 0, margin |-> 0], [deadline |-> 2, margin |-> 2],
               [deadline |-> 2, margin |-> -1]}} \cup
    {[Base EXCEPT !.inputs = [batch |-> Unset]],
     [Base EXCEPT !.inputs = << >>], [Base EXCEPT !.interference.cpu = PosInf], [Base EXCEPT !.interference.io = NaN],
     [Base EXCEPT !.versions.k8s = Blank], [Base EXCEPT !.maxNumericalError = -1]}

Texts ==
    {Beta(2), Beta(10), Broken, Release(1, 0, 0), Release(0, 9, 9), Release(1, 1, 0),
     Text(<<1, 0, 0>>, <<Str("rc"), Num(1)>>, << >>),
     Text(<<1, 0, 0>>, <<Str("b"), Num(2)>>, <<Str("dev")>>),
     Text(<<1, 0, 0>>, << >>, <<Str("b")>>), Text(<<1, 0, 0>>, << >>, <<Num(2)>>)}

Ranges ==
    {<<Comparator(op, t)>> : op \in Comparisons, t \in Texts} \cup
    {<< >>, MojoRange, <<Comparator("<", Beta(2)), Comparator(">=", Broken)>>}

Versioned ==
    {[Base EXCEPT !.profile.versions.mojo = r, !.versions.mojo = t] :
        r \in Ranges, t \in Texts}

-----------------------------------------------------------------------------
Direct1(c) ==
    [caller |-> "launch", catalog |-> <<c.profile>>,
     request |-> [intact |-> c.intact, inputs |-> c.inputs,
                  interference |-> c.interference, versions |-> c.versions,
                  deadline |-> c.time.deadline, margin |-> c.time.margin,
                  maxNumericalError |-> c.maxNumericalError,
                  required |-> c.required],
     phase |-> c.phase,
     evidence |-> [fresh |-> c.fresh, interference |-> c.evidence.interference,
                   versions |-> c.evidence.versions, metadata |-> c.metadata,
                   draRequest |-> c.draRequest]]

\* Few keys, so that the orders of the loops are few.
Small ==
    [Base.profile EXCEPT !.domain = [batch |-> Base.profile.domain.batch],
        !.relations = << >>, !.metrics = [cpu |-> Base.profile.metrics.cpu],
        !.versions = << >>, !.ood.required = FALSE, !.ood.features = << >>,
        !.assertions = << >>]

\* Two that take the same time, a faster one, a slower one under the same name,
\* one that is refused, one that is too slow, one that is not valid.
Profiles ==
    {Small, [Small EXCEPT !.name = "q"], [Small EXCEPT !.name = "r", !.intercept = 0],
     [Small EXCEPT !.intercept = 3], [Small EXCEPT !.name = "r", !.upperBound = 2],
     [Small EXCEPT !.name = "s", !.intercept = 9], [Small EXCEPT !.sealed = FALSE]}

Select(catalog, intact) ==
    LET direct == Direct1([Base EXCEPT !.inputs = [batch |-> Num(4)],
                                     !.interference = [cpu |-> 1], !.versions = << >>,
                                     !.intact = intact])
    IN  [direct EXCEPT !.caller = "select", !.catalog = catalog]

Catalogs == UNION {[1..n -> Profiles] : n \in 0..3}

MCCall ==
    {Direct1(c) : c \in Pairs2 \cup Validated \cup Requests \cup Versioned} \cup
    {Select(catalog, TRUE) : catalog \in Catalogs} \cup
    {Select(<<p>>, FALSE) : p \in Profiles} \cup
    {Select(<<Small, [p EXCEPT !.name = "q"]>>, TRUE) : p \in Refused}

MCRank ==
    [arch |-> 1, b |-> 2, batch |-> 3, cpu |-> 4, dev |-> 5, io |-> 6, k8s |-> 7,
     mem |-> 8, mode |-> 9, mojo |-> 10, net |-> 11, p |-> 12, q |-> 13, r |-> 14,
     rc |-> 15, s |-> 16, ues |-> 17, x |-> 18]
=============================================================================
