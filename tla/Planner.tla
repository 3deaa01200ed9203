------------------------------ MODULE Planner -------------------------------
(***************************************************************************)
(* The planner as its callers use it.  "c2k select" loads a catalog and a  *)
(* request (contract.LoadCatalog, LoadRequest) and calls Select, which     *)
(* calls Evaluate for each profile; the renderer and the launcher call     *)
(* Evaluate for the one profile they have.  A call is                      *)
(* [caller, catalog, request, phase, evidence].                            *)
(***************************************************************************)
EXTENDS Evaluate

CONSTANT Call   \* the calls

VARIABLES
    call,      \* this call
    offered,   \* history: what Select chooses from, as the documents judge it
    i,         \* profiles Select has considered
    best,      \* the place of the best profile so far, or 0
    kept,      \* bestDecision: the place of its profile and its latency, or None
    first,     \* no decision is kept yet
    stage      \* "load", "loop", "direct" or how it ended

selection == <<i, best, kept, first, stage>>

vars == <<evaluation, call, offered, selection>>

\* Evaluate's call for the k-th profile of c.
EvaluateCall(c, k) ==
    [profile |-> c.catalog[k], request |-> c.request,
     phase |-> c.phase, evidence |-> c.evidence]

ASSUME CallAssumption ==
    \A c \in Call :
        /\ IsSequence(c.catalog)
        /\ c.caller # "select" => c.catalog # << >>
        /\ \A k \in DOMAIN c.catalog : CaseOK(EvaluateCall(c, k))

CaseOf(k) == EvaluateCall(call, k)

\* Faulty variant: a name may occur twice.
ValidCatalogByProfile(c) ==
    c # << >> /\ \A k \in DOMAIN c : ValidProfile(c[k])

ValidCatalog(c) ==
    /\ c # << >>
    /\ \A j, k \in DOMAIN c : c[j].name = c[k].name => j = k
    /\ \A k \in DOMAIN c : ValidProfile(c[k])

Panics == \E k \in DOMAIN call.catalog : ValidationPanics(call.catalog[k])

Loads == ~Panics /\ ValidCatalog(call.catalog) /\ ValidRequest(call.request)

\* A profile that is not lawful may have no latency.
Promised(k) ==
    LET lawful == Lawful(CaseOf(k)) IN
    [name |-> Rank[call.catalog[k].name], admissible |-> lawful,
     latency |-> IF lawful THEN LawfulUpper(CaseOf(k)) ELSE 0]

Init ==
    /\ Idle
    /\ call \in Call
    /\ offered = IF call.caller = "select" /\ Loads
                 THEN [k \in DOMAIN call.catalog |-> Promised(k)] ELSE << >>
    /\ i = 0 /\ best = 0 /\ kept = None
    /\ first = TRUE
    /\ stage = IF call.caller = "select" THEN "load" ELSE "direct"

-----------------------------------------------------------------------------
\* One profile whose validation panics is enough.
Load ==
    /\ stage = "load"
    /\ stage' = IF Panics THEN "panic" ELSE IF Loads THEN "loop" ELSE "refused"
    /\ UNCHANGED <<evaluation, call, offered, i, best, kept, first>>

Direct ==
    /\ stage = "direct"
    /\ Begin(CaseOf(1))
    /\ UNCHANGED <<call, offered, selection>>

Evaluating == Step /\ UNCHANGED <<call, offered, selection>>

EvaluateNext ==
    /\ stage = "loop" /\ i < Len(call.catalog)
    /\ Begin(CaseOf(i + 1))
    /\ UNCHANGED <<call, offered, selection>>

\* Evaluate has returned and Select goes on.
Considered ==
    /\ stage = "loop" /\ pc = "done"
    /\ i' = i + 1
    /\ Forget
    /\ UNCHANGED <<call, offered, stage>>

\* Faulty variant: the last refusal is kept instead of the first.
RefuseLast ==
    /\ Considered /\ ~Admissible
    /\ kept' = IF best = 0 THEN [of |-> i + 1, latency |-> 0] ELSE kept
    /\ first' = FALSE
    /\ UNCHANGED best

\* The refusal of the first profile is kept until an admissible one comes.
Refuse ==
    /\ Considered /\ ~Admissible
    /\ kept' = IF first THEN [of |-> i + 1, latency |-> 0] ELSE kept
    /\ first' = FALSE
    /\ UNCHANGED best

\* Faulty variant: of two profiles with the same latency the later one wins.
BetterOrLater == LatencyUpper(profile, features) <= kept.latency

Better ==
    \/ LatencyUpper(profile, features) < kept.latency
    \/ /\ LatencyUpper(profile, features) = kept.latency
       /\ Rank[profile.name] < Rank[call.catalog[best].name]

\* Faulty variant: the decision of the previous best profile is kept.
ImproveProfileOnly ==
    /\ Considered /\ Admissible
    /\ best # 0 => Better
    /\ best' = i + 1
    /\ kept' = IF kept # None THEN kept
               ELSE [of |-> i + 1, latency |-> LatencyUpper(profile, features)]
    /\ first' = FALSE

Improve ==
    /\ Considered /\ Admissible
    /\ best # 0 => Better
    /\ best' = i + 1
    /\ kept' = [of |-> i + 1, latency |-> LatencyUpper(profile, features)]
    /\ first' = FALSE

Pass ==
    /\ Considered /\ Admissible
    /\ best # 0 /\ ~Better
    /\ UNCHANGED <<best, kept, first>>

Finish ==
    /\ stage = "loop" /\ i = Len(call.catalog)
    /\ stage' = "done"
    /\ UNCHANGED <<evaluation, call, offered, i, best, kept, first>>

Next ==
    \/ Load \/ Direct \/ EvaluateNext \/ Evaluating
    \/ Refuse \/ Improve \/ Pass \/ Finish

Spec == Init /\ [][Next]_vars

-----------------------------------------------------------------------------
\* Type correctness.
TypeOK ==
    /\ DecisionOK
    /\ case = IF pc = "idle" THEN None ELSE CaseOf(i + 1)
    /\ i \in 0..Len(call.catalog) /\ best \in 0..i
    /\ kept = None \/ kept.of \in 1..i
    /\ first \in BOOLEAN
    /\ stage \in {"load", "loop", "direct", "refused", "panic", "done"}

S == INSTANCE Selection
       WITH catalog <- offered, done <- stage = "done",
            decision <- IF first THEN 0 ELSE kept.of

\* Loading, evaluating and comparing together do what Selection promises.
ImplementsSelection == S!Spec
=============================================================================
