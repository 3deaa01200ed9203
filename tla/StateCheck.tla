----------------------------- MODULE StateCheck -----------------------------
(***************************************************************************)
(* pkg/statecheck: the lifecycle checker.  Check folds a trace of events   *)
(* into three maps and reports which durable invariants the trace breaks.  *)
(* The module is the fold: one action per event type, one step per event,  *)
(* and the event is any that DecodeTrace lets through, also a malformed    *)
(* one.  None stands for a string field that is absent from the event.     *)
(***************************************************************************)
EXTENDS Integers

CONSTANTS
    Profile,    \* names of profiles
    Request,    \* names of requests
    Contract,   \* contract digests
    Artifact,   \* artifact digests
    Device,     \* device fingerprints
    Precision,  \* precision modes
    Bound,      \* numerical bounds and budgets, negative ones included
    None        \* an absent field, or an absent entry of a map

ASSUME StateCheckAssumption ==
    /\ Bound \subseteq Int
    /\ None \notin Profile \cup Request \cup Contract \cup Artifact
                   \cup Device \cup Precision

VARIABLES
    profiles,    \* profile name -> profileState
    admissions,  \* request -> admission
    tombstones,  \* contract digests of revoked profiles
    valid,       \* Result.Valid so far
    verdict      \* the invariants the last event was reported for

vars == <<profiles, admissions, tombstones, valid, verdict>>

-----------------------------------------------------------------------------
ValidBound == {v \in Bound : v >= 0}

ProfileState ==
    [contract: Contract, artifact: Artifact, device: Device,
     precision: Precision, numerical: ValidBound, active: BOOLEAN]

Admission ==
    [profile: Profile, contract: Contract, artifact: Artifact,
     device: Device, precision: Precision, numericalBudget: ValidBound]

ASSUME NoneAssumption == None \notin ProfileState /\ None \notin Admission

InvariantName ==
    {"TraceWellFormed", "NoStaleProfileReuse", "NoPerformanceResurrection",
     "NoUncertifiedDispatch", "AllocationNonReinterpretation",
     "NoNumericalDowngrade"}

Known(p) == p \in Profile /\ profiles[p] # None

Active(p) == Known(p) /\ profiles[p].active

Admitted(r) == r \in Request /\ admissions[r] # None

\* violate: called for every invariant the event breaks.
Report(broken) ==
    /\ verdict' = broken
    /\ valid' = (valid /\ broken = {})

\* violate followed by continue: the maps keep their values.
Reject(name) ==
    /\ Report({name})
    /\ UNCHANGED <<profiles, admissions, tombstones>>

-----------------------------------------------------------------------------
Init ==
    /\ profiles = [p \in Profile |-> None]
    /\ admissions = [r \in Request |-> None]
    /\ tombstones = {}
    /\ valid = TRUE
    /\ verdict = {}

\* Faulty variant: the tombstones are not consulted.
PublishOverTombstone(p, c, a, d, x, b) ==
    LET wellFormed == None \notin {p, c, a, d, x} /\ b >= 0 IN
    \/ ~wellFormed /\ Reject("TraceWellFormed")
    \/ wellFormed /\ Active(p) /\ Reject("NoStaleProfileReuse")
    \/ /\ wellFormed
       /\ ~Active(p)
       /\ Report({})
       /\ profiles' = [profiles EXCEPT ![p] =
             [contract |-> c, artifact |-> a, device |-> d, precision |-> x,
              numerical |-> b, active |-> TRUE]]
       /\ UNCHANGED <<admissions, tombstones>>

\* Faulty variant: an active profile is silently replaced.
PublishOverActive(p, c, a, d, x, b) ==
    LET wellFormed == None \notin {p, c, a, d, x} /\ b >= 0 IN
    \/ ~wellFormed /\ Reject("TraceWellFormed")
    \/ /\ wellFormed
       /\ Report({n \in {"NoPerformanceResurrection"} : c \in tombstones})
       /\ profiles' = [profiles EXCEPT ![p] =
             [contract |-> c, artifact |-> a, device |-> d, precision |-> x,
              numerical |-> b, active |-> TRUE]]
       /\ UNCHANGED <<admissions, tombstones>>

\* A revoked contract that is published again is reported and still installed.
Publish(p, c, a, d, x, b) ==
    LET wellFormed == None \notin {p, c, a, d, x} /\ b >= 0 IN
    \/ ~wellFormed /\ Reject("TraceWellFormed")
    \/ wellFormed /\ Active(p) /\ Reject("NoStaleProfileReuse")
    \/ /\ wellFormed
       /\ ~Active(p)
       /\ Report({n \in {"NoPerformanceResurrection"} : c \in tombstones})
       /\ profiles' = [profiles EXCEPT ![p] =
             [contract |-> c, artifact |-> a, device |-> d, precision |-> x,
              numerical |-> b, active |-> TRUE]]
       /\ UNCHANGED <<admissions, tombstones>>

\* Faulty variant: revocation leaves no tombstone.
RevokeSilently(p) ==
    \/ ~Known(p) /\ Reject("TraceWellFormed")
    \/ /\ Known(p)
       /\ profiles' = [profiles EXCEPT ![p].active = FALSE]
       /\ Report({})
       /\ UNCHANGED <<admissions, tombstones>>

Revoke(p) ==
    \/ ~Known(p) /\ Reject("TraceWellFormed")
    \/ /\ Known(p)
       /\ profiles' = [profiles EXCEPT ![p].active = FALSE]
       /\ tombstones' = tombstones \cup {profiles[p].contract}
       /\ Report({})
       /\ UNCHANGED admissions

DeviceUpdate(p, d) ==
    \/ (~Known(p) \/ d = None) /\ Reject("TraceWellFormed")
    \/ /\ Known(p)
       /\ d # None
       /\ profiles' = [profiles EXCEPT ![p].device = d]
       /\ Report({})
       /\ UNCHANGED <<admissions, tombstones>>

\* Faulty variant: the budget of an admission is not validated.
AdmitAnyBudget(r, p, budget) ==
    LET wellFormed == r # None /\ ~Admitted(r) IN
    \/ ~Active(p) /\ Reject("NoUncertifiedDispatch")
    \/ Active(p) /\ ~wellFormed /\ Reject("TraceWellFormed")
    \/ /\ Active(p)
       /\ wellFormed
       /\ admissions' = [admissions EXCEPT ![r] =
             [profile |-> p, contract |-> profiles[p].contract,
              artifact |-> profiles[p].artifact,
              device |-> profiles[p].device,
              precision |-> profiles[p].precision,
              numericalBudget |-> budget]]
       /\ Report({})
       /\ UNCHANGED <<profiles, tombstones>>

Admit(r, p, budget) ==
    LET wellFormed == r # None /\ budget >= 0 /\ ~Admitted(r) IN
    \/ ~Active(p) /\ Reject("NoUncertifiedDispatch")
    \/ Active(p) /\ ~wellFormed /\ Reject("TraceWellFormed")
    \/ /\ Active(p)
       /\ wellFormed
       /\ admissions' = [admissions EXCEPT ![r] =
             [profile |-> p, contract |-> profiles[p].contract,
              artifact |-> profiles[p].artifact,
              device |-> profiles[p].device,
              precision |-> profiles[p].precision,
              numericalBudget |-> budget]]
       /\ Report({})
       /\ UNCHANGED <<profiles, tombstones>>

\* Faulty variant: the event is compared with the admission, the profile, as
\* it is by now, is not.
DispatchBreaksEventOnly(s, a, c, art, d, x, b) ==
    {n \in {"NoStaleProfileReuse"} : c # a.contract \/ art # a.artifact}
    \cup {n \in {"AllocationNonReinterpretation"} : d # a.device}
    \cup {n \in {"NoNumericalDowngrade"} :
        x # a.precision \/ b > a.numericalBudget}

\* What the four independent comparisons of a dispatch report.
DispatchBreaks(s, a, c, art, d, x, b) ==
    {n \in {"NoStaleProfileReuse"} :
        \/ s.contract # a.contract \/ c # a.contract
        \/ s.artifact # a.artifact \/ art # a.artifact}
    \cup {n \in {"AllocationNonReinterpretation"} :
        s.device # a.device \/ d # a.device}
    \cup {n \in {"NoNumericalDowngrade"} :
        \/ s.precision # a.precision \/ x # a.precision
        \/ s.numerical > a.numericalBudget \/ b > a.numericalBudget}

\* Faulty variant: whether the profile is still active is not asked.
DispatchIgnoringRevocation(r, c, art, d, x, b) ==
    \/ ~Admitted(r) /\ Reject("NoUncertifiedDispatch")
    \/ Admitted(r) /\ b < 0 /\ Reject("TraceWellFormed")
    \/ /\ Admitted(r) /\ b >= 0
       /\ Report(DispatchBreaks(profiles[admissions[r].profile],
                                admissions[r], c, art, d, x, b))
       /\ UNCHANGED <<profiles, admissions, tombstones>>

Dispatch(r, c, art, d, x, b) ==
    \/ ~Admitted(r) /\ Reject("NoUncertifiedDispatch")
    \/ Admitted(r) /\ b < 0 /\ Reject("TraceWellFormed")
    \/ /\ Admitted(r) /\ b >= 0
       /\ ~Active(admissions[r].profile)
       /\ Reject("NoStaleProfileReuse")
    \/ /\ Admitted(r) /\ b >= 0
       /\ Active(admissions[r].profile)
       /\ Report(DispatchBreaks(profiles[admissions[r].profile],
                                admissions[r], c, art, d, x, b))
       /\ UNCHANGED <<profiles, admissions, tombstones>>

\* Faulty variant: the completed admission stays open.
CompleteWithoutDelete(r) ==
    \/ ~Admitted(r) /\ Reject("TraceWellFormed")
    \/ /\ Admitted(r)
       /\ Report({})
       /\ UNCHANGED <<profiles, admissions, tombstones>>

Complete(r) ==
    \/ ~Admitted(r) /\ Reject("TraceWellFormed")
    \/ /\ Admitted(r)
       /\ admissions' = [admissions EXCEPT ![r] = None]
       /\ Report({})
       /\ UNCHANGED <<profiles, tombstones>>

UnknownEvent == Reject("TraceWellFormed")

-----------------------------------------------------------------------------
OrNone(S) == S \cup {None}

Next ==
    \/ \E p \in OrNone(Profile), c \in OrNone(Contract),
          a \in OrNone(Artifact), d \in OrNone(Device),
          x \in OrNone(Precision), b \in Bound : Publish(p, c, a, d, x, b)
    \/ \E p \in OrNone(Profile) : Revoke(p)
    \/ \E p \in OrNone(Profile), d \in OrNone(Device) : DeviceUpdate(p, d)
    \/ \E r \in OrNone(Request), p \in OrNone(Profile), b \in Bound :
          Admit(r, p, b)
    \/ \E r \in OrNone(Request), c \in OrNone(Contract),
          a \in OrNone(Artifact), d \in OrNone(Device),
          x \in OrNone(Precision), b \in Bound : Dispatch(r, c, a, d, x, b)
    \/ \E r \in OrNone(Request) : Complete(r)
    \/ UnknownEvent

Spec == Init /\ [][Next]_vars
=============================================================================
