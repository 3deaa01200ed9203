-------------------------- MODULE StateCheckHistory --------------------------
(***************************************************************************)
(* The checker with the history the lifecycle invariants speak of: which   *)
(* publication a profile and an admission belong to, and what the last     *)
(* event dispatched.  The history only observes: it restricts the checker  *)
(* in nothing but the number of publications it installs (MaxIssue).       *)
(***************************************************************************)
EXTENDS StateCheck

CONSTANT MaxIssue   \* bound of the number of publications in a trace

ASSUME MaxIssueAssumption == MaxIssue \in Nat \ {0}

VARIABLES
    lastIssue,   \* publications so far
    issueOf,     \* profile -> number of its last publication, 0 for none
    grantedBy,   \* request -> publication it was admitted under, 0 for none
    use          \* what the last event dispatched, None if it was no dispatch

history == <<lastIssue, issueOf, grantedBy, use>>
allVars == <<vars, history>>

HInit ==
    /\ Init
    /\ lastIssue = 0
    /\ issueOf = [p \in Profile |-> 0]
    /\ grantedBy = [r \in Request |-> 0]
    /\ use = None

HPublish(p, c, a, d, x, b) ==
    /\ lastIssue < MaxIssue
    /\ Publish(p, c, a, d, x, b)
    /\ IF profiles' # profiles
       THEN /\ lastIssue' = lastIssue + 1
            /\ issueOf' = [issueOf EXCEPT ![p] = lastIssue + 1]
       ELSE UNCHANGED <<lastIssue, issueOf>>
    /\ use' = None
    /\ UNCHANGED grantedBy

HRevoke(p) ==
    Revoke(p) /\ use' = None /\ UNCHANGED <<lastIssue, issueOf, grantedBy>>

HDeviceUpdate(p, d) ==
    DeviceUpdate(p, d) /\ use' = None
    /\ UNCHANGED <<lastIssue, issueOf, grantedBy>>

HAdmit(r, p, budget) ==
    /\ Admit(r, p, budget)
    /\ grantedBy' = IF admissions' # admissions
                    THEN [grantedBy EXCEPT ![r] = issueOf[p]]
                    ELSE grantedBy
    /\ use' = None
    /\ UNCHANGED <<lastIssue, issueOf>>

HDispatch(r, c, art, d, x, b) ==
    /\ Dispatch(r, c, art, d, x, b)
    /\ use' = [request |-> r, contract |-> c, artifact |-> art, device |-> d,
               precision |-> x, numerical |-> b]
    /\ UNCHANGED <<lastIssue, issueOf, grantedBy>>

HComplete(r) ==
    /\ Complete(r)
    /\ grantedBy' = IF admissions' # admissions
                    THEN [grantedBy EXCEPT ![r] = 0]
                    ELSE grantedBy
    /\ use' = None
    /\ UNCHANGED <<lastIssue, issueOf>>

HUnknownEvent ==
    UnknownEvent /\ use' = None /\ UNCHANGED <<lastIssue, issueOf, grantedBy>>

HNext ==
    \/ \E p \in OrNone(Profile), c \in OrNone(Contract),
          a \in OrNone(Artifact), d \in OrNone(Device),
          x \in OrNone(Precision), b \in Bound : HPublish(p, c, a, d, x, b)
    \/ \E p \in OrNone(Profile) : HRevoke(p)
    \/ \E p \in OrNone(Profile), d \in OrNone(Device) : HDeviceUpdate(p, d)
    \/ \E r \in OrNone(Request), p \in OrNone(Profile), b \in Bound :
          HAdmit(r, p, b)
    \/ \E r \in OrNone(Request), c \in OrNone(Contract),
          a \in OrNone(Artifact), d \in OrNone(Device),
          x \in OrNone(Precision), b \in Bound : HDispatch(r, c, a, d, x, b)
    \/ \E r \in OrNone(Request) : HComplete(r)
    \/ HUnknownEvent

\* Any trace, reported or not.
HSpec == HInit /\ [][HNext]_allVars

\* The traces Check returns Valid for, and all their prefixes.
AcceptedSpec == HInit /\ [][HNext /\ valid']_allVars

-----------------------------------------------------------------------------
Use == [request: OrNone(Request), contract: OrNone(Contract),
        artifact: OrNone(Artifact), device: OrNone(Device),
        precision: OrNone(Precision), numerical: Bound]

\* Type correctness of the checker's maps and of the history.
TypeOK ==
    /\ profiles \in [Profile -> OrNone(ProfileState)]
    /\ admissions \in [Request -> OrNone(Admission)]
    /\ tombstones \subseteq Contract
    /\ valid \in BOOLEAN
    /\ verdict \subseteq InvariantName
    /\ lastIssue \in 0..MaxIssue
    /\ issueOf \in [Profile -> 0..lastIssue]
    /\ grantedBy \in [Request -> 0..lastIssue]
    /\ use \in OrNone(Use)

\* In every trace, a profile that is not active has left a tombstone for the
\* contract it carried (statecheck.go:93-101 against :76-92).
TombstoneInv ==
    \A p \in Profile :
        Known(p) /\ ~profiles[p].active => profiles[p].contract \in tombstones

\* In every trace, an open admission belongs to a publication of its profile.
\* While that publication is the last one the two agree on what a device
\* update cannot change; once it is not, and the trace is still valid, the
\* contract is tombstoned and the profile carries another one.
GrantOK(r) ==
    Admitted(r) =>
        LET a == admissions[r]
            s == profiles[a.profile]
        IN  /\ Known(a.profile)
            /\ grantedBy[r] \in 1..issueOf[a.profile]
            /\ grantedBy[r] = issueOf[a.profile] =>
                 /\ s.contract = a.contract
                 /\ s.artifact = a.artifact
                 /\ s.precision = a.precision
            /\ valid /\ grantedBy[r] < issueOf[a.profile] =>
                 a.contract \in tombstones /\ s.contract # a.contract

GrantInv == \A r \in Request : GrantOK(r)

\* The history itself: a published profile has a publication number, and no
\* two profiles share one.
IssueInv ==
    \A p \in Profile : Known(p) =>
        /\ issueOf[p] >= 1
        /\ \A q \in Profile : issueOf[q] = issueOf[p] => q = p

\* A dispatch in a trace that is still valid ran under an open admission,
\* under the very publication it was admitted by, which nobody has revoked
\* since, on the device and precision it was admitted for and within its
\* budget (statecheck.go:133-159; the code compares digests only, it keeps no
\* publication numbers).
DispatchCertified ==
    valid /\ use # None =>
        /\ Admitted(use.request)
        /\ LET a == admissions[use.request]
               s == profiles[a.profile]
           IN  /\ Active(a.profile)
               /\ grantedBy[use.request] = issueOf[a.profile]
               /\ use.contract = s.contract /\ use.artifact = s.artifact
               /\ use.device = a.device /\ s.device = a.device
               /\ use.precision = s.precision
               /\ s.numerical <= a.numericalBudget
               /\ use.numerical \in 0..a.numericalBudget

\* The first dispatch that goes wrong because its publication was revoked, or
\* revoked and replaced, is reported as NoStaleProfileReuse and not under
\* another name (a malformed bound is reported first).
StaleDispatchNamed ==
    [][ \A r \in Request :
          ( /\ valid /\ Admitted(r) /\ use' # None /\ use'.request = r
            /\ use'.numerical >= 0
            /\ \/ ~Active(admissions[r].profile)
               \/ grantedBy[r] # issueOf[admissions[r].profile] )
          => "NoStaleProfileReuse" \in verdict' ]_allVars

\* Documented: "A stale or expired certificate cannot be reused", with
\* "tombstones for revoked contract digests" (docs/THREAT_MODEL.md:7, :40):
\* no valid trace dispatches a contract digest that was revoked.
NoRevokedContractDispatched ==
    valid /\ use # None => use.contract \notin tombstones

-----------------------------------------------------------------------------
\* Refinement: what the checker's maps say in the terms of Lifecycle.
Certificate(p) ==
    [issue |-> issueOf[p], profile |-> p, contract |-> profiles[p].contract,
     artifact |-> profiles[p].artifact, device |-> profiles[p].device,
     precision |-> profiles[p].precision, numerical |-> profiles[p].numerical]

InForce == {Certificate(p) : p \in {q \in Profile : Active(q)}}

Grants ==
    {[request |-> r, issue |-> grantedBy[r], device |-> admissions[r].device,
      budget |-> admissions[r].numericalBudget]
        : r \in {q \in Request : Admitted(q)}}

LC == INSTANCE Lifecycle
        WITH inForce <- InForce, retired <- tombstones, grants <- Grants

\* Every trace that Check accepts is a behaviour of Lifecycle.
ImplementsLifecycle == LC!Spec
=============================================================================
