--------------------------- MODULE StateCheckProofs ---------------------------
(***************************************************************************)
(* Proofs about the lifecycle checker, for any names, digests, devices,    *)
(* precisions, bounds and any number of publications.                      *)
(***************************************************************************)
EXTENDS StateCheckHistory, TLAPS

\* The inductive invariant: DispatchCertified alone is not inductive, it needs
\* to know that an inactive profile has left a tombstone and that an admission
\* whose publication was replaced can no longer match its profile.
IInv == TypeOK /\ TombstoneInv /\ IssueInv /\ GrantInv /\ DispatchCertified

USE StateCheckAssumption, NoneAssumption, MaxIssueAssumption

-----------------------------------------------------------------------------
\* An event the checker rejects, or a dispatch, leaves the maps and the
\* publication history as they are and can only turn valid off.
Quiet ==
    /\ UNCHANGED <<profiles, admissions, tombstones, lastIssue, issueOf, grantedBy>>
    /\ valid' \in BOOLEAN
    /\ valid' => valid
    /\ verdict' \subseteq InvariantName
    /\ use' \in OrNone(Use)

LEMMA QuietPreserves ==
    ASSUME IInv, Quiet
    PROVE  TypeOK' /\ TombstoneInv' /\ IssueInv' /\ GrantInv'
<1>1. TypeOK'
  BY DEF IInv, TypeOK, Quiet
<1>2. TombstoneInv'
  BY DEF IInv, TombstoneInv, Quiet, Known
<1>3. GrantInv'
  BY DEF IInv, GrantInv, GrantOK, Quiet, Known, Admitted
<1>4. IssueInv'
  BY DEF IInv, IssueInv, Quiet, Known
<1>. QED BY <1>1, <1>2, <1>3, <1>4

\* With no dispatch there is nothing to certify.
LEMMA NoUse == ASSUME use' = None PROVE DispatchCertified'
BY DEF DispatchCertified

LEMMA RejectQuiet ==
    ASSUME IInv, NEW n \in InvariantName, Reject(n), use' = None,
           UNCHANGED <<lastIssue, issueOf, grantedBy>>
    PROVE  IInv'
<1>1. Quiet
  BY DEF IInv, TypeOK, Quiet, Reject, Report, OrNone
<1>. QED BY <1>1, QuietPreserves, NoUse DEF IInv

-----------------------------------------------------------------------------
LEMMA InitInv == HInit => IInv
BY DEF HInit, Init, IInv, TypeOK, TombstoneInv, IssueInv, GrantInv, GrantOK, DispatchCertified,
       Known, Admitted, OrNone, InvariantName

LEMMA PublishInv ==
    ASSUME IInv, NEW p \in OrNone(Profile), NEW c \in OrNone(Contract),
           NEW a \in OrNone(Artifact), NEW d \in OrNone(Device),
           NEW x \in OrNone(Precision), NEW b \in Bound,
           HPublish(p, c, a, d, x, b)
    PROVE  IInv'
<1>1. use' = None
  BY DEF HPublish
<1>2. CASE Reject("TraceWellFormed") \/ Reject("NoStaleProfileReuse")
  BY <1>1, <1>2, RejectQuiet DEF HPublish, Reject, InvariantName
<1>3. CASE ~(Reject("TraceWellFormed") \/ Reject("NoStaleProfileReuse"))
  <2> DEFINE s == [contract |-> c, artifact |-> a, device |-> d, precision |-> x,
                   numerical |-> b, active |-> TRUE]
  <2>1. /\ p \in Profile /\ c \in Contract /\ a \in Artifact /\ d \in Device
        /\ x \in Precision /\ b \in ValidBound
        /\ ~Active(p)
        /\ Report({n \in {"NoPerformanceResurrection"} : c \in tombstones})
        /\ profiles' = [profiles EXCEPT ![p] = s]
        /\ UNCHANGED <<admissions, tombstones, grantedBy>>
    BY <1>3 DEF HPublish, Publish, OrNone, ValidBound
  <2>2. s \in ProfileState
    BY <2>1 DEF ProfileState
  <2>3. /\ valid' => valid /\ c \notin tombstones
        /\ valid' \in BOOLEAN
        /\ verdict' \subseteq InvariantName
    BY <2>1 DEF Report, InvariantName, IInv, TypeOK
  <2>4. profiles' # profiles
    <3>1. profiles[p] # s
      BY <2>1, <2>2 DEF Active, Known, IInv, TypeOK, ProfileState
    <3>. QED BY <2>1, <3>1 DEF IInv, TypeOK
  <2>5. lastIssue' = lastIssue + 1 /\ issueOf' = [issueOf EXCEPT ![p] = lastIssue + 1]
        /\ lastIssue' \in 0..MaxIssue
    BY <2>4 DEF HPublish, IInv, TypeOK
  <2>6. TypeOK'
    BY <1>1, <2>1, <2>2, <2>3, <2>5 DEF IInv, TypeOK, OrNone
  <2>7. TombstoneInv'
    BY <2>1 DEF IInv, TypeOK, TombstoneInv, Known, OrNone
  <2>8. GrantInv'
    <3> SUFFICES ASSUME NEW r \in Request, Admitted(r) PROVE GrantOK(r)'
      BY <2>1 DEF GrantInv, GrantOK, Admitted
    <3>1. admissions[r] \in Admission
      BY DEF Admitted, IInv, TypeOK, OrNone
    <3>2. admissions[r].profile \in Profile
      BY <3>1 DEF Admission
    <3>3. CASE admissions[r].profile # p
      BY <2>1, <2>3, <2>5, <3>2, <3>3 DEF IInv, TypeOK, GrantInv, GrantOK, Known, Admitted
    <3>4. CASE admissions[r].profile = p
      <4>1. /\ Known(p)' /\ profiles'[p] = s /\ issueOf'[p] = lastIssue + 1
        BY <2>1, <2>2, <2>5, <3>2, <3>4 DEF IInv, TypeOK, Known, ProfileState
      <4>2. grantedBy[r] \in 1..issueOf[p] /\ issueOf[p] \in 0..lastIssue
            /\ lastIssue \in Nat /\ Known(p)
        BY <3>2, <3>4 DEF IInv, TypeOK, GrantInv, GrantOK
      <4>3. valid => admissions[r].contract \in tombstones
        <5>1. profiles[p].active = FALSE
          BY <2>1, <4>2 DEF Active, Known, IInv, TypeOK, OrNone, ProfileState
        <5>2. profiles[p].contract \in tombstones
          BY <4>2, <5>1, <2>1 DEF TombstoneInv, IInv
        <5>. QED BY <3>4, <4>2, <5>2 DEF IInv, GrantInv, GrantOK
      <4>. QED BY <2>1, <2>3, <3>4, <4>1, <4>2, <4>3 DEF GrantOK
    <3>. QED BY <3>3, <3>4
  <2>9. IssueInv'
    BY <2>1, <2>5 DEF IInv, TypeOK, IssueInv, Known, OrNone
  <2>. QED BY <1>1, <2>6, <2>7, <2>8, <2>9, NoUse DEF IInv
<1>. QED BY <1>2, <1>3

LEMMA RevokeInv ==
    ASSUME IInv, NEW p \in OrNone(Profile), HRevoke(p)
    PROVE  IInv'
<1>1. use' = None /\ UNCHANGED <<lastIssue, issueOf, grantedBy>>
  BY DEF HRevoke
<1>2. CASE Reject("TraceWellFormed")
  BY <1>1, <1>2, RejectQuiet DEF InvariantName
<1>3. CASE ~Reject("TraceWellFormed")
  <2>1. /\ p \in Profile /\ Known(p)
        /\ profiles' = [profiles EXCEPT ![p].active = FALSE]
        /\ tombstones' = tombstones \cup {profiles[p].contract}
        /\ Report({})
        /\ UNCHANGED admissions
    BY <1>3 DEF HRevoke, Revoke, Known
  <2>2. valid' = valid /\ verdict' = {}
    BY <2>1 DEF Report, IInv, TypeOK
  <2>3. profiles[p] \in ProfileState
    BY <2>1 DEF IInv, TypeOK, Known, OrNone
  <2>4. TypeOK'
    BY <1>1, <2>1, <2>2, <2>3 DEF IInv, TypeOK, OrNone, ProfileState
  <2>5. TombstoneInv'
    BY <2>1, <2>3 DEF IInv, TypeOK, TombstoneInv, Known, ProfileState
  <2>6. GrantInv'
    <3>1. ASSUME NEW q \in Profile, Known(q)
          PROVE  /\ Known(q)'
                 /\ profiles'[q].contract = profiles[q].contract
                 /\ profiles'[q].artifact = profiles[q].artifact
                 /\ profiles'[q].precision = profiles[q].precision
      BY <2>1, <2>3, <3>1 DEF IInv, TypeOK, Known, OrNone, ProfileState
    <3>2. \A r \in Request : Admitted(r) => admissions[r].profile \in Profile
      BY DEF Admitted, IInv, TypeOK, OrNone, Admission
    <3>. QED BY <1>1, <2>1, <2>2, <3>1, <3>2 DEF IInv, GrantInv, GrantOK, Admitted
  <2>7. IssueInv'
    BY <1>1, <2>1 DEF IInv, TypeOK, IssueInv, Known
  <2>. QED BY <1>1, <2>4, <2>5, <2>6, <2>7, NoUse DEF IInv
<1>. QED BY <1>2, <1>3

LEMMA DeviceUpdateInv ==
    ASSUME IInv, NEW p \in OrNone(Profile), NEW d \in OrNone(Device),
           HDeviceUpdate(p, d)
    PROVE  IInv'
<1>1. use' = None /\ UNCHANGED <<lastIssue, issueOf, grantedBy>>
  BY DEF HDeviceUpdate
<1>2. CASE Reject("TraceWellFormed")
  BY <1>1, <1>2, RejectQuiet DEF InvariantName
<1>3. CASE ~Reject("TraceWellFormed")
  <2>1. /\ p \in Profile /\ Known(p) /\ d \in Device
        /\ profiles' = [profiles EXCEPT ![p].device = d]
        /\ Report({})
        /\ UNCHANGED <<admissions, tombstones>>
    BY <1>3 DEF HDeviceUpdate, DeviceUpdate, Known, OrNone
  <2>2. valid' = valid /\ verdict' = {}
    BY <2>1 DEF Report, IInv, TypeOK
  <2>3. profiles[p] \in ProfileState
    BY <2>1 DEF IInv, TypeOK, Known, OrNone
  <2>4. TypeOK'
    BY <1>1, <2>1, <2>2, <2>3 DEF IInv, TypeOK, OrNone, ProfileState
  <2>5. ASSUME NEW q \in Profile, Known(q) \/ Known(q)'
        PROVE  /\ Known(q) /\ Known(q)'
               /\ profiles'[q].contract = profiles[q].contract
               /\ profiles'[q].artifact = profiles[q].artifact
               /\ profiles'[q].precision = profiles[q].precision
               /\ profiles'[q].active = profiles[q].active
    BY <2>1, <2>3, <2>5 DEF IInv, TypeOK, Known, OrNone, ProfileState
  <2>6. TombstoneInv'
    BY <2>1, <2>5 DEF IInv, TombstoneInv
  <2>7. GrantInv'
    <3>1. \A r \in Request : Admitted(r) => admissions[r].profile \in Profile
      BY DEF Admitted, IInv, TypeOK, OrNone, Admission
    <3>. QED BY <1>1, <2>1, <2>2, <2>5, <3>1 DEF IInv, GrantInv, GrantOK, Admitted
  <2>8. IssueInv'
    BY <1>1, <2>5 DEF IInv, IssueInv
  <2>. QED BY <1>1, <2>4, <2>6, <2>7, <2>8, NoUse DEF IInv
<1>. QED BY <1>2, <1>3

LEMMA AdmitInv ==
    ASSUME IInv, NEW r \in OrNone(Request), NEW p \in OrNone(Profile),
           NEW b \in Bound, HAdmit(r, p, b)
    PROVE  IInv'
<1>1. use' = None /\ UNCHANGED <<lastIssue, issueOf>>
  BY DEF HAdmit
<1>2. CASE Reject("TraceWellFormed") \/ Reject("NoUncertifiedDispatch")
  <2>1. UNCHANGED grantedBy
    BY <1>2 DEF HAdmit, Reject
  <2>. QED BY <1>1, <1>2, <2>1, RejectQuiet DEF InvariantName
<1>3. CASE ~(Reject("TraceWellFormed") \/ Reject("NoUncertifiedDispatch"))
  <2> DEFINE a == [profile |-> p, contract |-> profiles[p].contract,
                   artifact |-> profiles[p].artifact,
                   device |-> profiles[p].device,
                   precision |-> profiles[p].precision, numericalBudget |-> b]
  <2>1. /\ r \in Request /\ p \in Profile /\ Active(p) /\ ~Admitted(r)
        /\ b \in ValidBound
        /\ admissions' = [admissions EXCEPT ![r] = a]
        /\ Report({})
        /\ UNCHANGED <<profiles, tombstones>>
    BY <1>3 DEF HAdmit, Admit, Active, Known, OrNone, ValidBound
  <2>2. profiles[p] \in ProfileState
    BY <2>1 DEF IInv, TypeOK, Active, Known, OrNone
  <2>3. a \in Admission
    BY <2>1, <2>2 DEF Admission, ProfileState
  <2>4. valid' = valid /\ verdict' = {}
    BY <2>1 DEF Report, IInv, TypeOK
  <2>5. grantedBy' = [grantedBy EXCEPT ![r] = issueOf[p]]
    <3>1. admissions' # admissions
      BY <2>1, <2>3 DEF Admitted, IInv, TypeOK
    <3>. QED BY <3>1 DEF HAdmit
  <2>6. TypeOK'
    BY <1>1, <2>1, <2>3, <2>4, <2>5 DEF IInv, TypeOK, OrNone
  <2>7. TombstoneInv'
    BY <2>1 DEF IInv, TombstoneInv, Known
  <2>8. issueOf[p] \in 1..issueOf[p]
    BY <2>1 DEF IInv, IssueInv, TypeOK, Active
  <2>9. GrantInv'
    <3>1. ASSUME NEW q \in Request
          PROVE  /\ q # r => admissions'[q] = admissions[q] /\ grantedBy'[q] = grantedBy[q]
                 /\ admissions'[r] = a /\ grantedBy'[r] = issueOf[p]
      BY <2>1, <2>5 DEF IInv, TypeOK
    <3>2. GrantOK(r)'
      BY <1>1, <2>1, <2>4, <2>8, <3>1 DEF GrantOK, Active, Known, IInv, TypeOK
    <3>3. ASSUME NEW q \in Request, q # r PROVE GrantOK(q)'
      BY <1>1, <2>1, <2>4, <3>1, <3>3 DEF GrantInv, GrantOK, IInv, Known, Admitted
    <3>. QED BY <3>2, <3>3 DEF GrantInv
  <2>10. IssueInv'
    BY <1>1, <2>1 DEF IInv, IssueInv, Known
  <2>. QED BY <1>1, <2>6, <2>7, <2>9, <2>10, NoUse DEF IInv
<1>. QED BY <1>2, <1>3

LEMMA DispatchStepInv ==
    ASSUME IInv, NEW r \in OrNone(Request), NEW c \in OrNone(Contract),
           NEW art \in OrNone(Artifact), NEW d \in OrNone(Device),
           NEW x \in OrNone(Precision), NEW b \in Bound,
           HDispatch(r, c, art, d, x, b)
    PROVE  IInv'
<1>1. /\ use' = [request |-> r, contract |-> c, artifact |-> art, device |-> d,
                precision |-> x, numerical |-> b]
      /\ UNCHANGED <<profiles, admissions, tombstones, lastIssue, issueOf, grantedBy>>
  BY DEF HDispatch, Dispatch, Reject
<1>2. Quiet
  <2>1. use' \in OrNone(Use)
    BY <1>1 DEF Use, OrNone
  <2>2. \E n \in SUBSET InvariantName : Report(n)
    BY DEF HDispatch, Dispatch, Reject, DispatchBreaks, InvariantName
  <2>. QED BY <1>1, <2>1, <2>2 DEF Quiet, Report, IInv, TypeOK
<1>3. TypeOK' /\ TombstoneInv' /\ IssueInv' /\ GrantInv'
  BY <1>2, QuietPreserves
<1>4. DispatchCertified'
  <2> SUFFICES ASSUME valid' PROVE DispatchCertified'
    BY DEF DispatchCertified
  <2> DEFINE a == admissions[r]
             s == profiles[a.profile]
  <2>1. /\ valid /\ Admitted(r) /\ b >= 0 /\ Active(a.profile)
        /\ DispatchBreaks(s, a, c, art, d, x, b) = {}
    BY DEF HDispatch, Dispatch, Reject, Report
  <2>2. /\ s.contract = a.contract /\ c = a.contract
        /\ s.artifact = a.artifact /\ art = a.artifact
        /\ s.device = a.device /\ d = a.device
        /\ s.precision = a.precision /\ x = a.precision
        /\ ~(s.numerical > a.numericalBudget) /\ ~(b > a.numericalBudget)
    BY <2>1 DEF DispatchBreaks
  <2>3. a \in Admission /\ s \in ProfileState /\ a.profile \in Profile /\ r \in Request
    BY <2>1 DEF IInv, TypeOK, Admitted, Active, Known, OrNone, Admission
  <2>4. s.numerical <= a.numericalBudget /\ b \in 0..a.numericalBudget
    <3>1. s.numerical \in Int /\ a.numericalBudget \in Int /\ b \in Int
      BY <2>3 DEF Admission, ProfileState, ValidBound
    <3>. QED BY <2>1, <2>2, <3>1
  <2>5. grantedBy[r] = issueOf[a.profile]
    BY <2>1, <2>2, <2>3 DEF IInv, GrantInv, GrantOK, TypeOK
  <2>. QED BY <1>1, <2>1, <2>2, <2>4, <2>5 DEF DispatchCertified, Admitted, Active, Known
<1>. QED BY <1>3, <1>4 DEF IInv

LEMMA CompleteInv ==
    ASSUME IInv, NEW r \in OrNone(Request), HComplete(r)
    PROVE  IInv'
<1>1. use' = None /\ UNCHANGED <<lastIssue, issueOf>>
  BY DEF HComplete
<1>2. CASE Reject("TraceWellFormed")
  <2>1. UNCHANGED grantedBy
    BY <1>2 DEF HComplete, Reject
  <2>. QED BY <1>1, <1>2, <2>1, RejectQuiet DEF InvariantName
<1>3. CASE ~Reject("TraceWellFormed")
  <2>1. /\ r \in Request /\ Admitted(r)
        /\ admissions' = [admissions EXCEPT ![r] = None]
        /\ Report({})
        /\ UNCHANGED <<profiles, tombstones>>
    BY <1>3 DEF HComplete, Complete, Admitted
  <2>2. valid' = valid /\ verdict' = {}
    BY <2>1 DEF Report, IInv, TypeOK
  <2>3. grantedBy' \in [Request -> 0..lastIssue]
        /\ \A q \in Request : q # r => grantedBy'[q] = grantedBy[q]
    BY <2>1 DEF HComplete, IInv, TypeOK
  <2>4. TypeOK'
    BY <1>1, <2>1, <2>2, <2>3 DEF IInv, TypeOK, OrNone
  <2>5. TombstoneInv' /\ IssueInv'
    BY <1>1, <2>1 DEF IInv, TombstoneInv, IssueInv, Known
  <2>6. GrantInv'
    BY <1>1, <2>1, <2>2, <2>3 DEF IInv, TypeOK, GrantInv, GrantOK, Known, Admitted
  <2>. QED BY <1>1, <2>4, <2>5, <2>6, NoUse DEF IInv
<1>. QED BY <1>2, <1>3

-----------------------------------------------------------------------------
LEMMA NextInv == IInv /\ [HNext]_allVars => IInv'
<1> SUFFICES ASSUME IInv, [HNext]_allVars PROVE IInv'
  OBVIOUS
<1>1. CASE HUnknownEvent
  BY <1>1, RejectQuiet DEF HUnknownEvent, UnknownEvent, InvariantName
<1>2. CASE UNCHANGED allVars
  BY <1>2 DEF IInv, TypeOK, TombstoneInv, IssueInv, GrantInv, GrantOK,
              DispatchCertified, Known, Active, Admitted, allVars, vars, history
<1>. QED
  BY <1>1, <1>2, PublishInv, RevokeInv, DeviceUpdateInv, AdmitInv,
     DispatchStepInv, CompleteInv DEF HNext

\* The inductive invariant holds in every trace, reported or not.
THEOREM Invariance == HSpec => []IInv
BY InitInv, NextInv, PTL DEF HSpec

\* Type correctness of the checker's maps (statecheck.go:63-65).
THEOREM TypeCorrect == HSpec => []TypeOK
<1>1. IInv => TypeOK
  BY DEF IInv
<1>. QED BY <1>1, Invariance, PTL

\* Revocation leaves a tombstone in every trace (statecheck.go:93-101).
THEOREM Tombstones == HSpec => []TombstoneInv
<1>1. IInv => TombstoneInv
  BY DEF IInv
<1>. QED BY <1>1, Invariance, PTL

\* An admission outlives its publication only as a tombstone, in every trace.
THEOREM GrantsTracked == HSpec => []GrantInv
<1>1. IInv => GrantInv
  BY DEF IInv
<1>. QED BY <1>1, Invariance, PTL

\* Soundness of the checker: a dispatch in a trace it still calls valid ran
\* under the publication that admitted it, not revoked since, on the admitted
\* device and precision and within the admitted budget (statecheck.go:133-159).
THEOREM Soundness == HSpec => []DispatchCertified
<1>1. IInv => DispatchCertified
  BY DEF IInv
<1>. QED BY <1>1, Invariance, PTL

-----------------------------------------------------------------------------
(* The refinement: an accepted trace is a behaviour of Lifecycle.           *)

\* A certificate is in force for a profile just if the profile is active.
LEMMA InForceOf ==
    ASSUME NEW p \in Profile
    PROVE  LC!Of(p) = {k \in {Certificate(p)} : Active(p)}
BY DEF LC!Of, InForce, Certificate

\* What an event does to one profile only, it does to one certificate only.
LEMMA InForceOthers ==
    ASSUME NEW p \in Profile,
           \A q \in Profile \ {p} :
              (Active(q)' <=> Active(q)) /\ Certificate(q)' = Certificate(q)
    PROVE  InForce' = (InForce \ LC!Of(p)) \cup {k \in {Certificate(p)'} : Active(p)'}
<1>1. \A q \in Profile : Certificate(q).profile = q
  BY DEF Certificate
<1>2. InForce' = {Certificate(q)' : q \in {o \in Profile : Active(o)'}}
  BY DEF InForce
<1>3. InForce \ LC!Of(p) = {Certificate(q) : q \in {o \in Profile \ {p} : Active(o)}}
  BY <1>1 DEF InForce, LC!Of
<1>. HIDE DEF LC!Of
<1>. QED
  BY <1>2, <1>3

\* An event that leaves the profiles alone leaves the certificates alone.
LEMMA InForceSame == UNCHANGED <<profiles, issueOf>> => InForce' = InForce
BY DEF InForce, Certificate, Active, Known

LEMMA GrantsSame == UNCHANGED <<admissions, grantedBy>> => Grants' = Grants
BY DEF Grants, Admitted

\* Nothing an accepted trace contains is reported.
LEMMA AcceptedReport ==
    ASSUME NEW broken, Report(broken), valid' PROVE broken = {} /\ valid
BY DEF Report

LEMMA NoReject == ASSUME NEW n, valid' PROVE ~Reject(n)
BY DEF Reject, Report

-----------------------------------------------------------------------------
LEMMA PublishRefines ==
    ASSUME IInv, valid', NEW p \in OrNone(Profile), NEW c \in OrNone(Contract),
           NEW a \in OrNone(Artifact), NEW d \in OrNone(Device),
           NEW x \in OrNone(Precision), NEW b \in Bound,
           HPublish(p, c, a, d, x, b)
    PROVE  LC!Next
<1> DEFINE s == [contract |-> c, artifact |-> a, device |-> d, precision |-> x,
                 numerical |-> b, active |-> TRUE]
<1>1. /\ p \in Profile /\ c \in Contract /\ a \in Artifact /\ d \in Device
      /\ x \in Precision /\ b >= 0
      /\ ~Active(p)
      /\ Report({n \in {"NoPerformanceResurrection"} : c \in tombstones})
      /\ profiles' = [profiles EXCEPT ![p] = s]
      /\ UNCHANGED <<admissions, tombstones, grantedBy>>
      /\ use' = None
  BY NoReject DEF HPublish, Publish, OrNone
<1>2. c \notin tombstones
  BY <1>1, AcceptedReport
<1>3. s \in ProfileState
  BY <1>1 DEF ProfileState, ValidBound
<1>4. profiles' # profiles
  <2>1. profiles[p] # s
    BY <1>1, <1>3 DEF Active, Known, IInv, TypeOK, ProfileState
  <2>. QED BY <1>1, <2>1 DEF IInv, TypeOK
<1>5. lastIssue' = lastIssue + 1 /\ issueOf' = [issueOf EXCEPT ![p] = lastIssue + 1]
  BY <1>4 DEF HPublish
<1>6. \A q \in Profile \ {p} :
         (Active(q)' <=> Active(q)) /\ Certificate(q)' = Certificate(q)
  BY <1>1, <1>5 DEF Active, Known, Certificate, IInv, TypeOK
<1>7. Active(p)'
  BY <1>1, <1>3 DEF Active, Known, IInv, TypeOK
<1>8. Certificate(p)' = [issue |-> lastIssue + 1, profile |-> p, contract |-> c,
                         artifact |-> a, device |-> d, precision |-> x, numerical |-> b]
  BY <1>1, <1>5 DEF Certificate, IInv, TypeOK
<1>9. LC!Of(p) = {}
  BY <1>1, InForceOf
<1>10. InForce' = InForce \cup {Certificate(p)'}
  BY <1>1, <1>6, <1>7, <1>9, InForceOthers
<1>11. LC!Issue(p, c, a, d, x, b)
  BY <1>1, <1>2, <1>5, <1>8, <1>9, <1>10, GrantsSame DEF LC!Issue
<1>. QED BY <1>1, <1>11 DEF LC!Next

LEMMA RevokeRefines ==
    ASSUME IInv, valid', NEW p \in OrNone(Profile), HRevoke(p)
    PROVE  LC!Next
<1>1. /\ p \in Profile /\ Known(p)
      /\ profiles' = [profiles EXCEPT ![p].active = FALSE]
      /\ tombstones' = tombstones \cup {profiles[p].contract}
      /\ UNCHANGED <<admissions, lastIssue, issueOf, grantedBy>>
      /\ use' = None
  BY NoReject DEF HRevoke, Revoke, Known
<1>2. \A q \in Profile \ {p} :
         (Active(q)' <=> Active(q)) /\ Certificate(q)' = Certificate(q)
  BY <1>1 DEF Active, Known, Certificate, IInv, TypeOK
<1>3. profiles[p] \in ProfileState
  BY <1>1 DEF IInv, TypeOK, Known, OrNone
<1>4. ~Active(p)'
  BY <1>1, <1>3 DEF Active, Known, IInv, TypeOK, ProfileState
<1>5. InForce' = InForce \ LC!Of(p)
  BY <1>1, <1>2, <1>4, InForceOthers
<1>6. tombstones' = tombstones \cup {k.contract : k \in LC!Of(p)}
  <2>1. CASE Active(p)
    <3>1. LC!Of(p) = {Certificate(p)} /\ Certificate(p).contract = profiles[p].contract
      BY <1>1, <2>1, InForceOf DEF Certificate
    <3>. QED BY <1>1, <3>1
  <2>2. CASE ~Active(p)
    <3>1. LC!Of(p) = {}
      BY <1>1, <2>2, InForceOf
    <3>2. profiles[p].contract \in tombstones
      BY <1>1, <2>2 DEF IInv, TombstoneInv, Active
    <3>. QED BY <1>1, <3>1, <3>2
  <2>. QED BY <2>1, <2>2
<1>7. LC!Withdraw(p)
  BY <1>1, <1>5, <1>6, GrantsSame DEF LC!Withdraw
<1>. QED BY <1>1, <1>7 DEF LC!Next

LEMMA DeviceUpdateRefines ==
    ASSUME IInv, valid', NEW p \in OrNone(Profile), NEW d \in OrNone(Device),
           HDeviceUpdate(p, d)
    PROVE  LC!Next
<1>1. /\ p \in Profile /\ Known(p) /\ d \in Device
      /\ profiles' = [profiles EXCEPT ![p].device = d]
      /\ UNCHANGED <<admissions, tombstones, lastIssue, issueOf, grantedBy>>
      /\ use' = None
  BY NoReject DEF HDeviceUpdate, DeviceUpdate, Known, OrNone
<1>2. \A q \in Profile \ {p} :
         (Active(q)' <=> Active(q)) /\ Certificate(q)' = Certificate(q)
  BY <1>1 DEF Active, Known, Certificate, IInv, TypeOK
<1>3. profiles[p] \in ProfileState
  BY <1>1 DEF IInv, TypeOK, Known, OrNone
<1>4. Active(p)' <=> Active(p)
  BY <1>1, <1>3 DEF Active, Known, IInv, TypeOK, ProfileState
<1>5. Certificate(p)' = [Certificate(p) EXCEPT !.device = d]
  BY <1>1, <1>3 DEF Certificate, IInv, TypeOK, ProfileState
<1>6. {k \in {Certificate(p)'} : Active(p)'} = {[k EXCEPT !.device = d] : k \in LC!Of(p)}
  <2>1. CASE Active(p)
    <3>1. LC!Of(p) = {Certificate(p)}
      BY <1>1, <2>1, InForceOf
    <3>. QED BY <1>4, <1>5, <2>1, <3>1
  <2>2. CASE ~Active(p)
    <3>1. LC!Of(p) = {}
      BY <1>1, <2>2, InForceOf
    <3>. QED BY <1>4, <2>2, <3>1
  <2>. QED BY <2>1, <2>2
<1>7. InForce' = (InForce \ LC!Of(p)) \cup {[k EXCEPT !.device = d] : k \in LC!Of(p)}
  <2>1. InForce' = (InForce \ LC!Of(p)) \cup {k \in {Certificate(p)'} : Active(p)'}
    BY <1>1, <1>2, InForceOthers
  <2>. QED BY <1>6, <2>1
<1>8. LC!Rebind(p, d)
  BY <1>1, <1>7, GrantsSame DEF LC!Rebind
<1>. QED BY <1>1, <1>8 DEF LC!Next

\* The grant of a request, when it is admitted.
GrantOf(r) == [request |-> r, issue |-> grantedBy[r], device |-> admissions[r].device,
               budget |-> admissions[r].numericalBudget]

LEMMA GrantsAre ==
    /\ \A g \in Grants : g.request \in Request /\ Admitted(g.request) /\ g = GrantOf(g.request)
    /\ \A r \in Request : Admitted(r) => GrantOf(r) \in Grants
BY DEF Grants, GrantOf

LEMMA AdmitRefines ==
    ASSUME IInv, valid', NEW r \in OrNone(Request), NEW p \in OrNone(Profile),
           NEW b \in Bound, HAdmit(r, p, b)
    PROVE  LC!Next
<1> DEFINE a == [profile |-> p, contract |-> profiles[p].contract,
                 artifact |-> profiles[p].artifact,
                 device |-> profiles[p].device,
                 precision |-> profiles[p].precision, numericalBudget |-> b]
           g == [request |-> r, issue |-> issueOf[p], device |-> profiles[p].device,
                 budget |-> b]
<1>1. /\ r \in Request /\ p \in Profile /\ Active(p) /\ ~Admitted(r)
      /\ b >= 0
      /\ admissions' = [admissions EXCEPT ![r] = a]
      /\ UNCHANGED <<profiles, tombstones, lastIssue, issueOf>>
      /\ use' = None
  BY NoReject DEF HAdmit, Admit, Active, Known, OrNone
<1>2. a \in Admission
  BY <1>1 DEF Admission, ProfileState, IInv, TypeOK, Active, Known, OrNone, ValidBound
<1>3. admissions' # admissions
  BY <1>1, <1>2 DEF Admitted, IInv, TypeOK
<1>4. grantedBy' = [grantedBy EXCEPT ![r] = issueOf[p]]
  BY <1>3 DEF HAdmit
<1>5. GrantOf(r)' = g /\ Admitted(r)'
  BY <1>1, <1>2, <1>4 DEF GrantOf, Admitted, IInv, TypeOK
<1>6. \A q \in Request \ {r} : GrantOf(q)' = GrantOf(q) /\ (Admitted(q)' <=> Admitted(q))
  BY <1>1, <1>4 DEF GrantOf, Admitted, IInv, TypeOK
<1>7. Grants = {GrantOf(q) : q \in {o \in Request : Admitted(o)}}
      /\ Grants' = {GrantOf(q)' : q \in {o \in Request : Admitted(o)'}}
  BY DEF Grants, GrantOf
<1>8. Grants' = Grants \cup {g}
  BY <1>1, <1>5, <1>6, <1>7
<1>9. \A h \in Grants : h.request # r
  BY <1>1, GrantsAre
<1>10. Certificate(p) \in LC!Of(p) /\ Certificate(p).issue = issueOf[p]
       /\ Certificate(p).device = profiles[p].device
  BY <1>1, InForceOf DEF Certificate
<1>11. InForce' = InForce
  BY <1>1, InForceSame
<1>12. LC!Grant(r, p, b)
  BY <1>1, <1>8, <1>9, <1>10, <1>11 DEF LC!Grant
<1>. QED BY <1>1, <1>12 DEF LC!Next

LEMMA DispatchRefines ==
    ASSUME IInv, valid', NEW r \in OrNone(Request), NEW c \in OrNone(Contract),
           NEW art \in OrNone(Artifact), NEW d \in OrNone(Device),
           NEW x \in OrNone(Precision), NEW b \in Bound,
           HDispatch(r, c, art, d, x, b)
    PROVE  LC!Next
<1> DEFINE a == admissions[r]
           s == profiles[a.profile]
<1>1. /\ use' = [request |-> r, contract |-> c, artifact |-> art, device |-> d,
                 precision |-> x, numerical |-> b]
      /\ UNCHANGED <<profiles, admissions, tombstones, lastIssue, issueOf, grantedBy>>
      /\ valid /\ Admitted(r) /\ b >= 0 /\ Active(a.profile)
      /\ DispatchBreaks(s, a, c, art, d, x, b) = {}
  BY NoReject, AcceptedReport DEF HDispatch, Dispatch
<1>2. /\ s.contract = a.contract /\ c = a.contract
      /\ s.artifact = a.artifact /\ art = a.artifact
      /\ s.device = a.device /\ d = a.device
      /\ s.precision = a.precision /\ x = a.precision
      /\ ~(s.numerical > a.numericalBudget) /\ ~(b > a.numericalBudget)
  BY <1>1 DEF DispatchBreaks
<1>3. a \in Admission /\ s \in ProfileState /\ a.profile \in Profile /\ r \in Request
  BY <1>1 DEF IInv, TypeOK, Admitted, Active, Known, OrNone, Admission
<1>4. s.numerical <= a.numericalBudget /\ 0 <= b /\ b <= a.numericalBudget
  <2>1. s.numerical \in Int /\ a.numericalBudget \in Int /\ b \in Int
    BY <1>3 DEF Admission, ProfileState, ValidBound
  <2>. QED BY <1>1, <1>2, <2>1
<1>5. grantedBy[r] = issueOf[a.profile]
  BY <1>1, <1>2, <1>3 DEF IInv, GrantInv, GrantOK, TypeOK
<1> DEFINE g == GrantOf(r)
           k == Certificate(a.profile)
<1>6. g \in Grants /\ k \in InForce
  BY <1>1, <1>3, GrantsAre DEF InForce
<1>7. /\ g.request = r /\ k.issue = g.issue /\ k.device = g.device
      /\ k.numerical <= g.budget /\ 0 <= b /\ b <= g.budget
  BY <1>2, <1>4, <1>5 DEF GrantOf, Certificate
<1>8. use' = [request |-> r, contract |-> k.contract, artifact |-> k.artifact,
              device |-> k.device, precision |-> k.precision, numerical |-> b]
  BY <1>1, <1>2 DEF Certificate
<1>9. UNCHANGED <<InForce, tombstones, Grants, lastIssue>>
  BY <1>1, InForceSame, GrantsSame
<1> HIDE DEF g, k
<1>10. LC!Use(r, b)
  BY <1>6, <1>7, <1>8, <1>9 DEF LC!Use
<1>. QED BY <1>3, <1>10 DEF LC!Next

LEMMA CompleteRefines ==
    ASSUME IInv, valid', NEW r \in OrNone(Request), HComplete(r)
    PROVE  LC!Next
<1>1. /\ r \in Request /\ Admitted(r)
      /\ admissions' = [admissions EXCEPT ![r] = None]
      /\ UNCHANGED <<profiles, tombstones, lastIssue, issueOf>>
      /\ use' = None
  BY NoReject DEF HComplete, Complete, Admitted
<1>2. ~Admitted(r)' /\ \A q \in Request \ {r} :
         GrantOf(q)' = GrantOf(q) /\ (Admitted(q)' <=> Admitted(q))
  BY <1>1 DEF HComplete, GrantOf, Admitted, IInv, TypeOK
<1>3. Grants = {GrantOf(q) : q \in {o \in Request : Admitted(o)}}
      /\ Grants' = {GrantOf(q)' : q \in {o \in Request : Admitted(o)'}}
  BY DEF Grants, GrantOf
<1>4. \A q \in Request : GrantOf(q).request = q
  BY DEF GrantOf
<1>5. Grants' = {g \in Grants : g.request # r}
  BY <1>2, <1>3, <1>4
<1>6. \E g \in Grants : g.request = r
  BY <1>1, <1>4, GrantsAre
<1>7. LC!Finish(r)
  BY <1>1, <1>5, <1>6, InForceSame DEF LC!Finish
<1>. QED BY <1>1, <1>7 DEF LC!Next

-----------------------------------------------------------------------------
LEMMA LifecycleInit == HInit => LC!Init
BY DEF HInit, Init, LC!Init, InForce, Grants, Active, Known, Admitted

LEMMA LifecycleNext == IInv /\ [HNext /\ valid']_allVars => [LC!Next]_(LC!vars)
<1> SUFFICES ASSUME IInv, [HNext /\ valid']_allVars PROVE [LC!Next]_(LC!vars)
  OBVIOUS
<1>1. CASE UNCHANGED allVars
  <2>1. UNCHANGED <<InForce, tombstones, Grants, lastIssue, use>>
    BY <1>1, InForceSame, GrantsSame DEF allVars, vars, history
  <2>. QED BY <2>1 DEF LC!vars
<1>2. CASE HNext /\ valid'
  <2>1. ~HUnknownEvent
    BY <1>2, NoReject DEF HUnknownEvent, UnknownEvent
  <2>. QED
    BY <1>2, <2>1, PublishRefines, RevokeRefines, DeviceUpdateRefines, AdmitRefines,
       DispatchRefines, CompleteRefines DEF HNext
<1>. QED BY <1>1, <1>2

\* Every trace that Check accepts is a behaviour of the lifecycle: an issue, a
\* withdrawal, a grant or a use of one in force (statecheck.go:74-169).
THEOREM LifecycleImplemented == AcceptedSpec => ImplementsLifecycle
<1>1. [HNext /\ valid']_allVars => [HNext]_allVars
  OBVIOUS
<1>. QED
  BY <1>1, InitInv, NextInv, LifecycleInit, LifecycleNext, PTL
  DEF AcceptedSpec, ImplementsLifecycle, LC!Spec


\* A dispatch whose publication was revoked, or revoked and replaced, is
\* reported as a stale reuse in the event it happens in (statecheck.go:143-152).
THEOREM StaleNamed == HSpec => StaleDispatchNamed
<1> DEFINE Stale(r) ==
      /\ valid /\ Admitted(r) /\ use' # None /\ use'.request = r
      /\ use'.numerical >= 0
      /\ \/ ~Active(admissions[r].profile)
         \/ grantedBy[r] # issueOf[admissions[r].profile]
<1>1. ASSUME IInv, HNext, NEW r \in Request, Stale(r)
      PROVE  "NoStaleProfileReuse" \in verdict'
  <2>1. PICK c \in OrNone(Contract), a \in OrNone(Artifact), d \in OrNone(Device),
             x \in OrNone(Precision), b \in Bound : HDispatch(r, c, a, d, x, b)
    <3>1. \E q \in OrNone(Request), c \in OrNone(Contract), a \in OrNone(Artifact),
             d \in OrNone(Device), x \in OrNone(Precision), b \in Bound :
             HDispatch(q, c, a, d, x, b)
      BY <1>1 DEF HNext, HPublish, HRevoke, HDeviceUpdate, HAdmit, HComplete,
                  HUnknownEvent
    <3>2. PICK q \in OrNone(Request), c \in OrNone(Contract), a \in OrNone(Artifact),
               d \in OrNone(Device), x \in OrNone(Precision), b \in Bound :
               HDispatch(q, c, a, d, x, b)
      BY <3>1
    <3>3. q = r
      BY <1>1, <3>2 DEF HDispatch
    <3>. QED BY <3>2, <3>3
  <2> DEFINE s == profiles[admissions[r].profile]
  <2>2. b >= 0 /\ ~(b < 0) /\ Admitted(r)
    <3>1. use'.numerical = b
      BY <2>1 DEF HDispatch
    <3>2. b \in Int
      BY DEF StateCheckAssumption
    <3>. QED BY <1>1, <3>1, <3>2
  <2>3. CASE ~Active(admissions[r].profile)
    <3>1. Reject("NoStaleProfileReuse")
      BY <2>1, <2>2, <2>3 DEF HDispatch, Dispatch
    <3>. QED BY <3>1 DEF Reject, Report
  <2>4. CASE Active(admissions[r].profile)
    <3>1. admissions[r].profile \in Profile
      BY <1>1, <2>2 DEF IInv, TypeOK, Admitted, OrNone, Admission
    <3>2. grantedBy[r] < issueOf[admissions[r].profile]
      BY <1>1, <2>2, <2>4, <3>1 DEF IInv, TypeOK, GrantInv, GrantOK
    <3>3. s.contract # admissions[r].contract
      BY <1>1, <2>2, <3>2 DEF IInv, GrantInv, GrantOK
    <3>4. "NoStaleProfileReuse" \in DispatchBreaks(s, admissions[r], c, a, d, x, b)
      BY <3>3 DEF DispatchBreaks
    <3>5. Report(DispatchBreaks(s, admissions[r], c, a, d, x, b))
      BY <2>1, <2>2, <2>4 DEF HDispatch, Dispatch
    <3>. QED BY <3>4, <3>5 DEF Report
  <2>. QED BY <2>3, <2>4
<1>2. IInv /\ [HNext]_allVars =>
        [\A r \in Request : Stale(r) => "NoStaleProfileReuse" \in verdict']_allVars
  BY <1>1
<1>. QED
  BY <1>2, Invariance, PTL DEF HSpec, StaleDispatchNamed
=============================================================================
