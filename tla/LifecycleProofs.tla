--------------------------- MODULE LifecycleProofs ---------------------------
(***************************************************************************)
(* Proofs that the lifecycle checker raises no false alarm, for any names, *)
(* digests, devices, precisions and bounds.                                *)
(***************************************************************************)
EXTENDS LifecycleMonitored, TLAPS

-----------------------------------------------------------------------------
(* What the checker's maps know of the system. *)

Certificates ==
    [issue: Nat, profile: Profile, contract: Contract, artifact: Artifact,
     device: Device, precision: Precision, numerical: Bound]

MapsOK ==
    /\ profiles \in [Profile -> Checker!ProfileState \cup {None}]
    /\ admissions \in [Request -> Checker!Admission \cup {None}]
    /\ lastIssue \in Nat
    /\ inForce \subseteq Certificates

\* The checker knows every certificate in force, as it is by now.
KnownAs(k) ==
    LET s == profiles[k.profile] IN
    /\ k.profile \in Profile /\ Checker!Active(k.profile)
    /\ k.contract = s.contract /\ k.artifact = s.artifact /\ k.device = s.device
    /\ k.precision = s.precision /\ k.numerical = s.numerical
    /\ k.issue \in 1..lastIssue

InForceInv ==
    /\ \A k \in inForce : KnownAs(k)
    /\ \A p \in Profile : Checker!Active(p) => \E k \in inForce : k.profile = p
    /\ \A k, l \in inForce : k.issue = l.issue \/ k.profile = l.profile => k = l

\* It knows every grant, and its admission was taken from the grant's issue.
AdmittedAs(g) ==
    LET a == admissions[g.request] IN
    /\ g.request \in Request /\ Checker!Admitted(g.request)
    /\ g.device = a.device /\ g.budget = a.numericalBudget
    /\ g.issue \in 1..lastIssue
    /\ \A k \in inForce : k.issue = g.issue =>
          /\ k.profile = a.profile /\ k.contract = a.contract
          /\ k.artifact = a.artifact /\ k.precision = a.precision

GrantsInv ==
    /\ \A g \in grants : AdmittedAs(g)
    /\ \A r \in Request : Checker!Admitted(r) => \E g \in grants : g.request = r

\* Its tombstones are the withdrawn contracts, so revoking twice adds none.
RetiredInv ==
    /\ tombstones = retired
    /\ \A p \in Profile : Checker!Known(p) /\ ~profiles[p].active =>
           profiles[p].contract \in retired

MInv == MapsOK /\ InForceInv /\ GrantsInv /\ RetiredInv /\ valid = TRUE

USE MonitoredAssumption

-----------------------------------------------------------------------------
LEMMA MonitoredInit == MInit => MInv
BY DEF MInit, Init, Checker!Init, MInv, MapsOK, InForceInv, GrantsInv, RetiredInv,
       Checker!Active, Checker!Known, Checker!Admitted

LEMMA IssueKeeps == ASSUME MInv, MIssue PROVE MInv'
<1>1. PICK p \in Profile, c \in Contract, a \in Artifact, d \in Device,
           x \in Precision, b \in Bound :
           Issue(p, c, a, d, x, b) /\ Checker!Publish(p, c, a, d, x, b)
  BY DEF MIssue
<1>0. PICK n \in Nat : n = lastIssue + 1
  BY DEF MInv, MapsOK
<1> DEFINE s == [contract |-> c, artifact |-> a, device |-> d, precision |-> x,
                 numerical |-> b, active |-> TRUE]
           new == [issue |-> n, profile |-> p, contract |-> c,
                   artifact |-> a, device |-> d, precision |-> x, numerical |-> b]
<1>2. /\ \A k \in inForce : k.profile # p
      /\ c \notin retired /\ b >= 0 /\ lastIssue' = n
      /\ inForce' = inForce \cup {new}
      /\ UNCHANGED <<retired, grants>>
  BY <1>1, <1>0 DEF Issue, Of
<1>3. ~Checker!Active(p) /\ None \notin {p, c, a, d, x} /\ c \notin tombstones
  BY <1>2 DEF MInv, InForceInv, RetiredInv
<1>4. /\ profiles' = [profiles EXCEPT ![p] = s]
      /\ UNCHANGED <<admissions, tombstones>> /\ valid' = TRUE
  BY <1>1, <1>2, <1>3 DEF Checker!Publish, Checker!Report, MInv
<1>5. s \in Checker!ProfileState /\ s # None /\ new \in Certificates
  <2>1. s \in Checker!ProfileState
    BY <1>2 DEF Checker!ProfileState, Checker!ValidBound
  <2>2. new \in Certificates
    BY DEF Certificates
  <2> QED
    BY <2>1, <2>2
<1>6. /\ profiles'[p] = s /\ Checker!Active(p)'
      /\ \A q \in Profile : q # p => /\ profiles'[q] = profiles[q]
                                     /\ Checker!Active(q)' <=> Checker!Active(q)
                                     /\ Checker!Known(q)' <=> Checker!Known(q)
  BY <1>4, <1>5 DEF MInv, MapsOK, Checker!Active, Checker!Known
<1>7. MapsOK'
  BY <1>2, <1>4, <1>5 DEF MInv, MapsOK
<1>8. \A k \in inForce : KnownAs(k)'
  BY <1>2, <1>0, <1>6 DEF MInv, MapsOK, InForceInv, KnownAs
<1>9. KnownAs(new)'
  <2>1. n \in 1..lastIssue'
    BY <1>2, <1>0 DEF MInv, MapsOK
  <2> QED
    BY <1>6, <2>1 DEF KnownAs
<1>10. InForceInv'
  <2>1. \A k \in inForce : k.issue # new.issue /\ k.profile # new.profile
    BY <1>0, <1>2 DEF MInv, MapsOK, InForceInv, KnownAs
  <2>2. \A k, l \in inForce' : k.issue = l.issue \/ k.profile = l.profile => k = l
    BY <1>2, <2>1 DEF MInv, InForceInv
  <2>3. \A q \in Profile : Checker!Active(q)' => \E k \in inForce' : k.profile = q
    <3>1. new \in inForce' /\ new.profile = p
      BY <1>2
    <3>2. \A q \in Profile : q # p /\ Checker!Active(q)' =>
             \E k \in inForce : k.profile = q
      BY <1>6 DEF MInv, InForceInv
    <3> HIDE DEF new
    <3> QED
      BY <1>2, <3>1, <3>2
  <2> QED
    BY <1>2, <1>8, <1>9, <2>2, <2>3 DEF InForceInv
<1>11. GrantsInv'
  BY <1>2, <1>0, <1>4 DEF MInv, MapsOK, GrantsInv, AdmittedAs, Checker!Admitted
<1>12. RetiredInv'
  BY <1>2, <1>4, <1>6 DEF MInv, RetiredInv
<1> QED
  BY <1>4, <1>7, <1>10, <1>11, <1>12 DEF MInv

LEMMA WithdrawKeeps == ASSUME MInv, MWithdraw PROVE MInv'
<1>1. PICK p \in Profile : Checker!Known(p) /\ Withdraw(p) /\ Checker!Revoke(p)
  BY DEF MWithdraw
<1>2. /\ inForce' = {k \in inForce : k.profile # p}
      /\ retired' = retired \cup {k.contract : k \in {l \in inForce : l.profile = p}}
      /\ UNCHANGED <<grants, lastIssue>>
  BY <1>1 DEF Withdraw, Of
<1>3. /\ profiles' = [profiles EXCEPT ![p].active = FALSE]
      /\ tombstones' = tombstones \cup {profiles[p].contract}
      /\ UNCHANGED admissions /\ valid' = TRUE
  BY <1>1 DEF Checker!Revoke, Checker!Report, MInv
<1>4. profiles[p] \in Checker!ProfileState
  BY <1>1 DEF MInv, MapsOK, Checker!Known
<1>5. /\ profiles'[p] = [profiles[p] EXCEPT !.active = FALSE]
      /\ ~Checker!Active(p)' /\ profiles'[p].contract = profiles[p].contract
      /\ \A q \in Profile : q # p => /\ profiles'[q] = profiles[q]
                                     /\ Checker!Active(q)' <=> Checker!Active(q)
                                     /\ Checker!Known(q)' <=> Checker!Known(q)
  BY <1>3, <1>4 DEF MInv, MapsOK, Checker!Active, Checker!Known, Checker!ProfileState
<1>6. MapsOK'
  BY <1>2, <1>3, <1>4 DEF MInv, MapsOK, Checker!ProfileState
<1>7. InForceInv'
  BY <1>2, <1>5 DEF MInv, MapsOK, InForceInv, KnownAs
<1>8. GrantsInv'
  BY <1>2, <1>3 DEF MInv, MapsOK, GrantsInv, AdmittedAs, Checker!Admitted
<1>9. retired' = retired \cup {profiles[p].contract}
  <2>1. CASE Checker!Active(p)
    <3>1. PICK k \in inForce : k.profile = p
      BY <2>1 DEF MInv, InForceInv
    <3>2. {l \in inForce : l.profile = p} = {k} /\ k.contract = profiles[p].contract
      BY <3>1 DEF MInv, InForceInv, KnownAs
    <3> QED
      BY <1>2, <3>2
  <2>2. CASE ~Checker!Active(p)
    <3>1. {l \in inForce : l.profile = p} = {}
      BY <2>2 DEF MInv, InForceInv, KnownAs
    <3>2. profiles[p].contract \in retired
      BY <1>1, <2>2 DEF MInv, RetiredInv, Checker!Active
    <3> QED
      BY <1>2, <3>1, <3>2
  <2> QED
    BY <2>1, <2>2
<1>10. RetiredInv'
  BY <1>3, <1>5, <1>9 DEF MInv, RetiredInv
<1> QED
  BY <1>3, <1>6, <1>7, <1>8, <1>10 DEF MInv

LEMMA RebindKeeps == ASSUME MInv, MRebind PROVE MInv'
<1>1. PICK p \in Profile, d \in Device :
           Checker!Known(p) /\ Rebind(p, d) /\ Checker!DeviceUpdate(p, d)
  BY DEF MRebind
<1>2. /\ inForce' = {k \in inForce : k.profile # p}
                       \cup {[k EXCEPT !.device = d] : k \in {l \in inForce : l.profile = p}}
      /\ UNCHANGED <<retired, grants, lastIssue>>
  BY <1>1 DEF Rebind, Of
<1>3. /\ profiles' = [profiles EXCEPT ![p].device = d]
      /\ UNCHANGED <<admissions, tombstones>> /\ valid' = TRUE
  BY <1>1 DEF Checker!DeviceUpdate, Checker!Report, MInv
<1>4. profiles[p] \in Checker!ProfileState
  BY <1>1 DEF MInv, MapsOK, Checker!Known
<1>5. /\ profiles'[p] = [profiles[p] EXCEPT !.device = d]
      /\ \A q \in Profile : /\ q # p => profiles'[q] = profiles[q]
                            /\ Checker!Active(q)' <=> Checker!Active(q)
                            /\ Checker!Known(q)' <=> Checker!Known(q)
                            /\ Checker!Known(q) =>
                                 /\ profiles'[q].contract = profiles[q].contract
                                 /\ profiles'[q].active = profiles[q].active
  BY <1>3, <1>4 DEF MInv, MapsOK, Checker!Active, Checker!Known, Checker!ProfileState
<1>6. \A k \in inForce : /\ [k EXCEPT !.device = d] \in Certificates
                         /\ KnownAs(k) /\ k.profile = p =>
                              KnownAs([k EXCEPT !.device = d])'
  BY <1>2, <1>4, <1>5 DEF MInv, MapsOK, Certificates, KnownAs, Checker!ProfileState
<1>7. MapsOK'
  BY <1>2, <1>3, <1>4, <1>6 DEF MInv, MapsOK, Checker!ProfileState
<1>8. ASSUME NEW k \in inForce'
      PROVE  \E l \in inForce : /\ k.issue = l.issue /\ k.profile = l.profile
                                /\ k.contract = l.contract /\ k.artifact = l.artifact
                                /\ k.precision = l.precision
                                /\ k = IF l.profile = p THEN [l EXCEPT !.device = d] ELSE l
  BY <1>2 DEF MInv, MapsOK, Certificates
<1>9. InForceInv'
  <2>1. \A k \in inForce' : KnownAs(k)'
    <3>1. ASSUME NEW k \in inForce, k.profile # p PROVE KnownAs(k)'
      BY <1>2, <1>5, <3>1 DEF MInv, InForceInv, KnownAs
    <3>2. \A k \in inForce : KnownAs(k)
      BY DEF MInv, InForceInv
    <3> QED
      BY <1>2, <1>6, <3>1, <3>2
  <2>2. \A k, l \in inForce' : k.issue = l.issue \/ k.profile = l.profile => k = l
    BY <1>8 DEF MInv, InForceInv
  <2>3. \A q \in Profile : Checker!Active(q)' => \E k \in inForce' : k.profile = q
    <3> SUFFICES ASSUME NEW q \in Profile, Checker!Active(q)'
                 PROVE  \E k \in inForce' : k.profile = q
      OBVIOUS
    <3>1. PICK l \in inForce : l.profile = q
      BY <1>5 DEF MInv, InForceInv
    <3>2. [l EXCEPT !.device = d].profile = q
      BY <3>1 DEF MInv, MapsOK, Certificates
    <3> QED
      BY <1>2, <3>1, <3>2
  <2> QED
    BY <2>1, <2>2, <2>3 DEF InForceInv
<1>10. GrantsInv'
  BY <1>2, <1>3, <1>8 DEF MInv, GrantsInv, AdmittedAs, Checker!Admitted
<1>11. RetiredInv'
  BY <1>2, <1>3, <1>5 DEF MInv, RetiredInv
<1> QED
  BY <1>3, <1>7, <1>9, <1>10, <1>11 DEF MInv

LEMMA GrantKeeps == ASSUME MInv, MGrant PROVE MInv'
<1>1. PICK r \in Request, p \in Profile, b \in Bound :
           Grant(r, p, b) /\ Checker!Admit(r, p, b)
  BY DEF MGrant
<1>2. PICK k \in inForce :
        /\ k.profile = p
        /\ grants' = grants \cup {[request |-> r, issue |-> k.issue,
                                   device |-> k.device, budget |-> b]}
        /\ b >= 0 /\ \A g \in grants : g.request # r
        /\ UNCHANGED <<inForce, retired, lastIssue>>
  BY <1>1 DEF Grant, Of
<1>3. KnownAs(k) /\ Checker!Active(p) /\ ~Checker!Admitted(r) /\ r # None
  BY <1>2 DEF MInv, InForceInv, KnownAs, GrantsInv
<1> DEFINE a == [profile |-> p, contract |-> profiles[p].contract,
                 artifact |-> profiles[p].artifact, device |-> profiles[p].device,
                 precision |-> profiles[p].precision, numericalBudget |-> b]
           new == [request |-> r, issue |-> k.issue, device |-> k.device, budget |-> b]
<1>4. /\ admissions' = [admissions EXCEPT ![r] = a]
      /\ UNCHANGED <<profiles, tombstones>> /\ valid' = TRUE
  BY <1>1, <1>2, <1>3 DEF Checker!Admit, Checker!Report, MInv
<1>5. a \in Checker!Admission
  BY <1>2, <1>3 DEF MInv, MapsOK, Checker!Active, Checker!Known, Checker!ProfileState,
     Checker!Admission, Checker!ValidBound
<1>6. /\ admissions'[r] = a /\ Checker!Admitted(r)'
      /\ \A q \in Request : q # r => /\ admissions'[q] = admissions[q]
                                     /\ Checker!Admitted(q)' <=> Checker!Admitted(q)
  BY <1>4, <1>5 DEF MInv, MapsOK, Checker!Admitted
<1>7. MapsOK'
  BY <1>2, <1>4, <1>5 DEF MInv, MapsOK
<1>8. InForceInv' /\ RetiredInv'
  BY <1>2, <1>4 DEF MInv, InForceInv, KnownAs, RetiredInv, Checker!Active, Checker!Known
<1>9. GrantsInv'
  <2>1. \A g \in grants : AdmittedAs(g)'
    BY <1>2, <1>6 DEF MInv, GrantsInv, AdmittedAs
  <2>2. AdmittedAs(new)'
    <3>1. \A l \in inForce : l.issue = k.issue => l = k
      BY DEF MInv, InForceInv
    <3> QED
      BY <1>2, <1>3, <1>6, <3>1 DEF AdmittedAs, KnownAs
  <2> QED
    BY <1>2, <1>6, <2>1, <2>2 DEF MInv, GrantsInv
<1> QED
  BY <1>4, <1>7, <1>8, <1>9 DEF MInv

LEMMA UseKeeps == ASSUME MInv, MUse PROVE MInv'
<1>1. PICK r \in Request, b \in Bound :
        /\ Use(r, b)
        /\ Checker!Dispatch(r, use'.contract, use'.artifact, use'.device,
                            use'.precision, use'.numerical)
  BY DEF MUse
<1>2. PICK g \in grants, k \in inForce :
        /\ g.request = r /\ k.issue = g.issue /\ k.device = g.device
        /\ k.numerical <= g.budget /\ 0 <= b /\ b <= g.budget
        /\ use' = [request |-> r, contract |-> k.contract,
                   artifact |-> k.artifact, device |-> k.device,
                   precision |-> k.precision, numerical |-> b]
        /\ UNCHANGED <<inForce, retired, grants, lastIssue>>
  BY <1>1 DEF Use
<1> DEFINE a == admissions[r]
           s == profiles[a.profile]
<1>3. /\ use'.contract = k.contract /\ use'.artifact = k.artifact
      /\ use'.device = k.device /\ use'.precision = k.precision /\ use'.numerical = b
  BY <1>2
<1>4. /\ Checker!Admitted(r) /\ k.profile = a.profile /\ Checker!Active(a.profile)
      /\ s.contract = a.contract /\ k.contract = a.contract
      /\ s.artifact = a.artifact /\ k.artifact = a.artifact
      /\ s.device = a.device /\ k.device = a.device
      /\ s.precision = a.precision /\ k.precision = a.precision
      /\ s.numerical <= a.numericalBudget /\ b <= a.numericalBudget
  BY <1>2 DEF MInv, GrantsInv, AdmittedAs, InForceInv, KnownAs
<1>5. /\ ~(s.numerical > a.numericalBudget) /\ ~(b > a.numericalBudget) /\ ~(b < 0)
  <2>1. s.numerical \in Int /\ a.numericalBudget \in Int /\ b \in Int
    BY <1>4 DEF MInv, MapsOK, Checker!Admitted, Checker!Active, Checker!Known,
       Checker!ProfileState, Checker!Admission, Checker!ValidBound
  <2> QED
    BY <1>2, <1>4, <2>1
<1>6. Checker!DispatchBreaks(s, a, k.contract, k.artifact, k.device, k.precision, b) = {}
  BY <1>4, <1>5 DEF Checker!DispatchBreaks
<1>7. valid' = TRUE /\ UNCHANGED <<profiles, admissions, tombstones>>
  BY <1>1, <1>3, <1>4, <1>5, <1>6 DEF Checker!Dispatch, Checker!Report, MInv
<1> QED
  BY <1>2, <1>7
     DEF MInv, MapsOK, InForceInv, KnownAs, GrantsInv, AdmittedAs, RetiredInv,
         Checker!Active, Checker!Known, Checker!Admitted

LEMMA FinishKeeps == ASSUME MInv, MFinish PROVE MInv'
<1>1. PICK r \in Request : Finish(r) /\ Checker!Complete(r)
  BY DEF MFinish
<1>2. /\ Checker!Admitted(r) /\ grants' = {g \in grants : g.request # r}
      /\ UNCHANGED <<inForce, retired, lastIssue>>
  BY <1>1 DEF Finish, MInv, GrantsInv, AdmittedAs
<1>3. /\ admissions' = [admissions EXCEPT ![r] = None]
      /\ UNCHANGED <<profiles, tombstones>> /\ valid' = TRUE
  BY <1>1, <1>2 DEF Checker!Complete, Checker!Report, MInv
<1>4. /\ ~Checker!Admitted(r)'
      /\ \A q \in Request : q # r => /\ admissions'[q] = admissions[q]
                                     /\ Checker!Admitted(q)' <=> Checker!Admitted(q)
  BY <1>3 DEF MInv, MapsOK, Checker!Admitted
<1>5. MapsOK' /\ InForceInv' /\ RetiredInv'
  BY <1>2, <1>3
     DEF MInv, MapsOK, InForceInv, KnownAs, RetiredInv, Checker!Active, Checker!Known
<1>6. GrantsInv'
  BY <1>2, <1>4 DEF MInv, GrantsInv, AdmittedAs
<1> QED
  BY <1>3, <1>5, <1>6 DEF MInv

LEMMA MonitoredNext == MInv /\ [MNext]_MVars => MInv'
<1> SUFFICES ASSUME MInv, [MNext]_MVars PROVE MInv'
  OBVIOUS
<1>1. CASE UNCHANGED MVars
  BY <1>1
     DEF MVars, vars, Checker!vars, MInv, MapsOK, InForceInv, KnownAs, GrantsInv,
         AdmittedAs, RetiredInv, Checker!Active, Checker!Known, Checker!Admitted
<1> QED
  BY <1>1, IssueKeeps, WithdrawKeeps, RebindKeeps, GrantKeeps, UseKeeps, FinishKeeps
     DEF MNext

\* Check never reports a trace that a lawful system wrote, however long it is and
\* whatever is published, withdrawn, rebound and granted meanwhile
\* (statecheck.go:74-169).
THEOREM NeverFalseAlarm == MSpec => []NoFalseAlarm
<1>1. MInv => NoFalseAlarm
  BY DEF MInv, NoFalseAlarm
<1> QED
  BY <1>1, MonitoredInit, MonitoredNext, PTL DEF MSpec
=============================================================================
