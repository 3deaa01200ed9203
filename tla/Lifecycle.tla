------------------------------ MODULE Lifecycle ------------------------------
(***************************************************************************)
(* What the lifecycle invariants promise of a trace, with none of the      *)
(* checker's maps: every publication is an issue with a number of its own, *)
(* a grant belongs to one issue, and only a grant whose issue is still in  *)
(* force, on the device it was granted for, is used, within its budget.    *)
(***************************************************************************)
EXTENDS Integers

CONSTANTS Profile, Request, Contract, Artifact, Device, Precision, Bound, None

VARIABLES
    inForce,    \* the certificates in force
    retired,    \* contract digests that were withdrawn
    grants,     \* admissions that are not complete
    lastIssue,  \* number of the last issue
    use         \* what the last event dispatched, None if it was no dispatch

vars == <<inForce, retired, grants, lastIssue, use>>

Of(p) == {k \in inForce : k.profile = p}

Init ==
    /\ inForce = {}
    /\ retired = {}
    /\ grants = {}
    /\ lastIssue = 0
    /\ use = None

\* A withdrawn contract is never issued again, and a profile has one issue.
Issue(p, c, a, d, x, b) ==
    /\ Of(p) = {}
    /\ c \notin retired
    /\ b >= 0
    /\ lastIssue' = lastIssue + 1
    /\ inForce' = inForce \cup
         {[issue |-> lastIssue + 1, profile |-> p, contract |-> c,
           artifact |-> a, device |-> d, precision |-> x, numerical |-> b]}
    /\ use' = None
    /\ UNCHANGED <<retired, grants>>

Withdraw(p) ==
    /\ inForce' = inForce \ Of(p)
    /\ retired' = retired \cup {k.contract : k \in Of(p)}
    /\ use' = None
    /\ UNCHANGED <<grants, lastIssue>>

Rebind(p, d) ==
    /\ inForce' = (inForce \ Of(p)) \cup {[k EXCEPT !.device = d] : k \in Of(p)}
    /\ use' = None
    /\ UNCHANGED <<retired, grants, lastIssue>>

Grant(r, p, budget) ==
    /\ budget >= 0
    /\ \A g \in grants : g.request # r
    /\ \E k \in Of(p) :
         grants' = grants \cup {[request |-> r, issue |-> k.issue,
                                 device |-> k.device, budget |-> budget]}
    /\ use' = None
    /\ UNCHANGED <<inForce, retired, lastIssue>>

Use(r, b) ==
    \E g \in grants, k \in inForce :
        /\ g.request = r
        /\ k.issue = g.issue
        /\ k.device = g.device
        /\ k.numerical <= g.budget
        /\ 0 <= b /\ b <= g.budget
        /\ use' = [request |-> r, contract |-> k.contract,
                   artifact |-> k.artifact, device |-> k.device,
                   precision |-> k.precision, numerical |-> b]
        /\ UNCHANGED <<inForce, retired, grants, lastIssue>>

Finish(r) ==
    /\ \E g \in grants : g.request = r
    /\ grants' = {g \in grants : g.request # r}
    /\ use' = None
    /\ UNCHANGED <<inForce, retired, lastIssue>>

Next ==
    \/ \E p \in Profile, c \in Contract, a \in Artifact, d \in Device,
          x \in Precision, b \in Bound : Issue(p, c, a, d, x, b)
    \/ \E p \in Profile : Withdraw(p)
    \/ \E p \in Profile, d \in Device : Rebind(p, d)
    \/ \E r \in Request, p \in Profile, b \in Bound : Grant(r, p, b)
    \/ \E r \in Request, b \in Bound : Use(r, b)
    \/ \E r \in Request : Finish(r)

Spec == Init /\ [][Next]_vars
=============================================================================
