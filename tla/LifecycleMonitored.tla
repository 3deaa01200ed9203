-------------------------- MODULE LifecycleMonitored --------------------------
(***************************************************************************)
(* The other direction: a lawful system (Lifecycle) writes the trace and   *)
(* the checker reads it.  Every step is one event, taken by both.          *)
(***************************************************************************)
EXTENDS Lifecycle

CONSTANT MaxIssue   \* bound of the number of publications in a trace

VARIABLES profiles, admissions, tombstones, valid, verdict

Checker == INSTANCE StateCheck

ASSUME MonitoredAssumption ==
    /\ Bound \subseteq Int
    /\ None \notin Profile \cup Request \cup Contract \cup Artifact
                   \cup Device \cup Precision
    /\ None \notin Checker!ProfileState /\ None \notin Checker!Admission

MVars == <<vars, Checker!vars>>

MInit == Init /\ Checker!Init

MIssue == \E p \in Profile, c \in Contract, a \in Artifact, d \in Device,
             x \in Precision, b \in Bound :
    /\ lastIssue < MaxIssue
    /\ Issue(p, c, a, d, x, b)
    /\ Checker!Publish(p, c, a, d, x, b)

\* A lawful controller may report the same withdrawal twice, not one of a
\* profile it never published.
MWithdraw == \E p \in Profile :
    Checker!Known(p) /\ Withdraw(p) /\ Checker!Revoke(p)

MRebind == \E p \in Profile, d \in Device :
    Checker!Known(p) /\ Rebind(p, d) /\ Checker!DeviceUpdate(p, d)

MGrant == \E r \in Request, p \in Profile, b \in Bound :
    Grant(r, p, b) /\ Checker!Admit(r, p, b)

MUse == \E r \in Request, b \in Bound :
    /\ Use(r, b)
    /\ Checker!Dispatch(r, use'.contract, use'.artifact, use'.device,
                        use'.precision, use'.numerical)

MFinish == \E r \in Request : Finish(r) /\ Checker!Complete(r)

MNext == MIssue \/ MWithdraw \/ MRebind \/ MGrant \/ MUse \/ MFinish

MSpec == MInit /\ [][MNext]_MVars

\* No false alarm: Check never reports a trace a lawful system wrote
\* (statecheck.go:74-169, every comparison of every event).
NoFalseAlarm == valid
=============================================================================
