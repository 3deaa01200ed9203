------------------------------ MODULE Selection ------------------------------
(***************************************************************************)
(* What planner.Select promises of a catalog: it considers the profiles in *)
(* turn and keeps the best admissible one.  Names are integers, as only    *)
(* their order matters, and so are latencies.  Profiles are spoken of by   *)
(* their place in the catalog; 0 is none.                                  *)
(***************************************************************************)
EXTENDS Integers, Sequences

Entry == [name: Int, admissible: BOOLEAN, latency: Int]

\* contract.LoadCatalog lets no name occur twice.
DistinctNames(c) ==
    \A j, k \in 1..Len(c) : c[j].name = c[k].name => j = k

VARIABLES
    catalog,   \* the profiles, with what there is to say of each
    i,         \* profiles considered so far
    best,      \* the best profile so far
    decision,  \* the profile whose decision is kept
    done

vars == <<catalog, i, best, decision, done>>

Init ==
    /\ catalog \in Seq(Entry) /\ DistinctNames(catalog)
    /\ i = 0 /\ best = 0 /\ decision = 0
    /\ done = FALSE

Better(p, q) ==
    \/ p.latency < q.latency
    \/ p.latency = q.latency /\ p.name < q.name

\* The decision of the first profile is kept until an admissible one comes.
Consider ==
    /\ ~done /\ i < Len(catalog)
    /\ i' = i + 1
    /\ LET entry == catalog[i + 1] IN
       IF entry.admissible /\ (best # 0 => Better(entry, catalog[best]))
       THEN best' = i + 1 /\ decision' = i + 1
       ELSE best' = best /\ decision' = IF decision = 0 THEN i + 1 ELSE decision
    /\ UNCHANGED <<catalog, done>>

Finish ==
    /\ ~done /\ i = Len(catalog)
    /\ done' = TRUE
    /\ UNCHANGED <<catalog, i, best, decision>>

Next == Consider \/ Finish

Spec == Init /\ [][Next]_vars

-----------------------------------------------------------------------------
\* Type correctness.
TypeOK ==
    /\ catalog \in Seq(Entry) /\ DistinctNames(catalog)
    /\ i \in 0..Len(catalog)
    /\ best \in 0..i
    /\ decision \in 0..i
    /\ done \in BOOLEAN

\* The outcome depends on the profiles and not on their order: it is the one that
\* beats every other admissible profile, or none if none is admissible
\* (planner.go:397-424, which cmd/c2k/main.go:259-263 reports).
SelectsBest ==
    done =>
        /\ best # 0 =>
             /\ catalog[best].admissible
             /\ \A j \in 1..Len(catalog) :
                   catalog[j].admissible /\ j # best =>
                       Better(catalog[best], catalog[j])
        /\ best = 0 => \A j \in 1..Len(catalog) : ~catalog[j].admissible

\* The decision that is returned is that of the profile that is returned; without
\* one it is the refusal of the first profile, and only an empty catalog has none
\* (planner.go:405-422).
DecisionMatches ==
    done => decision = IF best # 0 THEN best
                       ELSE IF catalog = << >> THEN 0 ELSE 1
=============================================================================
