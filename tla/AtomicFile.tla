----------------------------- MODULE AtomicFile -----------------------------
(***************************************************************************)
(* What a file that is written with atomicWrite promises: a write takes    *)
(* effect at one moment or not at all, a writer that returns an error has  *)
(* not written and one that returns without has.  A power loss may bring   *)
(* back an earlier content, never anything else.                           *)
(***************************************************************************)
CONSTANTS Writer, None

VARIABLES
    value,     \* the writer whose content the file has, None without a file
    published, \* the writers whose content the file has had
    status     \* how far each writer is

vars == <<value, published, status>>

Init ==
    /\ value = None /\ published = {}
    /\ status = [w \in Writer |-> "idle"]

Move(w, from, to) ==
    /\ status[w] \in from
    /\ status' = [status EXCEPT ![w] = to]

Begin(w)  == Move(w, {"idle"}, "running") /\ UNCHANGED <<value, published>>
Return(w) == Move(w, {"written"}, "ok") /\ UNCHANGED <<value, published>>
Fail(w)   == Move(w, {"running"}, "error") /\ UNCHANGED <<value, published>>
Kill(w)   == Move(w, {"running", "written"}, "dead") /\ UNCHANGED <<value, published>>

Write(w) ==
    /\ Move(w, {"running"}, "written")
    /\ value' = w /\ published' = published \cup {w}

PowerLoss ==
    /\ value' \in published \cup {None}
    /\ status' = [w \in Writer |->
                     IF status[w] \in {"running", "written"} THEN "dead" ELSE status[w]]
    /\ UNCHANGED published

Next ==
    \/ \E w \in Writer : Begin(w) \/ Write(w) \/ Return(w) \/ Fail(w) \/ Kill(w)
    \/ PowerLoss

Spec == Init /\ [][Next]_vars
=============================================================================
