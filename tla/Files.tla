-------------------------------- MODULE Files --------------------------------
(***************************************************************************)
(* The files that commands of c2k write.  `keygen' makes two files with    *)
(* writeExclusive, the private key first; `seal', `sign' and `render-k8s'  *)
(* replace one with atomicWrite.  Several commands run at a time, any      *)
(* system call may fail, a command may be killed between any two of them   *)
(* and the machine may lose power.                                         *)
(*                                                                         *)
(* The file system is external: a directory, which refers from a name to   *)
(* what was made by a process.  No code syncs a directory, so the disk may *)
(* have any entry that a name has ever had.                                *)
(***************************************************************************)
CONSTANTS
    Keygen,   \* a process for each keygen that is ever run
    Writer,   \* a process for each command that writes to --out
    KeyPath,  \* names given to keygen
    Out,      \* the name given to --out
    None

Path == KeyPath \cup {Out}
Process == Keygen \cup Writer
Which == {"private", "public", "temp"}
Inode == Process \X Which
State == {"none", "partial", "whole", "durable"}

ASSUME FilesAssumption ==
    /\ Out \notin KeyPath
    /\ Keygen \cap Writer = {}
    /\ None \notin Process \cup Inode

VARIABLES
    names,   \* the two paths that each keygen is given
    pc,      \* where each process is
    dir,     \* Path -> Inode or None
    past,    \* Path -> the entries that it has had
    content, \* Inode -> "none", "partial", "whole" or "durable"
    temp,    \* the processes whose temporary file has its first name
    kept,    \* the processes that could not remove a file
    lost     \* power was lost, which happens at most once

files == <<dir, past, content, temp, kept, lost>>
vars == <<names, pc, files>>

Init ==
    /\ names \in [Keygen -> [private: KeyPath, public: KeyPath]]
    /\ pc = [p \in Process |-> "idle"]
    /\ dir = [f \in Path |-> None]
    /\ past = [f \in Path |-> {None}]
    /\ content = [i \in Inode |-> "none"]
    /\ temp = {} /\ kept = {} /\ lost = FALSE

Ended == {"ok", "error", "undone", "dead"}
Running(p) == pc[p] \notin Ended \cup {"idle"}

Goto(p, from, to) ==
    /\ pc[p] = from
    /\ pc' = [pc EXCEPT ![p] = to]
    /\ UNCHANGED names

Point(f, i) ==
    /\ dir' = [dir EXCEPT ![f] = i]
    /\ past' = [past EXCEPT ![f] = @ \cup {i}]

Put(p, which, state) == content' = [content EXCEPT ![<<p, which>>] = state]

-----------------------------------------------------------------------------
(* writeExclusive and keygen. *)

\* Bound: only commands of one kind are run; the two kinds share no file.
OfOneKind(p) == \A q \in Process : pc[q] # "idle" => (p \in Keygen <=> q \in Keygen)

Start(p) ==
    /\ OfOneKind(p)
    /\ Goto(p, "idle", IF p \in Keygen THEN "create private" ELSE "create temp")
    /\ UNCHANGED files

\* Faulty variant: the file is opened without O_EXCL.
MayCreateAny(f) == TRUE

MayCreate(f) == dir[f] = None

\* A file of that name, or a call that fails, ends it; the public one takes the
\* private one along.
Create(p, which, path, at, next, failed) ==
    \/ /\ Goto(p, at, next)
       /\ MayCreate(path)
       /\ Point(path, <<p, which>>)
       /\ Put(p, which, "partial")
       /\ UNCHANGED <<temp, kept, lost>>
    \/ Goto(p, at, failed) /\ UNCHANGED files

\* A write that fails leaves what it has written, under the final name.
Fill(p, which, at, next, failed) ==
    \/ /\ Goto(p, at, next)
       /\ Put(p, which, "whole")
       /\ UNCHANGED <<dir, past, temp, kept, lost>>
    \/ Goto(p, at, failed) /\ UNCHANGED files

\* Sync, then Close, each of which may fail.
Sync(p, which, at, next, failed) ==
    \/ /\ \E to \in {next, failed} : Goto(p, at, to)
       /\ Put(p, which, "durable")
       /\ UNCHANGED <<dir, past, temp, kept, lost>>
    \/ Goto(p, at, failed) /\ UNCHANGED files

WritePrivate(p) ==
    \/ Create(p, "private", names[p].private, "create private", "fill private", "error")
    \/ Fill(p, "private", "fill private", "sync private", "error")
    \/ Sync(p, "private", "sync private", "create public", "error")

\* Faulty variant: nobody looks at the error of the public file.
WritePublicAnyway(p) ==
    \/ Create(p, "public", names[p].public, "create public", "fill public", "ok")
    \/ Fill(p, "public", "fill public", "sync public", "ok")
    \/ Sync(p, "public", "sync public", "ok", "ok")

WritePublic(p) ==
    \/ Create(p, "public", names[p].public, "create public", "fill public", "undo")
    \/ Fill(p, "public", "fill public", "sync public", "undo")
    \/ Sync(p, "public", "sync public", "ok", "undo")

RemovePrivate(p) == [dir EXCEPT ![names[p].private] = None]

\* The private file goes when the public one cannot be made.
Undo(p) ==
    /\ Goto(p, "undo", "undone")
    /\ \/ dir' = RemovePrivate(p) /\ UNCHANGED kept
       \/ kept' = kept \cup {p} /\ UNCHANGED dir
    /\ UNCHANGED <<past, content, temp, lost>>

-----------------------------------------------------------------------------
(* atomicWrite.  os.CreateTemp gives every process a name of its own.        *)

CreateTemp(p) ==
    \/ /\ Goto(p, "create temp", "fill temp")
       /\ temp' = temp \cup {p}
       /\ Put(p, "temp", "partial")
       /\ UNCHANGED <<dir, past, kept, lost>>
    \/ Goto(p, "create temp", "error") /\ UNCHANGED files

\* Chmod and Write.
FillTemp(p) == Fill(p, "temp", "fill temp", "sync temp", "remove, error")

\* Faulty variant: the file is closed without a sync.
SyncTempNot(p) ==
    \E to \in {"rename", "remove, error"} : Goto(p, "sync temp", to) /\ UNCHANGED files

SyncTemp(p) == Sync(p, "temp", "sync temp", "rename", "remove, error")

Rename(p) ==
    \/ /\ Goto(p, "rename", "remove, ok")
       /\ Point(Out, <<p, "temp">>)
       /\ temp' = temp \ {p}
       /\ UNCHANGED <<content, kept, lost>>
    \/ Goto(p, "rename", "remove, error") /\ UNCHANGED files

\* Faulty variant: the temporary file is left to somebody else after an error.
RemoveTempNot(p) ==
    /\ \/ Goto(p, "remove, ok", "ok")
       \/ Goto(p, "remove, error", "error")
    /\ UNCHANGED files

\* The deferred removal, for which a missing file is no error.
RemoveTemp(p) ==
    /\ \/ Goto(p, "remove, ok", "ok")
       \/ Goto(p, "remove, error", "error")
    /\ \/ temp' = temp \ {p} /\ UNCHANGED kept
       \/ p \in temp /\ kept' = kept \cup {p} /\ UNCHANGED temp
    /\ UNCHANGED <<dir, past, content, lost>>

AtomicWrite(p) ==
    CreateTemp(p) \/ FillTemp(p) \/ SyncTemp(p) \/ Rename(p) \/ RemoveTemp(p)

-----------------------------------------------------------------------------
(* What happens to them. *)

Kill(p) ==
    /\ Running(p)
    /\ pc' = [pc EXCEPT ![p] = "dead"]
    /\ UNCHANGED <<names, files>>

\* Whoever finds remains of a key file removes them, while no keygen runs.
RemoveByHand(f) ==
    /\ \A p \in Keygen : ~Running(p)
    /\ dir' = [dir EXCEPT ![f] = None]
    /\ UNCHANGED <<names, pc, past, content, temp, kept, lost>>

\* Every process ends and the entries are those of the disk; what was not
\* synced may be torn.
PowerLoss ==
    /\ ~lost /\ lost' = TRUE
    /\ pc' = [p \in Process |-> IF Running(p) THEN "dead" ELSE pc[p]]
    /\ dir' \in {d \in [Path -> UNION {past[f] : f \in Path}] : \A f \in Path : d[f] \in past[f]}
    /\ \E torn \in SUBSET {i \in Inode : content[i] = "whole"} :
          content' = [i \in Inode |-> IF i \in torn THEN "partial" ELSE content[i]]
    /\ temp' \in SUBSET {p \in Process : content[<<p, "temp">>] # "none"}
    /\ UNCHANGED <<names, past, kept>>

Next ==
    \/ \E p \in Process : Start(p) \/ Kill(p)
    \/ \E p \in Keygen : WritePrivate(p) \/ WritePublic(p) \/ Undo(p)
    \/ \E p \in Writer : AtomicWrite(p)
    \/ \E f \in KeyPath : RemoveByHand(f)
    \/ PowerLoss

Spec == Init /\ [][Next]_vars

-----------------------------------------------------------------------------
KeygenCode == {"idle", "ok", "error", "undone", "dead", "undo",
               "create private", "fill private", "sync private",
               "create public", "fill public", "sync public"}
WriterCode == {"idle", "ok", "error", "dead", "create temp", "fill temp", "sync temp",
               "rename", "remove, ok", "remove, error"}

\* Type correctness.
TypeOK ==
    /\ names \in [Keygen -> [private: KeyPath, public: KeyPath]]
    /\ pc \in [Process -> KeygenCode \cup WriterCode]
    /\ \A p \in Keygen : pc[p] \in KeygenCode
    /\ \A p \in Writer : pc[p] \in WriterCode
    /\ dir \in [Path -> Inode \cup {None}]
    /\ past \in [Path -> SUBSET (Inode \cup {None})]
    /\ content \in [Inode -> State]
    /\ temp \subseteq Process /\ kept \subseteq Process
    /\ lost \in BOOLEAN

\* Who opens a profile, a signature or a manifest never finds half of one,
\* whoever is killed while writing it, and not after a power loss either
\* (main.go:448-480).
NeverTorn == dir[Out] # None => content[dir[Out]] \in {"whole", "durable"}

\* However a command returned, unless a removal failed, it has left no temporary
\* file, and a keygen that failed has not left both keys: no private one if it is
\* the public one that could not be made, no public one if it is the private one
\* (main.go:160-166, 463).  The private file itself stays, as far as it was written,
\* if its own write, sync or close failed: nothing removes it then.
NothingLeftBehind ==
    ~lost =>
        \A p \in Process \ kept :
            /\ pc[p] \in {"ok", "error"} => p \notin temp
            /\ pc[p] = "undone" => dir[names[p].private] # <<p, "private">>
            /\ p \in Keygen /\ pc[p] = "error" =>
                   \A f \in Path : dir[f] # <<p, "public">>

\* A step of p that is not its end by a signal.
Steps(p) == pc'[p] # pc[p] /\ pc'[p] # "dead"

\* keygen makes files where there are none and removes only what it made itself:
\* no run of it, also of several at once, on shared or crossed names and over the
\* remains of others, costs anybody a key (main.go:160-166, 427).
OnlyOwnFiles ==
    [][\A p \in Process, f \in KeyPath :
          Steps(p) /\ dir'[f] # dir[f] =>
              (dir[f] = None \/ dir[f][1] = p)]_vars

\* keygen that reports its key pair has both halves, whole and its own, under
\* their names (main.go:144-168).
SuccessIsPair ==
    [][\A p \in Keygen :
          pc[p] # "ok" /\ pc'[p] = "ok" =>
              /\ dir'[names[p].private] = <<p, "private">>
              /\ dir'[names[p].public] = <<p, "public">>
              /\ content'[<<p, "private">>] = "durable"
              /\ content'[<<p, "public">>] = "durable"]_vars

-----------------------------------------------------------------------------
(* The file at Out implements AtomicFile. *)

Status(p) ==
    CASE pc[p] \in {"create temp", "fill temp", "sync temp", "rename", "remove, error"}
            -> "running"
      [] pc[p] = "remove, ok" -> "written"
      [] OTHER -> pc[p]

Value == IF dir[Out] = None THEN None
         ELSE IF content[dir[Out]] = "partial" THEN "torn" ELSE dir[Out][1]

Abstract == INSTANCE AtomicFile WITH
    value <- Value,
    published <- {i[1] : i \in past[Out] \ {None}},
    status <- [p \in Writer |-> Status(p)]

\* Every write of Out takes effect at one moment or not at all, as its writer
\* reports, and a power loss brings back a whole earlier file or none.
ImplementsAtomicFile == Abstract!Spec
=============================================================================
