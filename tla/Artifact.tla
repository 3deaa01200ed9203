------------------------------ MODULE Artifact ------------------------------
(***************************************************************************)
(* pkg/artifact: Stage checks the certified executable and copies it into  *)
(* a private directory, while other processes may replace, rewrite or      *)
(* chmod the source between any two of its system calls.  Contents are     *)
(* sequences of blocks (a block is what one read returns), sizes count     *)
(* blocks, and an inode outlives the name that led to it.                  *)
(***************************************************************************)
EXTENDS Integers, Sequences

CONSTANTS
    Inode,       \* files the path can lead to
    Outside,     \* those outside the artifact root
    Block,       \* blocks of data
    Missing,     \* the path leads nowhere
    Hash(_),     \* digest of a content
    Digest,      \* spec.Digest
    SizeBytes,   \* spec.SizeBytes
    MaxBytes,    \* spec.MaxBytes
    MaxLen,      \* bound of the length of a source file
    MaxEdits     \* bound of the number of foreign changes

ASSUME ArtifactAssumption ==
    /\ Outside \subseteq Inode
    /\ Missing \notin Inode
    /\ SizeBytes \in Nat \ {0}
    /\ MaxBytes \in Nat /\ SizeBytes <= MaxBytes
    /\ MaxLen \in Nat /\ MaxEdits \in Nat

\* What fstat says: a regular, executable file that only its owner writes, or
\* a file that fails one of these three checks.  One of the latter is a FIFO,
\* which open(2) waits on until somebody opens it for writing.
Mode == {"fit", "unfit", "fifo"}

Content == UNION {[1..n -> Block] : n \in 0..MaxLen}

VARIABLES
    target,    \* inode the artifact path leads to, or Missing
    content,   \* inode -> its bytes
    mode,      \* inode -> what fstat says of it
    edits,     \* foreign changes so far
    relative,  \* spec.Path is relative and stays below the root lexically
    pc,        \* next step of Stage
    fd,        \* inode the source descriptor is open on
    dir,       \* the private stage directory exists
    kept,      \* os.RemoveAll of it failed
    staged,    \* bytes of the staged file
    hashed,    \* bytes the hasher has seen
    ioFailed   \* some system call failed on its own account

source == <<target, content, mode, edits, relative>>
stage == <<pc, fd, dir, kept, staged, hashed, ioFailed>>
vars == <<source, stage>>

-----------------------------------------------------------------------------
Init ==
    /\ target \in Inode \cup {Missing}
    /\ content \in [Inode -> Content]
    /\ mode \in [Inode -> Mode]
    /\ \A i \in Inode : mode[i] = "fifo" => content[i] = << >>
    /\ edits = 0
    /\ relative \in BOOLEAN
    /\ pc = "resolve"
    /\ fd = Missing
    /\ dir = FALSE
    /\ kept = FALSE
    /\ staged = << >>
    /\ hashed = << >>
    /\ ioFailed = FALSE

\* The error returns before the stage directory exists.
Refuse ==
    /\ pc' = "failed"
    /\ UNCHANGED <<fd, dir, kept, staged, hashed>>

\* Faulty variant: an error return that forgets cleanup().
DiscardWithoutCleanup ==
    /\ pc' = "failed"
    /\ UNCHANGED <<fd, dir, kept, staged, hashed>>

\* cleanup() removes the directory and what is in it.  It may fail before or
\* after the file in it is gone, and nobody looks at its error.
RemoveAll ==
    \/ dir' = FALSE /\ staged' = << >> /\ UNCHANGED kept
    \/ dir' = TRUE /\ staged' \in {staged, << >>} /\ kept' = TRUE

\* The error returns after.
Discard ==
    /\ pc' = "failed"
    /\ RemoveAll
    /\ UNCHANGED <<fd, hashed>>

\* Any system call may fail for reasons of its own (EIO, ENOSPC, EMFILE).
IOError(errorReturn) == errorReturn /\ ioFailed' = TRUE

Advance(to) == pc' = to /\ UNCHANGED ioFailed

\* Abs, EvalSymlinks of the root and of the candidate, within.
Resolve ==
    /\ pc = "resolve"
    /\ \/ /\ relative /\ target \in Inode \ Outside
          /\ Advance("open")
          /\ UNCHANGED <<fd, dir, kept, staged, hashed>>
       \/ /\ ~(relative /\ target \in Inode \ Outside)
          /\ Refuse /\ UNCHANGED ioFailed
       \/ IOError(Refuse)
    /\ UNCHANGED source

\* Faulty variant: the name is taken to lead somewhere still.
OpenUnchecked ==
    /\ pc = "open"
    /\ fd' = target
    /\ Advance("stat")
    /\ UNCHANGED <<source, dir, kept, staged, hashed>>

\* os.Open follows whatever the resolved name leads to by now.  It comes before
\* the check of the file's type and does not ask for O_NONBLOCK: on a FIFO it
\* waits.
Open ==
    /\ pc = "open"
    /\ \/ /\ target # Missing
          /\ fd' = target
          /\ Advance(IF mode[target] = "fifo" THEN "blocked" ELSE "stat")
          /\ UNCHANGED <<dir, kept, staged, hashed>>
       \/ target = Missing /\ Refuse /\ UNCHANGED ioFailed
       \/ IOError(Refuse)
    /\ UNCHANGED source

Acceptable(i) ==
    mode[i] = "fit" /\ Len(content[i]) = SizeBytes /\ Len(content[i]) <= MaxBytes

Stat ==
    /\ pc = "stat"
    /\ \/ /\ Acceptable(fd)
          /\ Advance("create")
          /\ UNCHANGED <<fd, dir, kept, staged, hashed>>
       \/ ~Acceptable(fd) /\ Refuse /\ UNCHANGED ioFailed
       \/ IOError(Refuse)
    /\ UNCHANGED source

\* MkdirTemp, Chmod 0700 and the exclusive create of the file in it.
Create ==
    /\ pc = "create"
    /\ \/ /\ dir' = TRUE
          /\ Advance("copy")
          /\ UNCHANGED <<fd, kept, staged, hashed>>
       \/ IOError(Refuse)
       \/ IOError(Discard)
    /\ UNCHANGED source

\* Faulty variant: the digest is taken from the source file on its own.
CopyBlockHashingSource ==
    /\ pc = "copy"
    /\ Len(staged) < MaxBytes + 1
    /\ Len(staged) < Len(content[fd])
    /\ \/ /\ staged' = Append(staged, content[fd][Len(staged) + 1])
          /\ hashed' = content[fd]
          /\ UNCHANGED <<pc, fd, dir, kept, ioFailed>>
       \/ IOError(Discard)
    /\ UNCHANGED source

\* Faulty variant: no LimitReader.
CopyBlockUnlimited ==
    /\ pc = "copy"
    /\ Len(staged) < Len(content[fd])
    /\ LET b == content[fd][Len(staged) + 1] IN
        \/ /\ staged' = Append(staged, b)
           /\ hashed' = Append(hashed, b)
           /\ UNCHANGED <<pc, fd, dir, kept, ioFailed>>
        \/ IOError(Discard)
    /\ UNCHANGED source

\* One turn of io.Copy: read at the descriptor's offset, which is what was
\* copied so far, and give the block to the file and to the hasher.  The
\* LimitReader ends the copy one block after MaxBytes.
CopyBlock ==
    /\ pc = "copy"
    /\ Len(staged) < MaxBytes + 1
    /\ Len(staged) < Len(content[fd])
    /\ LET b == content[fd][Len(staged) + 1] IN
        \/ /\ staged' = Append(staged, b)
           /\ hashed' = Append(hashed, b)
           /\ UNCHANGED <<pc, fd, dir, kept, ioFailed>>
        \/ IOError(Discard)
    /\ UNCHANGED source

\* Faulty variant: a short read is retried for ever.
CopyEndAtLimit ==
    /\ pc = "copy"
    /\ Len(staged) >= MaxBytes + 1
    /\ Advance("verify")
    /\ UNCHANGED <<source, fd, dir, kept, staged, hashed>>

\* End of the source, or of the limit: Sync and Close follow.
CopyEnd ==
    /\ pc = "copy"
    /\ Len(staged) >= MaxBytes + 1 \/ Len(staged) >= Len(content[fd])
    /\ \/ Advance("verify") /\ UNCHANGED <<fd, dir, kept, staged, hashed>>
       \/ IOError(Discard)
    /\ UNCHANGED source

\* Faulty variant: the size limit is off by one.
VerifyBelowMax ==
    LET certified ==
          /\ Len(staged) = SizeBytes /\ Len(staged) < MaxBytes
          /\ Hash(hashed) = Digest
    IN
    /\ pc = "verify"
    /\ \/ certified /\ Advance("staged") /\ UNCHANGED <<fd, dir, kept, staged, hashed>>
       \/ ~certified /\ Discard /\ UNCHANGED ioFailed
       \/ IOError(Discard)
    /\ UNCHANGED source

\* The size and the digest of what was copied, and the final Chmod.
Verify ==
    LET certified ==
          /\ Len(staged) = SizeBytes /\ Len(staged) <= MaxBytes
          /\ Hash(hashed) = Digest
    IN
    /\ pc = "verify"
    /\ \/ certified /\ Advance("staged") /\ UNCHANGED <<fd, dir, kept, staged, hashed>>
       \/ ~certified /\ Discard /\ UNCHANGED ioFailed
       \/ IOError(Discard)
    /\ UNCHANGED source

\* Staged.Cleanup, which the launcher defers and whose error it drops.
Cleanup ==
    /\ pc = "staged"
    /\ pc' = "cleaned"
    /\ RemoveAll
    /\ UNCHANGED <<source, fd, hashed, ioFailed>>

Stage ==
    \/ Resolve \/ Open \/ Stat \/ Create \/ CopyBlock \/ CopyEnd
    \/ Verify \/ Cleanup

-----------------------------------------------------------------------------
\* Other processes: a new file under the name, a write in place, a chmod (a
\* FIFO holds no bytes and stays one).
ForeignChange ==
    LET Regular == {i \in Inode : mode[i] # "fifo"} IN
    /\ edits < MaxEdits
    /\ edits' = edits + 1
    /\ \/ /\ target' \in (Inode \cup {Missing}) \ {target}
          /\ UNCHANGED <<content, mode>>
       \/ /\ \E i \in Regular, c \in Content :
               content' = [content EXCEPT ![i] = c]
          /\ UNCHANGED <<target, mode>>
       \/ /\ \E i \in Regular, m \in {"fit", "unfit"} :
               mode' = [mode EXCEPT ![i] = m]
          /\ UNCHANGED <<target, content>>
    /\ UNCHANGED <<relative, stage>>

\* Somebody opens the FIFO for writing, and open(2) returns.
WriterComes ==
    /\ pc = "blocked"
    /\ pc' = "stat"
    /\ UNCHANGED <<source, fd, dir, kept, staged, hashed, ioFailed>>

Next == Stage \/ ForeignChange \/ WriterComes

\* Stage goes on while it can.  Nobody has to open a FIFO for writing.
Spec == Init /\ [][Next]_vars /\ WF_vars(Stage)

-----------------------------------------------------------------------------
Step == {"resolve", "open", "blocked", "stat", "create", "copy", "verify",
         "staged", "failed", "cleaned"}

\* Type correctness.
TypeOK ==
    /\ target \in Inode \cup {Missing}
    /\ content \in [Inode -> Content]
    /\ mode \in [Inode -> Mode]
    /\ edits \in 0..MaxEdits
    /\ relative \in BOOLEAN
    /\ pc \in Step
    /\ fd \in Inode \cup {Missing}
    /\ (pc \in {"blocked", "stat", "create", "copy", "verify", "staged"} => fd \in Inode)
    /\ dir \in BOOLEAN /\ kept \in BOOLEAN
    /\ staged \in Seq(Block)
    /\ hashed \in Seq(Block)
    /\ ioFailed \in BOOLEAN

\* Whatever happens to the source meanwhile, the file that is handed to the
\* launcher has the certified digest and size (artifact.go:30-33 "closing the
\* ordinary verify/exec TOCTOU window").
StagedIsCertified ==
    pc = "staged" =>
        dir /\ Hash(staged) = Digest /\ Len(staged) = SizeBytes

\* A Stage that returns an error, and a Staged that was cleaned up, leave the
\* directory behind only if os.RemoveAll itself failed: no error path forgets
\* its cleanup() (artifact.go:87-125), and none that made no directory says so.
NothingLeftBehind ==
    pc \in {"failed", "cleaned"} => dir = kept /\ (dir \/ staged = << >>)

\* A source that grows while it is copied cannot fill the disk: at most one
\* block more than maxBytes is written (LimitReader, artifact.go:98).
CopyBounded == Len(staged) <= MaxBytes + 1

\* Stage refuses nothing it should stage: with nobody touching the source and
\* no failing system call, an error means that the source is not acceptable.
NoSpuriousFailure ==
    pc = "failed" /\ edits = 0 /\ ~ioFailed =>
        \/ ~relative
        \/ target \notin Inode \ Outside
        \/ ~Acceptable(target)
        \/ Hash(content[target]) # Digest

\* Stage returns, also when the source is rewritten all the time, unless the
\* path leads to a FIFO at the moment of os.Open (artifact.go:58), before its
\* type is looked at (:67), and nobody ever writes to that FIFO: no deadline
\* covers staging (launcher.go:87 against :106).
StageReturns == <>[](pc \in {"failed", "cleaned", "blocked"})
=============================================================================
