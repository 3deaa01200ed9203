--------------------------- MODULE ArtifactProofs ---------------------------
(***************************************************************************)
(* Proofs about staging, for any root, files, contents, sizes, digest, any *)
(* hash function and any number of foreign changes.                        *)
(***************************************************************************)
EXTENDS Artifact, TLAPS

\* Before the directory is made nothing is written; from then on the hasher
\* and the staged file have seen the same bytes.
StageInv ==
    /\ pc \in {"resolve", "open", "blocked", "stat", "create"} =>
          ~dir /\ staged = << >> /\ hashed = << >>
    /\ pc \in {"copy", "verify", "staged"} => dir /\ staged = hashed
    /\ pc \notin {"failed", "cleaned"} => ~kept

IInv == TypeOK /\ StageInv /\ StagedIsCertified /\ NothingLeftBehind /\ CopyBounded

USE ArtifactAssumption

LEMMA EmptyCopy == << >> \in Seq(Block) /\ Len(<< >>) <= MaxBytes + 1
OBVIOUS

LEMMA InitInv == Init => IInv
<1> SUFFICES ASSUME Init PROVE IInv
  OBVIOUS
<1>1. TypeOK
  <2>1. pc \in Step /\ ~(pc \in {"blocked", "stat", "create", "copy", "verify", "staged"})
    BY DEF Init, Step
  <2>2. staged \in Seq(Block) /\ hashed \in Seq(Block)
    BY EmptyCopy DEF Init
  <2>3. edits \in 0..MaxEdits
    BY DEF Init
  <2>4. relative \in BOOLEAN /\ dir \in BOOLEAN /\ kept \in BOOLEAN /\ ioFailed \in BOOLEAN
    BY Zenon DEF Init
  <2>5. /\ target \in Inode \cup {Missing} /\ fd \in Inode \cup {Missing}
        /\ content \in [Inode -> Content] /\ mode \in [Inode -> Mode]
    BY DEF Init
  <2>. QED BY <2>1, <2>2, <2>3, <2>4, <2>5 DEF TypeOK
<1>2. StageInv /\ StagedIsCertified /\ NothingLeftBehind
  BY DEF Init, StageInv, StagedIsCertified, NothingLeftBehind
<1>3. CopyBounded
  BY EmptyCopy DEF Init, CopyBounded
<1>. QED BY <1>1, <1>2, <1>3 DEF IInv

\* A step of Stage that writes no byte: what is left to show is its typing and
\* the certificate of what it returns.
LEMMA NoWrite ==
    ASSUME IInv, UNCHANGED <<source, staged, hashed>>,
           pc' \in Step, fd' \in Inode \cup {Missing}, dir' \in BOOLEAN, kept' \in BOOLEAN,
           ioFailed' \in BOOLEAN,
           pc' \in {"blocked", "stat", "create", "copy", "verify", "staged"} => fd' \in Inode,
           StageInv', StagedIsCertified', NothingLeftBehind'
    PROVE  IInv'
<1>1. TypeOK'
  BY DEF IInv, TypeOK, source
<1>2. CopyBounded'
  BY DEF IInv, CopyBounded
<1>. QED BY <1>1, <1>2 DEF IInv

-----------------------------------------------------------------------------
\* The two error returns: without a directory yet, and with cleanup().
LEMMA RefuseInv ==
    ASSUME IInv, pc \in {"resolve", "open", "blocked", "stat", "create"}, Refuse,
           ioFailed' \in BOOLEAN, UNCHANGED source
    PROVE  IInv'
<1>1. dir = FALSE /\ kept = FALSE
  <2>1. dir \in BOOLEAN /\ kept \in BOOLEAN /\ ~dir /\ ~kept
    BY DEF IInv, TypeOK, StageInv
  <2>. QED BY <2>1
<1>2. StageInv' /\ StagedIsCertified' /\ NothingLeftBehind'
  BY <1>1 DEF IInv, StageInv, StagedIsCertified, NothingLeftBehind, Refuse
<1>. QED BY <1>2, NoWrite DEF Refuse, IInv, TypeOK, Step

\* What the removal leaves is the file or nothing.
LEMMA RemoveAllIs ==
    ASSUME IInv, RemoveAll
    PROVE  /\ dir' \in BOOLEAN /\ kept' \in BOOLEAN
           /\ staged' \in Seq(Block) /\ Len(staged') <= MaxBytes + 1
           /\ ~kept => dir' = kept' /\ (dir' \/ staged' = << >>)
<1>1. staged \in Seq(Block) /\ Len(staged) <= MaxBytes + 1 /\ kept \in BOOLEAN
  BY DEF IInv, TypeOK, CopyBounded
<1>. QED BY <1>1, EmptyCopy DEF RemoveAll

LEMMA DiscardInv ==
    ASSUME IInv, pc \notin {"failed", "cleaned"}, Discard, ioFailed' \in BOOLEAN,
           UNCHANGED source
    PROVE  IInv'
<1>1. ~kept
  BY DEF IInv, StageInv
<1>2. TypeOK'
  BY RemoveAllIs DEF IInv, TypeOK, Discard, Step, source
<1>3. StageInv' /\ StagedIsCertified' /\ NothingLeftBehind'
  BY <1>1, RemoveAllIs DEF StageInv, StagedIsCertified, NothingLeftBehind, Discard
<1>4. CopyBounded'
  BY RemoveAllIs DEF CopyBounded, Discard
<1>. QED BY <1>2, <1>3, <1>4 DEF IInv

-----------------------------------------------------------------------------
LEMMA StageStepInv == ASSUME IInv, Stage PROVE IInv'
<1> USE DEF Advance, IOError
<1>1. ioFailed' \in BOOLEAN /\ UNCHANGED source
  BY DEF Stage, Resolve, Open, Stat, Create, CopyBlock, CopyEnd, Verify,
         Cleanup, IInv, TypeOK
<1>2. CASE Resolve
  <2>1. CASE pc = "resolve" /\ pc' = "open" /\ UNCHANGED <<fd, dir, kept, staged, hashed>>
    <3>1. StageInv' /\ StagedIsCertified' /\ NothingLeftBehind'
      BY <2>1 DEF IInv, StageInv, StagedIsCertified, NothingLeftBehind
    <3>. QED BY <1>1, <2>1, <3>1, NoWrite DEF IInv, TypeOK, Step
  <2>. QED BY <1>1, <1>2, <2>1, RefuseInv DEF Resolve
<1>3. CASE Open
  <2>1. CASE pc = "open" /\ pc' \in {"blocked", "stat"} /\ fd' = target
              /\ target # Missing /\ UNCHANGED <<dir, kept, staged, hashed>>
    <3>1. StageInv' /\ StagedIsCertified' /\ NothingLeftBehind'
      BY <2>1 DEF IInv, StageInv, StagedIsCertified, NothingLeftBehind
    <3>. QED BY <1>1, <2>1, <3>1, NoWrite DEF IInv, TypeOK, Step
  <2>. QED BY <1>1, <1>3, <2>1, RefuseInv DEF Open
<1>4. CASE Stat
  <2>1. CASE pc = "stat" /\ pc' = "create" /\ UNCHANGED <<fd, dir, kept, staged, hashed>>
    <3>1. StageInv' /\ StagedIsCertified' /\ NothingLeftBehind'
      BY <2>1 DEF IInv, StageInv, StagedIsCertified, NothingLeftBehind
    <3>. QED BY <1>1, <2>1, <3>1, NoWrite DEF IInv, TypeOK, Step
  <2>. QED BY <1>1, <1>4, <2>1, RefuseInv DEF Stat
<1>5. CASE Create
  <2>1. CASE pc = "create" /\ pc' = "copy" /\ dir' = TRUE /\ UNCHANGED <<fd, kept, staged, hashed>>
    <3>1. StageInv' /\ StagedIsCertified' /\ NothingLeftBehind'
      BY <2>1 DEF IInv, StageInv, StagedIsCertified, NothingLeftBehind
    <3>. QED BY <1>1, <2>1, <3>1, NoWrite DEF IInv, TypeOK, Step
  <2>. QED BY <1>1, <1>5, <2>1, RefuseInv, DiscardInv DEF Create
<1>6. CASE CopyBlock
  <2>1. CASE IOError(Discard)
    BY <1>1, <1>6, <2>1, DiscardInv DEF CopyBlock
  <2> DEFINE b == content[fd][Len(staged) + 1]
  <2>2. CASE /\ staged' = Append(staged, b)
             /\ hashed' = Append(hashed, b)
             /\ UNCHANGED <<pc, fd, dir, kept, ioFailed>>
    <3>1. /\ pc = "copy" /\ fd \in Inode
          /\ Len(staged) < MaxBytes + 1
          /\ Len(staged) < Len(content[fd])
      BY <1>6 DEF CopyBlock, IInv, TypeOK
    <3>2. b \in Block
      <4>1. PICK n \in 0..MaxLen : content[fd] \in [1..n -> Block]
        BY <3>1 DEF IInv, TypeOK, Content
      <4>2. Len(content[fd]) = n
        BY <4>1
      <4>3. Len(staged) \in Nat
        BY DEF IInv, TypeOK
      <4>. QED BY <3>1, <4>1, <4>2, <4>3
    <3>3. /\ staged' \in Seq(Block) /\ hashed' \in Seq(Block)
          /\ Len(staged') = Len(staged) + 1 /\ staged' = hashed'
      BY <2>2, <3>1, <3>2 DEF IInv, TypeOK, StageInv
    <3>4. TypeOK'
      BY <1>1, <2>2, <3>1, <3>3 DEF IInv, TypeOK, source
    <3>5. StageInv' /\ StagedIsCertified' /\ NothingLeftBehind'
      BY <2>2, <3>1, <3>3 DEF IInv, StageInv, StagedIsCertified, NothingLeftBehind
    <3>6. CopyBounded'
      BY <3>1, <3>3 DEF CopyBounded, IInv, TypeOK
    <3>. QED BY <3>4, <3>5, <3>6 DEF IInv
  <2>. QED BY <1>6, <2>1, <2>2 DEF CopyBlock
<1>7. CASE CopyEnd
  <2>1. CASE pc = "copy" /\ pc' = "verify" /\ UNCHANGED <<fd, dir, kept, staged, hashed>>
    <3>1. StageInv' /\ StagedIsCertified' /\ NothingLeftBehind'
      BY <2>1 DEF IInv, StageInv, StagedIsCertified, NothingLeftBehind
    <3>. QED BY <1>1, <2>1, <3>1, NoWrite DEF IInv, TypeOK, Step
  <2>. QED BY <1>1, <1>7, <2>1, DiscardInv DEF CopyEnd
<1>8. CASE Verify
  <2>1. CASE /\ pc = "verify" /\ pc' = "staged" /\ UNCHANGED <<fd, dir, kept, staged, hashed>>
             /\ Len(staged) = SizeBytes /\ Hash(hashed) = Digest
    <3>1. StageInv' /\ StagedIsCertified' /\ NothingLeftBehind'
      BY <2>1 DEF IInv, StageInv, StagedIsCertified, NothingLeftBehind
    <3>. QED BY <1>1, <2>1, <3>1, NoWrite DEF IInv, TypeOK, Step
  <2>. QED BY <1>1, <1>8, <2>1, DiscardInv DEF Verify
<1>9. CASE Cleanup
  <2>1. pc = "staged" /\ ~kept
    BY <1>9 DEF Cleanup, IInv, StageInv
  <2>2. TypeOK'
    BY <1>1, <1>9, RemoveAllIs DEF Cleanup, IInv, TypeOK, Step, source
  <2>3. StageInv' /\ StagedIsCertified' /\ NothingLeftBehind'
    BY <1>9, <2>1, RemoveAllIs
    DEF Cleanup, StageInv, StagedIsCertified, NothingLeftBehind
  <2>4. CopyBounded'
    BY <1>9, RemoveAllIs DEF Cleanup, CopyBounded
  <2>. QED BY <2>2, <2>3, <2>4 DEF IInv
<1>. QED BY <1>2, <1>3, <1>4, <1>5, <1>6, <1>7, <1>8, <1>9 DEF Stage, IInv

\* No foreign change reaches the staged copy; it may only change the source.
LEMMA ForeignInv == ASSUME IInv, ForeignChange PROVE IInv'
<1>1. UNCHANGED <<pc, fd, dir, kept, staged, hashed, ioFailed, relative>>
  BY DEF ForeignChange, stage
<1>2. /\ target' \in Inode \cup {Missing}
      /\ content' \in [Inode -> Content]
      /\ edits' \in 0..MaxEdits
  BY DEF ForeignChange, IInv, TypeOK
<1>3. mode' \in [Inode -> Mode]
  BY DEF ForeignChange, IInv, TypeOK, Mode
<1>4. TypeOK'
  BY <1>1, <1>2, <1>3 DEF IInv, TypeOK
<1>. QED BY <1>1, <1>4 DEF IInv, StageInv, StagedIsCertified, NothingLeftBehind, CopyBounded

LEMMA WriterComesInv == ASSUME IInv, WriterComes PROVE IInv'
<1>1. StageInv' /\ StagedIsCertified' /\ NothingLeftBehind'
  BY DEF WriterComes, IInv, StageInv, StagedIsCertified, NothingLeftBehind
<1>. QED BY <1>1, NoWrite DEF WriterComes, IInv, TypeOK, Step, source

LEMMA NextInv == IInv /\ [Next]_vars => IInv'
<1> SUFFICES ASSUME IInv, [Next]_vars PROVE IInv'
  OBVIOUS
<1>1. CASE UNCHANGED vars
  BY <1>1 DEF vars, source, stage, IInv, TypeOK, StageInv, StagedIsCertified,
              NothingLeftBehind, CopyBounded
<1>. QED BY <1>1, StageStepInv, ForeignInv, WriterComesInv DEF Next

THEOREM Invariance == Spec => []IInv
BY InitInv, NextInv, PTL DEF Spec

\* Type correctness of staging.
THEOREM TypeCorrect == Spec => []TypeOK
<1>1. IInv => TypeOK
  BY DEF IInv
<1>. QED BY <1>1, Invariance, PTL

\* However the source is replaced, rewritten or chmodded while Stage runs, the
\* file it returns has the certified digest and size (artifact.go:97-126).
THEOREM CertifiedBytes == Spec => []StagedIsCertified
<1>1. IInv => StagedIsCertified
  BY DEF IInv
<1>. QED BY <1>1, Invariance, PTL

\* No error path of Stage leaves the private directory behind, and neither does
\* Cleanup, unless the removal of the directory itself failed
\* (artifact.go:23-28, 86-125).
THEOREM CleanFailure == Spec => []NothingLeftBehind
<1>1. IInv => NothingLeftBehind
  BY DEF IInv
<1>. QED BY <1>1, Invariance, PTL

\* No more than maxBytes plus one block is ever written.
THEOREM BoundedCopy == Spec => []CopyBounded
<1>1. IInv => CopyBounded
  BY DEF IInv
<1>. QED BY <1>1, Invariance, PTL

-----------------------------------------------------------------------------
(* Stage does not fail for nothing.  The invariant follows an undisturbed   *)
(* run: what was checked is still so, and what is copied is a prefix of it. *)

Undisturbed == edits = 0 /\ ~ioFailed

UndisturbedInv ==
    Undisturbed =>
        /\ pc \in {"open", "blocked", "stat", "create", "copy", "verify"} =>
              relative /\ target \in Inode \ Outside
        /\ pc \in {"blocked", "stat", "create", "copy", "verify"} => fd = target
        /\ pc \in {"create", "copy", "verify"} => Acceptable(target)
        /\ pc = "copy" =>
              /\ Len(staged) <= Len(content[target])
              /\ \A k \in 1..Len(staged) : staged[k] = content[target][k]
        /\ pc = "verify" => staged = content[target]

FaultInv == IInv /\ UndisturbedInv /\ NoSpuriousFailure

\* A content is a sequence of blocks.
LEMMA ContentIs == ASSUME NEW c \in Content PROVE c \in Seq(Block)
<1>1. PICK n \in 0..MaxLen : c \in [1..n -> Block]
  BY DEF Content
<1>. QED BY <1>1

LEMMA FaultInit == Init => FaultInv
<1> SUFFICES ASSUME Init PROVE FaultInv
  OBVIOUS
<1>1. UndisturbedInv /\ NoSpuriousFailure
  BY DEF Init, UndisturbedInv, NoSpuriousFailure
<1>. QED BY <1>1, InitInv DEF FaultInv

\* A disturbed state satisfies both.
LEMMA Disturbed == ASSUME ~Undisturbed' PROVE UndisturbedInv' /\ NoSpuriousFailure'
BY DEF Undisturbed, UndisturbedInv, NoSpuriousFailure

LEMMA FaultStep == ASSUME FaultInv, Stage PROVE UndisturbedInv' /\ NoSpuriousFailure'
<1> USE DEF Advance
<1>1. UNCHANGED source
  BY DEF Stage, Resolve, Open, Stat, Create, CopyBlock, CopyEnd, Verify, Cleanup
<1>2. SUFFICES ASSUME Undisturbed' PROVE UndisturbedInv' /\ NoSpuriousFailure'
  BY Disturbed
<1>3. Undisturbed /\ ~ioFailed'
  <2>1. ioFailed => ioFailed'
    BY DEF Stage, Resolve, Open, Stat, Create, CopyBlock, CopyEnd, Verify, Cleanup, IOError
  <2>. QED BY <1>1, <1>2, <2>1 DEF Undisturbed, source
<1> USE DEF IOError
<1>4. Acceptable(target)' <=> Acceptable(target)
  BY <1>1 DEF Acceptable, source
<1>5. CASE Resolve
  BY <1>1, <1>3, <1>5 DEF Resolve, Refuse, UndisturbedInv, NoSpuriousFailure, source
<1>6. CASE Open
  BY <1>1, <1>3, <1>6 DEF Open, Refuse, UndisturbedInv, NoSpuriousFailure, source, FaultInv
<1>7. CASE Stat
  BY <1>1, <1>3, <1>4, <1>7
  DEF Stat, Refuse, UndisturbedInv, NoSpuriousFailure, source, FaultInv
<1>8. CASE Create
  <2>1. pc = "create" /\ pc' = "copy" /\ UNCHANGED <<fd, staged, hashed>>
    BY <1>3, <1>8 DEF Create
  <2>2. staged = << >> /\ content[target] \in Seq(Block)
    <3>1. target \in Inode
      BY <1>3, <2>1 DEF FaultInv, UndisturbedInv
    <3>2. content[target] \in Content
      BY <3>1 DEF FaultInv, IInv, TypeOK
    <3>. QED BY <2>1, <3>2, ContentIs DEF FaultInv, IInv, StageInv
  <2>3. UndisturbedInv'
    BY <1>1, <1>3, <1>4, <2>1, <2>2 DEF UndisturbedInv, FaultInv, source
  <2>. QED BY <2>1, <2>3 DEF NoSpuriousFailure
<1>9. CASE CopyBlock \/ CopyEnd
  <2>1. /\ pc = "copy" /\ fd = target /\ target \in Inode \ Outside /\ relative
        /\ Acceptable(target)
        /\ Len(staged) <= Len(content[target])
        /\ \A k \in 1..Len(staged) : staged[k] = content[target][k]
    BY <1>3, <1>9 DEF CopyBlock, CopyEnd, FaultInv, UndisturbedInv
  <2>2. staged \in Seq(Block) /\ content[target] \in Seq(Block)
    <3>1. content[target] \in Content
      BY <2>1 DEF FaultInv, IInv, TypeOK
    <3>. QED BY <3>1, ContentIs DEF FaultInv, IInv, TypeOK
  <2>3. CASE CopyBlock
    <3> DEFINE b == content[target][Len(staged) + 1]
    <3>1. /\ staged' = Append(staged, b) /\ UNCHANGED <<pc, fd>>
          /\ Len(staged) < Len(content[target])
      BY <1>3, <2>1, <2>3 DEF CopyBlock
    <3>2. b \in Block
      BY <2>2, <3>1
    <3>3. /\ Len(staged') = Len(staged) + 1 /\ Len(staged) \in Nat
          /\ Len(content[target]) \in Nat
          /\ staged'[Len(staged) + 1] = b
          /\ \A k \in 1..Len(staged) : staged'[k] = staged[k]
      BY <2>2, <3>1, <3>2
    <3> HIDE DEF b
    <3>4. Len(staged') <= Len(content[target])
      BY <3>1, <3>3
    <3>5. \A k \in 1..Len(staged') : staged'[k] = content[target][k]
      BY <2>1, <3>3 DEF b
    <3>6. UndisturbedInv'
      BY <1>1, <1>4, <2>1, <3>1, <3>4, <3>5 DEF UndisturbedInv, source
    <3>. QED BY <2>1, <3>1, <3>6 DEF NoSpuriousFailure
  <2>4. CASE CopyEnd
    <3>1. /\ pc' = "verify" /\ UNCHANGED <<fd, staged>>
          /\ Len(staged) >= MaxBytes + 1 \/ Len(staged) >= Len(content[target])
      BY <1>3, <2>1, <2>4 DEF CopyEnd
    <3>2. Len(staged) = Len(content[target])
      BY <2>1, <2>2, <3>1 DEF Acceptable, ArtifactAssumption
    <3>3. staged = content[target]
      BY <2>1, <2>2, <3>2
    <3>4. UndisturbedInv'
      BY <1>1, <1>4, <2>1, <3>1, <3>3 DEF UndisturbedInv, source
    <3>. QED BY <3>1, <3>4 DEF NoSpuriousFailure
  <2>. QED BY <1>9, <2>3, <2>4
<1>10. CASE Verify
  <2>1. pc = "verify" /\ pc' \in {"staged", "failed"}
    BY <1>3, <1>10 DEF Verify, Discard
  <2>2. Acceptable(target) /\ staged = content[target] /\ hashed = staged
    BY <1>3, <2>1 DEF FaultInv, UndisturbedInv, IInv, StageInv
  <2>3. Len(staged) = SizeBytes /\ Len(staged) <= MaxBytes
    BY <2>2 DEF Acceptable
  <2>4. pc' = "failed" => Hash(content[target]) # Digest
    BY <1>3, <1>10, <2>2, <2>3 DEF Verify, Discard
  <2>. QED BY <1>1, <2>1, <2>4 DEF UndisturbedInv, NoSpuriousFailure, source
<1>11. CASE Cleanup
  BY <1>11 DEF Cleanup, UndisturbedInv, NoSpuriousFailure
<1>. QED BY <1>5, <1>6, <1>7, <1>8, <1>9, <1>10, <1>11 DEF Stage

LEMMA FaultNext == FaultInv /\ [Next]_vars => FaultInv'
<1> SUFFICES ASSUME FaultInv, [Next]_vars PROVE UndisturbedInv' /\ NoSpuriousFailure'
  BY NextInv DEF FaultInv
<1>1. CASE ForeignChange
  <2>1. edits' # 0
    BY <1>1 DEF ForeignChange, FaultInv, IInv, TypeOK
  <2>. QED BY <2>1, Disturbed DEF Undisturbed
<1>2. CASE UNCHANGED vars
  BY <1>2 DEF vars, source, stage, FaultInv, UndisturbedInv, Undisturbed,
              NoSpuriousFailure, Acceptable
<1>3. CASE WriterComes
  BY <1>3 DEF WriterComes, source, FaultInv, UndisturbedInv, Undisturbed,
              NoSpuriousFailure, Acceptable
<1>. QED BY <1>1, <1>2, <1>3, FaultStep DEF Next

\* With nobody touching the source and every system call succeeding, Stage
\* refuses only what is not the certified executable (artifact.go:53-122).
THEOREM RefusesForAReason == Spec => []NoSpuriousFailure
<1>1. FaultInv => NoSpuriousFailure
  BY DEF FaultInv
<1>. QED BY <1>1, FaultInit, FaultNext, PTL DEF Spec
=============================================================================
