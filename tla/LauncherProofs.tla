--------------------------- MODULE LauncherProofs ---------------------------
(***************************************************************************)
(* Proofs about the launcher, for any number of descendants, any limit on  *)
(* the output and any amount of it.                                        *)
(***************************************************************************)
EXTENDS Launcher, TLAPS

-----------------------------------------------------------------------------
(* The invariant.  Everything hangs on whether the kernel was started, which *)
(* the watcher shows: it is "none" until then.                              *)

Before == {"evaluate", "signature", "stage", "blocked", "prepare", "start"}

Busy == {"watching", "grace", "closing", "reporting"}

Results == [signatureValid: BOOLEAN, executed: BOOLEAN, exitCode: {-1, 0, 1},
            error: ErrorCode]

\* The types, by who changes the variables.
RunType ==
    /\ opts \in Options /\ pc \in RunStep /\ result \in Results
    /\ stageDir \in BOOLEAN
    /\ waitErr \in {"nil", "start", "ctx", "exit", "delay"}

ExecType ==
    /\ deadline \in BOOLEAN
    /\ watcher \in {"none", "watching", "grace", "closing", "reporting", "done"}
    /\ watchErr \in {"nil", "ctx", "delay"}
    /\ timer \in {"off", "running", "fired"}

PipeType ==
    /\ copier \in {"none", "copying", "done"}
    /\ feeder \in {"none", "full", "fits", "done"}
    /\ ends \in {"none", "open", "cut", "closed"}
    /\ pipe \in 0..MaxProduced /\ produced \in 0..MaxProduced
    /\ buf \in [len: 0..Limit, exceeded: BOOLEAN]

ProcType ==
    /\ proc \in [Proc -> {"unborn", "running", "zombie", "gone"}]
    /\ status \in {"none", "zero", "nonzero", "killed"}
    /\ holds \subseteq Running /\ reads \subseteq Running
    /\ doomed \subseteq Running

NotStartedInv ==
    watcher = "none" =>
        /\ pc \in Before \cup {"judge", "returned"}
        /\ copier = "none" /\ feeder = "none" /\ ends = "none"
        /\ timer = "off" /\ watchErr = "nil"
        /\ pipe = 0 /\ produced = 0 /\ buf.len = 0 /\ ~buf.exceeded
        /\ \A p \in Proc : proc[p] = "unborn"
        /\ holds = {} /\ reads = {} /\ doomed = {}
        /\ pc = "judge" => waitErr # "nil"
        /\ pc = "returned" => result.error # "none" \/ opts.verifyOnly

StartedInv ==
    watcher # "none" =>
        /\ pc \notin Before /\ proc[Leader] # "unborn"
        /\ copier # "none" /\ feeder # "none" /\ ends # "none"
        /\ pc = "wait" => watcher \in Busy
        /\ pc = "awaitWatcher" => watcher \in Busy
        /\ pc \notin {"wait", "awaitWatcher"} => watcher = "done"
        /\ pc # "wait" => proc[Leader] = "gone"

\* What the watcher does, it does only once the deadline has passed.
WatcherInv ==
    /\ watcher = "watching" => watchErr = "nil"
    /\ watcher = "reporting" => CopiersDone
    /\ watcher \in {"grace", "closing", "reporting"} => deadline
    /\ watchErr # "nil" => deadline
    /\ doomed # {} => deadline

VerifiedInv ==
    pc \in {"signature", "stage", "prepare", "start"} \/ watcher # "none" =>
        /\ opts.admissible /\ ~opts.overCeiling
        /\ pc # "signature"
           /\ (opts.requireSignature \/ opts.signature \/ opts.publicKey) =>
              /\ opts.signature /\ opts.publicKey
              /\ opts.signatureOK /\ result.signatureValid
        /\ pc = "start" \/ watcher # "none" => ~opts.verifyOnly
        /\ pc \in {"prepare", "start"} \/ (watcher # "none" /\ pc # "returned") => stageDir

\* The copiers end when nobody can write any more, or because Run's ends of the
\* pipes were closed; that takes the deadline or is an error of Wait.
PipeInv ==
    /\ pipe <= produced
    /\ copier = "done" /\ ends # "cut" => holds = {} /\ pipe = 0
    /\ ends = "closed" => CopiersDone /\ pc \in {"judge", "returned"}
    /\ pc = "closing" => ends = "cut"
    /\ ends = "cut" /\ ~deadline =>
          pc = "closing" \/ (pc \in {"judge", "returned"} /\ waitErr # "nil")

\* No error of Wait means that the leader ended with status 0.
StatusInv ==
    watcher # "none" /\ pc # "wait" /\ waitErr = "nil" => status = "zero"

ReportInv ==
    /\ pc # "returned" => result.error = "none"
    /\ pc = "returned" /\ watcher # "none" =>
          \/ result.error # "none"
          \/ /\ ~deadline /\ ~buf.exceeded /\ waitErr = "nil"
             /\ result.exitCode = 0 /\ result.executed

LauncherInv ==
    /\ RunType /\ ExecType /\ PipeType /\ ProcType
    /\ NotStartedInv /\ StartedInv /\ WatcherInv /\ VerifiedInv /\ PipeInv
    /\ StatusInv /\ ReportInv
    /\ NoGoroutineLeft /\ OutputLimitExact /\ NothingEscapesCancel /\ CancelledIsTimeout

-----------------------------------------------------------------------------
(* Every step keeps it. *)

LEMMA InitHolds == Init => LauncherInv
<1> SUFFICES ASSUME Init PROVE LauncherInv
  OBVIOUS
<1>1. RunType /\ ExecType /\ PipeType /\ ProcType
  <2>1. RunType /\ ExecType
    BY DEF Init, RunType, ExecType, RunStep, Results, ErrorCode
  <2>2. PipeType
    <3>1. 0 \in 0..Limit /\ 0 \in 0..MaxProduced
      BY LauncherAssumption
    <3>2. [len |-> 0, exceeded |-> FALSE] \in [len: 0..Limit, exceeded: BOOLEAN]
      BY <3>1
    <3> QED
      BY <3>1, <3>2 DEF Init, PipeType
  <2>3. ProcType
    BY DEF Init, ProcType, Running
  <2> QED
    BY <2>1, <2>2, <2>3
<1>2. NotStartedInv /\ StartedInv /\ NoGoroutineLeft
  BY DEF Init, NotStartedInv, StartedInv, NoGoroutineLeft, Before
<1>3. WatcherInv /\ NothingEscapesCancel /\ CancelledIsTimeout
  BY DEF Init, WatcherInv, NothingEscapesCancel, CancelledIsTimeout
<1>4. PipeInv /\ OutputLimitExact
  BY DEF Init, PipeInv, OutputLimitExact
<1>5. VerifiedInv /\ StatusInv /\ ReportInv
  BY DEF Init, VerifiedInv, StatusInv, ReportInv
<1> QED
  BY <1>1, <1>2, <1>3, <1>4, <1>5 DEF LauncherInv

\* A return of Run: what it takes for the report to be right.
LEMMA ReturnKeeps ==
    ASSUME LauncherInv, NEW r \in Results, Return(r), pc \in Before \cup {"judge"},
           watcher = "none" => r.error # "none" \/ opts.verifyOnly,
           watcher # "none" =>
               /\ r.signatureValid = result.signatureValid
               /\ \/ r.error # "none"
                  \/ /\ ~deadline /\ ~buf.exceeded /\ waitErr = "nil"
                     /\ r.exitCode = 0 /\ r.executed
               /\ watchErr = "ctx" => r.error = "KERNEL_TIMEOUT"
    PROVE  LauncherInv'
<1> USE DEF CopiersDone
<1>1. (RunType /\ ExecType)'
  BY DEF LauncherInv, Return, RunType, ExecType, RunStep, runVars, execVars, ioVars,
         osVars
<1>2. (PipeType /\ ProcType)'
  BY DEF LauncherInv, Return, PipeType, PipeInv, ProcType, Before, Busy, Running, Proc,
         runVars, execVars, ioVars, osVars
<1>3. (NotStartedInv /\ StartedInv /\ NoGoroutineLeft)'
  BY DEF LauncherInv, Return, NotStartedInv, StartedInv, ReportInv, RunType, Before,
         Busy, Running, Proc, RunStep, ProcType, NoGoroutineLeft, WatcherInv, runVars,
         execVars, ioVars, osVars
<1>4. (WatcherInv /\ NothingEscapesCancel /\ CancelledIsTimeout)'
  BY DEF LauncherInv, Return, WatcherInv, NotStartedInv, StartedInv, Before, Busy,
         NothingEscapesCancel, ProcType, Running, Proc, CancelledIsTimeout, RunType,
         RunStep, runVars, execVars, ioVars, osVars
<1>5. (PipeInv /\ OutputLimitExact)'
  BY DEF LauncherInv, Return, PipeInv, StartedInv, NotStartedInv, WatcherInv, PipeType,
         NoGoroutineLeft, Before, Busy, OutputLimitExact, runVars, execVars, ioVars,
         osVars
<1>6. (VerifiedInv /\ StatusInv /\ ReportInv)'
  BY DEF LauncherInv, Return, VerifiedInv, StartedInv, NotStartedInv, RunType, Before,
         Busy, RunStep, StatusInv, ProcType, Running, Proc, ReportInv, NoGoroutineLeft,
         runVars, execVars, ioVars, osVars
<1> QED
  BY <1>1, <1>2, <1>3, <1>4, <1>5, <1>6 DEF LauncherInv

LEMMA FailIs ==
    ASSUME RunType, NEW code \in ErrorCode
    PROVE  LET r == [result EXCEPT !.error = code] IN r \in Results /\ r.error = code
BY DEF RunType, Results

LEMMA FailKeeps ==
    ASSUME LauncherInv, NEW code \in ErrorCode, Fail(code), pc \in Before,
           code # "none" \/ opts.verifyOnly
    PROVE  LauncherInv'
<1>1. watcher = "none"
  BY DEF LauncherInv, StartedInv
<1>2. RunType
  BY DEF LauncherInv
<1> QED
  BY <1>1, <1>2, FailIs, ReturnKeeps DEF Fail

\* Going on to the next check.
LEMMA AdvanceKeeps ==
    ASSUME LauncherInv, NEW next \in {"signature", "stage", "blocked", "prepare", "start"}, Goto(next),
           pc \in Before, result' \in Results, result'.error = result.error,
           stageDir' \in BOOLEAN, VerifiedInv'
    PROVE  LauncherInv'
<1> USE DEF CopiersDone
<1>1. (RunType /\ ExecType)'
  BY DEF LauncherInv, Goto, RunType, ExecType, RunStep, runVars, execVars, ioVars,
         osVars
<1>2. (PipeType /\ ProcType)'
  BY DEF LauncherInv, Goto, PipeType, PipeInv, ProcType, Before, Busy, Running, Proc,
         runVars, execVars, ioVars, osVars
<1>3. (NotStartedInv /\ StartedInv /\ NoGoroutineLeft)'
  BY DEF LauncherInv, Goto, NotStartedInv, StartedInv, ReportInv, RunType, Before, Busy,
         Running, Proc, RunStep, ProcType, NoGoroutineLeft, WatcherInv, runVars,
         execVars, ioVars, osVars
<1>4. (WatcherInv /\ NothingEscapesCancel /\ CancelledIsTimeout)'
  BY DEF LauncherInv, Goto, WatcherInv, NotStartedInv, StartedInv, Before, Busy,
         NothingEscapesCancel, ProcType, Running, Proc, CancelledIsTimeout, RunType,
         RunStep, runVars, execVars, ioVars, osVars
<1>5. (PipeInv /\ OutputLimitExact)'
  BY DEF LauncherInv, Goto, PipeInv, StartedInv, NotStartedInv, WatcherInv, PipeType,
         NoGoroutineLeft, Before, Busy, OutputLimitExact, runVars, execVars, ioVars,
         osVars
<1>6. (StatusInv /\ ReportInv)'
  BY DEF LauncherInv, Goto, StatusInv, StartedInv, NotStartedInv, ProcType, Before, Busy,
         Running, Proc, ReportInv, RunType, NoGoroutineLeft, RunStep, runVars, execVars,
         ioVars, osVars
<1> QED
  BY <1>1, <1>2, <1>3, <1>4, <1>5, <1>6 DEF LauncherInv

LEMMA EvaluateKeeps ==
    ASSUME LauncherInv, Evaluate PROVE LauncherInv'
<1>1. CASE opts.overCeiling
  <2> DEFINE r == [result EXCEPT !.exitCode = 0, !.error = "max output exceeds"]
  <2>1. Return(r) /\ pc \in Before
    BY <1>1 DEF Evaluate, Fail, Goto, Before
  <2>2. r \in Results /\ r.error = "max output exceeds"
    BY DEF LauncherInv, RunType, Results, ErrorCode
  <2>3. watcher = "none"
    BY <2>1 DEF LauncherInv, StartedInv
  <2> HIDE DEF r
  <2> QED
    BY <2>1, <2>2, <2>3, ReturnKeeps
<1>2. CASE ~opts.overCeiling /\ ~opts.admissible
  <2>1. Fail("rejected") /\ pc \in Before
    BY <1>2 DEF Evaluate, Before
  <2> QED
    BY <2>1, FailKeeps DEF ErrorCode
<1>3. CASE ~opts.overCeiling /\ opts.admissible
  <2>1. pc = "evaluate" /\ Goto("signature") /\ UNCHANGED <<result, stageDir>>
    BY <1>3 DEF Evaluate
  <2>2. VerifiedInv'
    BY <1>3, <2>1 DEF LauncherInv, StartedInv, VerifiedInv, Goto, execVars, Before
  <2> QED
    BY <2>1, <2>2, AdvanceKeeps DEF LauncherInv, RunType, Before
<1> QED
  BY <1>1, <1>2, <1>3

LEMMA CheckSignatureKeeps ==
    ASSUME LauncherInv, CheckSignature PROVE LauncherInv'
<1> DEFINE both == opts.signature /\ opts.publicKey
           either == opts.signature \/ opts.publicKey
<1>1. pc = "signature" /\ pc \in Before /\ watcher = "none"
      /\ opts \in Options /\ result \in Results /\ stageDir \in BOOLEAN
  BY DEF CheckSignature, Before, LauncherInv, StartedInv, RunType
<1>2. ASSUME NEW code \in {"CONTRACT_SIGNATURE_REQUIRED", "CONTRACT_SIGNATURE_INCOMPLETE",
                          "CONTRACT_SIGNATURE_INVALID"}, Fail(code)
      PROVE  LauncherInv'
  BY <1>1, <1>2, FailKeeps DEF ErrorCode
<1>3. CASE /\ both /\ opts.signatureOK /\ Goto("stage") /\ UNCHANGED stageDir
           /\ result' = [result EXCEPT !.signatureValid = TRUE]
  <2>1. result' \in Results /\ result'.error = result.error /\ result'.signatureValid
    BY <1>1, <1>3 DEF Results
  <2>2. VerifiedInv'
    BY <1>1, <1>3, <2>1 DEF LauncherInv, NotStartedInv, VerifiedInv, Goto, execVars
  <2> QED
    BY <1>1, <1>3, <2>1, <2>2, AdvanceKeeps
<1>4. CASE /\ ~opts.requireSignature /\ ~either /\ Goto("stage")
           /\ UNCHANGED <<result, stageDir>>
  <2>1. VerifiedInv'
    BY <1>1, <1>4 DEF LauncherInv, VerifiedInv, Goto, execVars
  <2> QED
    BY <1>1, <1>4, <2>1, AdvanceKeeps
<1> QED
  BY <1>2, <1>3, <1>4 DEF CheckSignature

LEMMA StageArtifactKeeps ==
    ASSUME LauncherInv, StageArtifact PROVE LauncherInv'
<1>1. pc = "stage" /\ pc \in Before /\ watcher = "none" /\ result \in Results
  BY DEF StageArtifact, Before, LauncherInv, StartedInv, RunType
<1>2. CASE Fail("ARTIFACT_VERIFICATION_FAILED")
  BY <1>1, <1>2, FailKeeps DEF ErrorCode
<1>3. CASE stageDir' = TRUE /\ Goto("prepare") /\ UNCHANGED result
  <2>1. VerifiedInv'
    BY <1>1, <1>3 DEF LauncherInv, VerifiedInv, Goto, execVars
  <2> QED
    BY <1>1, <1>3, <2>1, AdvanceKeeps
<1>4. CASE Goto("blocked") /\ UNCHANGED <<result, stageDir>>
  <2>1. VerifiedInv'
    BY <1>1, <1>4 DEF LauncherInv, VerifiedInv, Goto, execVars
  <2> QED
    BY <1>1, <1>4, <2>1, AdvanceKeeps DEF LauncherInv, RunType
<1> QED
  BY <1>2, <1>3, <1>4 DEF StageArtifact

LEMMA WriterComesKeeps ==
    ASSUME LauncherInv, WriterComes PROVE LauncherInv'
BY FailKeeps DEF WriterComes, Before, ErrorCode

LEMMA PrepareKeeps ==
    ASSUME LauncherInv, Prepare PROVE LauncherInv'
<1>1. pc = "prepare" /\ pc \in Before /\ watcher = "none"
      /\ result \in Results /\ stageDir \in BOOLEAN
  BY DEF Prepare, Before, LauncherInv, StartedInv, RunType
<1>2. CASE opts.verifyOnly /\ Fail("none")
  BY <1>1, <1>2, FailKeeps DEF ErrorCode
<1>3. CASE Fail("too many arguments") \/ Fail("marshal")
  BY <1>1, <1>3, FailKeeps DEF ErrorCode
<1>4. CASE ~opts.verifyOnly /\ Goto("start") /\ UNCHANGED <<result, stageDir>>
  <2>1. VerifiedInv'
    BY <1>1, <1>4 DEF LauncherInv, VerifiedInv, Goto, execVars
  <2> QED
    BY <1>1, <1>4, <2>1, AdvanceKeeps
<1> QED
  BY <1>2, <1>3, <1>4 DEF Prepare

LEMMA JudgeKeeps ==
    ASSUME LauncherInv, Judge PROVE LauncherInv'
<1> DEFINE ran == [result EXCEPT !.executed = TRUE]
<1>1. /\ pc = "judge" /\ result \in Results
      /\ watchErr = "ctx" => deadline
      /\ watcher = "none" => waitErr # "nil"
  BY DEF Judge, LauncherInv, RunType, WatcherInv, NotStartedInv
<1>2. ran \in Results /\ ran.executed /\ ran.signatureValid = result.signatureValid
  BY <1>1 DEF Results
<1>3. ASSUME NEW code \in ErrorCode \ {"none"}, Return([ran EXCEPT !.error = code]),
             deadline => code = "KERNEL_TIMEOUT"
      PROVE  LauncherInv'
  <2>1. [ran EXCEPT !.error = code] \in Results
        /\ [ran EXCEPT !.error = code].error = code
        /\ [ran EXCEPT !.error = code].signatureValid = result.signatureValid
    BY <1>2 DEF Results
  <2> QED
    BY <1>1, <1>3, <2>1, ReturnKeeps
<1>4. CASE /\ ~deadline
           /\ Return([ran EXCEPT !.error = "KERNEL_EXIT_NONZERO",
                                  !.exitCode = IF status = "killed" THEN -1 ELSE 1])
  <2> DEFINE code == IF status = "killed" THEN -1 ELSE 1
             r == [ran EXCEPT !.error = "KERNEL_EXIT_NONZERO", !.exitCode = code]
  <2>1. code \in {-1, 0, 1}
    OBVIOUS
  <2> HIDE DEF code
  <2>2. r \in Results /\ r.error = "KERNEL_EXIT_NONZERO"
        /\ r.signatureValid = result.signatureValid
    BY <1>2, <2>1 DEF Results, ErrorCode
  <2>3. Return(r)
    BY <1>4 DEF code
  <2> HIDE DEF r
  <2> QED
    BY <1>1, <1>4, <2>2, <2>3, ReturnKeeps
<1>5. CASE /\ ~deadline /\ ~buf.exceeded /\ waitErr = "nil"
           /\ Return([ran EXCEPT !.exitCode = 0])
  <2> DEFINE r == [ran EXCEPT !.exitCode = 0]
  <2>1. r \in Results /\ r.exitCode = 0 /\ r.executed
        /\ r.signatureValid = result.signatureValid
    BY <1>2 DEF Results
  <2>2. Return(r)
    BY <1>5
  <2> HIDE DEF r
  <2> QED
    BY <1>1, <1>5, <2>1, <2>2, ReturnKeeps
<1> QED
  BY <1>3, <1>4, <1>5 DEF Judge, ErrorCode

LEMMA ExpireKeeps ==
    ASSUME LauncherInv, Expire PROVE LauncherInv'
<1> USE LauncherAssumption DEF CopiersDone, Closed
<1>1. (RunType /\ ExecType /\ PipeType /\ ProcType)'
  BY DEF LauncherInv, Expire, RunType, ExecType, RunStep, PipeType, PipeInv, ProcType,
         Before, Busy, Running, Proc, runVars, execVars, ioVars, osVars
<1>2. (NotStartedInv /\ StartedInv /\ NoGoroutineLeft)'
  BY DEF LauncherInv, Expire, NotStartedInv, StartedInv, ReportInv, RunType, Before,
         Busy, Running, Proc, RunStep, ProcType, NoGoroutineLeft, WatcherInv, runVars,
         execVars, ioVars, osVars
<1>3. (WatcherInv /\ NothingEscapesCancel /\ CancelledIsTimeout)'
  BY DEF LauncherInv, Expire, WatcherInv, NotStartedInv, StartedInv, Before, Busy,
         NothingEscapesCancel, ProcType, Running, Proc, CancelledIsTimeout, RunType,
         RunStep, runVars, execVars, ioVars, osVars
<1>4. (PipeInv /\ OutputLimitExact)'
  BY DEF LauncherInv, Expire, PipeInv, StartedInv, NotStartedInv, WatcherInv, PipeType,
         NoGoroutineLeft, Before, Busy, OutputLimitExact, runVars, execVars, ioVars,
         osVars
<1>5. (VerifiedInv /\ StatusInv /\ ReportInv)'
  BY DEF LauncherInv, Expire, VerifiedInv, StartedInv, NotStartedInv, RunType, Before,
         Busy, RunStep, StatusInv, ProcType, Running, Proc, ReportInv, NoGoroutineLeft,
         runVars, execVars, ioVars, osVars
<1> QED
  BY <1>1, <1>2, <1>3, <1>4, <1>5 DEF LauncherInv

LEMMA StartKeeps ==
    ASSUME LauncherInv, Start PROVE LauncherInv'
<1> USE LauncherAssumption DEF CopiersDone, Closed
<1>1. RunType'
  BY DEF LauncherInv, Start, RunType, ExecType, RunStep, runVars, execVars, ioVars,
         osVars
<1>2. ExecType'
  BY DEF LauncherInv, Start, ExecType, runVars, execVars, ioVars, osVars
<1>3. PipeType'
  BY DEF LauncherInv, Start, PipeType, PipeInv, runVars, execVars, ioVars, osVars
<1>4. ProcType'
  BY DEF LauncherInv, Start, ProcType, Before, Busy, Running, Proc, runVars, execVars,
         ioVars, osVars
<1>5. (NotStartedInv /\ StartedInv /\ NoGoroutineLeft)'
  BY DEF LauncherInv, Start, NotStartedInv, StartedInv, ReportInv, RunType, Before, Busy,
         Running, Proc, RunStep, ProcType, NoGoroutineLeft, WatcherInv, runVars,
         execVars, ioVars, osVars
<1>6. (WatcherInv /\ NothingEscapesCancel /\ CancelledIsTimeout)'
  BY DEF LauncherInv, Start, WatcherInv, NotStartedInv, StartedInv, Before, Busy,
         NothingEscapesCancel, ProcType, Running, Proc, CancelledIsTimeout, RunType,
         RunStep, runVars, execVars, ioVars, osVars
<1>7. (PipeInv /\ OutputLimitExact)'
  BY DEF LauncherInv, Start, PipeInv, StartedInv, NotStartedInv, WatcherInv, PipeType,
         NoGoroutineLeft, Before, Busy, OutputLimitExact, runVars, execVars, ioVars,
         osVars
<1>8. (VerifiedInv /\ StatusInv /\ ReportInv)'
  BY DEF LauncherInv, Start, VerifiedInv, StartedInv, NotStartedInv, RunType, Before,
         Busy, RunStep, StatusInv, ProcType, Running, Proc, ReportInv, NoGoroutineLeft,
         runVars, execVars, ioVars, osVars
<1> QED
  BY <1>1, <1>2, <1>3, <1>4, <1>5, <1>6, <1>7, <1>8 DEF LauncherInv

LEMMA ReapKeeps ==
    ASSUME LauncherInv, Reap PROVE LauncherInv'
<1> USE LauncherAssumption DEF CopiersDone, Closed
<1>1. (RunType /\ ExecType /\ PipeType /\ ProcType)'
  BY DEF LauncherInv, Reap, RunType, ExecType, RunStep, PipeType, PipeInv, ProcType,
         Before, Busy, Running, Proc, runVars, execVars, ioVars, osVars
<1>2. (NotStartedInv /\ StartedInv /\ NoGoroutineLeft)'
  BY DEF LauncherInv, Reap, NotStartedInv, StartedInv, ReportInv, RunType, Before, Busy,
         Running, Proc, RunStep, ProcType, NoGoroutineLeft, WatcherInv, runVars,
         execVars, ioVars, osVars
<1>3. (WatcherInv /\ NothingEscapesCancel /\ CancelledIsTimeout)'
  BY DEF LauncherInv, Reap, WatcherInv, NotStartedInv, StartedInv, Before, Busy,
         NothingEscapesCancel, ProcType, Running, Proc, CancelledIsTimeout, RunType,
         RunStep, runVars, execVars, ioVars, osVars
<1>4. (PipeInv /\ OutputLimitExact)'
  BY DEF LauncherInv, Reap, PipeInv, StartedInv, NotStartedInv, WatcherInv, PipeType,
         NoGoroutineLeft, Before, Busy, OutputLimitExact, runVars, execVars, ioVars,
         osVars
<1>5. (VerifiedInv /\ StatusInv /\ ReportInv)'
  BY DEF LauncherInv, Reap, VerifiedInv, StartedInv, NotStartedInv, RunType, Before,
         Busy, RunStep, StatusInv, ProcType, Running, Proc, ReportInv, NoGoroutineLeft,
         runVars, execVars, ioVars, osVars
<1> QED
  BY <1>1, <1>2, <1>3, <1>4, <1>5 DEF LauncherInv

LEMMA MeetWatcherKeeps ==
    ASSUME LauncherInv, MeetWatcher PROVE LauncherInv'
<1> USE LauncherAssumption DEF CopiersDone, Closed
<1>1. (RunType /\ ExecType /\ PipeType /\ ProcType)'
  BY DEF LauncherInv, MeetWatcher, RunType, ExecType, RunStep, PipeType, PipeInv,
         ProcType, Before, Busy, Running, Proc, runVars, execVars, ioVars, osVars
<1>2. (NotStartedInv /\ StartedInv /\ NoGoroutineLeft)'
  BY DEF LauncherInv, MeetWatcher, NotStartedInv, StartedInv, ReportInv, RunType, Before,
         Busy, Running, Proc, RunStep, ProcType, NoGoroutineLeft, WatcherInv, runVars,
         execVars, ioVars, osVars
<1>3. (WatcherInv /\ NothingEscapesCancel /\ CancelledIsTimeout)'
  BY DEF LauncherInv, MeetWatcher, WatcherInv, NotStartedInv, StartedInv, Before, Busy,
         NothingEscapesCancel, ProcType, Running, Proc, CancelledIsTimeout, RunType,
         RunStep, runVars, execVars, ioVars, osVars
<1>4. (PipeInv /\ OutputLimitExact)'
  BY DEF LauncherInv, MeetWatcher, PipeInv, StartedInv, NotStartedInv, WatcherInv,
         PipeType, NoGoroutineLeft, Before, Busy, OutputLimitExact, runVars, execVars,
         ioVars, osVars
<1>5. (VerifiedInv /\ StatusInv /\ ReportInv)'
  BY DEF LauncherInv, MeetWatcher, VerifiedInv, StartedInv, NotStartedInv, RunType,
         Before, Busy, RunStep, StatusInv, ProcType, Running, Proc, ReportInv,
         NoGoroutineLeft, runVars, execVars, ioVars, osVars
<1> QED
  BY <1>1, <1>2, <1>3, <1>4, <1>5 DEF LauncherInv

LEMMA AwaitCopierKeeps ==
    ASSUME LauncherInv, AwaitCopier PROVE LauncherInv'
<1> USE LauncherAssumption DEF CopiersDone, Closed
<1>1. (RunType /\ ExecType)'
  BY DEF LauncherInv, AwaitCopier, RunType, ExecType, RunStep, runVars, execVars, ioVars,
         osVars
<1>2. (PipeType /\ ProcType)'
  BY DEF LauncherInv, AwaitCopier, PipeType, PipeInv, ProcType, Before, Busy, Running,
         Proc, runVars, execVars, ioVars, osVars
<1>3. (NotStartedInv /\ StartedInv /\ NoGoroutineLeft)'
  BY DEF LauncherInv, AwaitCopier, NotStartedInv, StartedInv, ReportInv, RunType, Before,
         Busy, Running, Proc, RunStep, ProcType, NoGoroutineLeft, WatcherInv, runVars,
         execVars, ioVars, osVars
<1>4. (WatcherInv /\ NothingEscapesCancel /\ CancelledIsTimeout)'
  BY DEF LauncherInv, AwaitCopier, WatcherInv, NotStartedInv, StartedInv, Before, Busy,
         NothingEscapesCancel, ProcType, Running, Proc, CancelledIsTimeout, RunType,
         RunStep, runVars, execVars, ioVars, osVars
<1>5. (PipeInv /\ OutputLimitExact)'
  BY DEF LauncherInv, AwaitCopier, PipeInv, StartedInv, NotStartedInv, WatcherInv,
         PipeType, NoGoroutineLeft, Before, Busy, OutputLimitExact, runVars, execVars,
         ioVars, osVars
<1>6. (VerifiedInv /\ StatusInv /\ ReportInv)'
  BY DEF LauncherInv, AwaitCopier, VerifiedInv, StartedInv, NotStartedInv, RunType,
         Before, Busy, RunStep, StatusInv, ProcType, Running, Proc, ReportInv,
         NoGoroutineLeft, runVars, execVars, ioVars, osVars
<1> QED
  BY <1>1, <1>2, <1>3, <1>4, <1>5, <1>6 DEF LauncherInv

LEMMA CopierClosedKeeps ==
    ASSUME LauncherInv, CopierClosed PROVE LauncherInv'
<1> USE LauncherAssumption DEF CopiersDone, Closed
<1>1. (RunType /\ ExecType /\ PipeType /\ ProcType)'
  BY DEF LauncherInv, CopierClosed, RunType, ExecType, RunStep, PipeType, PipeInv,
         ProcType, Before, Busy, Running, Proc, runVars, execVars, ioVars, osVars
<1>2. (NotStartedInv /\ StartedInv /\ NoGoroutineLeft)'
  BY DEF LauncherInv, CopierClosed, NotStartedInv, StartedInv, ReportInv, RunType,
         PipeInv, Before, Busy, Running, Proc, RunStep, ProcType, NoGoroutineLeft, WatcherInv,
         runVars, execVars, ioVars, osVars
<1>3. (WatcherInv /\ NothingEscapesCancel /\ CancelledIsTimeout)'
  BY DEF LauncherInv, CopierClosed, WatcherInv, NotStartedInv, StartedInv, Before, Busy,
         NothingEscapesCancel, ProcType, Running, Proc, CancelledIsTimeout, RunType,
         RunStep, runVars, execVars, ioVars, osVars
<1>4. (PipeInv /\ OutputLimitExact)'
  BY DEF LauncherInv, CopierClosed, PipeInv, StartedInv, NotStartedInv, WatcherInv,
         PipeType, NoGoroutineLeft, Before, Busy, OutputLimitExact, runVars, execVars,
         ioVars, osVars
<1>5. (VerifiedInv /\ StatusInv /\ ReportInv)'
  BY DEF LauncherInv, CopierClosed, VerifiedInv, StartedInv, NotStartedInv, RunType,
         Before, Busy, RunStep, StatusInv, ProcType, Running, Proc, ReportInv,
         NoGoroutineLeft, runVars, execVars, ioVars, osVars
<1> QED
  BY <1>1, <1>2, <1>3, <1>4, <1>5 DEF LauncherInv

LEMMA CancelKeeps ==
    ASSUME LauncherInv, Cancel PROVE LauncherInv'
<1> USE LauncherAssumption DEF CopiersDone, Closed
<1>1. (RunType /\ ExecType /\ PipeType /\ ProcType)'
  BY DEF LauncherInv, Cancel, RunType, ExecType, RunStep, GroupExists, PipeType, PipeInv,
         ProcType, Before, Busy, Running, Proc, runVars, execVars, ioVars, osVars
<1>2. (NotStartedInv /\ StartedInv /\ NoGoroutineLeft)'
  BY DEF LauncherInv, Cancel, NotStartedInv, StartedInv, ReportInv, RunType, Before,
         Busy, Running, Proc, RunStep, GroupExists, ProcType, NoGoroutineLeft,
         WatcherInv, runVars, execVars, ioVars, osVars
<1>3. (WatcherInv /\ NothingEscapesCancel /\ CancelledIsTimeout)'
  BY DEF LauncherInv, Cancel, WatcherInv, NotStartedInv, StartedInv, Before, Busy,
         GroupExists, NothingEscapesCancel, ProcType, Running, Proc, CancelledIsTimeout,
         RunType, RunStep, runVars, execVars, ioVars, osVars
<1>4. (PipeInv /\ OutputLimitExact)'
  BY DEF LauncherInv, Cancel, PipeInv, StartedInv, NotStartedInv, WatcherInv, PipeType,
         NoGoroutineLeft, Before, Busy, GroupExists, OutputLimitExact, runVars, execVars,
         ioVars, osVars
<1>5. (VerifiedInv /\ StatusInv /\ ReportInv)'
  BY DEF LauncherInv, Cancel, VerifiedInv, StartedInv, NotStartedInv, RunType, Before,
         Busy, RunStep, GroupExists, StatusInv, ProcType, Running, Proc, ReportInv,
         NoGoroutineLeft, runVars, execVars, ioVars, osVars
<1> QED
  BY <1>1, <1>2, <1>3, <1>4, <1>5 DEF LauncherInv

LEMMA TimerFiresKeeps ==
    ASSUME LauncherInv, TimerFires PROVE LauncherInv'
<1> USE LauncherAssumption DEF CopiersDone, Closed
<1>1. (RunType /\ ExecType /\ PipeType /\ ProcType)'
  BY DEF LauncherInv, TimerFires, RunType, ExecType, RunStep, PipeType, PipeInv,
         ProcType, Before, Busy, Running, Proc, runVars, execVars, ioVars, osVars
<1>2. (NotStartedInv /\ StartedInv /\ NoGoroutineLeft)'
  BY DEF LauncherInv, TimerFires, NotStartedInv, StartedInv, ReportInv, RunType, Before,
         Busy, Running, Proc, RunStep, ProcType, NoGoroutineLeft, WatcherInv, runVars,
         execVars, ioVars, osVars
<1>3. (WatcherInv /\ NothingEscapesCancel /\ CancelledIsTimeout)'
  BY DEF LauncherInv, TimerFires, WatcherInv, NotStartedInv, StartedInv, Before, Busy,
         NothingEscapesCancel, ProcType, Running, Proc, CancelledIsTimeout, RunType,
         RunStep, runVars, execVars, ioVars, osVars
<1>4. (PipeInv /\ OutputLimitExact)'
  BY DEF LauncherInv, TimerFires, PipeInv, StartedInv, NotStartedInv, WatcherInv,
         PipeType, NoGoroutineLeft, Before, Busy, OutputLimitExact, runVars, execVars,
         ioVars, osVars
<1>5. (VerifiedInv /\ StatusInv /\ ReportInv)'
  BY DEF LauncherInv, TimerFires, VerifiedInv, StartedInv, NotStartedInv, RunType,
         Before, Busy, RunStep, StatusInv, ProcType, Running, Proc, ReportInv,
         NoGoroutineLeft, runVars, execVars, ioVars, osVars
<1> QED
  BY <1>1, <1>2, <1>3, <1>4, <1>5 DEF LauncherInv

LEMMA GraceOverKeeps ==
    ASSUME LauncherInv, GraceOver PROVE LauncherInv'
<1> USE LauncherAssumption DEF CopiersDone, Closed
<1>1. (RunType /\ ExecType /\ PipeType /\ ProcType)'
  BY DEF LauncherInv, GraceOver, RunType, ExecType, RunStep, PipeType, PipeInv, ProcType,
         Before, Busy, Running, Proc, runVars, execVars, ioVars, osVars
<1>2. (NotStartedInv /\ StartedInv /\ NoGoroutineLeft)'
  BY DEF LauncherInv, GraceOver, NotStartedInv, StartedInv, ReportInv, RunType, Before,
         Busy, Running, Proc, RunStep, ProcType, NoGoroutineLeft, WatcherInv, runVars,
         execVars, ioVars, osVars
<1>3. (WatcherInv /\ NothingEscapesCancel /\ CancelledIsTimeout)'
  BY DEF LauncherInv, GraceOver, WatcherInv, NotStartedInv, StartedInv, Before, Busy,
         NothingEscapesCancel, ProcType, Running, Proc, CancelledIsTimeout, RunType,
         RunStep, runVars, execVars, ioVars, osVars
<1>4. (PipeInv /\ OutputLimitExact)'
  BY DEF LauncherInv, GraceOver, PipeInv, StartedInv, NotStartedInv, WatcherInv,
         PipeType, NoGoroutineLeft, Before, Busy, OutputLimitExact, runVars, execVars,
         ioVars, osVars
<1>5. (VerifiedInv /\ StatusInv /\ ReportInv)'
  BY DEF LauncherInv, GraceOver, VerifiedInv, StartedInv, NotStartedInv, RunType, Before,
         Busy, RunStep, StatusInv, ProcType, Running, Proc, ReportInv, NoGoroutineLeft,
         runVars, execVars, ioVars, osVars
<1> QED
  BY <1>1, <1>2, <1>3, <1>4, <1>5 DEF LauncherInv

LEMMA WatcherReportsKeeps ==
    ASSUME LauncherInv, WatcherReports PROVE LauncherInv'
<1> USE LauncherAssumption DEF CopiersDone, Closed
<1>1. (RunType /\ ExecType /\ PipeType /\ ProcType)'
  BY DEF LauncherInv, WatcherReports, RunType, ExecType, RunStep, PipeType, PipeInv,
         ProcType, Before, Busy, Running, Proc, runVars, execVars, ioVars, osVars
<1>2. (NotStartedInv /\ StartedInv /\ NoGoroutineLeft)'
  BY DEF LauncherInv, WatcherReports, NotStartedInv, StartedInv, ReportInv, RunType,
         Before, Busy, Running, Proc, RunStep, ProcType, NoGoroutineLeft, WatcherInv,
         runVars, execVars, ioVars, osVars
<1>3. (WatcherInv /\ NothingEscapesCancel /\ CancelledIsTimeout)'
  BY DEF LauncherInv, WatcherReports, WatcherInv, NotStartedInv, StartedInv, Before,
         Busy, NothingEscapesCancel, ProcType, Running, Proc, CancelledIsTimeout,
         RunType, RunStep, runVars, execVars, ioVars, osVars
<1>4. (PipeInv /\ OutputLimitExact)'
  BY DEF LauncherInv, WatcherReports, PipeInv, StartedInv, NotStartedInv, WatcherInv,
         PipeType, NoGoroutineLeft, Before, Busy, OutputLimitExact, runVars, execVars,
         ioVars, osVars
<1>5. (VerifiedInv /\ StatusInv /\ ReportInv)'
  BY DEF LauncherInv, WatcherReports, VerifiedInv, StartedInv, NotStartedInv, RunType,
         Before, Busy, RunStep, StatusInv, ProcType, Running, Proc, ReportInv,
         NoGoroutineLeft, runVars, execVars, ioVars, osVars
<1> QED
  BY <1>1, <1>2, <1>3, <1>4, <1>5 DEF LauncherInv

LEMMA CopyOutputKeeps ==
    ASSUME LauncherInv, CopyOutput PROVE LauncherInv'
<1> USE LauncherAssumption DEF CopiersDone, Closed
<1>1. (RunType /\ ExecType /\ PipeType /\ ProcType)'
  BY DEF LauncherInv, CopyOutput, RunType, ExecType, RunStep, Write, PipeType, PipeInv,
         ProcType, Before, Busy, Running, Proc, runVars, execVars, ioVars, osVars
<1>2. (NotStartedInv /\ StartedInv /\ NoGoroutineLeft)'
  BY DEF LauncherInv, CopyOutput, NotStartedInv, StartedInv, ReportInv, RunType, Before,
         Busy, Running, Proc, RunStep, Write, ProcType, NoGoroutineLeft, WatcherInv,
         runVars, execVars, ioVars, osVars
<1>3. (WatcherInv /\ NothingEscapesCancel /\ CancelledIsTimeout)'
  BY DEF LauncherInv, CopyOutput, WatcherInv, NotStartedInv, StartedInv, Before, Busy,
         Write, NothingEscapesCancel, ProcType, Running, Proc, CancelledIsTimeout,
         RunType, RunStep, runVars, execVars, ioVars, osVars
<1>4. (PipeInv /\ OutputLimitExact)'
  BY DEF LauncherInv, CopyOutput, PipeInv, StartedInv, NotStartedInv, WatcherInv,
         PipeType, NoGoroutineLeft, Before, Busy, Write, OutputLimitExact, runVars,
         execVars, ioVars, osVars
<1>5. (VerifiedInv /\ StatusInv /\ ReportInv)'
  BY DEF LauncherInv, CopyOutput, VerifiedInv, StartedInv, NotStartedInv, RunType,
         Before, Busy, RunStep, Write, StatusInv, ProcType, Running, Proc, ReportInv,
         NoGoroutineLeft, runVars, execVars, ioVars, osVars
<1> QED
  BY <1>1, <1>2, <1>3, <1>4, <1>5 DEF LauncherInv

LEMMA CopyEndsKeeps ==
    ASSUME LauncherInv, CopyEnds PROVE LauncherInv'
<1> USE LauncherAssumption DEF CopiersDone, Closed
<1>1. (RunType /\ ExecType /\ PipeType /\ ProcType)'
  BY DEF LauncherInv, CopyEnds, RunType, ExecType, RunStep, PipeType, PipeInv, ProcType,
         Before, Busy, Running, Proc, runVars, execVars, ioVars, osVars
<1>2. (NotStartedInv /\ StartedInv /\ NoGoroutineLeft)'
  BY DEF LauncherInv, CopyEnds, NotStartedInv, StartedInv, ReportInv, RunType, Before,
         Busy, Running, Proc, RunStep, ProcType, NoGoroutineLeft, WatcherInv, runVars,
         execVars, ioVars, osVars
<1>3. (WatcherInv /\ NothingEscapesCancel /\ CancelledIsTimeout)'
  BY DEF LauncherInv, CopyEnds, WatcherInv, NotStartedInv, StartedInv, Before, Busy,
         NothingEscapesCancel, ProcType, Running, Proc, CancelledIsTimeout, RunType,
         RunStep, runVars, execVars, ioVars, osVars
<1>4. (PipeInv /\ OutputLimitExact)'
  BY DEF LauncherInv, CopyEnds, PipeInv, StartedInv, NotStartedInv, WatcherInv, PipeType,
         NoGoroutineLeft, Before, Busy, OutputLimitExact, runVars, execVars, ioVars,
         osVars
<1>5. (VerifiedInv /\ StatusInv /\ ReportInv)'
  BY DEF LauncherInv, CopyEnds, VerifiedInv, StartedInv, NotStartedInv, RunType, Before,
         Busy, RunStep, StatusInv, ProcType, Running, Proc, ReportInv, NoGoroutineLeft,
         runVars, execVars, ioVars, osVars
<1> QED
  BY <1>1, <1>2, <1>3, <1>4, <1>5 DEF LauncherInv

LEMMA FeedEndsKeeps ==
    ASSUME LauncherInv, FeedEnds PROVE LauncherInv'
<1> USE LauncherAssumption DEF CopiersDone, Closed
<1>1. (RunType /\ ExecType /\ PipeType /\ ProcType)'
  BY DEF LauncherInv, FeedEnds, RunType, ExecType, RunStep, PipeType, PipeInv, ProcType,
         Before, Busy, Running, Proc, runVars, execVars, ioVars, osVars
<1>2. (NotStartedInv /\ StartedInv /\ NoGoroutineLeft)'
  BY DEF LauncherInv, FeedEnds, NotStartedInv, StartedInv, ReportInv, RunType, Before,
         Busy, Running, Proc, RunStep, ProcType, NoGoroutineLeft, WatcherInv, runVars,
         execVars, ioVars, osVars
<1>3. (WatcherInv /\ NothingEscapesCancel /\ CancelledIsTimeout)'
  BY DEF LauncherInv, FeedEnds, WatcherInv, NotStartedInv, StartedInv, Before, Busy,
         NothingEscapesCancel, ProcType, Running, Proc, CancelledIsTimeout, RunType,
         RunStep, runVars, execVars, ioVars, osVars
<1>4. (PipeInv /\ OutputLimitExact)'
  BY DEF LauncherInv, FeedEnds, PipeInv, StartedInv, NotStartedInv, WatcherInv, PipeType,
         NoGoroutineLeft, Before, Busy, OutputLimitExact, runVars, execVars, ioVars,
         osVars
<1>5. (VerifiedInv /\ StatusInv /\ ReportInv)'
  BY DEF LauncherInv, FeedEnds, VerifiedInv, StartedInv, NotStartedInv, RunType, Before,
         Busy, RunStep, StatusInv, ProcType, Running, Proc, ReportInv, NoGoroutineLeft,
         runVars, execVars, ioVars, osVars
<1> QED
  BY <1>1, <1>2, <1>3, <1>4, <1>5 DEF LauncherInv

LEMMA ProduceKeeps ==
    ASSUME LauncherInv, NEW p \in Proc, Produce(p) PROVE LauncherInv'
<1> USE LauncherAssumption DEF CopiersDone, Closed
<1>1. (RunType /\ ExecType /\ PipeType /\ ProcType)'
  BY DEF LauncherInv, Produce, RunType, ExecType, RunStep, PipeType, PipeInv, ProcType,
         Before, Busy, Running, Proc, runVars, execVars, ioVars, osVars
<1>2. (NotStartedInv /\ StartedInv /\ NoGoroutineLeft)'
  BY DEF LauncherInv, Produce, NotStartedInv, StartedInv, ReportInv, RunType, Before,
         Busy, Running, Proc, RunStep, ProcType, NoGoroutineLeft, WatcherInv, runVars,
         execVars, ioVars, osVars
<1>3. (WatcherInv /\ NothingEscapesCancel /\ CancelledIsTimeout)'
  BY DEF LauncherInv, Produce, WatcherInv, NotStartedInv, StartedInv, Before, Busy,
         NothingEscapesCancel, ProcType, Running, Proc, CancelledIsTimeout, RunType,
         RunStep, runVars, execVars, ioVars, osVars
<1>4. (PipeInv /\ OutputLimitExact)'
  BY DEF LauncherInv, Produce, PipeInv, StartedInv, NotStartedInv, WatcherInv, PipeType,
         NoGoroutineLeft, Before, Busy, OutputLimitExact, runVars, execVars, ioVars,
         osVars
<1>5. (VerifiedInv /\ StatusInv /\ ReportInv)'
  BY DEF LauncherInv, Produce, VerifiedInv, StartedInv, NotStartedInv, RunType, Before,
         Busy, RunStep, StatusInv, ProcType, Running, Proc, ReportInv, NoGoroutineLeft,
         runVars, execVars, ioVars, osVars
<1> QED
  BY <1>1, <1>2, <1>3, <1>4, <1>5 DEF LauncherInv

LEMMA ForkKeeps ==
    ASSUME LauncherInv, NEW p \in Proc, NEW c \in Child, Fork(p, c) PROVE LauncherInv'
<1> USE LauncherAssumption DEF CopiersDone, Closed
<1>1. (RunType /\ ExecType /\ PipeType /\ ProcType)'
  BY DEF LauncherInv, Fork, RunType, ExecType, RunStep, PipeType, PipeInv, ProcType,
         Before, Busy, Running, Proc, runVars, execVars, ioVars, osVars
<1>2. (NotStartedInv /\ StartedInv /\ NoGoroutineLeft)'
  BY DEF LauncherInv, Fork, NotStartedInv, StartedInv, ReportInv, RunType, Before, Busy,
         Running, Proc, RunStep, ProcType, NoGoroutineLeft, WatcherInv, runVars,
         execVars, ioVars, osVars
<1>3. (WatcherInv /\ NothingEscapesCancel /\ CancelledIsTimeout)'
  BY DEF LauncherInv, Fork, WatcherInv, NotStartedInv, StartedInv, Before, Busy,
         NothingEscapesCancel, ProcType, Running, Proc, CancelledIsTimeout, RunType,
         RunStep, runVars, execVars, ioVars, osVars
<1>4. (PipeInv /\ OutputLimitExact)'
  BY DEF LauncherInv, Fork, PipeInv, StartedInv, NotStartedInv, WatcherInv, PipeType,
         NoGoroutineLeft, Before, Busy, OutputLimitExact, runVars, execVars, ioVars,
         osVars
<1>5. (VerifiedInv /\ StatusInv /\ ReportInv)'
  BY DEF LauncherInv, Fork, VerifiedInv, StartedInv, NotStartedInv, RunType, Before,
         Busy, RunStep, StatusInv, ProcType, Running, Proc, ReportInv, NoGoroutineLeft,
         runVars, execVars, ioVars, osVars
<1> QED
  BY <1>1, <1>2, <1>3, <1>4, <1>5 DEF LauncherInv

LEMMA CloseStdoutKeeps ==
    ASSUME LauncherInv, NEW p \in Proc, CloseStdout(p) PROVE LauncherInv'
<1> USE LauncherAssumption DEF CopiersDone, Closed
<1>1. (RunType /\ ExecType /\ PipeType /\ ProcType)'
  BY DEF LauncherInv, CloseStdout, RunType, ExecType, RunStep, PipeType, PipeInv,
         ProcType, Before, Busy, Running, Proc, runVars, execVars, ioVars, osVars
<1>2. (NotStartedInv /\ StartedInv /\ NoGoroutineLeft)'
  BY DEF LauncherInv, CloseStdout, NotStartedInv, StartedInv, ReportInv, RunType, Before,
         Busy, Running, Proc, RunStep, ProcType, NoGoroutineLeft, WatcherInv, runVars,
         execVars, ioVars, osVars
<1>3. (WatcherInv /\ NothingEscapesCancel /\ CancelledIsTimeout)'
  BY DEF LauncherInv, CloseStdout, WatcherInv, NotStartedInv, StartedInv, Before, Busy,
         NothingEscapesCancel, ProcType, Running, Proc, CancelledIsTimeout, RunType,
         RunStep, runVars, execVars, ioVars, osVars
<1>4. (PipeInv /\ OutputLimitExact)'
  BY DEF LauncherInv, CloseStdout, PipeInv, StartedInv, NotStartedInv, WatcherInv,
         PipeType, NoGoroutineLeft, Before, Busy, OutputLimitExact, runVars, execVars,
         ioVars, osVars
<1>5. (VerifiedInv /\ StatusInv /\ ReportInv)'
  BY DEF LauncherInv, CloseStdout, VerifiedInv, StartedInv, NotStartedInv, RunType,
         Before, Busy, RunStep, StatusInv, ProcType, Running, Proc, ReportInv,
         NoGoroutineLeft, runVars, execVars, ioVars, osVars
<1> QED
  BY <1>1, <1>2, <1>3, <1>4, <1>5 DEF LauncherInv

LEMMA CloseStdinKeeps ==
    ASSUME LauncherInv, NEW p \in Proc, CloseStdin(p) PROVE LauncherInv'
<1> USE LauncherAssumption DEF CopiersDone, Closed
<1>1. (RunType /\ ExecType /\ PipeType /\ ProcType)'
  BY DEF LauncherInv, CloseStdin, RunType, ExecType, RunStep, PipeType, PipeInv,
         ProcType, Before, Busy, Running, Proc, runVars, execVars, ioVars, osVars
<1>2. (NotStartedInv /\ StartedInv /\ NoGoroutineLeft)'
  BY DEF LauncherInv, CloseStdin, NotStartedInv, StartedInv, ReportInv, RunType, Before,
         Busy, Running, Proc, RunStep, ProcType, NoGoroutineLeft, WatcherInv, runVars,
         execVars, ioVars, osVars
<1>3. (WatcherInv /\ NothingEscapesCancel /\ CancelledIsTimeout)'
  BY DEF LauncherInv, CloseStdin, WatcherInv, NotStartedInv, StartedInv, Before, Busy,
         NothingEscapesCancel, ProcType, Running, Proc, CancelledIsTimeout, RunType,
         RunStep, runVars, execVars, ioVars, osVars
<1>4. (PipeInv /\ OutputLimitExact)'
  BY DEF LauncherInv, CloseStdin, PipeInv, StartedInv, NotStartedInv, WatcherInv,
         PipeType, NoGoroutineLeft, Before, Busy, OutputLimitExact, runVars, execVars,
         ioVars, osVars
<1>5. (VerifiedInv /\ StatusInv /\ ReportInv)'
  BY DEF LauncherInv, CloseStdin, VerifiedInv, StartedInv, NotStartedInv, RunType,
         Before, Busy, RunStep, StatusInv, ProcType, Running, Proc, ReportInv,
         NoGoroutineLeft, runVars, execVars, ioVars, osVars
<1> QED
  BY <1>1, <1>2, <1>3, <1>4, <1>5 DEF LauncherInv

LEMMA ReadInputKeeps ==
    ASSUME LauncherInv, NEW p \in Proc, ReadInput(p) PROVE LauncherInv'
<1> USE LauncherAssumption DEF CopiersDone, Closed
<1>1. (RunType /\ ExecType /\ PipeType /\ ProcType)'
  BY DEF LauncherInv, ReadInput, RunType, ExecType, RunStep, PipeType, PipeInv,
         ProcType, Before, Busy, Running, Proc, runVars, execVars, ioVars, osVars
<1>2. (NotStartedInv /\ StartedInv /\ NoGoroutineLeft)'
  BY DEF LauncherInv, ReadInput, NotStartedInv, StartedInv, ReportInv, RunType, Before,
         Busy, Running, Proc, RunStep, ProcType, NoGoroutineLeft, WatcherInv, runVars,
         execVars, ioVars, osVars
<1>3. (WatcherInv /\ NothingEscapesCancel /\ CancelledIsTimeout)'
  BY DEF LauncherInv, ReadInput, WatcherInv, NotStartedInv, StartedInv, Before, Busy,
         NothingEscapesCancel, ProcType, Running, Proc, CancelledIsTimeout, RunType,
         RunStep, runVars, execVars, ioVars, osVars
<1>4. (PipeInv /\ OutputLimitExact)'
  BY DEF LauncherInv, ReadInput, PipeInv, StartedInv, NotStartedInv, WatcherInv,
         PipeType, NoGoroutineLeft, Before, Busy, OutputLimitExact, runVars, execVars,
         ioVars, osVars
<1>5. (VerifiedInv /\ StatusInv /\ ReportInv)'
  BY DEF LauncherInv, ReadInput, VerifiedInv, StartedInv, NotStartedInv, RunType,
         Before, Busy, RunStep, StatusInv, ProcType, Running, Proc, ReportInv,
         NoGoroutineLeft, runVars, execVars, ioVars, osVars
<1> QED
  BY <1>1, <1>2, <1>3, <1>4, <1>5 DEF LauncherInv

LEMMA EndKeeps ==
    ASSUME LauncherInv, NEW p \in Proc, NEW how \in {"zero", "nonzero", "killed"}, End(p, how) PROVE LauncherInv'
<1> USE LauncherAssumption DEF CopiersDone, Closed
<1>1. (RunType /\ ExecType /\ PipeType /\ ProcType)'
  BY DEF LauncherInv, End, RunType, ExecType, RunStep, PipeType, PipeInv, ProcType,
         Before, Busy, Running, Proc, runVars, execVars, ioVars, osVars
<1>2. (NotStartedInv /\ StartedInv /\ NoGoroutineLeft)'
  BY DEF LauncherInv, End, NotStartedInv, StartedInv, ReportInv, RunType, Before, Busy,
         Running, Proc, RunStep, ProcType, NoGoroutineLeft, WatcherInv, runVars,
         execVars, ioVars, osVars
<1>3. (WatcherInv /\ NothingEscapesCancel /\ CancelledIsTimeout)'
  BY DEF LauncherInv, End, WatcherInv, NotStartedInv, StartedInv, Before, Busy,
         NothingEscapesCancel, ProcType, Running, Proc, CancelledIsTimeout, RunType,
         RunStep, runVars, execVars, ioVars, osVars
<1>4. (PipeInv /\ OutputLimitExact)'
  BY DEF LauncherInv, End, PipeInv, StartedInv, NotStartedInv, WatcherInv, PipeType,
         NoGoroutineLeft, Before, Busy, OutputLimitExact, runVars, execVars, ioVars,
         osVars
<1>5. (VerifiedInv /\ StatusInv /\ ReportInv)'
  BY DEF LauncherInv, End, VerifiedInv, StartedInv, NotStartedInv, RunType, Before, Busy,
         RunStep, StatusInv, ProcType, Running, Proc, ReportInv, NoGoroutineLeft,
         runVars, execVars, ioVars, osVars
<1> QED
  BY <1>1, <1>2, <1>3, <1>4, <1>5 DEF LauncherInv

LEMMA StutterKeeps ==
    ASSUME LauncherInv, UNCHANGED vars PROVE LauncherInv'
<1> USE DEF CopiersDone
<1>1. (RunType /\ ExecType /\ PipeType /\ ProcType)'
  BY DEF LauncherInv, vars, RunType, ExecType, RunStep, PipeType, PipeInv, ProcType,
         Before, Busy, Running, Proc, runVars, execVars, ioVars, osVars
<1>2. (NotStartedInv /\ StartedInv /\ NoGoroutineLeft)'
  BY DEF LauncherInv, vars, NotStartedInv, StartedInv, ReportInv, RunType, Before, Busy,
         Running, Proc, RunStep, ProcType, NoGoroutineLeft, WatcherInv, runVars,
         execVars, ioVars, osVars
<1>3. (WatcherInv /\ NothingEscapesCancel /\ CancelledIsTimeout)'
  BY DEF LauncherInv, vars, WatcherInv, NotStartedInv, StartedInv, Before, Busy,
         NothingEscapesCancel, ProcType, Running, Proc, CancelledIsTimeout, RunType,
         RunStep, runVars, execVars, ioVars, osVars
<1>4. (PipeInv /\ OutputLimitExact)'
  BY DEF LauncherInv, vars, PipeInv, StartedInv, NotStartedInv, WatcherInv, PipeType,
         NoGoroutineLeft, Before, Busy, OutputLimitExact, runVars, execVars, ioVars,
         osVars
<1>5. (VerifiedInv /\ StatusInv /\ ReportInv)'
  BY DEF LauncherInv, vars, VerifiedInv, StartedInv, NotStartedInv, RunType, Before,
         Busy, RunStep, StatusInv, ProcType, Running, Proc, ReportInv, NoGoroutineLeft,
         runVars, execVars, ioVars, osVars
<1> QED
  BY <1>1, <1>2, <1>3, <1>4, <1>5 DEF LauncherInv

LEMMA NextKeeps == LauncherInv /\ [Next]_vars => LauncherInv'
<1> SUFFICES ASSUME LauncherInv, [Next]_vars PROVE LauncherInv'
  OBVIOUS
<1>1. CASE Run
  BY <1>1, EvaluateKeeps, CheckSignatureKeeps, StageArtifactKeeps, PrepareKeeps,
     StartKeeps, ReapKeeps, MeetWatcherKeeps, AwaitCopierKeeps, CopierClosedKeeps,
     JudgeKeeps
     DEF Run
<1>2. CASE Expire \/ Watcher \/ TimerFires \/ Copier \/ FeedEnds \/ WriterComes
  BY <1>2, ExpireKeeps, CancelKeeps, GraceOverKeeps, WatcherReportsKeeps,
     TimerFiresKeeps, CopyOutputKeeps, CopyEndsKeeps, FeedEndsKeeps, WriterComesKeeps
     DEF Watcher, Copier
<1>3. CASE Kernel
  BY <1>3, ProduceKeeps, ReadInputKeeps, CloseStdoutKeeps, CloseStdinKeeps, EndKeeps,
     ForkKeeps
     DEF Kernel, Exit, Die
<1> QED
  BY <1>1, <1>2, <1>3, StutterKeeps DEF Next

LEMMA Always == Spec => []LauncherInv
  BY InitHolds, NextKeeps, PTL DEF Spec

-----------------------------------------------------------------------------
\* The variables of the launcher stay within their types.
THEOREM TypeCorrect == Spec => []TypeOK
<1>1. LauncherInv => TypeOK
  BY DEF LauncherInv, RunType, ExecType, PipeType, ProcType, Results, TypeOK
<1> QED
  BY <1>1, Always, PTL

\* Whatever the options, nothing is started that was not admitted, verified and
\* staged (launcher.go:70-106).
THEOREM OnlyVerified == Spec => []OnlyVerifiedRuns
<1>1. LauncherInv => OnlyVerifiedRuns
  BY DEF LauncherInv, NotStartedInv, StartedInv, VerifiedInv, OnlyVerifiedRuns, Before, Proc
<1> QED
  BY <1>1, Always, PTL

\* For any number of descendants and in any order of the deadline, the watcher,
\* the copiers and the processes: a run without an error was a success, and the
\* output it reports is complete (launcher.go:114-133).
THEOREM GenuineSuccess == Spec => []SuccessIsGenuine
<1>1. LauncherInv => SuccessIsGenuine
  <2> SUFFICES ASSUME LauncherInv, pc = "returned", result.error = "none", ~opts.verifyOnly
               PROVE  /\ result.exitCode = 0 /\ result.executed
                      /\ status = "zero" /\ ~deadline
                      /\ doomed = {} /\ holds = {}
                      /\ ~buf.exceeded /\ buf.len = produced
    BY DEF SuccessIsGenuine
  <2>1. watcher # "none"
    BY DEF LauncherInv, NotStartedInv
  <2>2. /\ ~deadline /\ ~buf.exceeded /\ waitErr = "nil"
        /\ result.exitCode = 0 /\ result.executed
    BY <2>1 DEF LauncherInv, ReportInv
  <2>3. copier = "done" /\ ends = "closed"
    BY <2>1, <2>2 DEF LauncherInv, StartedInv, NoGoroutineLeft, PipeInv, PipeType
  <2>4. holds = {} /\ pipe = 0 /\ doomed = {} /\ status = "zero"
    BY <2>1, <2>2, <2>3 DEF LauncherInv, PipeInv, WatcherInv, StatusInv
  <2>5. buf.len = produced
    BY <2>2, <2>3, <2>4 DEF LauncherInv, OutputLimitExact, PipeType
  <2> QED
    BY <2>2, <2>4, <2>5
<1> QED
  BY <1>1, Always, PTL

\* A cancelled run is a timeout, in every order of the deadline and the leader's
\* end (launcher.go:118-131).
THEOREM CancelledTimesOut == Spec => []CancelledIsTimeout
BY Always, PTL DEF LauncherInv

\* However many processes there are and whatever they fork, none of the group
\* survives its killing (process_linux.go:13-26).
THEOREM GroupIsKilled == Spec => []NothingEscapesCancel
BY Always, PTL DEF LauncherInv

\* When Run reads the buffers nobody is left to write them, no goroutine is left to
\* feed the kernel, and no end of a pipe is open (launcher.go:109-117).
THEOREM NobodyWrites == Spec => []NoGoroutineLeft
BY Always, PTL DEF LauncherInv

\* The limit is exact for every limit and every sequence of writes
\* (launcher.go:152-169).
THEOREM LimitIsExact == Spec => []OutputLimitExact
BY Always, PTL DEF LauncherInv
=============================================================================
