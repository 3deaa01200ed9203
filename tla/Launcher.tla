------------------------------ MODULE Launcher ------------------------------
(***************************************************************************)
(* pkg/launcher on Linux: Run revalidates, stages, starts the kernel in a  *)
(* process group of its own and supervises it until it can report.  Five   *)
(* parties take steps: Run itself, the context deadline, the watcher and   *)
(* the copying goroutines that os/exec starts, and the kernel's processes. *)
(* os/exec and the processes are not this repository's code: they are      *)
(* modelled as Run and configureProcess use them.                          *)
(***************************************************************************)
EXTENDS Integers

CONSTANTS
    Leader,      \* the process Run starts
    Child,       \* descendants it may fork
    Limit,       \* opts.MaxOutputBytes, in units of output
    MaxProduced  \* bound of the output of all processes

ASSUME LauncherAssumption ==
    /\ Leader \notin Child
    /\ Limit \in Nat \ {0}
    /\ MaxProduced \in Nat

Proc == Child \cup {Leader}

VARIABLES
    opts,      \* Options, and what the checks of them find
    pc,        \* next step of Run
    result,    \* Result.{SignatureValid, Executed, ExitCode} and the error
    stageDir,  \* the staged artifact exists
    deadline,  \* ctx.Err() = DeadlineExceeded
    waitErr,   \* error cmd.Wait has so far
    watcher,   \* os/exec's watchCtx goroutine
    watchErr,  \* the error it will hand over
    timer,     \* the WaitDelay timer
    copier,    \* the goroutines that copy the kernel's output
    feeder,    \* the one that copies the request to its input; "full" when the
               \* pipe has to be read before the rest of the request fits
    ends,      \* Run's ends of the pipes; "cut" when closed under a live copier
    pipe,      \* output written and not yet read
    buf,       \* limitedBuffer: bytes kept, exceeded
    produced,  \* output written by all processes so far
    proc,      \* process -> its state
    status,    \* how the leader ended
    holds,     \* processes that hold the output pipes open
    reads,     \* processes that hold the input pipe open
    doomed     \* processes with a pending SIGKILL

runVars == <<opts, pc, result, stageDir, waitErr>>
execVars == <<watcher, watchErr, timer>>
ioVars == <<copier, feeder, ends, pipe, buf>>
osVars == <<produced, proc, status, holds, reads, doomed>>
vars == <<runVars, deadline, execVars, ioVars, osVars>>

-----------------------------------------------------------------------------
Options ==
    [overCeiling: BOOLEAN, admissible: BOOLEAN, requireSignature: BOOLEAN,
     signature: BOOLEAN,
     publicKey: BOOLEAN, signatureOK: BOOLEAN, verifyOnly: BOOLEAN,
     tooManyArgs: BOOLEAN]

ErrorCode ==
    {"none", "max output exceeds", "rejected", "CONTRACT_SIGNATURE_REQUIRED",
     "CONTRACT_SIGNATURE_INCOMPLETE", "CONTRACT_SIGNATURE_INVALID",
     "ARTIFACT_VERIFICATION_FAILED", "too many arguments", "marshal",
     "KERNEL_TIMEOUT", "KERNEL_OUTPUT_LIMIT", "KERNEL_EXIT_NONZERO",
     "KERNEL_EXEC_FAILED"}

Init ==
    /\ opts \in Options
    /\ pc = "evaluate"
    /\ result = [signatureValid |-> FALSE, executed |-> FALSE,
                 exitCode |-> -1, error |-> "none"]
    /\ stageDir = FALSE
    /\ deadline = FALSE
    /\ waitErr = "nil"
    /\ watcher = "none" /\ watchErr = "nil" /\ timer = "off"
    /\ copier = "none" /\ feeder = "none" /\ ends = "none" /\ pipe = 0
    /\ buf = [len |-> 0, exceeded |-> FALSE]
    /\ produced = 0
    /\ proc = [p \in Proc |-> "unborn"]
    /\ status = "none"
    /\ holds = {} /\ reads = {}
    /\ doomed = {}

\* A return of Run; the deferred Cleanup goes with it, and its error is lost.
Return(r) ==
    /\ pc' = "returned"
    /\ result' = r
    /\ stageDir' \in {FALSE, stageDir}
    /\ UNCHANGED <<opts, waitErr, deadline, execVars, ioVars, osVars>>

Fail(code) == Return([result EXCEPT !.error = code])

Goto(next) ==
    /\ pc' = next
    /\ UNCHANGED <<opts, deadline, waitErr, execVars, ioVars, osVars>>

-----------------------------------------------------------------------------
\* The ceiling on MaxOutputBytes, which returns the zero Result, and then
\* planner.Evaluate in the runtime phase, on a clock read once.
Evaluate ==
    /\ pc = "evaluate"
    /\ \/ /\ opts.overCeiling
          /\ Return([result EXCEPT !.exitCode = 0, !.error = "max output exceeds"])
       \/ /\ ~opts.overCeiling /\ opts.admissible
          /\ Goto("signature") /\ UNCHANGED <<result, stageDir>>
       \/ ~opts.overCeiling /\ ~opts.admissible /\ Fail("rejected")

\* Faulty variant: a signature without a key is passed over.
CheckSignatureIfComplete ==
    LET both == opts.signature /\ opts.publicKey IN
    /\ pc = "signature"
    /\ \/ opts.requireSignature /\ ~both /\ Fail("CONTRACT_SIGNATURE_REQUIRED")
       \/ both /\ ~opts.signatureOK /\ Fail("CONTRACT_SIGNATURE_INVALID")
       \/ /\ both /\ opts.signatureOK
          /\ result' = [result EXCEPT !.signatureValid = TRUE]
          /\ Goto("stage")
          /\ UNCHANGED stageDir
       \/ /\ ~opts.requireSignature /\ ~both
          /\ Goto("stage")
          /\ UNCHANGED <<result, stageDir>>

CheckSignature ==
    LET both == opts.signature /\ opts.publicKey
        either == opts.signature \/ opts.publicKey
    IN
    /\ pc = "signature"
    /\ \/ opts.requireSignature /\ ~both /\ Fail("CONTRACT_SIGNATURE_REQUIRED")
       \/ /\ ~opts.requireSignature /\ either /\ ~both
          /\ Fail("CONTRACT_SIGNATURE_INCOMPLETE")
       \/ both /\ ~opts.signatureOK /\ Fail("CONTRACT_SIGNATURE_INVALID")
       \/ /\ both /\ opts.signatureOK
          /\ result' = [result EXCEPT !.signatureValid = TRUE]
          /\ Goto("stage")
          /\ UNCHANGED stageDir
       \/ /\ ~opts.requireSignature /\ ~either
          /\ Goto("stage")
          /\ UNCHANGED <<result, stageDir>>

\* artifact.Stage: it returns a certified copy, or an error and no directory of
\* Run's, or it waits in open(2) for the writer of a FIFO.
StageArtifact ==
    /\ pc = "stage"
    /\ \/ stageDir' = TRUE /\ Goto("prepare") /\ UNCHANGED result
       \/ Fail("ARTIFACT_VERIFICATION_FAILED")
       \/ Goto("blocked") /\ UNCHANGED <<result, stageDir>>

\* The writer has come, and Stage sees that this is not a regular file.
WriterComes == pc = "blocked" /\ Fail("ARTIFACT_VERIFICATION_FAILED")

\* VerifyOnly, the argument check and the request's JSON, then the context
\* starts its deadline.
Prepare ==
    /\ pc = "prepare"
    /\ \/ opts.verifyOnly /\ Fail("none")
       \/ ~opts.verifyOnly /\ opts.tooManyArgs /\ Fail("too many arguments")
       \/ ~opts.verifyOnly /\ ~opts.tooManyArgs /\ Fail("marshal")
       \/ /\ ~opts.verifyOnly /\ ~opts.tooManyArgs
          /\ Goto("start")
          /\ UNCHANGED <<result, stageDir>>

\* context.WithTimeout: the deadline passes at any time from here on.
Expire ==
    /\ pc \in {"start", "wait", "awaitWatcher", "awaitCopier", "closing", "judge"}
    /\ ~deadline
    /\ deadline' = TRUE
    /\ UNCHANGED <<runVars, execVars, ioVars, osVars>>

\* cmd.Start: a context that is done, or a failing fork or exec, starts nothing.
Start ==
    /\ pc = "start"
    /\ \/ /\ deadline
          /\ pc' = "judge" /\ waitErr' = "ctx"
          /\ UNCHANGED <<execVars, ioVars, osVars>>
       \/ /\ ~deadline
          /\ pc' = "judge" /\ waitErr' = "start"
          /\ UNCHANGED <<execVars, ioVars, osVars>>
       \/ /\ ~deadline
          /\ pc' = "wait"
          /\ proc' = [proc EXCEPT ![Leader] = "running"]
          /\ holds' = {Leader} /\ reads' = {Leader}
          /\ watcher' = "watching"
          /\ copier' = "copying" /\ feeder' \in {"full", "fits"} /\ ends' = "open"
          /\ UNCHANGED <<waitErr, watchErr, timer, pipe, buf, produced, status,
                         doomed>>
    /\ UNCHANGED <<opts, result, stageDir, deadline>>

-----------------------------------------------------------------------------
\* Process.Wait reaps the leader; its exit status is the first error.
Reap ==
    /\ pc = "wait"
    /\ proc[Leader] = "zombie"
    /\ proc' = [proc EXCEPT ![Leader] = "gone"]
    /\ waitErr' = IF status = "zero" THEN "nil" ELSE "exit"
    /\ pc' = "awaitWatcher"
    /\ UNCHANGED <<opts, result, stageDir, deadline, execVars, ioVars,
                   produced, status, holds, reads, doomed>>

\* os/exec hears of its copying goroutines once, when all have ended.
CopiersDone == copier = "done" /\ feeder = "done"

\* The last thing Wait does is to close its ends of the pipes.
Closed == IF ends = "open" THEN "closed" ELSE ends

\* Wait meets the watcher: one that has seen no deadline is dismissed, one
\* that has cancelled hands over its error and its running timer.
MeetWatcher ==
    /\ pc = "awaitWatcher"
    /\ watcher \in {"watching", "grace", "reporting"}
    /\ watcher' = "done"
    /\ waitErr' = IF waitErr = "nil" THEN watchErr ELSE waitErr
    /\ pc' = IF watcher = "reporting" THEN "judge" ELSE "awaitCopier"
    /\ timer' = IF watcher = "reporting" THEN "off" ELSE timer
    /\ ends' = IF watcher = "reporting" THEN Closed ELSE ends
    /\ UNCHANGED <<opts, result, stageDir, deadline, watchErr, copier, feeder,
                   pipe, buf, osVars>>

\* Faulty variant: no WaitDelay.
AwaitCopierForever ==
    /\ pc = "awaitCopier"
    /\ CopiersDone
    /\ pc' = "judge" /\ timer' = "off" /\ ends' = Closed
    /\ UNCHANGED <<opts, result, stageDir, deadline, waitErr, watcher, watchErr,
                   copier, feeder, pipe, buf, osVars>>

\* Faulty variant: the pipes are closed, the copiers are not waited for.
AwaitTimerOnly ==
    /\ pc = "awaitCopier"
    /\ \/ CopiersDone /\ pc' = "judge" /\ timer' = "off" /\ ends' = Closed
       \/ /\ ~CopiersDone /\ timer = "off"
          /\ timer' = "running" /\ UNCHANGED <<pc, ends>>
       \/ /\ timer = "fired"
          /\ ends' = "cut" /\ pc' = "judge" /\ timer' = "off"
    /\ UNCHANGED <<opts, result, stageDir, deadline, waitErr, watcher, watchErr,
                   copier, feeder, pipe, buf, osVars>>

\* awaitGoroutines: the copiers, or the WaitDelay timer, which it starts when
\* the watcher has not; when it fires the pipes are closed.
AwaitCopier ==
    /\ pc = "awaitCopier"
    /\ \/ CopiersDone /\ pc' = "judge" /\ timer' = "off" /\ ends' = Closed
       \/ /\ ~CopiersDone /\ timer = "off"
          /\ timer' = "running" /\ UNCHANGED <<pc, ends>>
       \/ /\ timer = "fired"
          /\ ends' = "cut" /\ pc' = "closing" /\ UNCHANGED timer
    /\ UNCHANGED <<opts, result, stageDir, deadline, waitErr, watcher, watchErr,
                   copier, feeder, pipe, buf, osVars>>

CopierClosed ==
    /\ pc = "closing"
    /\ CopiersDone
    /\ waitErr' = IF waitErr = "nil" THEN "delay" ELSE waitErr
    /\ pc' = "judge"
    /\ timer' = "off"
    /\ UNCHANGED <<opts, result, stageDir, deadline, watcher, watchErr, ioVars,
                   osVars>>

\* Faulty variant: an expired WaitDelay counts as success.
JudgeIgnoringDelay ==
    LET ran == [result EXCEPT !.executed = TRUE] IN
    /\ pc = "judge"
    /\ \/ deadline /\ Return([ran EXCEPT !.error = "KERNEL_TIMEOUT"])
       \/ ~deadline /\ buf.exceeded /\ Return([ran EXCEPT !.error = "KERNEL_OUTPUT_LIMIT"])
       \/ /\ ~deadline /\ ~buf.exceeded /\ waitErr = "exit"
          /\ Return([ran EXCEPT !.error = "KERNEL_EXIT_NONZERO", !.exitCode = 1])
       \/ /\ ~deadline /\ ~buf.exceeded /\ waitErr # "exit"
          /\ Return([ran EXCEPT !.exitCode = 0])

\* Faulty variant: the output limit is looked at before the deadline.
JudgeOutputFirst ==
    LET ran == [result EXCEPT !.executed = TRUE] IN
    /\ pc = "judge"
    /\ \/ buf.exceeded /\ Return([ran EXCEPT !.error = "KERNEL_OUTPUT_LIMIT"])
       \/ ~buf.exceeded /\ deadline /\ Return([ran EXCEPT !.error = "KERNEL_TIMEOUT"])
       \/ /\ ~deadline /\ ~buf.exceeded /\ waitErr # "nil"
          /\ Return([ran EXCEPT !.error = "KERNEL_EXEC_FAILED"])
       \/ /\ ~deadline /\ ~buf.exceeded /\ waitErr = "nil"
          /\ Return([ran EXCEPT !.exitCode = 0])

\* What Run makes of cmd.Run's error, in the order of its checks.
Judge ==
    LET ran == [result EXCEPT !.executed = TRUE] IN
    /\ pc = "judge"
    /\ \/ deadline /\ Return([ran EXCEPT !.error = "KERNEL_TIMEOUT"])
       \/ /\ ~deadline /\ buf.exceeded
          /\ Return([ran EXCEPT !.error = "KERNEL_OUTPUT_LIMIT"])
       \/ /\ ~deadline /\ ~buf.exceeded /\ waitErr = "exit"
          /\ Return([ran EXCEPT !.error = "KERNEL_EXIT_NONZERO",
                         !.exitCode = IF status = "killed" THEN -1 ELSE 1])
       \/ /\ ~deadline /\ ~buf.exceeded /\ waitErr \notin {"nil", "exit"}
          /\ Return([ran EXCEPT !.error = "KERNEL_EXEC_FAILED"])
       \/ /\ ~deadline /\ ~buf.exceeded /\ waitErr = "nil"
          /\ Return([ran EXCEPT !.exitCode = 0])

-----------------------------------------------------------------------------
Running == {p \in Proc : proc[p] = "running"}

\* The process group still has a member that a signal can be sent to.
GroupExists == \E p \in Proc : proc[p] \in {"running", "zombie"}

\* Faulty variant: os/exec's own Cancel, which kills the leader alone.
CancelLeaderOnly ==
    /\ watcher = "watching"
    /\ deadline
    /\ watcher' = "grace"
    /\ timer' = "running"
    /\ doomed' = Running \cap {Leader}
    /\ watchErr' = IF proc[Leader] = "gone" THEN "nil" ELSE "ctx"
    /\ UNCHANGED <<runVars, deadline, ioVars, produced, proc, status, holds,
                   reads>>

\* The watcher sees the deadline and calls cmd.Cancel: kill(-pgid, SIGKILL),
\* with ESRCH turned into ErrProcessDone, which is no error.
Cancel ==
    /\ watcher = "watching"
    /\ deadline
    /\ watcher' = "grace"
    /\ timer' = "running"
    /\ \/ /\ GroupExists
          /\ doomed' = Running
          /\ watchErr' = "ctx"
       \/ /\ ~GroupExists
          /\ UNCHANGED <<doomed, watchErr>>
    /\ UNCHANGED <<runVars, deadline, ioVars, produced, proc, status, holds,
                   reads>>

TimerFires ==
    /\ timer = "running"
    /\ timer' = "fired"
    /\ UNCHANGED <<runVars, deadline, watcher, watchErr, ioVars, osVars>>

\* WaitDelay has passed and Wait has not come: the watcher kills the leader,
\* closes the pipes and waits for the copiers itself.
GraceOver ==
    /\ watcher = "grace"
    /\ timer = "fired"
    /\ watcher' = "closing"
    /\ doomed' = doomed \cup (Running \cap {Leader})
    /\ ends' = IF CopiersDone THEN ends ELSE "cut"
    /\ watchErr' = IF watchErr = "nil" /\ proc[Leader] = "gone" /\ ~CopiersDone
                   THEN "delay" ELSE watchErr
    /\ UNCHANGED <<runVars, deadline, timer, copier, feeder, pipe, buf, produced,
                   proc, status, holds, reads>>

WatcherReports ==
    /\ watcher = "closing"
    /\ CopiersDone
    /\ watcher' = "reporting"
    /\ UNCHANGED <<runVars, deadline, watchErr, timer, ioVars, osVars>>

-----------------------------------------------------------------------------
\* Faulty variant: what does not fit is kept.
WriteUncut(b, n) ==
    IF b.exceeded THEN b
    ELSE [len |-> b.len + n, exceeded |-> b.len + n > Limit]

\* Faulty variant: output of exactly the limit counts as too much.
WriteOffByOne(b, n) ==
    LET remaining == Limit - b.len IN
    IF b.exceeded THEN b
    ELSE IF n >= remaining THEN [len |-> Limit, exceeded |-> TRUE]
    ELSE [b EXCEPT !.len = @ + n]

\* limitedBuffer.Write of n units: what does not fit is dropped, and the
\* writer is told that all was written.
Write(b, n) ==
    LET remaining == Limit - b.len IN
    IF b.exceeded THEN b
    ELSE IF n > remaining THEN [len |-> Limit, exceeded |-> TRUE]
    ELSE [b EXCEPT !.len = @ + n]

CopyOutput ==
    /\ copier = "copying" /\ ends = "open"
    /\ \E n \in 1..pipe :
         /\ pipe' = pipe - n
         /\ buf' = Write(buf, n)
    /\ UNCHANGED <<runVars, deadline, execVars, copier, feeder, ends, osVars>>

\* End of file once the last writer is gone, or an error once Run's end is
\* closed; what is in the pipe then is lost.
CopyEnds ==
    /\ copier = "copying"
    /\ ends = "cut" \/ (pipe = 0 /\ holds = {})
    /\ copier' = "done"
    /\ pipe' = 0
    /\ UNCHANGED <<runVars, deadline, execVars, feeder, ends, buf, osVars>>

\* The request is written once what is left of it fits into the pipe; EPIPE,
\* when nobody can read it any more, and a closed pipe end it as well.
FeedEnds ==
    /\ \/ feeder = "fits"
       \/ feeder = "full" /\ (reads = {} \/ ends = "cut")
    /\ feeder' = "done"
    /\ UNCHANGED <<runVars, deadline, execVars, copier, ends, pipe, buf, osVars>>

-----------------------------------------------------------------------------
\* The kernel's processes.
Produce(p) ==
    /\ p \in Running /\ p \in holds /\ ends = "open"
    /\ \E n \in 1..(MaxProduced - produced) :
         pipe' = pipe + n /\ produced' = produced + n
    /\ UNCHANGED <<runVars, deadline, execVars, copier, feeder, ends, buf, proc,
                   status, holds, reads, doomed>>

\* Some process reads what is in the input pipe, and the rest fits in.
ReadInput(p) ==
    /\ p \in Running \cap reads
    /\ feeder = "full"
    /\ feeder' = "fits"
    /\ UNCHANGED <<runVars, deadline, execVars, copier, ends, pipe, buf, osVars>>

\* A child inherits the pipes and the group; a fork with a SIGKILL pending
\* does not happen.
Fork(p, c) ==
    /\ p \in Running \ doomed
    /\ c \in Child /\ proc[c] = "unborn"
    /\ proc' = [proc EXCEPT ![c] = "running"]
    /\ holds' = IF p \in holds THEN holds \cup {c} ELSE holds
    /\ reads' = IF p \in reads THEN reads \cup {c} ELSE reads
    /\ UNCHANGED <<runVars, deadline, execVars, ioVars, produced, status, doomed>>

CloseStdout(p) ==
    /\ p \in Running \cap holds
    /\ holds' = holds \ {p}
    /\ UNCHANGED <<runVars, deadline, execVars, ioVars, produced, proc, status,
                   reads, doomed>>

CloseStdin(p) ==
    /\ p \in Running \cap reads
    /\ reads' = reads \ {p}
    /\ UNCHANGED <<runVars, deadline, execVars, ioVars, produced, proc, status,
                   holds, doomed>>

\* A process that ends: the leader stays a zombie until it is reaped.
End(p, how) ==
    /\ p \in Running
    /\ proc' = [proc EXCEPT ![p] = IF p = Leader THEN "zombie" ELSE "gone"]
    /\ status' = IF p = Leader THEN how ELSE status
    /\ holds' = holds \ {p} /\ reads' = reads \ {p}
    /\ doomed' = doomed \ {p}
    /\ UNCHANGED <<runVars, deadline, execVars, ioVars, produced>>

Exit(p) == \E how \in {"zero", "nonzero"} : End(p, how)

Die(p) == p \in doomed /\ End(p, "killed")

-----------------------------------------------------------------------------
Run == \/ Evaluate \/ CheckSignature \/ StageArtifact \/ Prepare \/ Start
       \/ Reap \/ MeetWatcher \/ AwaitCopier \/ CopierClosed \/ Judge

Watcher == Cancel \/ GraceOver \/ WatcherReports

Copier == CopyOutput \/ CopyEnds

Kernel == \E p \in Proc :
    \/ Produce(p) \/ ReadInput(p) \/ CloseStdout(p) \/ CloseStdin(p)
    \/ Exit(p) \/ Die(p)
    \/ \E c \in Child : Fork(p, c)

Next ==
    Run \/ Expire \/ Watcher \/ TimerFires \/ Copier \/ FeedEnds \/ Kernel
    \/ WriterComes

\* Go schedules its goroutines and timers, Linux delivers a SIGKILL; nothing
\* is assumed of what the kernel's processes do of their own, nor of a writer.
Fairness ==
    /\ WF_vars(Run)
    /\ WF_vars(Expire)
    /\ WF_vars(Watcher)
    /\ WF_vars(TimerFires)
    /\ WF_vars(Copier)
    /\ WF_vars(FeedEnds)
    /\ \A p \in Proc : WF_vars(Die(p))

Spec == Init /\ [][Next]_vars /\ Fairness

-----------------------------------------------------------------------------
RunStep == {"evaluate", "signature", "stage", "blocked", "prepare", "start", "wait",
            "awaitWatcher", "awaitCopier", "closing", "judge", "returned"}

\* Type correctness.
TypeOK ==
    /\ opts \in Options
    /\ pc \in RunStep
    /\ result \in [signatureValid: BOOLEAN, executed: BOOLEAN,
                   exitCode: {-1, 0, 1}, error: ErrorCode]
    /\ stageDir \in BOOLEAN /\ deadline \in BOOLEAN
    /\ waitErr \in {"nil", "start", "ctx", "exit", "delay"}
    /\ watcher \in {"none", "watching", "grace", "closing", "reporting", "done"}
    /\ watchErr \in {"nil", "ctx", "delay"}
    /\ timer \in {"off", "running", "fired"}
    /\ copier \in {"none", "copying", "done"}
    /\ feeder \in {"none", "full", "fits", "done"}
    /\ ends \in {"none", "open", "cut", "closed"}
    /\ pipe \in 0..MaxProduced /\ produced \in 0..MaxProduced
    /\ buf \in [len: 0..Limit, exceeded: BOOLEAN]
    /\ proc \in [Proc -> {"unborn", "running", "zombie", "gone"}]
    /\ status \in {"none", "zero", "nonzero", "killed"}
    /\ holds \subseteq Running /\ reads \subseteq Running
    /\ doomed \subseteq Running

\* Nothing is started unless the planner admitted it, every signature that is
\* demanded or given, a key without one included, has been verified, and the
\* certified copy is there (launcher.go:70-106; docs/THREAT_MODEL.md:5-6).
OnlyVerifiedRuns ==
    proc[Leader] # "unborn" =>
        /\ opts.admissible /\ ~opts.verifyOnly /\ ~opts.overCeiling
        /\ opts.requireSignature \/ opts.signature \/ opts.publicKey =>
              /\ opts.signature /\ opts.publicKey
              /\ opts.signatureOK /\ result.signatureValid
        /\ pc # "returned" => stageDir

\* A run without an error was a success: the leader ended by itself with
\* status 0, before the deadline, nobody was killed, everybody has let go of
\* the output, and what Run returns is all of it (launcher.go:114-133).
SuccessIsGenuine ==
    pc = "returned" /\ result.error = "none" /\ ~opts.verifyOnly =>
        /\ result.exitCode = 0 /\ result.executed
        /\ status = "zero" /\ ~deadline
        /\ doomed = {} /\ holds = {}
        /\ ~buf.exceeded /\ buf.len = produced

\* A run that was cancelled is reported as a timeout and as nothing else, even
\* if it also wrote too much or died with a status (launcher.go:118-131).
CancelledIsTimeout ==
    pc = "returned" /\ watchErr = "ctx" => result.error = "KERNEL_TIMEOUT"

\* Once the group was killed no process of it lives on, not even one that is
\* forked meanwhile (process_linux.go:13-26).
NothingEscapesCancel == watchErr = "ctx" => Running \subseteq doomed

\* Run leaves no goroutine, timer or open pipe end behind, those of the
\* request's copier included, so nobody writes to the buffers after it has read
\* them (launcher.go:109-117).
NoGoroutineLeft ==
    pc \in {"judge", "returned"} =>
        /\ watcher \in {"none", "done"}
        /\ copier \in {"none", "done"} /\ feeder \in {"none", "done"}
        /\ timer = "off"
        /\ ends # "open"

\* The limit on the output is reported exactly when it was overrun, whatever
\* the sizes of the single writes (launcher.go:152-169).
OutputLimitExact ==
    ends \in {"open", "closed"} =>
        /\ buf.exceeded <=> produced - pipe > Limit
        /\ ~buf.exceeded => buf.len = produced - pipe

\* Run returns: a kernel that hangs, and a descendant that keeps the output
\* open or does not read the request, hold it up only until the deadline and
\* the WaitDelay.  Only the open(2) of a FIFO, before the deadline is set, can
\* keep it for ever.
RunReturns == <>[](pc \in {"returned", "blocked"})

\* Documented: "A timed-out kernel cannot intentionally leave ordinary child
\* processes alive on the Linux target" (docs/THREAT_MODEL.md:11-12), "so a
\* timed-out signed kernel cannot strand descendants" (process_linux.go:14).
TimeoutStrandsNobody ==
    pc = "returned" /\ result.error = "KERNEL_TIMEOUT" => Running \subseteq doomed
=============================================================================
