# TLA+ verification of claim2kernel

claim2kernel admits and dispatches accelerator kernels on the strength of a
sealed, signed and calibrated contract. This directory models the parts of it
whose correctness depends on order, failure or history, checks them with TLC on
small instances and proves the central safety properties with TLAPS.

## 1. Inventory

The paths below are relative to the root of the repository.

| Component | State it keeps | Operations | Interacts with | Hard behaviours | What makes it correct |
|---|---|---|---|---|---|
| lifecycle checker `pkg/statecheck` | three maps: profiles, admissions, tombstones; `Valid` | one case per event type of a trace | reads traces any controller wrote | revocation and republication between admission and dispatch; shared digests | accepts only lawful traces, reports no lawful trace |
| artifact staging `pkg/artifact` | a descriptor, a private directory, a hasher | `Stage`, `Cleanup`, `DigestFile` | called by the launcher; races with writers of the artifact root | source changed between any two system calls; each call may fail, the open may wait for ever | what is handed out has the certified digest; nothing is left behind that could be removed |
| launcher `pkg/launcher` | options, `Result`, a context, `limitedBuffer`s, a process group | `Run`, `configureProcess` | planner, contract, artifact, os/exec, the kernel's processes | deadline against exit, forks against kill, pipes held open, requests not read, output limit | only verified code runs; success is genuine; `Run` returns |
| issuance `pkg/contract/{digest,signature}.go`, `CertificateFresh` | a profile with its seal, a signature envelope | `SealProfile`, `VerifySeal`, `SignProfile`, `VerifyProfileSignature`, `CertificateFresh` | the CLI, planner and launcher | clocks that differ, edits after sealing, expiry between two checks | what is used is what was sealed and signed, within its validity |
| planner `pkg/planner` | none (a decision with reasons) | `Evaluate`, `Select` | contract, dra, the CLI, the launcher | missing observations, two phases with different evidence, ties, map order | admits exactly what the documents ask for; the choice is the best and does not depend on the order |
| contract validation `pkg/contract/{validate,value,semver,types}.go` | none | `ValidateProfile`, `ValidateRequest`, `LoadCatalog`, `MatchVersionRange` | everything that loads JSON, the planner | numeric edges, precedence of pre-releases, malformed matrices | what passes is safe to evaluate; version ranges mean what their reference order says |
| DRA metadata `pkg/dra` | none | `DecodeMetadataStream`, `DevicesForRequest`, `Attribute.Contains` | planner, launcher | several objects in a stream, unknown versions, unions | the first supported object or an error, never a mix |
| manifest renderer `pkg/k8smanifest` | none | `Render` | planner (plan phase), later the launcher in the pod | time between admission and dispatch | the pod revalidates what the plan assumed |
| strict JSON `pkg/jsonsafe` | a decoder stack | `DecodeStrict` | every loader | duplicate keys, depth and size limits | rejects what two readers could read differently |
| CLI `cmd/c2k` | files | `keygen`, `seal`, `sign`, `launch`, ... | all of the above, the file system | a failing call between two files, a crash during a write, commands at a time | no half-written file under the final name; nobody's key is lost |
| calibration `tools/calibration` | a dataset, a profile, a report | `calibrate.py`, `bind_artifact.py`, ... | issuance | output files of one run that disagree, leakage between splits | outputs belong together; the conformal rank is right |
| RZF host and device `kernels/host`, `kernels/cuda` | a handle with device buffers and maxima | create, run, destroy | a Python caller | partial allocation, per-element status, stale buffers | no use after destroy; a failed element never looks valid |
| RZF numerics, Mojo, baselines, scripts, schemas | - | - | - | floating point, measurement, shell glue | not for TLC |

The components are tied together as a pipeline: calibration writes an unsealed
profile, `seal` and `sign` issue it, the planner chooses it at plan time, the
renderer turns the choice into a Kubernetes job, and the launcher in the pod
evaluates again with the metadata of the devices that were really allocated,
verifies the signature, stages the artifact and runs it. The lifecycle checker
stands beside the pipeline and replays what happened.

## 2. Modules

| Module | Models | Kind |
|---|---|---|
| `StateCheck` | `statecheck.Check`: one action per event type | component |
| `StateCheckHistory` | the checker with publication numbers as history variables | properties |
| `Lifecycle` | what the lifecycle invariants promise, without maps | abstract specification |
| `LifecycleMonitored` | a lawful system whose events the checker reads | composition |
| `StateCheckProofs` | proofs about the checker and that it implements `Lifecycle` | TLAPS |
| `LifecycleProofs` | proof that no lawful system is reported | TLAPS |
| `Artifact` | `artifact.Stage` against other writers of the source | component |
| `ArtifactProofs` | proofs about staging | TLAPS |
| `Launcher` | `launcher.Run` with os/exec and the kernel's processes | component |
| `LauncherProofs` | proofs about the launcher | TLAPS |
| `Certificate` | sealing, signing, rendering and the launcher's revalidation, on four clocks | composition |
| `CertificateProofs` | proofs about the life of a certificate | TLAPS |
| `Values` | numbers with overflow, scalars | operators |
| `SemVer` | `MatchVersionRange` and the order of versions | operators |
| `Validation` | `ValidateProfile`, `ValidateRequest` for what the planner goes by | operators |
| `Evaluate` | `planner.Evaluate`, one action per loop or check | component |
| `Planner` | `LoadCatalog`, `Select` and `Evaluate` as the commands use them | composition |
| `Selection` | what `planner.Select` promises, without evaluation | abstract specification |
| `PlannerProofs` | proofs about versions, admission, the reasons, the selection, the types and the score | TLAPS |
| `StrictJSON` | `jsonsafe.DecodeStrict` over tokens | component |
| `Metadata` | `dra.DecodeMetadataStream` and `Validate`, over `StrictJSON` | composition |
| `MetadataProofs` | proofs about the descent, the stream and the attributes | TLAPS |
| `Files` | `keygen` and `atomicWrite` of the CLI, on a file system that fails | component |
| `AtomicFile` | what a file written by `atomicWrite` promises | abstract specification |
| `FilesProofs` | proofs about the files | TLAPS |
| `MCStateCheck`, `MCLifecycle`, `MCArtifact`, `MCCertificate`, `MCPlanner`, `MCMetadata`, `MCFiles` | constants for TLC | instances |

Definitions that end the name of another (`PublishOverTombstone`,
`JudgeIgnoringDelay`, ...) and whose comment begins with "Faulty variant" belong
to no specification. Each is the named definition with a plausible mistake put
in; substituting it makes the property it is meant for fail, which shows that
the property depends on that piece of code.

### StateCheck, StateCheckHistory, Lifecycle

`profiles`, `admissions` and `tombstones` are the maps of `Check`; `valid` is
`Result.Valid`; `verdict` is the set of invariants the last event was reported
for. Every event that `DecodeTrace` lets through is possible at every step, with
any field missing (`None`): the trace is the environment. Digests and
fingerprints are opaque values because the code only compares them; the numerical
bounds are integers, which keeps their order and sign, the only things the code
looks at. NaN and infinities, which JSON cannot carry, are left out.

The code keeps digests only. Whether a digest comparison is enough to tell one
publication of a profile from the next is the question the history answers:
every installed publication gets a number, an admission remembers the number it
was granted under, and `DispatchCertified` says that a dispatch in a valid trace
runs under the number it was admitted by. It holds because of an interplay of
three maps: a profile can only be replaced after it was revoked, revocation
leaves a tombstone, a tombstoned contract that comes back makes the trace
invalid, so the contract of a new publication must differ, and the dispatch
compares contracts. `Lifecycle` says the same without maps, with certificates in
force and grants as sets, and `ImplementsLifecycle` checks that each accepted
trace is one of its behaviours. `LifecycleMonitored` is the converse: the checker
reports no trace that a lawful system writes.

### Artifact

One action per system call or group of calls between which another process
cannot make a difference: resolve, open, stat, create, one read of the copy, end
of copy, verification, cleanup. `ForeignChange` swaps the file behind the name,
rewrites a file in place or changes its mode between any two of them. Any call
may fail by itself (`ioFailed`). `cleanup` and `Cleanup` are `RemoveAll`, which may fail
too, with the copy in the directory or already gone; the code drops that error, and
`kept` remembers it. A file may be a FIFO: `os.Open` (artifact.go:58) comes before the
check for a regular file (artifact.go:67) and does not ask for `O_NONBLOCK`, so it waits
(`blocked`) until somebody opens the FIFO for writing (`WriterComes`), which nobody has
to do. A content is a sequence of blocks and `Hash` is a
parameter, assumed of nothing: the theorem says that the staged bytes have the
certified digest, what follows from an equal digest is the hash's business.

### Launcher

`Run` is one process with a program counter; around it are the deadline of the
context, the watcher goroutine of os/exec, the WaitDelay timer, the goroutines
that copy the output (`copier`: one stands for both streams, as the code treats them
alike), the goroutine that `cmd.Stdin` makes to write the request to the kernel
(`feeder`: the rest of the request fits into the pipe, or the pipe is full and has to be
read first), and the kernel's leader and its descendants, which fork, read, write, close
their ends, exit and die as they like. `ends` are the ends of the pipes on `Run`'s side.
os/exec is external code; its actions
follow the documented behaviour of `Cmd.Cancel` and `Cmd.WaitDelay` as
`configureProcess` sets them. A descendant that leaves the process group is not
modelled: the repository promises something about ordinary children only.
`artifact.Stage` appears as its contract: a certified copy, an error with no
directory, or waiting for the writer of a FIFO, which is what `Artifact` shows; a
directory that a failing `Stage` could not remove is `Artifact`'s matter. The deferred
`Cleanup` may fail and its error is lost, so `stageDir` may stay true. What `planner.Evaluate` and the
signature check find is part of `opts`.

### Certificate

A profile file and a signature file pass from an issuer, who seals, to a signer,
who verifies the seal and signs, to the user who renders a job from them, to the
launcher in the pod, which validates, verifies and checks freshness again. Each
of the four has a clock, which differs from the others' by at most `Drift`; the
code grants `Skew` (five minutes) in every comparison of a past time. Where a command
takes `--at`, it may go by any other time instead (`EvaluationTime`); a rendered job
gives none. `LaunchFiles` is `c2k launch` by hand: a signature, a key of the caller's
choice and `--require-signature` may be given or not, and without a signature the seal is
all that is verified. `LaunchJob` is what the renderer writes, with the pinned key and
a signature required. `launched` is what the launcher accepted in the last step. The files
may be edited at any step: the terms under the old seal, the seal taken out, the
header of the envelope over the old signature. Digests are
ideal (a digest is the thing itself) and a signature is the pair of key and
message, which only `SignProfile` makes; PEM, base64 and the canonical JSON behind
the digest are not modelled. `signed` remembers what was signed, and in which
state of the profile; no action reads it.

### Values, SemVer, Validation, Evaluate, Planner, Selection

`Values` counts numbers in halves, with a largest finite one; beyond it are the two
infinities and NaN, with the sums and products that IEEE 754 gives them, and NaN is not
less than anything, nor is anything less than it. An observation on the node may be any
of them; the scalars and numbers of a document cannot. `SemVer` takes a version apart into its numbers and
identifiers, with the compact tag of a PEP-440 pre-release (1.0.0b2) still in one
piece, which `Normalize` opens up as `normalizeBetaVersion` does; a leading `v`,
build metadata and blanks are left out, and so are two spellings of one number
within a pre-release. `Validation` is `ValidateProfile` and `ValidateRequest`.
Fields that are only stored, compared with a constant or matched with a pattern
are one flag (`intact`), the seal is another (`sealed`, `Certificate` models it).
`positiveDefiniteSymmetric` is modelled with its loop order, because it can index
a row that is too short, and with its tolerance, which is 1/`ToleranceInverse`: relative
to the larger of the two entries (and 1) in the test of symmetry, absolute for the
pivots. `PositivePivots` keeps what is left of the matrix as integers and compares it
with what it was multiplied by (`scale`), so that there is no rounding.

`Evaluate` is one call. `reasons` grows as `Decision.Reasons` does; `todo` holds
the keys that the present loop has still to visit, taken in any order for a map and
by the index for a slice, which is how Go goes through them. Freshness of the
certificate is an outcome that the evidence carries. `OOD_FEATURE_MISSING`, which
`modelFeatures` makes impossible, is left out; that the other check which repeats
validation (`INVALID_NUMERICAL_CERTIFICATE`) and the indices of the score are safe
follows from validation in the model as in the code. `Lawful` restates what the
documents ask of an admission, without order, loops or early exits, and with an
order of versions of its own, and `AdmitsExactly` compares.

`Planner` is what surrounds it: `c2k select` loads a catalog and a request and runs
`Select`, other callers have one profile and call `Evaluate`. `Selection` is the
abstract specification: the profiles are entries that are admissible or not, and
the loop keeps the best. The mapping gives it the entries as the documents judge
them (`Lawful`, `LawfulUpper`), not as `Evaluate` does, so `ImplementsSelection` says
that loading, validating, evaluating and comparing together choose what the
documents would choose.

### StrictJSON, Metadata

A document is a sequence of the tokens that `json.Decoder.Token` returns, read one
at a time; `stack` is the recursion of `parseValue` with the set `seen` of each
object. `Decode` is the second pass by encoding/json: it refuses unknown fields and
sets a field by the last key that matches it without regard to case. `Metadata` is
the loop over the objects of a stream: each is read by the descent, its version and
kind looked at, and the first supported one decoded and validated. What the field
`requests` holds is chosen when it is decoded. Names are sequences of parts, so that
joining three of them with slashes is joining sequences, and `objects` keeps of each
object what was found of it.

### Files, AtomicFile

Processes are commands: `Keygen` runs `writeExclusive` twice and removes the
private key when the public one fails, `Writer` runs `atomicWrite`. The file system
maps names to inodes, an inode is a process and which of its files it is, and its
content is partial, whole or durable. Any call may fail, a command may be killed
between any two calls, and the machine may lose power once, after which every name
has one of the entries it has ever had (no code syncs a directory) and what was not
synced may be torn. `RemoveByHand` stands for people who clean up while no keygen
runs. What is left of a private file whose own write, sync or close failed stays, as
in main.go:160-162. `AtomicFile` says in one action what `atomicWrite` does in seven.

## 3. Runs

| Run | Question | Result |
|---|---|---|
| `StateCheckAccepted` | is every accepted trace lawful? | yes |
| `StateCheckAny` | do the maps stay consistent on any trace, and is a stale dispatch named? | yes |
| `StateCheckRevoked` | can a valid trace dispatch a revoked digest? | it can (finding 1) |
| `LifecycleMonitored` | is a lawful system ever reported? | no |
| `Artifact` | staging against a racing writer, a FIFO in its place and failing calls | all hold; it returns unless it waits to open a FIFO |
| `Launcher` | supervision of a leader and two descendants, and does `Run` return? | all hold; it returns unless it waits to open a FIFO |
| `LauncherTimeout` | is nobody stranded when a timeout is reported? | somebody can be (finding 2) |
| `Certificate` | is what the launcher accepts what was signed, in its validity, and is what was lawfully signed accepted? | yes |
| `Planner` | is exactly the lawful admitted, every fault named in one order, the best profile chosen with its own decision? | yes |
| `PlannerPanic` | does validation return on every profile? | it can panic (finding 3) |
| `Metadata` | which documents and streams pass, and do devices and attributes mean what they say? | all hold |
| `Files` | key pairs and output files under failures, kills and a power loss | all hold |

Bounds. `MaxIssue = 3` publications of two profiles with two contracts and two
devices cover: revoke and republish with the same and with another contract, a
second profile with a shared digest, and a third publication on top of either.
Two bounds above zero's neighbours (-1, 0, 1) cover malformed, exact and
exceeding budgets. In `Artifact`, `SizeBytes = MaxBytes = 2` with sources of up to
four blocks reach the limit of the reader exactly and beyond it, and one foreign
change at any point is enough to separate every pair of system calls; a second
one would only matter to properties that compare two points of the source, of
which there are none (and the theorems have no such bound). In `Launcher`, three
units of output against a limit of two reach, hit and overrun the limit in one
write or several; two descendants allow one to be killed while another forks.
`Certificate` has `Skew = Drift = 1`, the largest drift the skew is meant for, so
every comparison is met at its edge; `MaxNow = 5` lets a certificate be created,
sealed, signed, used and expire; two edits suffice to change terms and then the
seal or the envelope, and one signature to be replayed. `Time = {3}` is one time for
`--at` and for edited envelopes, within the validity of every draft, so that whoever
gives it is in time whatever his clock says, and ahead of and behind every clock in
turn. None of these bounds
limits the theorems, which also cover a drift beyond the skew. `ToleranceInverse = 50`
makes the tolerance wide enough for matrices of small integers that are asymmetric within
it and beyond it. `Planner` runs on direct calls that differ from an admitted one in at most two of
eleven places, with up to ten alternatives in each: two faults are what one check needs to hide
another, and every rejection code is produced. To these come thirty profiles that
validation must refuse, each evaluated where its fault would show; every operator
with ten versions on either side, which meet every branch of the order; and catalogs
of up to three profiles with equal, better, worse, refused, invalid and doubly named
ones in every order. `Metadata` has documents of up to eight tokens with two levels
of nesting, enough for an object in an object or an array between two equal keys;
two unknown objects may be skipped, so a third meets the limit; its bodies differ in
one or two places from a valid one. `Files` runs two keygens on two names, which
share, cross or separate them, or three writers of one name, which is one more than
it takes for a writer to overwrite what another one has just published.

Deadlock. The checker and the monitored lifecycle never stop and are checked for
deadlock. `Artifact` and `Launcher` really end (`Stage` and `Run` return), so
their configurations switch the check off, as do `Planner`'s, `Metadata`'s and `Files`', whose functions and
commands return, and `Certificate`'s, whose time does not go beyond `MaxNow`; `StageReturns` and `RunReturns` say
instead that the end is always reached.

Fairness. `Artifact`: weak fairness of `Stage`, a sequential function that keeps
running while it can. `Launcher`: Go schedules goroutines and timers, the one that feeds
the kernel included, the deadline of a context passes, and Linux delivers a pending
SIGKILL. Nothing is assumed of the kernel's processes: they may hang for ever and read
nothing. Nor is anybody assumed to write to a FIFO: an open that waits is under no
deadline, as `Run` sets its deadline after staging (launcher.go:87, 104), so
`StageReturns` and `RunReturns` say that the function returns or waits there.

## 4. Findings

1. `statecheck.go:143`: dispatch checks the profile name, never the tombstone of
   its digest. Publish one digest under two names, revoke one: the other name
   still dispatches the tombstoned digest in a valid trace.
2. `launcher.go:118`: when the leader exits in time, `Wait` dismisses the watcher;
   if the deadline passes while `Wait` still waits for pipes that a descendant
   holds, or just before `ctx.Err()` is read, `KERNEL_TIMEOUT` is reported and the
   descendants are neither killed nor doomed.
3. `validate.go:548`: `positiveDefiniteSymmetric` reads `a[j][i]` before it has
   compared the length of row `j`, and is called whenever the number of rows is right.
   A profile with a required OOD certificate over two features and the matrix
   `[[1,0],[]]` ends the program with an index out of range, where validate.go:475
   means to report that the matrix is not square. A later row that is longer, or an
   earlier one that is shorter, is reported.

Three readings of the documents that differ from the code, without a run of their own:
`launcher.go:64` returns the zero `Result` for an output ceiling that is refused,
whose exit code is 0, while launcher.go:43-44 calls zero evidence of success;
`value.go:84` lets 9007199254740992.0 through, as it has a point, and metadata.go:131
finds it in a list that holds 9007199254740993, which as a float is the same, while
value.go:14-16 means to fail closed "instead of silently rounding policy inputs or DRA
attributes" (`AttributeMeansItsValue` says what such a list matches); and
`planner.go:184` skips a relation when an operand is not given, which for an optional
input is no rejection, while ARCHITECTURE.md:32 makes any missing observation one.
`AdmitsExactly` takes the last as the tests do.

## 5. Proofs

All theorems hold for every value of the constants, under the named assumptions
of the modules: the constants are sets with `None` (or `Missing`) outside them,
numbers are naturals or integers, `SizeBytes` is positive and at most `MaxBytes`,
`Rank` gives finitely many names different integers each (`ValuesAssumption`; the
names stand for the keys of Go's maps, which are finite), and a call of the planner
is made of sequences where the code has slices, of numbers where it has numbers, of
names that have a rank, and of scalars that are finite if they are numbers, as
`value.go` lets no other one be decoded (`CallAssumption`). The reader of metadata
assumes that the largest exact integer is odd (it is 2^53 - 1) and that the members
of an attribute are of the kinds that encoding/json can set them to
(`MetadataAssumption`). No bound of a run is an assumption of a theorem.

`StateCheckProofs` proves `HSpec => []Inv` for the conjunction of `TypeOK`,
`TombstoneInv`, `IssueInv`, `GrantInv` and `DispatchCertified`. None of the last
two is inductive alone. A dispatch only compares digests, so certification needs
`GrantInv`: an admission of an older publication has a tombstoned contract that
the profile's present one differs from. That needs `TombstoneInv` (the profile
being overwritten was inactive, hence tombstoned) and, for the other profiles,
`IssueInv` (publication numbers are not shared). From the same invariant follow that
a stale dispatch is named (`StaleNamed`) and the refinement of `Lifecycle`
(`LifecycleImplemented`): the certificates in force are the active profiles, and
each event of an accepted trace is a step of the lifecycle or a stutter. A repeated
revocation, which `Check` accepts, withdraws nothing, because by `TombstoneInv` its
profile is no longer active.

`LifecycleProofs` proves the converse, that no lawful system is reported, from a
coupling invariant: every certificate in force is an active profile with the same
fields and the other way round, every grant is an admission with what it was granted
under, and the tombstones are just the contracts that were withdrawn.

`ArtifactProofs` proves the staging invariants from the inductive invariant that
the hasher has seen exactly the staged bytes after every block, whatever the
source is by then. That nothing is left behind excepts a removal that failed, and only
that: where `Stage` has failed or was cleaned up, the directory is there just if
`os.RemoveAll` failed. That staging does not fail without a reason follows from
another one: while nobody has touched the source and no call has failed, what was
copied is a prefix of what was opened.

`LauncherProofs` proves the safety properties of the launcher for any number of
descendants and any interleaving. They hang together by a few facts: nothing runs
unless the kernel was started, which is behind every check; a cancellation comes
after the deadline; once the goroutine that copies is done, nobody can write to the
buffer any more; `Wait` ends only when that goroutine and the one that feeds the kernel
are done, and closes what is open of the pipes; and when `Wait` returns no error, the leader's status was 0 and all
it wrote was copied. A killing of the group dooms all that runs at once, and a process
that is doomed forks no more.

`CertificateProofs` proves authenticity (`LaunchAuthentic`) and the absence of
false rejections (`LawfulAccepted`). Authenticity speaks of every launch: of the key it
was verified with, whichever the caller gave, and of the validity alone where no signature
was given and none required. It is inductive only together with
what a signature stands for: every signature in a file is one that `SignProfile`
made (`GenuineInv`), from a profile that was valid and sealed (`HistoryInv`).
`LawfulAccepted` has its premises in the property: no clock of the issuer or the signer
is more than the skew ahead of the node's, and neither has dated ahead of his own with
`--at`; nothing is assumed of `Drift`.

`PlannerProofs` goes in eight steps.

1. Versions (`MatchMeansPrecedence`). The precedence of versions is stated as a
   lexical order of keys, shown to be strict and total, and the loops of semver.go are
   shown to find it: the first place where two keys differ is the first difference the
   code meets, and a range stops at the first comparator that does not admit.
2. Admission (`PlannerAdmitsExactly`). Each check is shown to find nothing just if
   its lawful counterpart holds, and the invariant says of each loop that there is no
   reason so far just if every check of the loops before found nothing and this one
   finds nothing at the keys it has visited. As checks skip one another, the features
   that were resolved are carried along: without a reason they are what the documents
   go by (`LawfulValue`). Validation keeps the score in bounds
   (`PlannerScoreInBounds`) on the same way.
3. No fault hidden (`PlannerNamesEveryFault`). Reasons are only ever added, so what a
   loop finds at a key is named from then on, and the last sort moves each reason to
   a place of its own (`SortMoves`).
4. The order (`PlannerOrdersReasons`). Two reasons that the sort cannot tell apart
   have one code, hence come from one loop (`Turn`); in a loop over a map a key
   is visited once and a check gives no code twice; in a loop over a slice the
   index grows; and a feature is resolved at its first place only.
5. Selection (`SelectImplements`). With 2, every profile that `Select` has seen was
   judged as the documents judge it, and what is kept is the decision of the best of
   them, so every step maps to a step of `Selection` or a stutter.
6. What is selected (`Selects`, `Decides`). `Selection` keeps the invariant that the
   best profile beats every other admissible one among those seen, which rests on
   `Better` being a strict order that is total on profiles of different names. With 5
   the same holds of the planner, for catalogs of any length.
7. Types (`PlannerTypeCorrect`). Each loop has keys of its own kind left, finitely
   many, because every map and slice of a document is finite; and every reason has a
   code, a field and an item, the last two of which the sort compares.
8. The score (`PlannerScoreWithinTolerance`). Validation factorises the lower triangle;
   one step of it, for a pivot `p` and a row `L`, completes a square:
   `p * Q(x) = Q'(x) + L(x)^2` for the form `Q` before and `Q'` after, and what is
   eliminated is zero from then on. After the last step the form is zero, so going back
   up no form is negative while the pivots are positive. The double loop of the score sums
   the whole matrix, which differs from the form of the lower triangle by what the test of
   symmetry tolerates, entry by entry (`Slack`); an infinity or NaN in the sum never
   becomes finite again. Hence a finite score is below zero by no more than the
   tolerance times `Slack`, and not at all where the matrix is symmetric. A score that is
   negative within that margin is real: the code accepts such a matrix. `Evaluate` rejects
   the score then (planner.go:304). The arithmetic is otherwise exact: the theorem says
   nothing of what rounding adds.

`MetadataProofs` proves what the two passes over a document and the reader of a
stream do, for documents of any length, any depth and any keys.

1. The descent (`StrictPassesExactly`). The property says what is lawful of the tokens
   alone, by levels, and has no stack. The level of a token is a running sum, so that
   it does not change as the document grows; the invariant `Stands` says that each
   frame of the stack belongs to an opening that nothing has closed, at its level,
   and that its set `seen` is just the keys that lie directly in it. What may come next
   is then told from the innermost frame, and each action reads a token just if it is
   lawful there.
2. The stream (`FirstIsReturned`). Until something is returned or refused, every
   object so far was unknown and there were no more of them than the limit.
3. The attributes (`AttributesMean`). An accepted attribute has one member only. A
   single integer has a value only within the largest exact integer. A list of
   integers is searched as floats, for the integral numbers of a policy up to twice that
   bound: as the bound is odd and what lies beyond it is rounded to even numbers, an exact
   number is found only where the list holds it, and a number beyond it just where some
   member rounds to it, be it the number or a neighbour (section 4).

`FilesProofs` proves that nobody reads a torn file under the name `atomicWrite`
publishes, that a keygen removes only what it made, that a keygen that reports success
leaves a pair, that a command that returned has left no temporary file and a keygen that
failed not both keys (`NothingLeftBehind`, unless a removal failed or power was lost; the
remains of a private file that could not be written are excepted, as the code leaves
them), and the refinement of `AtomicFile`, for any number of commands, names
and kills and with a loss of power. Types are proved (`TypeCorrect`) and not checked by
the run. Its invariant says that while a keygen
works on a file its name refers to it, and that what a published name may refer to
after a loss of power was synced before it was renamed.

Every invariant and every action property that a passing run checks is stated by a
theorem. Only model-checked is liveness (`StageReturns`, `RunReturns`): fairness and
ENABLED are out of the prover's reach. So is induction over data with the library's
theorems; where an argument needs it (the sums, the descent over a matrix, the
running level) it is made over a set of numbers instead, from the least one that
fails. No module has a RECURSIVE operator. The violations of the findings are
counterexamples, which TLC finds and no theorem could state.

## 6. Not modelled

The decoding of scalars and the limit on bytes in JSON, the case folding of keys
beyond "equal without regard to case", flag parsing, message texts, the YAML
layout of manifests, two spellings of one number within a pre-release (2 and 02),
the rounding of sums and products within the finite range, with which positive
definiteness, too, is decided only as far as validate.go:534-574 can, other
floating-point numerics, the statistics of
calibration and its Python tools, the CUDA and RZF code and the Mojo kernels, and the
measurement and release scripts. Crashes of the launcher between staging and
cleanup: no code of the repository deals with what is left.

## 7. Plan

What is left, in this order:

1. `Dispatch`: plan, render, allocate and launch composed, with time passing and
   devices changing in between; the launcher's events fed to the checker.
2. The output files of calibration (`calibrate.py`, `bind_artifact.py`) with crashes
   and concurrent writers, on the file system of `Files`.
3. `RZFContext`: the device handle, its maxima and the status of each element.
4. Proofs about what the runs do not ask: that no step of the launcher or of staging
   is possible for ever (a measure that each step decreases, in place of the
   liveness which cannot be proved), that the decisions of `Evaluate` do not depend on
   the order in which the keys of a map come, and that a document that `DecodeStrict`
   accepts sets every field by the key that bears its name.
