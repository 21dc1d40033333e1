# A TLA+ model of the benchmark harness

The harness (`src/harness`) runs a *campaign*: an experiment names arms (a
provider and a mode) and tasks, the product is a list of *trials*, and each
trial invokes an AI coding CLI in a workspace of its own, gates what it did,
classifies it and leaves a result.  A campaign lives in one directory, takes
hours, is interrupted, and is resumed by running the command again.  What makes
it trustworthy is that whatever dies, fails or races, a reported trial is one
whole execution whose evidence is on disk.  That is what these modules state,
check with TLC and, but for liveness, prove with TLAPS: every safety property a
run checks is also a theorem.

## 1. Inventory

| Component | State it keeps | Operations | Hard behaviour | What makes it correct |
|---|---|---|---|---|
| **campaign lock** `lock.js` | `campaign.lock`, `campaign.lock.recover` | `acquireLock`, `recoverDeadLock`, `acquireRecoveryGuard`, `releaseLock` | several processes, two files, crashes anywhere, files created in two system calls by a child that can be killed | one holder; only dead locks of this host reclaimed; a dead owner never blocks for ever |
| **campaign runner** `run.js` | the campaign directory, the run's memory | `claimCampaignRoot`, `runCampaign` with its loop over the trials | two processes on a new directory; crash between any two writes; a write that failed may have happened; late writes | a directory that is not a campaign's is left alone; terminal trials have whole evidence; nothing finished is lost; the campaign completes |
| **manifest** `manifest.js` | `manifest.json` | create, load, save, `updateTrial` | transitions out of order | only legal transitions; one trial active |
| **results and evidence** `results.js` | `results/`, `raw/`, `artifacts/` per trial | write, clear, adopt, quarantine, verify digests | three directories written and cleared one after another | a result describes the bytes on disk |
| **scheduler** `schedule.js` | none | `expandExperiment`, `nextTrial` | a trial left running blocks its provider | every pending trial is chosen |
| **file-system boundary** `safe-fs.js`, `fs-boundary-helper.js` | pinned directories, helper children | exclusive create, atomic replace, read, remove | a helper outlives its parent; timeout against completion | replace is one rename; nothing outside the root is touched |
| **controlled spawn** `spawn-controlled.js` | a child process tree, output buffers, two timers | spawn, timeout, kill, settle | timers, `error` and `close` in any order; processes that outlive the child | settles once; says everything that happened; leaves nobody behind |
| **classification** `classify.js` | none | `classifyTrial` | precedence of causes | a total function with a fixed precedence |
| **gates** `gates.js` | tool cache, confinement, results so far | `runGates`: commands, oracles, requirements, comparison with the baseline | processes with timers and pipes; a workspace that others write to; requirements that rest on earlier gates | a pass rests on processes that ran to their end; protected files are untouched; the gates end |
| **poetic adapter** `poetic-adapter.js`, `poetic-system.js` | an output file, raw files | prepare, run, parse, bind, ingest | an answer of another request or execution, a link, half a file | what counts is an answer to this request |
| **native invoker, registry** `native-cli.js`, `invokers/index.js` | a prompt file | build a command, run it | failure between its steps | leaves no prompt behind |
| **provider confinement** `provider-confine.js` | a private temp, a profile | wrap a command, clean up | a step fails after the first directory was made | refuses rather than run unconfined; leaves no scratch |
| **workspaces** `workspace.js` | execution workspaces and tool caches | create, copy, seal, clean up | crash between any two steps, processes that live on in an old one | an execution sees its own work only; nothing is left |
| **summary** `summary.js` | none | aggregate results | what is counted | every reportable trial counted once |
| **export** `export.js` | a staging directory, the destination | load, verify, stage, copy, publish | no lock against runs; crash or failure between the steps; the user at the destination | one state of the campaign, published whole; nothing of the user's replaced |
| **digests, posture, paths, loading, validation, preflight, contracts** | none | pure functions on files and data | none | data |
| **command line** `cli.js`, `index.js` | none | parse options, dispatch | `--max-trials` that is not a number | options mean what they say |
| **benchmark assets** `benchmarks/`, `schemas/`, `examples/` | none | none | none | data for the harness |

How they interact: the command line calls `runCampaign`.  It claims the
directory, takes the campaign lock, loads the manifest and the corpus, and for
each trial the scheduler picks calls workspace → invoker (→ controlled spawn) →
quarantine → gates → classification → results → manifest, all synchronously
awaited; then results → summary → report.  Every write goes through the
file-system boundary, which forks a helper child per operation.  Different
processes meet only in the campaign directory: the lock lets one of them in.
The only actor that escapes the lock is a helper whose parent died.

## 2. Modules

| Module | Models | Kind |
|---|---|---|
| `CampaignLease` | what the lock promises: `Grant`, `Drop`, `Break` | abstract specification |
| `CampaignLock` | `lock.js` and the helper's exclusive create | component |
| `CampaignLockProofs` | theorems about `CampaignLock` | proofs |
| `ClaimRoot` | `claimCampaignRoot` and `validateCampaignOwnerMarker` of `run.js`, with the helper's exclusive create | component, checked as it is |
| `ClaimRootProofs` | theorems about `ClaimRoot` | proofs |
| `CampaignLedger` | what the directory promises: `Close`, `Declare`, `StartOver` | abstract specification |
| `CampaignRun` | `run.js` with `manifest.js`, `results.js`, `schedule.js` | component |
| `CampaignRunProofs` | theorems about `CampaignRun` | proofs |
| `Invocation` | `spawn-controlled.js` with `native-cli.js`, `poetic-system.js`, `wrapProviderCommand`, and `run.js` and `classify.js` on what they return | component |
| `InvocationProofs` | theorems about `Invocation` | proofs |
| `Gates` | `runGates` of `gates.js` and `classifyTrial` of `classify.js` as functions of what happened | operators |
| `PoeticAdapter` | parsing, binding and outcome of an answer in `poetic-adapter.js` | operators |
| `GatesProofs` | theorems about the operators of `Gates` | proofs |
| `TrialExecution` | one trial in the loop of `runCampaign` in `run.js`, with `workspace.js`, `Gates` and `PoeticAdapter` | composition |
| `TrialExecutionProofs` | theorems about `TrialExecution` | proofs |
| `CampaignExport` | `export.js` beside `CampaignRun` | composition |
| `CampaignExportProofs` | theorems about `CampaignExport` | proofs |
| `MCCampaignLock`, `MCCampaignRun`, `MCInvocation`, `MCTrialExecution`, `MCCampaignExport` | values for the constants | model checking |

### CampaignLock

One element of `Proc` is the life of one process: one `runCampaign` call with an
owner id of its own.  `pc[p]` is where it is in `acquireLock` or `releaseLock`;
`disk[f]` is who created the file at each of the two paths and `written[f]` says
whether its content is there.  An action is one file-system call or one verdict:

* `Acquire` … `HelperOpen`, `HelperWrite`, `HelperSync` — the exclusive create is
  a request to a child that opens with `O_EXCL` in one system call, writes in
  another (others can read the file from then on) and syncs in a third;
* `ReadLock`, `JudgeLock` — the read after `EEXIST`, then the liveness probe;
* `ReadGuard`, `JudgeGuard`, `RereadGuard`, `UnlinkGuard` — the recovery guard;
* `RecheckLock`, `UnlinkLock`, `Unguard` — the reclamation under the guard and
  its `finally`;
* `Release`, `ReleaseRead`, `ReleaseUnlink`, `ReleaseUnguard` — `releaseLock`;
* `HelperFails`, `HelperTimeout`, `HelperDies`, `FileError`, `Crash`, `Exit`;
* `Lapse` — thirty seconds pass, the age below which a dead owner is not believed.

A dead process may have left either file in any state (`Leftover` and `Init`).
Pids are not reused: a recycled pid makes the code refuse a dead lock, which is
the safe side.  What a lock file holds beyond its owner (cwd, time, version) is
abstracted to the identity the code compares.

`broken` is a history variable: it becomes true when somebody unlinks the guard
of a *working* reclaimer, or when the sync of a new lock fails after its owner
died and the owner's helper unlinks the lock by its name.  The code can do both
(section 5), so the safety properties are claimed up to that moment, and the
violation runs show what happens without the proviso.

### CampaignRun

One directory and the runs made on it, one after another; the lease is what
entitles the module to a single process.  Directory variables: `disk`
(manifest.json), `res`, `raw`, `art` (the evidence of each trial), `report`,
`summary`, and `late`, a rename that the helper of a dead run has still to do.
Memory variables vanish with the run.  Evidence is stamped with the run that
produced it, and a digest is the set of stamps of what it covers, so that mixed
evidence is visible and a digest check is an equality.

The actions follow `runCampaign` top down: `Start`, `Load`/`Create`/`Refuse`,
`Adopt`/`Recover`/`Recovered` (an interrupted trial), `ClearKind` and what its
three callers do next (`Requeue`, `MarkRunning`, `Park`), `Choose`/`LoopEnds`,
`KeepArtifacts`, `Quarantine`, `Classify`/`Misfire`, `WriteResult`, `Save`
(`saveManifest` at seven places), `Verify`/`VerifyFails`, `WriteReport`,
`WriteSummary`.  `Crash` may interrupt any of them; `WriteFails` covers a write
that is reported as failed whether or not its rename happened; `ClearFails`
covers a clear that stops halfway.

Not in the module: a trial whose arm is not in the experiment (the manifest
would have to be edited by hand), the content of prompts, gates and results, and
two runs at a time.

### Invocation

What is inside `KeepArtifacts` to `Classify` of `CampaignRun` and `Provider` to
`NativeReturns` of `TrialExecution`, from `invoker.invoke` to the
classification.  Two sides interleave.  The *provider* is a tree of processes:
`alive`, `group` (those a signal to the process group reaches), `open` (who
holds each of the two pipes), `unborn`, `written`, and how the leader `ended`.
Its actions `Fork`, `LeaveGroup`, `Redirect`, `Write`, `End` are what any
program may do; they are external and have no fairness.  The *harness* is in a
`stage`; the promise of `spawnRaw` is `result`, its timers are `timer` and
`killTimer`, its capture is `buf`, with `read` next to it for how much has come.

* `WritePrompt`, `MakeTemp`, `MakeProfile`, `Wrap`, `Spawn` with their failures
  `PromptFails`, `TempFails`, `WrapFails`, `SpawnThrows`, `SpawnNotFound` — every
  failure before the child runs is a `Refusal`, several checks that refuse at the
  same place are one action, and a half-made wrap is undone where it fails;
* `Chunk`, `SpawnError`, `Close`, `Timeout`, `Kill` — the handlers; the two
  events that settle go through `Finish`; `close` comes when the child has ended *and* nobody
  holds a pipe *and* both are read to their end;
* `Exit` — the second timer is unref'd: the campaign's process ends when nothing
  else is left to do, at most a second after a timeout, and the timer with it;
* `Unwrap`, `Unprompt` — the two `finally` blocks that remove scratch;
* `Judge`, `Classify` — `isRawEvidenceUnavailable`, the quarantine of the raw
  output, and `classifyTrial`, for whatever the gates say.

`Timeout` and `Kill` let any set of processes survive SIGTERM and nobody survive
SIGKILL.  With `kind = "bwrap"` the death of the leader takes the tree with it
(`--die-with-parent`, `--unshare-pid`); with `"sandbox-exec"` it does not.
Bytes are counted and not named.  Any removal of scratch may fail, also with the
tree dead, and nobody is told (`Remove`); `lost` is history, what was not removed
when it was tried, or was made by a step that failed before anybody knew of it.
Not in the module: the death of the harness itself
(that is `CampaignRun`'s `Crash`), a `kill` that is refused, a reused pid, and
the gates' own processes.

### ClaimRoot

What a run does before it asks for the lock.  One element of `Proc` is one call;
`pc[p]` is the check it makes next: is the directory there (`SeekRoot`), make it
(`MakeRoot`, where `EEXIST` means that another process was faster), is it a
repository (`SeekGit`), has it a marker (`SeekMarker`, `Validate`), a manifest
(`SeekManifest`, `LoadManifest`), anything at all (`List`).  `Create` asks a
helper for the marker, which appears torn, becomes whole and is synced in three
steps; `HelperFails` removes it again, `HelperDies` leaves it.  `Private` and
`Manifest` are what later claims find.  `Crash` may come at any step, and a
`User` makes the directory, puts files there or makes it a repository.  The
directory is the set of facts the checks look at, and starts as nothing, as
empty, as the user's, as a campaign with or without a marker, or with half a
marker of somebody who died.

`found`, `marked`, `met` and `spoilt` are history: what was in the way when a
process called and when it made the directory, who created a marker, who had
company, and whether somebody interfered.  The user only adds: what removes a
marker by hand is beyond the claim's promises.

### TrialExecution, with Gates and PoeticAdapter

One trial from the fixture to the verdict, executed again after a crash and
after a result that could not be written.  `tree` has the workspaces by name:
with a fixture each execution has its own, without one all share the directory
0.  Edits are stamped with the execution and with who made them (the harness,
the provider, a gate, a process left over), so that what a verdict rests on can
be told from what it should rest on.  `hidden` says where changes are that Git
does not report: under an ignore rule of the workspace or of `.git/info/exclude`,
under a local setting such as `core.worktree`, or undone again.

* `Begin`, `Create`, `Copy`, `Seal`, `MakeCache`, `WriteRequest`,
  `PrepareOutput` — the preparation, in the order of `runCampaign`;
* `Provider` — works in one step; it edits classes of paths, commits, changes
  the repository, leaves an answer; `NativeReturns`, `BridgeReturns`, `Refused`;
* `ReadOutput`, `Ingest` — the answer is read and bound, then its raw output is
  taken in one file after the other;
* `Structural`, `NotRun`, `GateStarts`, `GateExits`, `LetGo`, `GateTimer`,
  `GateKill`, `GateCloses` — the gates in order, each with its process, its
  timers and whoever holds its pipes;
* `Judge`, `Store`/`StoreFails`, `CleanTree`, `CleanCache` — the verdict from
  the results and from the changes counted *now*, then the `finally`;
* `Throw` (anything before the verdict), `Crash`, `StrayEdits`, `StrayAnswers`.

`Gates` is what a gate concludes from what happened: the order, the policy of
`baseline-diff`, which earlier result a requirement rests on, the signal of a
command, and `classifyTrial` over all of it.  `PoeticAdapter` is the same for
an answer: absent, empty, a link, unreadable, of another request, or bound, and
what `AdapterResult` makes of it.

Abstractions.  How an invocation ends is chosen, within what `Invocation`
allows (`NativeOutcome`).  The provider works in one step because the harness
does not look meanwhile.  A process that outlives its execution (`strays`) edits
tests at any time, hidden or not, as those are the class of paths the comparison
tells apart; a bridge that does so writes one of the `LateWorks` as its answer,
with its raw files, until an answer has been read.  Both reach the current
execution only in a directory that the two share.  The verification of raw output and of artifacts
is one step.  What is left where nobody looks again is forgotten at `Begin`.
`GateKill` happens while the gate's process is the current one.

### CampaignExport

`exportSanitizedBundle` as a process of its own beside every action of
`CampaignRun`: it loads the manifest, verifies one result after the other,
fills a staging directory, copies the raw output as it is then, looks at the
destination again and renames.  `WriteError`, `Abort` and `ExportDies` end it
early, and a `User` makes, fills, empties or removes the destination between any
two steps.  What is redacted and projected in a file is data and left out; a
staging directory that a crash or a failed removal leaves behind is seen by
nobody and is not kept in the state.

## 3. Runs

| Run | Instance | Shows |
|---|---|---|
| `lock_race` | two processes; two leftovers of their host, one with a pid in its owner id and one without, and one of another host; crashes and faults | `MutualExclusion`, `GuardSerializes`, `LiveLockKept`, `UnlinksDeadLock`, `ImplementsLease`, `TypeOK` |
| `lock_resume` | two processes, two leftovers, nothing fails, fairness | `Resumable` |
| `claim` | two processes, every directory there may be, crashes, faults, a user, fairness | `OwnedRightly`, `RefusedForAReason`, `SomebodyOwns`, `TypeOK` |
| `run_faults` | two trials, three runs, any options, crashes, faults, misfires | `TerminalHasEvidence`, `CompletedIsReported`, `LegalTransitions`, `TerminalEvidenceKept`, `ImplementsLedger`, `TypeOK` |
| `run_resumed` | two trials, four runs, any options, crashes, late renames of dead runs' helpers, fairness | `ReportMatchesEvidence`, `DurableResultKept`, `EventuallyCompleted` |
| `invocation` | a leader and two more processes, two bytes to a stream, a limit of one, every kind of confinement and transport, with and without a timeout, fairness | `RawIsWhole`, `CountedIsUndisturbed`, `CaptureExact`, `NothingLeft`, `SettlesOnce`, `GroupIsKilled`, `Settles`, `TypeOK` |
| `trial` | four tasks, two executions, both invokers, every confinement, six ways to work, each with another answer or none, a late answer, crashes and failures, fairness | `PassIsEarned`, `UntouchedTests`, `CountedIsComplete`, `OwnWorkspace`, `OwnAnswer`, `NothingKept`, `GatesEnd`, `TypeOK` |
| `export` | two trials, two runs with and without `--resume`, an export at any time, a user, crashes and failures | `BundleIsWhole`, `ExportIsSnapshot`, `OnlyEmptyIsReplaced` |
| `lock_strict`, `invocation_signal`, `trial_scratch`, `trial_fixture` | | findings, section 5 |

Why the bounds are enough.  *Lock:* every race of the code is between one
process that checks and one that replaces, and a third that supplies what is
replaced: a dead owner, a dead reclaimer, or a live one.  Two live processes and
leftovers give all of these; the proofs are for any number.  *Claim:* a race is
between who makes the directory and who finds it, so two processes; the safety
properties hold with three as well, which is left to the proofs because the
liveness property makes it long.  *Run:* a trial interacts with another one only
through the provider it shares and through being passed over, for which two
trials suffice; three runs let a run find what a second run found half-done by a
first, and four are used where nothing else multiplies the states.  The last
run (`runs = MaxRuns`) does not crash: this bounds the behaviour and is what
"resumed until it is not interrupted" means.  *Invocation:* the leader, one
process that stays in its group and one that leaves it are the three cases the
code and the operating system tell apart; two bytes against a limit of one give
a stream that is empty, complete, or truncated, in one chunk or two; the proofs
are for any tree and any limit.  *Trial:* the second execution is the one that
meets what the first left; the tasks have gates listed out of order, with equal
orders, optional and required, and requirements that name a test, a gate or a
script, as the corpus does; the ways to work are one for each thing the
comparison tells apart, with answers of the kinds the binding does; a late answer
is a good one, as only that can be taken for the execution's own.  *Export:* two trials let one be read
before and one after a run has moved on.  `CHECK_DEADLOCK` is on in every
run: `Terminated` and `Rest` are the only states in which nothing happens.

Fairness.  In `CampaignLock` a live process goes on and a child that was not
killed goes on (`Step`, `Child`): nothing in the code waits without a timeout.
No fairness on `Acquire` and `Release`: nobody need start, and a campaign may
run for ever.  In `CampaignRun` a live run goes on (`Progress`) and somebody
starts the next one (`Start`), which is the premise of resuming, and
`EventuallyCompleted` is about runs that resume, execute and have no limit.  In
`Invocation` the harness goes on (`Harness \/ Failure`): the event loop runs
whatever handler is due, and waits for nothing but the child and its timers.
That holds for the second timer as well while the harness is busy; when it is done,
`Kill` or `Exit` comes, and `GroupIsKilled` excepts the second.
The provider need do nothing at all, which is why an invocation without a
timeout is claimed nothing of, and why one with a timeout has the exception
`Escaped`: a process outside the group that keeps a pipe open for ever.
`TrialExecution` assumes the same of its `Harness` and nothing of the gates'
processes, and `GatesEnd` has the same exception.  In `ClaimRoot` every process
of the instance makes its call and goes on while it lives (`Claim`), and so
does its helper (`Helper`): each waits for nothing but the other, with a
timeout.

## 4. Proofs

`CampaignLockProofs` proves, for any set of processes, hosts, leftovers and any
choice of crashes and faults, with `LockAssumption` (names do not collide,
`Tagged` and `Leftover` are sets of processes) as the only assumption:

* `TypeCorrect`, `Mutex`, `OneReclaimer`, `OnlyDeadLocksReclaimed` — the type
  invariant and three safety invariants;
* `LiveLockIsKept` — the action property that a live lock is taken away only by
  its owner's release or its own helper's failed write;
* `LeaseRefined` — `CampaignLock` implements `CampaignLease`.

`MutualExclusion` is not inductive: that two processes do not both hold the lock
depends on what is on disk, what helpers are about to write and what reclaimers
have already checked.  The inductive invariant is

    IInv == Control /\ Exclusion

`Control` ties together where a process is, the helper it waits for and its
claim on the lock, and needs no proviso (it also serves to know that a helper
that was not given up has a parent waiting for exactly its file).  `Exclusion` holds until `broken`: a
holder's lock is on disk and complete (`HeldIsOnDisk`, from which exclusion
follows because there is one file), a half-written lock is its writer's
(`WriterHasLock`), a reclaimer's guard is on disk (`GuardIsMine`), and what a
reclaimer checked is still there and still dead (`CheckedIsDead`): the guard
keeps every other reclaimer out, and the dead owner cannot release.  Each is
proved one action at a time (`ControlStep`, `ExclusionStep`).

`InvocationProofs` proves, for any tree of processes, capture limit and amount
of output, from `InvocationAssumption` (the leader is none of the others, the
limit is positive) and `NoneAssumption` (`None` is no value of anything):

* `InvocationTypes`, `StoredIsWhole`, `CountingTrialUndisturbed`,
  `CaptureIsExact`, `NothingIsLeft` — the type invariant and the four safety
  invariants of the run;
* `ResolvesOnce` — the action property that a result never changes.

None of the four is inductive: each speaks of the verdict or of `raw/`, far from
where the bytes are read.  The invariant follows the result there.  There is a
result exactly when the harness no longer listens, so the first timer is off and
nothing can be signalled as timed out after it (`Listening`); while it listens,
the capture and what it dropped add up to what was read (`Accounting`, from the
lemma `AppendAccounts` on `appendBoundedBytes`); the leader ends once, and under
bwrap the tree with it (`TreeOK`).  Hence a result is one of two things
(`ResultOK`): a refusal with no process behind it, or an account of a tree that
can write no more, which stays exact whatever the survivors do.  A refusal is
never stored (`RefusalUnavailable`), what is stored is an account
(`StoredOK`), and what counts is stored and not timed out, because a timeout
outranks every other signal (`TimeoutDoesNotCount`, `VerdictOK`).  For
`NothingLeft`, `ScratchOK` ties what there is of scratch to the stage that will
remove it, or to `lost`: what is left was tried to be removed.  There is one
lemma per action or group of actions with the same effect.

`ClaimRootProofs` proves, for any set of processes, from `NoneAssumption`:

* `TypeCorrect`, `OwnershipIsRight`, `RefusalHasReason` — the type invariant and
  the two safety invariants of the run;
* `Inductive` — the invariant they follow from.

A refusal is decided by the last of a chain of checks, each made at another
moment, and has to be explained by what was there at the first.  The invariant
carries the explanation along.  `Presence`: past the first checks the directory
exists.  `Findings`: what `found` says is still so, because nobody takes
anything away, or was spoilt.  `Marking`: a marker was created by a process that
found nothing of the user's, or found a valid manifest.  `Company`: a process in
the middle of its claim that was not alone is in `met`.  `Solitude`: for a
process that met nobody, what it sees now is what it found, plus its own marker.
There is one lemma for each of these, with one step per action.

`CampaignRunProofs` proves, for any number of trials and runs, any providers and
options and any choice of crashes, misfires and faults, from
`CampaignAssumption` (the constants have their types) and `NoneAssumption`:

* `TypeCorrect`, `TransitionsAreLegal`, `ReportsAreOfEvidence` — the type
  invariant, that no step makes `updateTrial` throw, and that a report is of the
  evidence on disk; with late renames too;
* `FinishedHasEvidence`, `CompletedHasReport`, `EvidenceIsKept`,
  `LedgerRefined` — the two safety invariants, that finished evidence is left
  alone, and that `CampaignRun` implements `CampaignLedger`.  These assume
  `~Orphans`, that no helper of a dead run renames its file later: such a rename
  can put an old manifest beside evidence it does not know of, and the
  properties have no proviso for it;
* `DurableIsKept` — a verified result that a crash left on disk before the
  manifest says so stays and is adopted.  It assumes `~Faults`, because a read
  that fails for a moment costs the result (section 5); helpers may outlive
  their runs, and the property holds until one of them renames its file.

The first three rest on `EInv == CInv /\ Execution /\ Stamps`.  `CInv` keeps the
memory of the run in order without looking at the disk: what is set at each
location (`Control`), and that once the interrupted trial is settled only the
trial the run is busy with is running, so that every update is a legal one
(`Memory`; the number of finished trials also bounds what was executed).
`Execution` follows one trial from the clearing of its three directories to its
result, and `Stamps` says that every result that ever reaches the disk is of one
execution.  A late rename may bring back an old manifest or an old result, but
never raw output or artifacts, so the verification before a report still compares
whole evidence.

The others need to know how the disk lags behind, which is so until the first
late rename (`InductiveUntilLate`: `overtaken \/ IInv`), hence for ever when
there is none (`Inductive`).  `Sync`: between two saves the
manifest on disk differs from the one in memory in one trial, the one the run is
busy with, or in the trial a resume has just settled (`OneRunning` says there is
one such trial), and never in a finished one.  `Evidence`: what either manifest
calls finished is backed by a result and its bytes.  Every place that clears or
writes evidence does so for a trial that is not finished on disk (`CurIsOpen`).
`Reports` carries the verification over the two writes that follow it to the
status.  For the refinement, `DirectoryStep` says that a step touches the
evidence of one unfinished trial, which is a stutter of the ledger, or saves the
manifest, and `SaveMaps` that a save is `StartOver`, `Declare`, the `Close` of
one trial, or a stutter.  That `Choose` finds a first pending trial is the lemma
`NextTrialIn`, from the well-foundedness of the inclusion of finite sets.
`DurableIsKept` adds `Durable`: without faults a trial is cleared on a resume
only when its result is not verified, the result is what is cleared first, and a
trial that was requeued in memory while the disk still says running has none; so
no save and no clear meets a verified result of a running trial.

`GatesProofs` is about operators, for any list of gates and results:

* `OrderedIsSorted` — `runGates` runs every gate once, sorted by `order`, gates
  of equal order as they are listed.  That each place is taken by exactly one
  gate is an injection of a finite set into itself (`PlaceIsOnto`);
* `BoundIsMeant`, `RequirementsAreMet` — a requirement rests on the first earlier
  result it can mean, and the requirements pass only when each rests on a
  required gate that passed;
* `HighestIsHighest`, `ClassifiedByAll` — the precedence of the signals, and what
  a verdict therefore excludes; a PASS excludes a count of zero, and not an
  unknown one.

`TrialExecutionProofs` proves, for any tasks with any gates, any ways to work, any
number of executions and any crashes and failures, from `TasksAssumption`,
`WorksAssumption`, `LateWorksAssumption`, `MaxExecAssumption` (the constants have their types) and
`NoneAssumption`:

* `TypeCorrect`, `EveryPassIsEarned`, `PassLeftTestsAlone`,
  `EveryCountedIsComplete`, `JudgedByOwnWork`, `JudgedByOwnAnswer`,
  `NothingIsKept` — the type invariant and the six safety invariants of the run.

All but the first and the last speak of a verdict, which is made in one step from a row of
results that were made one by one, each with a process of its own, while the
workspace goes on changing.  The invariant says of each of the rows what the verdict
will rely on.  `Rows`: each result fits the gate of its place and how that gate's
process really ended (`Fits`); one of the requirements gate also fits the results
*before* it, which is what `RequirementsAreMet` gives and what later results do
not change.  `Untouched`: as long as the gates run, a comparison with the
baseline that passed is still right about those of the provider's edits that Git
can see, because the provider is done and what is hidden stays so; what lives on
of it is another author of edits.
`Provenance`: with a fixture, whatever is in a workspace bears the stamp of its
execution, which needs that no later workspace exists yet.
`Answer`: from the fresh output path on, an answer in the workspace is of this
execution, and so is one that was read and bound to the request, provided that
the execution is `Alone`: with a fixture always, and without one as long as no
process of an earlier execution lives on.
`Kept`: what there
is belongs to the current execution and is owned, or has an excuse.  `Verdicts`
is then the properties themselves, made true by `Judge` from the rest
(`JudgedResults` and its neighbours), and kept because only `Begin` forgets a
verdict.  The type invariant comes first, in groups of variables, for the
preservation of a function of records is what the provers find hardest.

`CampaignExportProofs` proves, for any number of trials and runs, from the
assumptions of `CampaignRun` and `StagingAssumption` (`None` is no staging
directory):

* `BundlesAreWhole` — whatever fails or dies, and with late renames too;
* `ExportsAreSnapshots` — under `~Orphans`, which it inherits from what it says
  of the runs;
* `OnlyTheEmptyIsReplaced` — the action property.

`Progressing` is what the staging directory holds at each location, up to the
rename.  For the snapshot, an export has read only of trials that the loaded
manifest calls finished (`Reading`); as long as nobody starts the campaign over,
these are finished on disk now (`Settled`), and `FinishedStays`, which follows
from the `DirectoryStep` of `CampaignRunProofs`, says that no step of a run
touches their evidence.  Here the theorem about the runs is used as it should be:
the export needs no lock because of it.

Model-checked only: the liveness properties (`Resumable`,
`SomebodyOwns`, `EventuallyCompleted`, `GroupIsKilled`, `Settles`, `GatesEnd`),
which are outside the prover's reach, as fairness and `ENABLED` are.  The
invariants above were model-checked before they were proved.

## 5. Where the code and its comments disagree

* `lock_strict` — the guard is unlinked by its path after a second read, so a
  fresh guard of another reclaimer can be unlinked, and two processes end up
  holding the campaign.  The header of `lock.js` promises serialization.
* `invocation_signal` — nobody reads the signal of a result, and a missing exit
  code counts as no failure: a provider killed by somebody else (out of memory,
  a crash) is judged by its gates alone and can pass as "invoker and required
  executable gates succeeded".
* `trial_scratch` — the request is written to `.aicb-scratch` in the workspace
  after the baseline was sealed, and is one of the changes that are counted.  A
  trial with a sealed baseline in which nobody changed anything is never NO_OP and
  can pass; an allow list that does not name it always fails.
* `trial_fixture` — the fixture is compared with the manifest when the run
  starts; what is copied hours later is not.  A result says it was the frozen
  fixture whatever was copied, although the verification promises an independent
  authority.

Consequences of the design that are not findings.

* *Lock.*  `releaseLock` unlinks the guard unread (`lock.js:808`), and it may be
  a live reclaimer's.  A reclaimer that dies between creating and writing the
  guard (`lock.js:481`) leaves an empty one, refused at any age.  A failing sync
  after the owner died is the other way to `broken`.  Two calls of `runCampaign`
  in one process within one millisecond share an owner id (`run.js:657`).
* *Claim.*  A torn marker is refused for ever.  A sync that fails withdraws a
  marker another process may have relied on.  Of two processes that claim a new
  directory together one may be refused as if the directory were foreign.
* *Run.*  A trial that left no raw evidence makes every later run of its campaign
  stop before the report (`run.js:1545`, fail closed).  A read that fails for a
  moment during adoption costs a finished result, which is executed again.  When
  reading the manifest fails and the `lstat` after it fails too, for any reason,
  the run starts the campaign over although it was asked to resume one that
  exists (`Create` after a failed `Load`; `CampaignLedger` has `StartOver`).
* *Invocation.*  A provider that the timeout ends has exit code null, which
  `run.js:546` takes to mean that there never were any streams: its output is
  dropped and the verdict is INFRA_FAIL.  TIMEOUT needs a provider that catches
  SIGTERM and exits with a code.  Under sandbox-exec a survivor may go on writing
  to the workspace and to outputs that were read already, and one that ignores
  SIGTERM lives for ever if the campaign is done within the second
  (`spawn-controlled.js:309`, `cli.js:244`).  Scratch whose removal fails, and a
  private temp whose `chmod` does (`provider-confine.js:206`), stay unnoticed.
* *Adapter.*  A comment leaves a non-zero exit for `classify` to judge "as FAIL
  via exitCode" (`poetic-adapter.js:1627`), and `classify` takes the
  `success: false` beside it as INFRA_FAIL.
* *Gates.*  What a gate writes counts as a change of the trial.  A gate killed by
  a signal is a FAIL.  `oracleExecuted` is recorded although the confined command
  was refused before it ran (`gates.js:2192`).  A new test that an ignore rule names
  is no change, although a comment calls untracked files gaming surface
  (`gates.js:1446`, `--exclude-standard` three lines below).  Oracles are read from the corpus
  as it is then.  A gate waits for whoever holds its pipes.
* *Workspaces.*  A task without a fixture (`validate.js:291` allows it) uses one
  directory for every execution: after a crash or a failed removal the next one
  starts in what was left, has no baseline to compare with (`baseline-diff` is an
  INFRA_FAIL and the count is unknown), and may take in raw output that an
  earlier execution left under its request id.  A bridge that outlived the crash
  may write its answer there, to the same request id, and it counts.  Two campaigns with the same id
  share the root of these directories.  A workspace whose making fails half-way
  stays.
* *Export.*  It takes no lock, and is of one state of the campaign unless a run
  starts it over meanwhile.  A raw file that is missing then gives no warning.

## 6. Plan

Done: the lock, the invocation, the claim, the run, the trial with its gates and
the adapter, and the export, each with its proofs.  In this order, most important
first:

1. `AtomicFile`: the helper protocol of `safe-fs.js` on its own (write to a
   temporary file, rename, failure, timeout), as the abstract one-rename
   replacement that `CampaignRun` uses, and the refinement between the two.
2. `Evidence`: verification of one trial's evidence in detail (protocol, request
   binding, raw output).
3. `Schedule` and `Summary`: pure functions, against reference definitions over
   bounded inputs.
4. The composition of the lease with two runners of one directory, to show what
   a run relies on and what happens after `Break`.

## 7. Not modelled

Text and data: the profiles of the provider and gate confinement, environments,
the sanitizing of exported files, validation of YAML and JSON, digests of content
(a digest stands for what it covers), posture.  The pinning of directories in
`safe-fs.js` answers to somebody who replaces directories while a run writes to
them; no module has such an actor.  The command line is parsing: a `--max-trials`
that is not a number becomes NaN and the run ends as paused, and the modules take
options to be valid.  The
benchmark assets are data.  Several calls of `runCampaign` inside one process
within one millisecond, which would share an owner id, are excluded by giving
each call an identity of its own.
