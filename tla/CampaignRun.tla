----------------------------- MODULE CampaignRun -----------------------------
(***************************************************************************)
(* One campaign directory and the runCampaign calls made on it, one after  *)
(* another (src/harness/run.js with manifest.js, results.js, schedule.js). *)
(*                                                                         *)
(* A run loads manifest.json or creates it, settles the trial that an      *)
(* earlier run left `running', executes pending trials one at a time, and  *)
(* verifies the evidence of the finished ones before it writes report.json *)
(* and summary.txt.  A trial leaves its evidence in three places, written  *)
(* and cleared one after another: artifacts/, raw/ and results/.           *)
(*                                                                         *)
(* The campaign lock (CampaignLock, CampaignLease) lets one run at a time  *)
(* work on the directory, so there is one process here.  A run may die at  *)
(* any step.  Files are replaced by a helper child with one rename; the    *)
(* helper of a dead run may perform it later.                              *)
(*                                                                         *)
(* Evidence is stamped with the run that produced it: a run executes a     *)
(* trial at most once.  A digest is the set of stamps of what it covers.   *)
(***************************************************************************)
EXTENDS Naturals, Sequences, FiniteSets

CONSTANTS
  NTrials,     \* the number of trials of the experiment
  ProviderOf,  \* the provider each trial's arm calls
  Options,     \* the option records runCampaign may be called with
  MaxRuns,     \* bound on the calls of runCampaign, the last of which completes
  Crashes,     \* may a run die?
  Orphans,     \* may the helper of a dead run still rename its file?
  Misfires,    \* may a trial end without raw evidence?
  Faults,      \* may file operations and the loading of the corpus fail?
  None

Trial == 1 .. NTrials
Run == 1 .. MaxRuns

ASSUME CampaignAssumption ==
  /\ NTrials \in Nat /\ MaxRuns \in Nat
  /\ Options \subseteq [resume : BOOLEAN, execute : BOOLEAN, maxTrials : Nat]
  /\ None \notin Options
  /\ {Crashes, Orphans, Misfires, Faults} \subseteq BOOLEAN

VARIABLES
  \* the campaign directory
  disk,      \* manifest.json
  res,       \* results/<trial>/result.json
  raw,       \* the runs whose output is in raw/<trial>/
  art,       \* the runs whose files are in artifacts/<trial>/
  report,    \* report.json: the run whose result each trial is reported with
  summary,   \* summary.txt
  late,      \* the rename the helper of a dead run has still to do
  overtaken, \* has a helper of a dead run ever done so?
  runs,      \* calls of runCampaign so far
  \* the memory of the run
  pc,
  opts,      \* its options
  mem,       \* its manifest
  cur,       \* the trial it is busy with
  todo,      \* the directories of that trial it has still to clear
  out,       \* the result it is about to write
  executed,  \* how many trials it has executed
  checked    \* what it is about to report

directory == <<disk, res, raw, art, report, summary, late, overtaken, runs>>
memory == <<pc, opts, mem, cur, todo, out, executed, checked>>
vars == <<directory, memory>>

TrialState == {"pending", "running", "completed", "failed"}
Terminal == {"completed", "failed"}
Manifest == [state : [Trial -> TrialState], status : {"pending", "paused", "completed"}]
Result ==
  [run : Run, state : Terminal, usable : BOOLEAN, raw : SUBSET Run, art : SUBSET Run]
Tally == [Trial -> Run \cup {0}]
Kind == {"results", "raw", "artifacts"}
Kinds == <<"results", "raw", "artifacts">>

\* The locations at which a run waits for a file to be replaced.
Saving ==
  { "savingNew", "savingRecovered", "savingRunning", "savingUncleared",
    "savingDone", "savingParked", "savingStatus" }
Writing == Saving \cup {"writing", "reporting", "summarizing"}
Clearing == {"recoverClear", "rerunClear", "parkClear"}
Location == Writing \cup Clearing \cup
  {"off", "loading", "recovering", "choosing", "preparing", "quarantining",
   "classifying", "verifying"}

\* A file to be replaced by one rename, and the new content.
IsReplacement(w) ==
  \/ /\ w.file = "manifest"
     /\ w \in [file : {"manifest"}, trial : {None}, body : Manifest]
  \/ /\ w.file = "result"
     /\ w \in [file : {"result"}, trial : Trial, body : Result]
  \/ /\ w.file \in {"report", "summary"}
     /\ w \in [file : {"report", "summary"}, trial : {None}, body : Tally]

ASSUME NoneAssumption ==
  None \notin Trial \cup Manifest \cup Result \cup Tally

TypeOK ==
  /\ disk \in Manifest \cup {None}
  /\ res \in [Trial -> Result \cup {None}]
  /\ raw \in [Trial -> SUBSET Run] /\ art \in [Trial -> SUBSET Run]
  /\ report \in Tally \cup {None} /\ summary \in Tally \cup {None}
  /\ late = None \/ IsReplacement(late)
  /\ overtaken \in BOOLEAN
  /\ runs \in 0 .. MaxRuns
  /\ pc \in Location
  /\ opts \in Options \cup {None}
  /\ mem \in Manifest \cup {None}
  /\ cur \in Trial \cup {None}
  /\ todo \in Seq(Kind) /\ Len(todo) <= 3
  /\ out \in Result \cup {None}
  /\ executed \in 0 .. NTrials
  /\ checked \in Tally \cup {None}

\* A new campaign directory: claimed, and empty.
Init ==
  /\ disk = None
  /\ res = [t \in Trial |-> None]
  /\ raw = [t \in Trial |-> {}] /\ art = [t \in Trial |-> {}]
  /\ report = None /\ summary = None /\ late = None /\ overtaken = FALSE
  /\ runs = 0
  /\ pc = "off" /\ opts = None /\ mem = None /\ cur = None
  /\ todo = <<>> /\ out = None /\ executed = 0 /\ checked = None

-----------------------------------------------------------------------------
(* Manifests *)

\* Mutant of NewManifest: a campaign is running from its creation on.
NewManifestRunning ==
  [state |-> [t \in Trial |-> "pending"], status |-> "running"]

NewManifest == [state |-> [t \in Trial |-> "pending"], status |-> "pending"]

InState(m, S) == {t \in Trial : m.state[t] \in S}

\* ALLOWED_TRANSITIONS of manifest.js, for the states a run uses.
MayBecome(from, to) ==
  \/ from = to
  \/ from = "pending" /\ to = "running"
  \/ from = "running" /\ to \in Terminal \cup {"pending"}

\* updateTrial on the manifest in memory.
Update(t, s) == mem' = [mem EXCEPT !.state[t] = s]

\* Mutant of Eligible: failed trials are tried again.
EligibleAgain(m) ==
  {t \in InState(m, {"pending", "failed"}) :
     \A u \in InState(m, {"running"}) : ProviderOf[u] # ProviderOf[t]}

\* nextTrial, oneActivePerProvider: the first pending trial in schedule order
\* whose provider has no running trial.
Eligible(m) ==
  {t \in InState(m, {"pending"}) :
     \A u \in InState(m, {"running"}) : ProviderOf[u] # ProviderOf[t]}
NextTrial(m) == CHOOSE t \in Eligible(m) : \A u \in Eligible(m) : t <= u

(* Evidence *)

\* Mutant of Verified: what the result claims is not compared with the bytes.
VerifiedByClaim(t, r) == r # None /\ r.usable

\* verifyTrialEvidenceDigests of the result r of trial t: raw evidence claimed
\* and there, and every digest equal to that of the bytes on disk.
Verified(t, r) ==
  /\ r # None /\ r.usable
  /\ raw[t] # {} /\ r.raw = raw[t]
  /\ art[t] # {} /\ r.art = art[t]

\* verifyCampaignEvidenceDigests, failOnUnavailable.
AllVerified(m) == \A t \in InState(m, Terminal) : Verified(t, res[t])

\* The results that enter the report.
Reported(m) ==
  [t \in Trial |-> IF t \in InState(m, Terminal) THEN res[t].run ELSE 0]

(* Replacing a file: the write under way, and its effect *)

Pending ==
  CASE pc \in Saving -> [file |-> "manifest", trial |-> None, body |-> mem]
    [] pc = "writing" -> [file |-> "result", trial |-> cur, body |-> out]
    [] pc = "reporting" -> [file |-> "report", trial |-> None, body |-> checked]
    [] pc = "summarizing" -> [file |-> "summary", trial |-> None, body |-> checked]

Put(w) ==
  /\ disk' = IF w.file = "manifest" THEN w.body ELSE disk
  /\ res' = IF w.file = "result" THEN [res EXCEPT ![w.trial] = w.body] ELSE res
  /\ report' = IF w.file = "report" THEN w.body ELSE report
  /\ summary' = IF w.file = "summary" THEN w.body ELSE summary

\* The call returns or throws: the lock is released and the process ends.
Stop ==
  /\ pc' = "off" /\ opts' = None /\ mem' = None /\ cur' = None
  /\ todo' = <<>> /\ out' = None /\ executed' = 0 /\ checked' = None

-----------------------------------------------------------------------------
(* Starting: options, the manifest, the interrupted trial *)

Start ==
  /\ pc = "off" /\ runs < MaxRuns
  /\ opts' \in Options
  /\ runs' = runs + 1
  /\ pc' = "loading"
  /\ UNCHANGED <<disk, res, raw, art, report, summary, late, overtaken>>
  /\ UNCHANGED <<mem, cur, todo, out, executed, checked>>

\* The frozen manifest of an earlier run; with execute: false that is all.
Load ==
  /\ pc = "loading" /\ opts.resume /\ disk # None
  /\ \/ /\ opts.execute
        /\ mem' = disk
        /\ pc' = "recovering"
        /\ UNCHANGED <<opts, cur, todo, out, executed, checked>>
     \/ ~opts.execute /\ Stop
  /\ UNCHANGED directory

\* A new manifest: there is none, or the options ask for it.  When the read of
\* the manifest fails, and the lstat after it too, there seems to be none.
Create ==
  /\ pc = "loading"
  /\ ~opts.resume \/ disk = None \/ Faults
  /\ mem' = NewManifest
  /\ pc' = "savingNew"
  /\ UNCHANGED <<directory, opts, cur, todo, out, executed, checked>>

\* The manifest or the corpus cannot be read, or the inputs have changed.
Refuse ==
  /\ Faults
  /\ pc = "loading"
  /\ Stop
  /\ UNCHANGED directory

\* Mutant of Adopt: also for trials that are pending.
AdoptPending ==
  /\ pc = "recovering"
  /\ \E t \in InState(mem, {"running", "pending"}) :
       /\ Verified(t, res[t])
       /\ Update(t, res[t].state)
  /\ UNCHANGED <<directory, pc, opts, cur, todo, out, executed, checked>>

\* tryAdoptDurableTrialResult: the crash came after the result was written.
Adopt ==
  /\ pc = "recovering"
  /\ \E t \in InState(mem, {"running"}) :
       /\ Verified(t, res[t])
       /\ Update(t, res[t].state)
  /\ UNCHANGED <<directory, pc, opts, cur, todo, out, executed, checked>>

\* Mutants of Recover: without a try at adoption; for failed trials too.
RecoverAlways ==
  /\ pc = "recovering"
  /\ \E t \in InState(mem, {"running"}) : cur' = t
  /\ pc' = "recoverClear"
  /\ todo' = Kinds
  /\ UNCHANGED <<directory, opts, mem, out, executed, checked>>
RecoverFailed ==
  /\ pc = "recovering"
  /\ \E t \in InState(mem, {"running", "failed"}) :
       /\ ~Verified(t, res[t]) \/ Faults
       /\ cur' = t
  /\ pc' = "recoverClear"
  /\ todo' = Kinds
  /\ UNCHANGED <<directory, opts, mem, out, executed, checked>>

\* There is no adoptable result, or it cannot be read: its place is cleared.
Recover ==
  /\ pc = "recovering"
  /\ \E t \in InState(mem, {"running"}) :
       /\ ~Verified(t, res[t]) \/ Faults
       /\ cur' = t
  /\ pc' = "recoverClear"
  /\ todo' = Kinds
  /\ UNCHANGED <<directory, opts, mem, out, executed, checked>>

\* Mutant of Recovered: the interrupted trial is left running.
RecoveredUnsettled ==
  /\ pc = "recovering"
  /\ pc' = "savingRecovered"
  /\ UNCHANGED <<directory, opts, mem, cur, todo, out, executed, checked>>

Recovered ==
  /\ pc = "recovering"
  /\ InState(mem, {"running"}) = {}
  /\ pc' = "savingRecovered"
  /\ UNCHANGED <<directory, opts, mem, cur, todo, out, executed, checked>>

-----------------------------------------------------------------------------
(* clearTrialDurableState, and what its three callers do next *)

ClearKind ==
  /\ pc \in Clearing /\ todo # <<>>
  /\ res' = IF Head(todo) = "results" THEN [res EXCEPT ![cur] = None] ELSE res
  /\ raw' = IF Head(todo) = "raw" THEN [raw EXCEPT ![cur] = {}] ELSE raw
  /\ art' = IF Head(todo) = "artifacts" THEN [art EXCEPT ![cur] = {}] ELSE art
  /\ todo' = Tail(todo)
  /\ UNCHANGED <<disk, report, summary, late, overtaken, runs>>
  /\ UNCHANGED <<pc, opts, mem, cur, out, executed, checked>>

Requeue ==
  /\ pc = "recoverClear" /\ todo = <<>>
  /\ Update(cur, "pending")
  /\ pc' = "recovering" /\ cur' = None
  /\ UNCHANGED <<directory, opts, todo, out, executed, checked>>

MarkRunning ==
  /\ pc = "rerunClear" /\ todo = <<>>
  /\ Update(cur, "running")
  /\ pc' = "savingRunning"
  /\ UNCHANGED <<directory, opts, cur, todo, out, executed, checked>>

\* Mutant of Park: the trial counts as failed, without a result on disk.
ParkFailed ==
  /\ pc = "parkClear" /\ todo = <<>>
  /\ Update(cur, "failed")
  /\ pc' = "savingParked"
  /\ UNCHANGED <<directory, opts, cur, todo, out, executed, checked>>

Park ==
  /\ pc = "parkClear" /\ todo = <<>>
  /\ Update(cur, "pending")
  /\ pc' = "savingParked"
  /\ UNCHANGED <<directory, opts, cur, todo, out, executed, checked>>

\* A resume that cannot clear gives up with nothing saved; a re-run saves the
\* trial as pending and gives up; after a failed write the error is added.
ClearFails ==
  /\ Faults
  /\ pc \in Clearing /\ todo # <<>>
  /\ \/ pc = "recoverClear" /\ Stop
     \/ /\ pc = "rerunClear"
        /\ Update(cur, "pending")
        /\ pc' = "savingUncleared"
        /\ UNCHANGED <<opts, cur, todo, out, executed, checked>>
     \/ /\ pc = "parkClear"
        /\ todo' = <<>>
        /\ UNCHANGED <<pc, opts, mem, cur, out, executed, checked>>
  /\ UNCHANGED directory

-----------------------------------------------------------------------------
(* The execution of a trial *)

Choose ==
  /\ pc = "choosing"
  /\ executed < opts.maxTrials /\ Eligible(mem) # {}
  /\ cur' = NextTrial(mem)
  /\ pc' = "rerunClear"
  /\ todo' = Kinds
  /\ UNCHANGED <<directory, opts, mem, out, executed, checked>>

LoopEnds ==
  /\ pc = "choosing"
  /\ executed >= opts.maxTrials \/ Eligible(mem) = {}
  /\ pc' = "verifying"
  /\ UNCHANGED <<directory, opts, mem, cur, todo, out, executed, checked>>

\* The provider has run; its request and output are copied to artifacts/.
KeepArtifacts ==
  /\ pc = "preparing"
  /\ art' = [art EXCEPT ![cur] = @ \cup {runs}]
  /\ pc' = "quarantining"
  /\ UNCHANGED <<disk, res, raw, report, summary, late, overtaken, runs>>
  /\ UNCHANGED <<opts, mem, cur, todo, out, executed, checked>>

\* quarantineRawOutput, when there is raw evidence.
Quarantine ==
  /\ pc = "quarantining"
  /\ raw' = [raw EXCEPT ![cur] = @ \cup {runs}]
  /\ pc' = "classifying"
  /\ UNCHANGED <<disk, res, art, report, summary, late, overtaken, runs>>
  /\ UNCHANGED <<opts, mem, cur, todo, out, executed, checked>>

\* The gates have run and the trial is classified; digests are taken.
Classify ==
  /\ pc = "classifying"
  /\ \E s \in Terminal :
       out' = [run |-> runs, state |-> s, usable |-> TRUE,
               raw |-> raw[cur], art |-> art[cur]]
  /\ pc' = "writing"
  /\ UNCHANGED <<directory, opts, mem, cur, todo, executed, checked>>

\* The workspace, the invoker, a copy or a gate fails, or the raw evidence is
\* missing: an INFRA_FAIL result that claims no raw evidence.
Misfire ==
  /\ Misfires
  /\ pc \in {"preparing", "quarantining", "classifying"}
  /\ out' = [run |-> runs, state |-> "failed", usable |-> FALSE, raw |-> {}, art |-> {}]
  /\ pc' = "writing"
  /\ UNCHANGED <<directory, opts, mem, cur, todo, executed, checked>>

\* writeTrialResult: only then does the trial become terminal in memory.
WriteResult ==
  /\ pc = "writing"
  /\ Put(Pending)
  /\ Update(cur, out.state)
  /\ pc' = "savingDone" /\ out' = None
  /\ UNCHANGED <<raw, art, late, overtaken, runs, opts, cur, todo, executed, checked>>

-----------------------------------------------------------------------------
(* saveManifest *)

\* Execution goes on after four of the saves, and the call returns after the
\* others, as after a creation with execute: false.
AfterSave ==
  [savingNew |-> "recovering", savingRecovered |-> "choosing",
   savingRunning |-> "preparing", savingDone |-> "choosing"]

Save ==
  /\ pc \in Saving
  /\ Put(Pending)
  /\ \/ /\ pc \in DOMAIN AfterSave /\ opts.execute
        /\ pc' = AfterSave[pc]
        /\ executed' = IF pc = "savingDone" THEN executed + 1 ELSE executed
        /\ cur' = IF pc = "savingRunning" THEN cur ELSE None
        /\ UNCHANGED <<opts, mem, todo, out, checked>>
     \/ /\ ~ (pc \in DOMAIN AfterSave /\ opts.execute)
        /\ Stop
  /\ UNCHANGED <<raw, art, late, overtaken, runs>>

-----------------------------------------------------------------------------
(* The end of a run: verification, report, summary, status *)

Verify ==
  /\ pc = "verifying" /\ AllVerified(mem)
  /\ checked' = Reported(mem)
  /\ pc' = "reporting"
  /\ UNCHANGED <<directory, opts, mem, cur, todo, out, executed>>

\* Stage `evidence': there is no report, and an earlier one stays.
VerifyFails ==
  /\ pc = "verifying"
  /\ ~AllVerified(mem) \/ Faults
  /\ Stop
  /\ UNCHANGED directory

WriteReport ==
  /\ pc = "reporting"
  /\ Put(Pending)
  /\ pc' = "summarizing"
  /\ UNCHANGED <<raw, art, late, overtaken, runs, opts, mem, cur, todo, out, executed, checked>>

\* Mutant of WriteSummary: the status does not look at what is left.
WriteSummaryCompletes ==
  /\ pc = "summarizing"
  /\ Put(Pending)
  /\ mem' = [mem EXCEPT !.status = "completed"]
  /\ pc' = "savingStatus"
  /\ UNCHANGED <<raw, art, late, overtaken, runs, opts, cur, todo, out, executed, checked>>

WriteSummary ==
  /\ pc = "summarizing"
  /\ Put(Pending)
  /\ mem' = [mem EXCEPT !.status =
               IF InState(mem, {"pending"}) = {} THEN "completed" ELSE "paused"]
  /\ pc' = "savingStatus"
  /\ UNCHANGED <<raw, art, late, overtaken, runs, opts, cur, todo, out, executed, checked>>

-----------------------------------------------------------------------------
(* Failures *)

\* A write fails, or is reported to have failed when the rename was done.  The
\* failed write of a result parks the trial; any other ends the call.
WriteFails ==
  /\ Faults
  /\ pc \in Writing
  /\ Put(Pending) \/ UNCHANGED <<disk, res, report, summary>>
  /\ \/ /\ pc = "writing"
        /\ pc' = "parkClear" /\ todo' = Kinds /\ out' = None
        /\ UNCHANGED <<opts, mem, cur, executed, checked>>
     \/ pc # "writing" /\ Stop
  /\ UNCHANGED <<raw, art, late, overtaken, runs>>

\* The process dies; the helper it was waiting for may live on.
Crash ==
  /\ Crashes
  /\ pc # "off" /\ runs < MaxRuns
  /\ Stop
  /\ \/ UNCHANGED late
     \/ Orphans /\ pc \in Writing /\ late = None /\ late' = Pending
  /\ UNCHANGED <<disk, res, raw, art, report, summary, overtaken, runs>>

OrphanRenames ==
  /\ late # None
  /\ Put(late)
  /\ late' = None /\ overtaken' = TRUE
  /\ UNCHANGED <<raw, art, runs, memory>>

\* Nobody runs the campaign any more.
Rest ==
  /\ pc = "off" /\ runs = MaxRuns /\ late = None
  /\ UNCHANGED vars

Progress ==
  \/ Load \/ Create \/ Refuse \/ Adopt \/ Recover \/ Recovered
  \/ ClearKind \/ Requeue \/ MarkRunning \/ Park
  \/ Choose \/ LoopEnds \/ KeepArtifacts \/ Quarantine \/ Classify \/ Misfire
  \/ WriteResult \/ Save \/ Verify \/ VerifyFails \/ WriteReport \/ WriteSummary

Next ==
  \/ Start \/ Progress
  \/ ClearFails \/ WriteFails \/ Crash \/ OrphanRenames
  \/ Rest

Spec == Init /\ [][Next]_vars

\* A live run goes on, and somebody resumes a campaign that stopped.
FairSpec == Spec /\ WF_vars(Progress) /\ WF_vars(Start)

-----------------------------------------------------------------------------
(* Properties *)

\* The evidence of a result is of one execution: that of the run that wrote it.
Whole(t) ==
  /\ res[t] # None
  /\ res[t].usable => res[t].raw = {res[t].run} /\ res[t].art = {res[t].run}

\* A trial that manifest.json calls completed or failed has a result.json of that
\* state, written by one execution whose raw output and artifacts are the ones
\* on disk, whatever crash or failure came between writing the three places,
\* clearing them and saving the manifest (run.js: "never mark the manifest
\* terminal without a verified result.json").
TerminalHasEvidence ==
  disk # None =>
    \A t \in InState(disk, Terminal) :
      Whole(t) /\ res[t].state = disk.state[t] /\ (res[t].usable => Verified(t, res[t]))

\* A manifest whose status is completed has nothing left to do, and report.json
\* and summary.txt, two separate writes, both report every trial with the result
\* on disk (the end of runCampaign: verify, report, summary, then the status).
CompletedIsReported ==
  disk # None /\ disk.status = "completed" =>
    /\ report # None /\ summary = report
    /\ \A t \in Trial :
         disk.state[t] \in Terminal /\ Verified(t, res[t]) /\ report[t] = res[t].run

\* updateTrial throws on an illegal transition ("illegal state transition"); no
\* step of a run makes it throw, in whatever state the manifest was loaded.
LegalTransitions ==
  [][mem # None /\ mem' # None =>
       \A t \in Trial : MayBecome(mem.state[t], mem'.state[t])]_vars

\* Nothing touches the evidence of a trial while the manifest on disk calls it
\* completed or failed: neither a later run, nor a clear meant for another trial.
TerminalEvidenceKept ==
  [][disk # None =>
       \A t \in InState(disk, Terminal) :
         res'[t] = res[t] /\ raw'[t] = raw[t] /\ art'[t] = art[t]]_vars

\* A crash does not lose a finished trial: once its verified result is on disk
\* while the manifest still says running, the result stays and the next run
\* adopts it (crash-window resume), unless the campaign is started over.  Only a
\* failing file operation loses it.
DurableResultKept ==
  [][disk # None /\ ~overtaken' =>
       \A t \in InState(disk, {"running"}) :
         Verified(t, res[t]) =>
           /\ res'[t] = res[t] /\ raw'[t] = raw[t] /\ art'[t] = art[t]
           /\ disk' # None
           /\ disk'.state[t] \in {"running", res[t].state} \/ pc = "savingNew"]_vars

\* What a run writes to report.json is of the executions whose raw output and
\* artifacts are on disk, even when the helper of a dead run replaced the
\* manifest or a result behind its back ("Only fully verified results enter the
\* benchmark report").
ReportMatchesEvidence ==
  [][WriteReport =>
       \A t \in Trial : report'[t] # 0 =>
         raw[t] = {report'[t]} /\ art[t] = {report'[t]}]_vars

\* A campaign that is resumed to its end after every crash (with --resume and
\* execution and no limit on the trials) completes, when nothing fails and every
\* trial leaves evidence: no trial stays running or is passed over, and no state
\* a crash leaves makes the following runs give up.
EventuallyCompleted ==
  [](opts # None => opts.resume /\ opts.execute /\ opts.maxTrials >= NTrials) /\ []~overtaken =>
    <>(disk # None /\ disk.status = "completed")

\* The directory implements the ledger: a trial is closed with its result.
Ledger == INSTANCE CampaignLedger WITH
  Open <- None,
  Outcome <- Result,
  Reportable <- {r \in Result : r.usable /\ r.raw = {r.run} /\ r.art = {r.run}},
  entry <- [t \in Trial |->
              IF disk # None /\ disk.state[t] \in Terminal THEN res[t] ELSE None],
  complete <- disk # None /\ disk.status = "completed"
ImplementsLedger == Ledger!Spec

=============================================================================
