---------------------------- MODULE TrialExecution ----------------------------
(***************************************************************************)
(* One trial of a campaign from the fixture to the verdict: the body of    *)
(* the trial in runCampaign (run.js), and workspace.js, the invokers,      *)
(* gates.js and classify.js, which it calls.                               *)
(*                                                                         *)
(* A trial is executed again after a crash and after a failed durable      *)
(* write.  The provider, the gates' processes and what survives of either  *)
(* share the workspace with the harness, which reads it and the answer of  *)
(* the poetic bridge one file after the other, runs the gates in order,    *)
(* counts the changes, classifies, and removes what it made.  How an       *)
(* invocation ends is the subject of Invocation: here it is chosen.        *)
(***************************************************************************)
EXTENDS Gates, PoeticAdapter

CONSTANTS
  Tasks,    \* the tasks: [fixture, gates, mustHave]
  Works,    \* what a provider may do: [changed, hidden, committed, git], and leave
            \* as the answer of the bridge: [file, raw], a file as in PoeticAdapter
  LateWorks, \* those of them whose answer a bridge may write that was left over
  Versions, \* of the fixture that a copy may find: "frozen" in the manifest, "edited"
  MaxExec   \* bound on the executions of the trial

Exec == 1 .. MaxExec
Kind == {"none", "bwrap", "sandbox-exec"}
Invoker == {"native-cli", "poetic-adapter"}
Stream == {"stdout", "stderr"}

\* Classes of paths of the workspace.  scratch is .aicb-scratch, where the
\* harness puts the request and the bridge its answer.
Path == {"source", "test", "scratch", "poetic"}
Who == {"harness", "provider", "gate", "stray"}

VARIABLES
  task, kind, invoker,
  tree,     \* the workspaces by name; 0 is the one name that is not random
  caches,   \* the executions whose tool cache exists
  strays,   \* the executions of which a process lives on, unconfined in time
  pc,       \* where the harness is
  exec,     \* the current execution, or the last
  owned,    \* what the `finally' will remove
  spawned,  \* how the bridge ended, while its answer is read
  parsed,   \* its parsed answer
  ingested, \* the execution that wrote what was read of the answer, by file
  inv,      \* what the invoker returned
  job,      \* the process of the current gate
  results,  \* of the gates so far
  ran,      \* how the process of each gate really ended
  verdict,
  settled,  \* is there a durable result?
  judged,   \* the workspace as it was classified
  excused   \* the executions that could not clean up

context == <<task, kind, invoker>>
disk == <<tree, caches>>
answer == <<spawned, parsed, ingested, inv>>
gating == <<job, results, ran>>
outcome == <<verdict, settled, judged>>
vars == <<context, disk, strays, pc, exec, owned, answer, gating, outcome, excused>>

Pristine ==
  [version |-> None, edits |-> [p \in Path |-> {}], hidden |-> {}, committed |-> {},
   git |-> "none", output |-> [is |-> "absent"], raw |-> [s \in Stream |-> 0]]

\* hidden: where changes are that Git does not report, as an ignore rule of the
\* workspace or a setting of its repository keeps them from it, or undone ones.
Content ==
  [version : Versions \cup {None}, edits : [Path -> SUBSET (Exec \X Who)],
   hidden : SUBSET Path, committed : SUBSET Path,
   git : {"none", "sealed", "flagged", "lost"},
   output : Other \cup Artifact(Exec),
   raw : [Stream -> 0 .. MaxExec]]

Preparing == {"create", "copy", "seal", "cache", "request", "prepare"}
Reading == {"output", "stdout", "stderr"}
Ending == {"store", "clean tree", "clean cache"}
PC == {"off", "running", "worked", "gates"} \cup Preparing \cup Reading \cup Ending

\* code: how the gate's process ended, by a signal among the others; held: who
\* holds its pipes besides it.
Job ==
  [code : {None, "expected", "other"}, timedOut : BOOLEAN,
   killed : BOOLEAN, held : {"no", "group", "outside"}]

Returned == [timedOut : BOOLEAN, infra : BOOLEAN, nonzero : BOOLEAN, unavailable : BOOLEAN]

\* How a gate really went.
Ran == {"structural", "not run", "cut short", "expected", "other"}

ASSUME TasksAssumption ==
  \A t \in Tasks : t.fixture \in BOOLEAN /\ t.gates \in Seq(TaskGate(Path))

ASSUME WorksAssumption ==
  \A w \in Works :
    /\ w.changed \subseteq Path /\ w.hidden \subseteq Path /\ w.committed \in BOOLEAN
    /\ w.git \in {"sealed", "flagged", "lost"}
    /\ w.file \in [is : {"kept"}] \cup Other \cup Writing /\ w.raw \subseteq Stream

ASSUME LateWorksAssumption == LateWorks \subseteq Works

ASSUME MaxExecAssumption == MaxExec \in Nat

\* None is nothing else.
ASSUME NoneAssumption ==
  /\ None \notin Content /\ None \notin Returned /\ None \notin Parsed
  /\ None \notin Job /\ None \notin SpawnOutcome /\ None \notin Verdict
  /\ None \notin Ran

TypeOK ==
  /\ task \in Tasks /\ kind \in Kind /\ invoker \in Invoker
  /\ tree \in [0 .. MaxExec -> Content \cup {None}]
  /\ caches \subseteq Exec /\ strays \subseteq Exec /\ excused \subseteq Exec
  /\ pc \in PC /\ exec \in 0 .. MaxExec /\ owned \subseteq {"tree", "cache"}
  /\ spawned \in SpawnOutcome \cup {None} /\ parsed \in Parsed \cup {None}
  /\ ingested \in [Reading -> 0 .. MaxExec]
  /\ inv \in Returned \cup {None} /\ job \in Job \cup {None}
  /\ results \in Seq(Result) /\ ran \in Seq(Ran) /\ Len(ran) = Len(results)
  /\ job # None => pc = "gates" /\ Len(results) < Len(task.gates)
  /\ verdict \in Verdict \cup {None} /\ settled \in BOOLEAN
  /\ judged \in Content \cup {None}

Unread == [r \in Reading |-> 0]

Init ==
  /\ task \in Tasks /\ kind \in Kind /\ invoker \in Invoker
  /\ tree = [d \in 0 .. MaxExec |-> None] /\ caches = {} /\ strays = {}
  /\ pc = "off" /\ exec = 0 /\ owned = {}
  /\ spawned = None /\ parsed = None /\ ingested = Unread /\ inv = None
  /\ job = None /\ results = <<>> /\ ran = <<>>
  /\ verdict = None /\ settled = FALSE /\ judged = None /\ excused = {}

-----------------------------------------------------------------------------
(* The workspace *)

\* Mutant of DirOf: the directory is named by the trial alone.
FixedDirOf(e) == 0

\* createIsolatedWorkspace adds random bytes to the name; without a fixture the
\* directory has the name of the trial.
DirOf(e) == IF task.fixture THEN e ELSE 0

Dir == DirOf(exec)

\* Who edits the paths of a workspace, and hides changes of some.
Edit(dir, paths, hides, e, who) ==
  tree' = [tree EXCEPT
             ![dir].edits =
               [p \in Path |-> IF p \in paths THEN @[p] \cup {<<e, who>>} ELSE @[p]],
             ![dir].hidden = @ \cup hides]

Goto(from, to) == pc = from /\ pc' = to

\* What an execution left behind where nobody will look again is forgotten now,
\* and so are the processes that live there; so are the edits where there is no
\* baseline to compare them with.
Begin ==
  /\ Goto("off", "create") /\ ~settled /\ exec < MaxExec
  /\ exec' = exec + 1
  /\ LET kept == DirOf(exec + 1)
     IN  tree' = [d \in DOMAIN tree |->
                   IF d # kept \/ tree[d] = None THEN None
                   ELSE IF task.fixture THEN tree[d]
                   ELSE [tree[d] EXCEPT !.edits = Pristine.edits, !.hidden = {},
                                        !.committed = {}]]
  /\ strays' = {e \in strays : DirOf(e) = DirOf(exec + 1)}
  /\ caches' = {} /\ excused' = {}
  /\ UNCHANGED <<context, owned, answer, gating, outcome>>

\* mkdir -p, which is content with a directory that exists.
Create ==
  /\ Goto("create", IF task.fixture THEN "copy" ELSE "cache")
  /\ tree' = IF tree[Dir] = None THEN [tree EXCEPT ![Dir] = Pristine] ELSE tree
  /\ owned' = IF task.fixture THEN owned ELSE {"tree"}
  /\ UNCHANGED <<context, caches, strays, exec, answer, gating, outcome, excused>>

\* copyFixtureTree.  The suite was compared with the manifest when the run
\* started, and may have been edited since.
Copy(version) ==
  /\ Goto("copy", "seal")
  /\ tree' = [tree EXCEPT ![Dir].version = version]
  /\ UNCHANGED <<context, caches, strays, exec, owned, answer, gating, outcome, excused>>

\* initWorkspaceGit; only now does run.js know of the directory.
Seal ==
  /\ Goto("seal", "cache")
  /\ tree' = [tree EXCEPT ![Dir].git = "sealed"]
  /\ owned' = {"tree"}
  /\ UNCHANGED <<context, caches, strays, exec, answer, gating, outcome, excused>>

\* mkdtemp: always a new directory.
MakeCache ==
  /\ Goto("cache", "request")
  /\ caches' = caches \cup {exec} /\ owned' = owned \cup {"cache"}
  /\ UNCHANGED <<context, tree, strays, exec, answer, gating, outcome, excused>>

WriteRequest ==
  /\ Goto("request", IF invoker = "poetic-adapter" THEN "prepare" ELSE "running")
  /\ Edit(Dir, {"scratch"}, {}, exec, "harness")
  /\ UNCHANGED <<context, caches, strays, exec, owned, answer, gating, outcome, excused>>

\* What an invoker returns that refuses to start.
NotInvoked == [timedOut |-> FALSE, infra |-> TRUE, nonzero |-> FALSE, unavailable |-> TRUE]

\* Mutant of PrepareOutput: the file of an earlier execution may stay.
PrepareNothing ==
  /\ Goto("prepare", "running")
  /\ UNCHANGED <<context, disk, strays, exec, owned, answer, gating, outcome, excused>>

\* prepareFreshOutputPath: unlink and create it empty, unless it is a link.
PrepareOutput ==
  /\ pc = "prepare"
  /\ IF tree[Dir].output.is = "link"
     THEN /\ inv' = NotInvoked
          /\ pc' = "gates" /\ UNCHANGED tree
     ELSE /\ tree' = [tree EXCEPT ![Dir].output = [is |-> "empty"]]
          /\ pc' = "running" /\ UNCHANGED inv
  /\ UNCHANGED <<context, caches, strays, exec, owned, spawned, parsed, ingested,
                 gating, outcome, excused>>

-----------------------------------------------------------------------------
(* The provider *)

\* The files of an answer, as a bridge of execution e writes them.
WithAnswer(content, work, e) ==
  [content EXCEPT
     !.output = IF invoker = "native-cli" \/ work.file.is = "kept" THEN @
                ELSE IF work.file.is = "artifact" THEN WrittenBy(work.file, e)
                ELSE work.file,
     !.raw = IF invoker = "native-cli" THEN @
             ELSE [s \in Stream |-> IF s \in work.raw THEN e ELSE @[s]]]

\* What its work makes of its workspace.
Worked(content, work) ==
  [WithAnswer(content, work, exec) EXCEPT
     !.edits = [p \in Path |-> IF p \in work.changed
                               THEN @[p] \cup {<<exec, "provider">>} ELSE @[p]],
     !.hidden = @ \cup work.hidden,
     !.committed = @ \cup IF work.committed THEN work.changed ELSE {},
     !.git = IF @ = "sealed" THEN work.git ELSE @]

\* Only under sandbox-exec may a process of it outlive the invocation.
Provider(work, leaves) ==
  /\ Goto("running", "worked") /\ kind # "none"
  /\ leaves => kind = "sandbox-exec"
  /\ tree' = [tree EXCEPT ![Dir] = Worked(@, work)]
  /\ strays' = IF leaves THEN strays \cup {exec} ELSE strays
  /\ UNCHANGED <<context, caches, exec, owned, answer, gating, outcome, excused>>

\* What invokeNativeCli may return (Invocation), as classifyTrial reads it: an
\* exit code counts only where nothing else went wrong.
NativeOutcome ==
  {r \in Returned :
     /\ r.timedOut => r.infra
     /\ r.infra => ~r.nonzero /\ (r.timedOut \/ r.unavailable)
     /\ ~(r.nonzero /\ r.unavailable)}

NativeReturns(r) ==
  /\ Goto("worked", "gates") /\ invoker = "native-cli"
  /\ inv' = r
  /\ UNCHANGED <<context, disk, strays, exec, owned, spawned, parsed, ingested,
                 gating, outcome, excused>>

BridgeReturns(how) ==
  /\ Goto("worked", "output") /\ invoker = "poetic-adapter"
  /\ spawned' = how
  /\ UNCHANGED <<context, disk, strays, exec, owned, parsed, ingested, inv,
                 gating, outcome, excused>>

\* Nothing is run without confinement.
Refused ==
  /\ pc = "running" /\ kind = "none"
  /\ IF invoker = "native-cli"
     THEN /\ inv' = NotInvoked
          /\ pc' = "gates" /\ UNCHANGED spawned
     ELSE /\ spawned' = "failure"
          /\ pc' = "output" /\ UNCHANGED inv
  /\ UNCHANGED <<context, disk, strays, exec, owned, parsed, ingested, gating,
                 outcome, excused>>

\* invokePoeticAdapter returns.
Answered(result, actual) ==
  /\ inv' = AdapterResult(spawned, result, actual)
  /\ pc' = "gates" /\ spawned' = None /\ parsed' = None

\* The execution that wrote an answer to this request.
Writer(file) == IF file.is = "artifact" /\ file.same THEN file.from ELSE 0

\* readAndParseOutput and the binding; only a bound answer has raw output.
ReadOutput ==
  /\ pc = "output"
  /\ LET file == tree[Dir].output
         bound == Bind(ReadAndParse(file), file)
     IN  /\ ingested' = [ingested EXCEPT !["output"] = Writer(file)]
         /\ IF bound.valid
            THEN parsed' = bound /\ pc' = "stdout" /\ UNCHANGED <<spawned, inv>>
            ELSE Answered(bound, FALSE)
  /\ UNCHANGED <<context, disk, strays, exec, owned, gating, outcome, excused>>

\* ingestProviderRawEvidence: stdout, then stderr; both or none.
Ingest(s) ==
  /\ pc = s
  /\ ingested' = [ingested EXCEPT ![s] = tree[Dir].raw[s]]
  /\ IF tree[Dir].raw[s] # 0 /\ s = "stdout"
     THEN pc' = "stderr" /\ UNCHANGED <<spawned, parsed, inv>>
     ELSE Answered(parsed, tree[Dir].raw[s] # 0)
  /\ UNCHANGED <<context, disk, strays, exec, owned, gating, outcome, excused>>

-----------------------------------------------------------------------------
(* The gates *)

Ordering == Ordered(task.gates)
Gate == Ordering[Len(results) + 1]
AtGate == pc = "gates" /\ job = None /\ Len(results) < Len(task.gates)

\* Mutant of Collect: compared with what the provider committed last.
CollectAgainstHead(content) ==
  [ok |-> content.git = "sealed", violation |-> content.git = "flagged",
   paths |-> {p \in Path : content.edits[p] # {}} \ (content.hidden \cup content.committed)]

\* collectBaselineChangedPaths: the changes that Git reports against the sealed
\* commit, committed or not.  ls-files --exclude-standard leaves out the untracked
\* files that a .gitignore or .git/info/exclude names, and the local settings
\* are searched for some dangerous ones only.
Collect(content) ==
  [ok |-> content.git = "sealed", violation |-> content.git = "flagged",
   paths |-> {p \in Path : content.edits[p] # {}} \ content.hidden]

Conclude(result, how) ==
  /\ results' = Append(results, result) /\ ran' = Append(ran, how)
  /\ UNCHANGED <<context, caches, pc, exec, owned, answer, outcome, excused>>

\* baseline-diff and requirements run in the harness.
Structural ==
  /\ AtGate /\ Gate.kind \in {"baseline-diff", "requirements"}
  /\ Conclude(IF Gate.kind = "baseline-diff" THEN BaselineDiff(Collect(tree[Dir]), Gate)
              ELSE Requirements(Gate, task.mustHave, results), "structural")
  /\ UNCHANGED <<tree, strays, job>>

\* What runs nothing: an unknown gate, an oracle that is refused or whose script
\* is not found, any command without confinement, and one that cannot be spawned.
NotRun ==
  /\ AtGate /\ Gate.kind \in {"unknown", "oracle", "command"}
  /\ Conclude(GateResult(Gate, "INFRA_FAIL", None), "not run")
  /\ UNCHANGED <<tree, strays, job>>

GateStarts ==
  /\ AtGate /\ kind # "none"
  /\ \/ Gate.kind = "command"
     \/ Gate.kind = "oracle" /\ ~OracleRefused(Gate, TRUE)
  /\ job' = [code |-> None, timedOut |-> FALSE, killed |-> FALSE, held |-> "no"]
  /\ UNCHANGED <<context, disk, strays, pc, exec, owned, answer, results, ran,
                 outcome, excused>>

\* The command ends by itself, having written to the workspace or not.  Under
\* sandbox-exec a child may hold its pipes, in its process group or outside.
GateExits(code, paths, hides, held) ==
  /\ job # None /\ job.code = None
  /\ held # "no" => kind = "sandbox-exec"
  /\ job' = [job EXCEPT !.code = code, !.held = held]
  /\ Edit(Dir, paths, hides, exec, "gate")
  /\ strays' = IF held = "no" THEN strays ELSE strays \cup {exec}
  /\ UNCHANGED <<context, caches, pc, exec, owned, answer, results, ran, outcome,
                 excused>>

LetGo ==
  /\ job # None /\ job.held # "no"
  /\ job' = [job EXCEPT !.held = "no"]
  /\ UNCHANGED <<context, disk, strays, pc, exec, owned, answer, results, ran,
                 outcome, excused>>

\* The timeout: SIGTERM to the group, which bwrap does not survive.
GateTimer(survives) ==
  /\ job # None /\ ~job.timedOut
  /\ survives => kind = "sandbox-exec"
  /\ job' = [job EXCEPT !.timedOut = TRUE,
                        !.code = IF @ = None /\ ~survives THEN "other" ELSE @,
                        !.held = IF @ = "group" /\ ~survives THEN "no" ELSE @]
  /\ UNCHANGED <<context, disk, strays, pc, exec, owned, answer, results, ran,
                 outcome, excused>>

\* Mutant of GateKill: only a process that has not ended is killed.
GateKillRunning ==
  /\ job # None /\ job.timedOut /\ ~job.killed
  /\ job' = [job EXCEPT !.killed = TRUE, !.code = IF @ = None THEN "other" ELSE @,
                        !.held = IF @ = "group" /\ job.code = None THEN "no" ELSE @]
  /\ UNCHANGED <<context, disk, strays, pc, exec, owned, answer, results, ran,
                 outcome, excused>>

\* One second later: SIGKILL to the group, whether or not its leader has ended.
GateKill ==
  /\ job # None /\ job.timedOut /\ ~job.killed
  /\ job' = [job EXCEPT !.killed = TRUE, !.code = IF @ = None THEN "other" ELSE @,
                        !.held = IF @ = "group" THEN "no" ELSE @]
  /\ UNCHANGED <<context, disk, strays, pc, exec, owned, answer, results, ran,
                 outcome, excused>>

\* Mutant of GateCloses: the process counts as running on.
GateClosesAgain ==
  /\ job # None /\ job.code # None /\ job.held = "no"
  /\ Conclude(GateResult(Gate, "PASS", None), job.code)
  /\ UNCHANGED <<tree, strays, job>>

\* `close': the process ended and its pipes are closed.
GateCloses ==
  /\ job # None /\ job.code # None /\ job.held = "no"
  /\ job' = None
  /\ Conclude(GateResult(Gate,
                CommandSignal([timedOut |-> job.timedOut, infra |-> job.timedOut,
                               expected |-> job.code = "expected"]),
                Evidence(Gate)),
              IF job.timedOut THEN "cut short" ELSE job.code)
  /\ UNCHANGED <<tree, strays>>

-----------------------------------------------------------------------------
(* The verdict, and after it *)

\* countMeaningfulBaselineChangedFiles.
Count(content) ==
  IF Collect(content).ok THEN Cardinality(Meaningful(Collect(content).paths)) ELSE None

Judge ==
  /\ pc = "gates" /\ job = None /\ Len(results) = Len(task.gates)
  /\ verdict' = ClassifyTrial(inv, inv.unavailable, results, Count(tree[Dir]))
  /\ judged' = tree[Dir]
  /\ pc' = "store"
  /\ UNCHANGED <<context, disk, strays, exec, owned, answer, gating, settled, excused>>

Store ==
  /\ Goto("store", "clean tree")
  /\ settled' = TRUE
  /\ UNCHANGED <<context, disk, strays, exec, owned, answer, gating, verdict, judged,
                 excused>>

\* writeTrialResult fails: the trial is pending again.
StoreFails ==
  /\ Goto("store", "clean tree")
  /\ verdict' = None /\ judged' = None
  /\ UNCHANGED <<context, disk, strays, exec, owned, answer, gating, settled, excused>>

\* Mutant of Throw: the catch returns before the `finally'.
ThrowOut ==
  /\ pc \in (Preparing \ {"create"}) \cup {"running", "worked", "gates"} /\ job = None
  /\ verdict' = "INFRA_FAIL" /\ judged' = None
  /\ pc' = "off" /\ settled' = TRUE
  /\ UNCHANGED <<context, disk, strays, exec, owned, answer, gating, excused>>

\* Anything before the verdict throws: the trial is an INFRA_FAIL.  Nobody
\* removes a workspace whose making failed half-way.
Throw ==
  /\ pc \in Preparing \cup {"running", "worked", "gates"} /\ job = None
  /\ verdict' = "INFRA_FAIL" /\ judged' = None
  /\ pc' = "store"
  /\ excused' = IF pc \in {"create", "copy", "seal"} THEN excused \cup {exec} ELSE excused
  /\ UNCHANGED <<context, disk, strays, exec, owned, answer, gating, settled>>

\* Nothing of an execution is in memory once it is over; without a durable
\* result nobody has seen the verdict.
Forget ==
  IF settled THEN UNCHANGED <<owned, answer, results, ran, verdict, judged>>
  ELSE /\ owned' = {} /\ spawned' = None /\ parsed' = None /\ ingested' = Unread
       /\ inv' = None /\ results' = <<>> /\ ran' = <<>>
       /\ verdict' = None /\ judged' = None

\* cleanupExecutionWorkspace; that it fails is not told.
CleanTree(fails) ==
  /\ Goto("clean tree", "clean cache")
  /\ tree' = IF "tree" \in owned /\ ~fails THEN [tree EXCEPT ![Dir] = None] ELSE tree
  /\ excused' = IF fails THEN excused \cup {exec} ELSE excused
  /\ UNCHANGED <<context, caches, strays, exec, owned, answer, gating, outcome>>

CleanCache(fails) ==
  /\ Goto("clean cache", "off")
  /\ caches' = IF "cache" \in owned /\ ~fails THEN caches \ {exec} ELSE caches
  /\ excused' = IF fails THEN excused \cup {exec} ELSE excused
  /\ Forget
  /\ UNCHANGED <<context, tree, strays, exec, job, settled>>

-----------------------------------------------------------------------------
(* What happens around it *)

\* The harness dies; under bwrap its children die with it.
Crash ==
  /\ pc # "off"
  /\ pc' = "off" /\ job' = None
  /\ excused' = excused \cup {exec}
  /\ strays' = IF kind = "sandbox-exec" /\ (pc \in {"running", "worked"} \/ job # None)
               THEN strays \cup {exec} ELSE strays
  /\ Forget
  /\ UNCHANGED <<context, disk, exec, settled>>

\* A process left over writes to the workspace it was started in, which matters
\* if it is in use.
StrayEdits(e, paths, hides) ==
  /\ e \in strays /\ DirOf(e) = Dir /\ tree[Dir] # None
  /\ Edit(Dir, paths, hides, e, "stray")
  /\ UNCHANGED <<context, caches, strays, pc, exec, owned, answer, gating, outcome,
                 excused>>

\* ... and a bridge left over writes its answer, which matters until one is read.
\* The request of every execution of the trial has the same id.
StrayAnswers(e, work) ==
  /\ e \in strays /\ DirOf(e) = Dir /\ tree[Dir] # None
  /\ invoker = "poetic-adapter"
  /\ pc \in {"prepare", "running", "worked"} \cup Reading
  /\ tree' = [tree EXCEPT ![Dir] = WithAnswer(@, work, e)]
  /\ UNCHANGED <<context, caches, strays, pc, exec, owned, answer, gating, outcome,
                 excused>>

Rest == pc = "off" /\ (settled \/ exec = MaxExec) /\ UNCHANGED vars

-----------------------------------------------------------------------------

Harness ==
  \/ Begin \/ Create \/ (\E version \in Versions : Copy(version))
  \/ Seal \/ MakeCache \/ WriteRequest \/ PrepareOutput
  \/ Refused \/ ReadOutput \/ \E s \in Stream : Ingest(s)
  \/ Structural \/ NotRun \/ GateStarts \/ GateKill \/ GateCloses
  \/ \E survives \in BOOLEAN : GateTimer(survives)
  \/ Judge \/ Store \/ StoreFails \/ Throw
  \/ \E fails \in BOOLEAN : CleanTree(fails) \/ CleanCache(fails)

Processes ==
  \/ \E work \in Works, leaves \in BOOLEAN : Provider(work, leaves)
  \/ \E r \in NativeOutcome : NativeReturns(r)
  \/ \E how \in SpawnOutcome : BridgeReturns(how)
  \/ \E code \in {"expected", "other"}, held \in {"no", "group", "outside"},
        paths \in SUBSET {"test"} : \E hides \in SUBSET paths :
          GateExits(code, paths, hides, held)
  \/ LetGo
  \/ \E e \in Exec :
       \/ \E hides \in SUBSET {"test"} : StrayEdits(e, {"test"}, hides)
       \/ \E work \in LateWorks : StrayAnswers(e, work)

Next == Harness \/ Processes \/ Crash \/ Rest

Spec == Init /\ [][Next]_vars

\* The harness goes on: between its awaits it waits for nothing but the provider
\* (Invocation) and the gates' processes, and each of these has a timer.
FairSpec == Spec /\ WF_vars(Harness)

-----------------------------------------------------------------------------
(* Properties *)

Counted == verdict \in {"PASS", "FAIL", "NO_OP"}

\* The gate at place i really showed what it is for.
Shown(i) ==
  \/ ran[i] = "expected"
  \/ Ordering[i].kind = "baseline-diff" /\ Passed(results[i])

\* The gate at place i is what the requirement asks for.
Meant(i, item) ==
  \/ item.gate = Ordering[i].name
  \/ item.script # None /\ item.script = Ordering[i].script
  \/ item.test /\ item.gate = None /\ Ordering[i].name = "tests"

\* A PASS rests on processes that ran to their end with the expected code: one
\* for each required command, and for each requirement a required gate that came
\* before (gates.js 1720-1929 and 2767-2985, classify.js 136-282).
PassIsEarned ==
  verdict = "PASS" =>
    \A i \in DOMAIN ran : Ordering[i].required =>
      /\ Ordering[i].kind \in {"command", "oracle"} => ran[i] = "expected"
      /\ Ordering[i].kind = "requirements" =>
           \A item \in task.mustHave : \E j \in 1 .. i - 1 :
             Ordering[j].required /\ Shown(j) /\ Meant(j, item)

EditedBy(who) == {p \in Path : \E e \in Exec : <<e, who>> \in judged.edits[p]}

\* The provider left alone what the required baseline-diffs protect, but for
\* what is in the classes `except'.
LeftAlone(except) ==
  \A i \in DOMAIN ran :
    Ordering[i].kind = "baseline-diff" /\ Ordering[i].required =>
      PolicyOK(Meaningful(EditedBy("provider") \ except), Ordering[i])

\* With PASS no change of the provider that Git can see is to what a required
\* baseline-diff protects, whatever it committed, flagged in the index or did to
\* the objects, and whatever ran since that gate (gates.js 1327-1464 and
\* 1531-1628).  What ignore rules and local settings hide is not among them.
UntouchedTests == verdict = "PASS" => LeftAlone(judged.hidden)

\* What counts for or against the arm was neither cut short nor refused: not the
\* provider, and no gate, required or not (classify.js 136-282, run.js 1253-1275).
CountedIsComplete ==
  Counted =>
    /\ ~inv.timedOut /\ ~inv.infra /\ ~inv.unavailable
    /\ Len(ran) = Len(task.gates)
    /\ \A i \in DOMAIN ran : ran[i] \notin {"cut short", "not run"}

\* A trial that is executed again is judged by this execution's work alone, also
\* after a crash that left the workspace of the last one with processes in it
\* (workspace.js 590-655).  Without a fixture that does not hold.
OwnWorkspace ==
  Counted /\ task.fixture =>
    /\ \A p \in Path : judged.edits[p] \subseteq {exec} \X Who
    /\ \A s \in Stream : ingested[s] \in {0, exec}

\* No process of an earlier execution lives on in the workspace that is in use.
Alone == task.fixture \/ strays \subseteq {exec}

\* The output.json that was read is to this request and of this execution,
\* whatever an earlier one left in its place (poetic-adapter.js 952-1012 and
\* 1072-1203), unless a process of an earlier one lives on in the directory,
\* which it can do only without a fixture.
OwnAnswer ==
  Counted /\ invoker = "poetic-adapter" /\ Alone => ingested["output"] = exec

\* Between executions there is no workspace and no tool cache, but of executions
\* that crashed, that failed while making the workspace, or whose removal failed
\* (run.js 1456-1476).
NothingKept ==
  pc = "off" =>
    /\ caches \subseteq excused
    /\ (\E d \in DOMAIN tree : tree[d] # None) => excused # {}

\* The gates come to an end, whatever their processes do, unless one that left
\* the process group holds a pipe for ever (gates.js 2586-2700).
GatesEnd ==
  \/ [](pc = "gates" => <>(pc # "gates"))
  \/ <>[](job # None /\ job.held = "outside")

-----------------------------------------------------------------------------
(* What the code says of itself *)

\* "NO_OP if completed with zero meaningful file changes" (classify.js 116),
\* where there is a baseline to count against.
PassHasChanges ==
  verdict = "PASS" /\ task.fixture =>
    EditedBy("provider") \cup EditedBy("gate") \cup EditedBy("stray") # {}

\* "Fixture digest vs independent frozen authority" (results.js 1387): what
\* counts was done on the fixture of the manifest.
CountedOnFrozenFixture == Counted /\ task.fixture => judged.version = "frozen"

=============================================================================
