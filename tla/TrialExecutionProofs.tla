------------------------ MODULE TrialExecutionProofs ------------------------
(***************************************************************************)
(* Theorems about one trial, for any tasks, providers and number of        *)
(* executions.                                                             *)
(***************************************************************************)
EXTENDS TrialExecution, GatesProofs

\* From the creation of the workspace to the answer of the provider.
Working == Preparing \cup {"running", "worked"} \cup Reading

Control ==
  /\ pc # "off" => exec # 0
  /\ pc \in {"copy", "seal"} => task.fixture
  /\ pc \in {"prepare"} \cup Reading => invoker = "poetic-adapter"
  /\ pc \in Reading => spawned # None
  /\ pc \in {"stdout", "stderr"} => parsed # None
  /\ pc \in (Working \ {"create"}) \cup {"gates"} => tree[Dir] # None
  /\ pc = "gates" => inv # None
  /\ job # None => Gate.kind \in {"command", "oracle"}

\* What is in memory, and that a verdict is there when it is about to be stored
\* or is stored.
Memory ==
  /\ settled => pc \in {"clean tree", "clean cache", "off"}
  /\ pc \in Working \cup {"gates"} => verdict = None
  /\ pc \notin {"store"} /\ ~settled => verdict = None
  /\ pc \in Working \/ (pc = "off" /\ ~settled) => results = <<>> /\ ran = <<>>
  /\ pc \in Working \ Reading \/ (pc = "off" /\ ~settled) => ingested = Unread
  /\ pc = "off" /\ ~settled => owned = {}

\* What the result of a gate is worth, by how its process ended and by the
\* results before it.
Fits(result, how, gate, prior) ==
  /\ result.name = gate.name /\ result.required = gate.required
  /\ result.script # None => result.script = gate.script
  /\ how = "cut short" => result.signal = "TIMEOUT"
  /\ how = "not run" => result.signal = "INFRA_FAIL"
  /\ Passed(result) =>
       \/ how = "expected" /\ gate.kind \in {"command", "oracle"}
       \/ gate.kind = "baseline-diff"
       \/ gate.kind = "requirements" /\ result.script = None
  /\ Passed(result) /\ gate.kind = "requirements" =>
       \A item \in task.mustHave :
         /\ Bound(item, prior) # None /\ Bound(item, prior).required
         /\ Passed(Bound(item, prior))

Rows ==
  \A i \in DOMAIN results :
    Fits(results[i], ran[i], Ordering[i], SubSeq(results, 1, i - 1))

\* With a fixture every execution has a workspace of its own.
Provenance ==
  task.fixture =>
    /\ \A d \in 0 .. MaxExec : d > exec => tree[d] = None
    /\ pc = "create" => tree[exec] = None
    /\ tree[exec] # None =>
         /\ \A p \in Path : tree[exec].edits[p] \subseteq {exec} \X Who
         /\ \A s \in Stream : tree[exec].raw[s] \in {0, exec}
    /\ \A s \in Stream : ingested[s] \in {0, exec}

OfThis(file) == file.is = "artifact" => file.from = exec

\* While no process of an earlier execution lives in the directory, what can be
\* read there as an answer is of this one, and so is what was read.
Answer ==
  invoker = "poetic-adapter" /\ Alone =>
    /\ pc \in {"running", "worked"} \cup Reading => OfThis(tree[Dir].output)
    /\ pc \in {"stdout", "stderr"} => ingested["output"] = exec
    /\ pc = "gates" /\ ~inv.unavailable => ingested["output"] = exec

EditsOf(who, content) == {p \in Path : \E e \in Exec : <<e, who>> \in content.edits[p]}

\* What Git may see of the provider's changes.
Seen(content) == EditsOf("provider", content) \ content.hidden

Untouched ==
  pc = "gates" =>
    \A i \in DOMAIN results :
      Ordering[i].kind = "baseline-diff" /\ Passed(results[i]) =>
        PolicyOK(Meaningful(Seen(tree[Dir])), Ordering[i])

Kept ==
  pc # "off" =>
    /\ caches \subseteq {exec}
    /\ pc \in {"create", "copy", "seal", "cache"} => caches = {}
    /\ caches # {} => "cache" \in owned
    /\ \A d \in 0 .. MaxExec : d # Dir => tree[d] = None
    /\ pc \notin {"create", "copy", "seal", "clean cache"} =>
         tree[Dir] = None \/ "tree" \in owned \/ exec \in excused
    /\ pc = "clean cache" => tree[Dir] = None \/ exec \in excused

-----------------------------------------------------------------------------
(* What the helpers return *)

USE DEF context, disk, answer, gating, outcome

BInv == TypeOK /\ Control /\ Memory

LEMMA ExecType ==
  /\ MaxExec \in Nat /\ Exec = 1 .. MaxExec /\ Exec \subseteq 0 .. MaxExec
  /\ 0 \in 0 .. MaxExec /\ Exec \subseteq Nat
BY MaxExecAssumption DEF Exec

LEMMA DirType ==
  ASSUME TypeOK
  PROVE  /\ task.fixture \in BOOLEAN
         /\ Dir \in 0 .. MaxExec /\ Dir = IF task.fixture THEN exec ELSE 0
         /\ \A e \in 0 .. MaxExec : DirOf(e) \in 0 .. MaxExec
BY ExecType, TasksAssumption DEF TypeOK, Dir, DirOf

LEMMA OrderingType ==
  ASSUME NEW t \in Tasks
  PROVE  /\ DOMAIN Ordered(t.gates) = 1 .. Len(t.gates) /\ Len(t.gates) \in Nat
         /\ \A i \in 1 .. Len(t.gates) : Ordered(t.gates)[i] \in TaskGate(Path)
<1>1. t.gates \in Seq(TaskGate(Path))
  BY TasksAssumption
<1> DEFINE D == DOMAIN t.gates
<1>2. D = 1 .. Len(t.gates) /\ Len(t.gates) \in Nat
  BY <1>1
<1>3. \A i \in D : t.gates[i] \in TaskGate(Path)
  BY <1>1
<1>4. \A i \in D : t.gates[i].order \in Int
  BY <1>3 DEF TaskGate
<1>5. PICK p \in Bijection(D, D) : Ordered(t.gates) = [n \in D |-> t.gates[p[n]]]
  BY <1>1, <1>4, OrderedIsSorted
<1>6. \A n \in D : p[n] \in D
  BY DEF Bijection, Injection
<1>7. QED
  BY <1>2, <1>3, <1>5, <1>6

\* The current gate is one of the task's.
LEMMA GateType ==
  ASSUME TypeOK, Len(results) < Len(task.gates)
  PROVE  /\ Gate \in TaskGate(Path) /\ Gate = Ordering[Len(results) + 1]
         /\ Len(results) \in Nat /\ Len(results) + 1 \in 1 .. Len(task.gates)
<1>1. Len(results) \in Nat /\ task \in Tasks
  BY DEF TypeOK
<1>2. /\ Len(task.gates) \in Nat
      /\ \A i \in 1 .. Len(task.gates) : Ordering[i] \in TaskGate(Path)
  BY <1>1, OrderingType DEF Ordering
<1>3. QED
  BY <1>1, <1>2 DEF Gate

\* A process edits the paths of a workspace, and nothing else of it.
LEMMA EditEffect ==
  ASSUME TypeOK, NEW dir \in 0 .. MaxExec, tree[dir] # None, NEW paths,
         NEW hides \in SUBSET Path, NEW e \in Exec, NEW who \in Who,
         Edit(dir, paths, hides, e, who)
  PROVE  /\ tree' \in [0 .. MaxExec -> Content \cup {None}] /\ tree'[dir] \in Content
         /\ \A d \in 0 .. MaxExec \ {dir} : tree'[d] = tree[d]
         /\ tree'[dir].output = tree[dir].output /\ tree'[dir].raw = tree[dir].raw
         /\ tree[dir].hidden \subseteq tree'[dir].hidden
         /\ \A p \in Path :
              /\ tree[dir].edits[p] \subseteq tree'[dir].edits[p]
              /\ tree'[dir].edits[p] \subseteq tree[dir].edits[p] \cup {<<e, who>>}
<1> DEFINE old == tree[dir]
           edits == [p \in Path |-> IF p \in paths THEN old.edits[p] \cup {<<e, who>>}
                                                   ELSE old.edits[p]]
           new == [old EXCEPT !.edits = edits, !.hidden = old.hidden \cup hides]
<1>1. old \in Content /\ tree \in [0 .. MaxExec -> Content \cup {None}]
  BY DEF TypeOK
<1>2. tree' = [tree EXCEPT ![dir] = new]
  BY DEF Edit
<1>3. old.edits \in [Path -> SUBSET (Exec \X Who)]
  BY <1>1 DEF Content
<1>4. edits \in [Path -> SUBSET (Exec \X Who)]
  BY <1>3
<1>5. /\ \A p \in Path : /\ old.edits[p] \subseteq edits[p]
                         /\ edits[p] \subseteq old.edits[p] \cup {<<e, who>>}
  OBVIOUS
<1> HIDE DEF edits
<1>6. /\ new \in Content /\ new.edits = edits
      /\ new.output = old.output /\ new.raw = old.raw /\ old.hidden \subseteq new.hidden
  BY <1>1, <1>4 DEF Content
<1> HIDE DEF new
<1>7. QED
  BY <1>1, <1>2, <1>5, <1>6

\* What is read of an answer, and when it is valid.
LEMMA ReadType ==
  ASSUME NEW E, NEW file \in Other \cup Artifact(E)
  PROVE  /\ Bind(ReadAndParse(file), file) \in Parsed
         /\ Bind(ReadAndParse(file), file).valid => file.is = "artifact" /\ file.same
BY DEF Other, Artifact, Bind, ReadAndParse, ParseInvokeResult, Invalid, Parsed,
   MapOutcomeKind

LEMMA ResultType ==
  ASSUME NEW gate \in TaskGate(Path), NEW signal \in Signal,
         NEW script \in {None} \cup STRING
  PROVE  /\ GateResult(gate, signal, script) \in Result
         /\ GateResult(gate, signal, script).name = gate.name
         /\ GateResult(gate, signal, script).required = gate.required
         /\ GateResult(gate, signal, script).signal = signal
         /\ GateResult(gate, signal, script).script = script
BY DEF GateResult, TaskGate, Result

LEMMA ClassifyType ==
  ASSUME NEW i, NEW u, NEW rs, NEW count
  PROVE  ClassifyTrial(i, u, rs, count) \in Verdict
<1>1. Signals(i, rs, count) \in SUBSET Verdict
  BY DEF Signals
<1>2. Highest(Signals(i, rs, count)) \in Verdict
  BY <1>1, HighestIsHighest DEF Verdict, Signal
<1>3. QED
  BY <1>2 DEF ClassifyTrial, Verdict, Signal

LEMMA ExecWhileOn ==
  ASSUME TypeOK, Control, pc # "off"
  PROVE  exec \in Exec
BY ExecType DEF TypeOK, Control

LEMMA PristineType == Pristine \in Content
<1>1. [s \in Stream |-> 0] \in [Stream -> 0 .. MaxExec]
  BY ExecType
<1>2. [p \in Path |-> {}] \in [Path -> SUBSET (Exec \X Who)]
  OBVIOUS
<1>3. QED
  BY <1>1, <1>2 DEF Pristine, Content, Other

LEMMA TypeBegin ==
  ASSUME TypeOK, Begin
  PROVE  /\ tree' \in [0 .. MaxExec -> Content \cup {None}]
         /\ exec' \in Exec /\ exec' = exec + 1
<1>1. exec' = exec + 1 /\ exec \in 0 .. MaxExec /\ exec < MaxExec
  BY DEF TypeOK, Begin
<1>2. exec' \in Exec
  BY <1>1, ExecType
<1>3. ASSUME NEW d \in 0 .. MaxExec, tree[d] # None
      PROVE  [tree[d] EXCEPT !.edits = Pristine.edits, !.hidden = {}, !.committed = {}]
               \in Content
  <2>1. tree[d] \in Content
    BY <1>3 DEF TypeOK
  <2>2. Pristine.edits \in [Path -> SUBSET (Exec \X Who)]
    BY PristineType DEF Content
  <2> HIDE DEF Pristine
  <2>3. QED
    BY <2>1, <2>2 DEF Content
<1>4. tree' \in [0 .. MaxExec -> Content \cup {None}]
  BY <1>3 DEF TypeOK, Begin
<1>5. QED
  BY <1>1, <1>2, <1>4

ProgressType ==
  /\ task \in Tasks /\ kind \in Kind /\ invoker \in Invoker
  /\ pc \in PC /\ exec \in 0 .. MaxExec /\ owned \subseteq {"tree", "cache"}
  /\ settled \in BOOLEAN

LEMMA ProgressStep ==
  ASSUME BInv, [Next]_vars
  PROVE  ProgressType'
<1>1. CASE UNCHANGED <<context, pc, exec, owned, settled>>
  BY <1>1 DEF BInv, TypeOK, ProgressType, context
<1>2. CASE ~UNCHANGED <<context, pc, exec, owned, settled>>
  BY <1>2, TypeBegin, ExecType
  DEF BInv, TypeOK, ProgressType, Next, Harness, Processes, Goto, Conclude,
     Answered, Forget, PC, Preparing, Reading, Ending, Begin, Create, Copy,
     Seal, MakeCache, WriteRequest, PrepareOutput, Refused, ReadOutput, Ingest,
     Structural, NotRun, GateStarts, GateKill, GateCloses, GateTimer, Judge, Store,
     StoreFails, Throw, CleanTree, CleanCache, Provider, NativeReturns, BridgeReturns,
     GateExits, LetGo, StrayEdits, StrayAnswers, Crash, Rest, vars
<1>3. QED BY <1>1, <1>2

SetsType == caches \subseteq Exec /\ strays \subseteq Exec /\ excused \subseteq Exec

LEMMA SetsStep ==
  ASSUME BInv, [Next]_vars
  PROVE  SetsType'
<1>1. CASE pc # "off"
  <2>1. exec \in Exec
    BY <1>1, ExecWhileOn DEF BInv
  <2>2. QED
    BY <2>1 DEF BInv, TypeOK, SetsType, Next, Harness, Processes, Conclude, Goto, Begin,
       Create, Copy, Seal, MakeCache, WriteRequest, PrepareOutput, Refused, ReadOutput,
       Ingest, Structural, NotRun, GateStarts, GateKill, GateCloses, GateTimer, Judge,
       Store, StoreFails, Throw, CleanTree, CleanCache, Provider, NativeReturns,
       BridgeReturns, GateExits, LetGo, StrayEdits, StrayAnswers, Crash, Rest, vars
<1>2. CASE pc = "off"
    BY <1>2 DEF BInv, TypeOK, SetsType, Next, Harness, Processes, Conclude, Goto,
       Preparing, Begin, Create, Copy, Seal, MakeCache, WriteRequest, PrepareOutput,
       Refused, ReadOutput, Ingest, Structural, NotRun, GateStarts, GateKill,
       GateCloses, GateTimer, Judge, Store, StoreFails, Throw, CleanTree, CleanCache,
       Provider, NativeReturns, BridgeReturns, GateExits, LetGo, StrayEdits,
       StrayAnswers, Crash, Rest, vars
<1>3. QED BY <1>1, <1>2

TreeType == tree \in [0 .. MaxExec -> Content \cup {None}] /\ judged \in Content \cup {None}

\* What an execution writes as an answer.
LEMMA AnswerEffect ==
  ASSUME NEW old \in Content, NEW work \in Works, NEW e \in Exec
  PROVE  LET new == WithAnswer(old, work, e)
         IN  /\ new \in Content
             /\ \A s \in Stream : new.raw[s] \in {old.raw[s], e}
             /\ \/ new.output = old.output
                \/ new.output.is # "artifact"
                \/ new.output.from = e
             /\ new.edits = old.edits /\ new.hidden = old.hidden
             /\ new.committed = old.committed /\ new.git = old.git
<1> DEFINE output == IF invoker = "native-cli" \/ work.file.is = "kept" THEN old.output
                     ELSE IF work.file.is = "artifact"
                     THEN WrittenBy(work.file, e) ELSE work.file
           raw == IF invoker = "native-cli" THEN old.raw
                  ELSE [s \in Stream |-> IF s \in work.raw THEN e ELSE old.raw[s]]
           new == WithAnswer(old, work, e)
<1>1. new = [old EXCEPT !.output = output, !.raw = raw]
  BY DEF WithAnswer
<1>2. output \in Other \cup Artifact(Exec)
  <2>1. old.output \in Other \cup Artifact(Exec)
    BY DEF Content
  <2>2. work.file \in [is : {"kept"}] \cup Other \cup Writing
    BY WorksAssumption
  <2>3. work.file \in Writing => WrittenBy(work.file, e) \in Artifact(Exec)
    BY DEF Writing, WrittenBy, Artifact
  <2>4. work.file.is = "artifact" => work.file \in Writing
    BY <2>2 DEF Other
  <2>5. work.file.is \notin {"kept", "artifact"} => work.file \in Other
    BY <2>2 DEF Writing
  <2>6. QED
    BY <2>1, <2>3, <2>4, <2>5
<1>3. output = old.output \/ output.is # "artifact" \/ output.from = e
  BY DEF WrittenBy
<1>4. raw \in [Stream -> 0 .. MaxExec] /\ \A s \in Stream : raw[s] \in {old.raw[s], e}
  BY ExecType DEF Content
<1> HIDE DEF output, raw
<1>5. /\ new \in Content /\ new.output = output /\ new.raw = raw
      /\ new.edits = old.edits /\ new.hidden = old.hidden
      /\ new.committed = old.committed /\ new.git = old.git
  BY <1>1, <1>2, <1>4 DEF Content
<1>6. QED
  BY <1>3, <1>4, <1>5

\* A bridge that was left over writes its answer, and nothing else.
LEMMA LateEffect ==
  ASSUME TypeOK, NEW e \in Exec, NEW work \in LateWorks, StrayAnswers(e, work)
  PROVE  /\ e \in strays /\ DirOf(e) = Dir /\ tree[Dir] # None
         /\ tree' \in [0 .. MaxExec -> Content \cup {None}] /\ tree'[Dir] \in Content
         /\ \A d \in 0 .. MaxExec \ {Dir} : tree'[d] = tree[d]
         /\ \A s \in Stream : tree'[Dir].raw[s] \in {tree[Dir].raw[s], e}
         /\ \/ tree'[Dir].output = tree[Dir].output
            \/ tree'[Dir].output.is # "artifact"
            \/ tree'[Dir].output.from = e
         /\ tree'[Dir].edits = tree[Dir].edits /\ tree'[Dir].hidden = tree[Dir].hidden
<1> DEFINE new == WithAnswer(tree[Dir], work, e)
<1>1. /\ e \in strays /\ DirOf(e) = Dir /\ tree[Dir] # None
      /\ tree' = [tree EXCEPT ![Dir] = new]
  BY DEF StrayAnswers
<1>2. Dir \in 0 .. MaxExec /\ tree \in [0 .. MaxExec -> Content \cup {None}]
      /\ tree[Dir] \in Content /\ work \in Works
  BY <1>1, DirType, LateWorksAssumption DEF TypeOK
<1>3. /\ new \in Content
      /\ \A s \in Stream : new.raw[s] \in {tree[Dir].raw[s], e}
      /\ \/ new.output = tree[Dir].output
         \/ new.output.is # "artifact"
         \/ new.output.from = e
      /\ new.edits = tree[Dir].edits /\ new.hidden = tree[Dir].hidden
  BY <1>2, AnswerEffect
<1> HIDE DEF new
<1>4. tree'[Dir] = new /\ tree' \in [0 .. MaxExec -> Content \cup {None}]
      /\ \A d \in 0 .. MaxExec \ {Dir} : tree'[d] = tree[d]
  BY <1>1, <1>2, <1>3
<1>5. QED
  BY <1>1, <1>3, <1>4

\* What the provider leaves.
LEMMA ProviderEffect ==
  ASSUME BInv, NEW work \in Works, NEW leaves \in BOOLEAN, Provider(work, leaves)
  PROVE  /\ tree' \in [0 .. MaxExec -> Content \cup {None}] /\ tree'[Dir] \in Content
         /\ \A d \in 0 .. MaxExec \ {Dir} : tree'[d] = tree[d]
         /\ \A p \in Path :
              tree'[Dir].edits[p] \subseteq tree[Dir].edits[p] \cup {<<exec, "provider">>}
         /\ tree[Dir].hidden \subseteq tree'[Dir].hidden
         /\ \A s \in Stream : tree'[Dir].raw[s] \in {tree[Dir].raw[s], exec}
         /\ \/ tree'[Dir].output = tree[Dir].output
            \/ tree'[Dir].output.is # "artifact"
            \/ tree'[Dir].output.from = exec
<1> DEFINE old == tree[Dir]
           edits == [p \in Path |->
                       IF p \in work.changed
                       THEN old.edits[p] \cup {<<exec, "provider">>} ELSE old.edits[p]]
           committed == old.committed \cup IF work.committed THEN work.changed ELSE {}
           hidden == old.hidden \cup work.hidden
           git == IF old.git = "sealed" THEN work.git ELSE old.git
           told == WithAnswer(old, work, exec)
           new == Worked(old, work)
<1>1. tree' = [tree EXCEPT ![Dir] = new]
  BY DEF Provider
<1>2. exec \in Exec /\ tree[Dir] # None /\ Dir \in 0 .. MaxExec
  BY ExecWhileOn, DirType DEF BInv, Control, Working, Provider, Goto
<1>3. old \in Content /\ tree \in [0 .. MaxExec -> Content \cup {None}]
  BY <1>2 DEF BInv, TypeOK
<1>a. /\ told \in Content
      /\ \A s \in Stream : told.raw[s] \in {old.raw[s], exec}
      /\ \/ told.output = old.output
         \/ told.output.is # "artifact"
         \/ told.output.from = exec
      /\ told.edits = old.edits /\ told.hidden = old.hidden
      /\ told.committed = old.committed /\ told.git = old.git
  BY <1>2, <1>3, AnswerEffect
<1>b. new = [told EXCEPT !.edits = edits, !.hidden = hidden, !.committed = committed,
                         !.git = git]
  BY <1>a DEF Worked
<1>4. edits \in [Path -> SUBSET (Exec \X Who)]
  <2>1. old.edits \in [Path -> SUBSET (Exec \X Who)]
    BY <1>3 DEF Content
  <2>2. <<exec, "provider">> \in Exec \X Who
    BY <1>2 DEF Who
  <2>3. QED
    BY <2>1, <2>2
<1>5. \A p \in Path : edits[p] \subseteq old.edits[p] \cup {<<exec, "provider">>}
  OBVIOUS
<1>6. /\ committed \in SUBSET Path /\ hidden \in SUBSET Path
      /\ git \in {"none", "sealed", "flagged", "lost"}
  BY <1>3, WorksAssumption DEF Content
<1> HIDE DEF edits, committed, git, told
<1>10. /\ new \in Content
       /\ new.edits = edits /\ new.output = told.output /\ new.raw = told.raw
       /\ new.hidden = hidden
  BY <1>a, <1>b, <1>4, <1>6 DEF Content
<1> HIDE DEF new
<1>11. tree' \in [0 .. MaxExec -> Content \cup {None}] /\ tree'[Dir] = new
       /\ \A d \in 0 .. MaxExec \ {Dir} : tree'[d] = tree[d]
  BY <1>1, <1>2, <1>3, <1>10
<1>12. QED
  BY <1>a, <1>5, <1>10, <1>11

\* The workspace that is in use.
LEMMA InUse ==
  ASSUME BInv, pc \in (Working \ {"create"}) \cup {"gates"}
  PROVE  /\ exec \in Exec /\ Dir \in 0 .. MaxExec /\ tree[Dir] \in Content
         /\ tree \in [0 .. MaxExec -> Content \cup {None}] /\ tree[Dir] # None
<1>1. exec \in Exec
  BY ExecWhileOn DEF BInv, Working, Preparing, Reading
<1>2. QED
  BY <1>1, DirType DEF BInv, TypeOK, Control

LEMMA TreeStep ==
  ASSUME BInv, [Next]_vars
  PROVE  TreeType'
<1> USE DEF Working, Preparing, Goto
<1>1. CASE Begin
  BY <1>1, TypeBegin DEF BInv, TypeOK, TreeType, Begin
<1>2. CASE Create
  BY <1>2, PristineType, DirType DEF BInv, TypeOK, TreeType, Create
<1>3. ASSUME NEW version \in Versions, Copy(version)
      PROVE  TreeType'
  <2>1. [tree[Dir] EXCEPT !.version = version] \in Content
    BY <1>3, InUse DEF Copy, Content
  <2>2. QED
    BY <1>3, <2>1, InUse DEF BInv, TypeOK, TreeType, Copy
<1>4. CASE Seal
  <2>1. [tree[Dir] EXCEPT !.git = "sealed"] \in Content
    BY <1>4, InUse DEF Seal, Content
  <2>2. QED
    BY <1>4, <2>1, InUse DEF BInv, TypeOK, TreeType, Seal
<1>5. CASE WriteRequest
  BY <1>5, InUse, EditEffect DEF BInv, TypeOK, TreeType, WriteRequest, Who
<1>6. CASE PrepareOutput
  <2>1. [tree[Dir] EXCEPT !.output = [is |-> "empty"]] \in Content
    BY <1>6, InUse DEF PrepareOutput, Content, Other
  <2>2. QED
    BY <1>6, <2>1, InUse DEF BInv, TypeOK, TreeType, PrepareOutput
<1>7. ASSUME NEW work \in Works, NEW leaves \in BOOLEAN, Provider(work, leaves)
      PROVE  TreeType'
  BY <1>7, ProviderEffect DEF BInv, TypeOK, TreeType, Provider
<1>8. ASSUME NEW code, NEW paths, NEW hides \in SUBSET {"test"}, NEW held,
             GateExits(code, paths, hides, held)
      PROVE  TreeType'
  <2>1. pc = "gates"
    BY <1>8 DEF BInv, TypeOK, GateExits
  <2>2. QED
    BY <1>8, <2>1, InUse, EditEffect DEF BInv, TypeOK, TreeType, GateExits, Who, Path
<1>9. ASSUME NEW e \in Exec, NEW hides \in SUBSET {"test"},
             StrayEdits(e, {"test"}, hides)
      PROVE  TreeType'
  BY <1>9, DirType, EditEffect DEF BInv, TypeOK, TreeType, StrayEdits, Who, Path
<1>a. ASSUME NEW e \in Exec, NEW work \in LateWorks, StrayAnswers(e, work)
      PROVE  TreeType'
  BY <1>a, LateEffect DEF BInv, TypeOK, TreeType, StrayAnswers
<1>10. CASE Judge
  BY <1>10, InUse DEF BInv, TypeOK, TreeType, Judge
<1>11. ASSUME NEW fails \in BOOLEAN, CleanTree(fails)
       PROVE  TreeType'
  BY <1>11, DirType DEF BInv, TypeOK, TreeType, CleanTree
<1>12. CASE UNCHANGED tree /\ judged' \in {judged, None}
  BY <1>12 DEF BInv, TypeOK, TreeType
<1>13. QED
  BY <1>1, <1>2, <1>3, <1>4, <1>5, <1>6, <1>7, <1>8, <1>9, <1>a, <1>10, <1>11, <1>12
  DEF Next, Harness, Processes, Conclude, Answered, vars, Forget, MakeCache, Refused,
     ReadOutput, Ingest, Structural, NotRun, GateStarts, GateKill, GateCloses,
     GateTimer, Store, StoreFails, Throw, CleanCache, NativeReturns, BridgeReturns,
     LetGo, Crash, Rest

AnswerType ==
  /\ spawned \in SpawnOutcome \cup {None} /\ parsed \in Parsed \cup {None}
  /\ ingested \in [Reading -> 0 .. MaxExec] /\ inv \in Returned \cup {None}

LEMMA ResultOfAdapter ==
  ASSUME NEW how \in SpawnOutcome, NEW result \in Parsed, NEW actual \in BOOLEAN
  PROVE  /\ AdapterResult(how, result, actual) \in Returned
         /\ ~AdapterResult(how, result, actual).unavailable => result.valid /\ actual
BY DEF AdapterResult, Parsed, Returned

LEMMA UnreadType == Unread \in [Reading -> 0 .. MaxExec]
BY ExecType DEF Unread

LEMMA AnswerStep ==
  ASSUME BInv, [Next]_vars
  PROVE  AnswerType'
<1>a. AnswerType /\ NotInvoked \in Returned /\ "failure" \in SpawnOutcome
  BY DEF BInv, TypeOK, AnswerType, Returned, SpawnOutcome, NotInvoked
<1>1. CASE PrepareOutput
  <2>1. inv' \in {inv, NotInvoked} /\ UNCHANGED <<spawned, parsed, ingested>>
    BY <1>1 DEF PrepareOutput
  <2>2. QED
    BY <1>a, <2>1 DEF AnswerType
<1>2. CASE Refused
  <2>1. inv' \in {inv, NotInvoked} /\ spawned' \in {spawned, "failure"}
        /\ UNCHANGED <<parsed, ingested>>
    BY <1>2 DEF Refused
  <2>2. QED
    BY <1>a, <2>1 DEF AnswerType
<1>3. CASE ReadOutput
  <2>1. tree[Dir].output \in Other \cup Artifact(Exec)
    BY <1>3, InUse DEF ReadOutput, Working, Reading, Content
  <2>2. Bind(ReadAndParse(tree[Dir].output), tree[Dir].output) \in Parsed
    BY <2>1, ReadType
  <2>3. spawned \in SpawnOutcome
    BY <1>3 DEF BInv, TypeOK, Control, ReadOutput, Reading
  <2>4. inv' \in Returned \cup {None}
    BY <1>3, <2>2, <2>3, ResultOfAdapter DEF BInv, TypeOK, ReadOutput, Answered
  <2>5. Writer(tree[Dir].output) \in 0 .. MaxExec
    BY <2>1, ExecType DEF Writer, Other, Artifact
  <2>6. ingested' \in [Reading -> 0 .. MaxExec]
    BY <1>3, <2>5 DEF BInv, TypeOK, ReadOutput
  <2>7. QED
    BY <1>3, <2>2, <2>4, <2>6 DEF BInv, TypeOK, AnswerType, ReadOutput, Answered
<1>4. ASSUME NEW s \in Stream, Ingest(s)
      PROVE  AnswerType'
  <2>1. tree[Dir].raw[s] \in 0 .. MaxExec /\ pc \in {"stdout", "stderr"}
    BY <1>4, InUse DEF Ingest, Working, Reading, Content, Stream
  <2>2. spawned \in SpawnOutcome /\ parsed \in Parsed
    BY <2>1 DEF BInv, TypeOK, Control, Reading
  <2>3. inv' \in Returned \cup {None}
    BY <1>4, <2>2, ResultOfAdapter DEF BInv, TypeOK, Ingest, Answered
  <2>4. ingested' \in [Reading -> 0 .. MaxExec]
    BY <1>4, <2>1 DEF BInv, TypeOK, Ingest
  <2>5. QED
    BY <1>4, <2>3, <2>4 DEF BInv, TypeOK, AnswerType, Ingest, Answered
<1>5. ASSUME NEW r \in NativeOutcome, NativeReturns(r)
      PROVE  AnswerType'
  BY <1>5 DEF BInv, TypeOK, AnswerType, NativeReturns, NativeOutcome
<1>6. ASSUME NEW how \in SpawnOutcome, BridgeReturns(how)
      PROVE  AnswerType'
  BY <1>6 DEF BInv, TypeOK, AnswerType, BridgeReturns
<1>7. CASE Forget
  BY <1>7, UnreadType DEF BInv, TypeOK, AnswerType, Forget
<1>8. CASE UNCHANGED answer
  BY <1>8 DEF BInv, TypeOK, AnswerType
<1>9. QED
  BY <1>1, <1>2, <1>3, <1>4, <1>5, <1>6, <1>7, <1>8
  DEF Next, Harness, Processes, Conclude, Goto, vars, Begin, Create, Copy, Seal,
     MakeCache, WriteRequest, Structural, NotRun, GateStarts, GateKill, GateCloses,
     GateTimer, Judge, Store, StoreFails, Throw, CleanTree, CleanCache, Provider,
     GateExits, LetGo, StrayEdits, StrayAnswers, Crash, Rest

GatingType ==
  /\ job \in Job \cup {None} /\ results \in Seq(Result) /\ ran \in Seq(Ran)
  /\ Len(ran) = Len(results)
  /\ job # None => pc = "gates" /\ Len(results) < Len(task.gates)
  /\ verdict \in Verdict \cup {None}

\* A gate that ran or was refused has its result at the next place.
LEMMA ConcludeEffect ==
  ASSUME TypeOK, NEW result \in Result, NEW how \in Ran, Conclude(result, how)
  PROVE  /\ results' \in Seq(Result) /\ ran' \in Seq(Ran) /\ Len(ran') = Len(results')
         /\ Len(results) \in Nat /\ Len(results') = Len(results) + 1
         /\ DOMAIN results = 1 .. Len(results) /\ DOMAIN results' = 1 .. Len(results) + 1
         /\ DOMAIN ran = 1 .. Len(results) /\ DOMAIN ran' = 1 .. Len(results) + 1
         /\ results'[Len(results) + 1] = result /\ ran'[Len(results) + 1] = how
         /\ \A i \in 1 .. Len(results) : results'[i] = results[i] /\ ran'[i] = ran[i]
<1>1. results \in Seq(Result) /\ ran \in Seq(Ran) /\ Len(ran) = Len(results)
  BY DEF TypeOK
<1>2. results' = Append(results, result) /\ ran' = Append(ran, how)
  BY DEF Conclude
<1>3. QED
  BY <1>1, <1>2

LEMMA StructuralResult ==
  ASSUME TypeOK, Structural
  PROVE  \E signal \in Signal :
           Conclude(GateResult(Gate, signal, None), "structural")
<1>1. CASE Gate.kind = "baseline-diff"
  <2>1. PICK signal \in Signal :
          BaselineDiff(Collect(tree[Dir]), Gate) = GateResult(Gate, signal, None)
    BY DEF BaselineDiff, Signal
  <2>2. QED
    BY <1>1, <2>1 DEF Structural
<1>2. CASE Gate.kind # "baseline-diff"
  <2>1. PICK signal \in Signal :
          Requirements(Gate, task.mustHave, results) = GateResult(Gate, signal, None)
    BY DEF Requirements, Signal
  <2>2. QED
    BY <1>2, <2>1 DEF Structural
<1>3. QED
  BY <1>1, <1>2

LEMMA GatingStep ==
  ASSUME BInv, [Next]_vars
  PROVE  GatingType'
<1>1. CASE Structural
  <2>1. PICK signal \in Signal : Conclude(GateResult(Gate, signal, None), "structural")
    BY <1>1, StructuralResult DEF BInv
  <2>2. Len(results) < Len(task.gates) /\ job = None
    BY <1>1 DEF Structural, AtGate
  <2>3. GateResult(Gate, signal, None) \in Result /\ "structural" \in Ran
    BY <2>2, GateType, ResultType DEF BInv, Ran
  <2>4. results' \in Seq(Result) /\ ran' \in Seq(Ran) /\ Len(ran') = Len(results')
    BY <2>1, <2>3, ConcludeEffect DEF BInv
  <2>5. QED
    BY <1>1, <2>2, <2>4 DEF BInv, TypeOK, GatingType, Structural, Conclude
<1>2. CASE NotRun
  <2>1. Len(results) < Len(task.gates) /\ job = None
    BY <1>2 DEF NotRun, AtGate
  <2>2. GateResult(Gate, "INFRA_FAIL", None) \in Result /\ "not run" \in Ran
    BY <2>1, GateType, ResultType DEF BInv, Ran, Signal
  <2>3. results' \in Seq(Result) /\ ran' \in Seq(Ran) /\ Len(ran') = Len(results')
    BY <1>2, <2>2, ConcludeEffect DEF BInv, NotRun
  <2>4. QED
    BY <1>2, <2>1, <2>3 DEF BInv, TypeOK, GatingType, NotRun, Conclude
<1>3. CASE GateStarts
  BY <1>3 DEF BInv, TypeOK, GatingType, GateStarts, AtGate, Job
<1>4. CASE GateKill
  BY <1>4 DEF BInv, TypeOK, GatingType, GateKill, Job
<1>5. CASE GateCloses
  <2>1. Len(results) < Len(task.gates)
    BY <1>5 DEF BInv, TypeOK, GateCloses
  <2> DEFINE signal == CommandSignal([timedOut |-> job.timedOut, infra |-> job.timedOut,
                                      expected |-> job.code = "expected"])
             how == IF job.timedOut THEN "cut short" ELSE job.code
  <2>2. signal \in Signal
    BY DEF CommandSignal, Signal
  <2>3. how \in Ran
    BY <1>5 DEF BInv, TypeOK, GateCloses, Job, Ran
  <2>4. Gate \in TaskGate(Path) /\ Evidence(Gate) \in {None} \cup STRING
    BY <2>1, GateType DEF BInv, TaskGate, Evidence
  <2>5. Conclude(GateResult(Gate, signal, Evidence(Gate)), how) /\ job' = None
    BY <1>5 DEF GateCloses
  <2> HIDE DEF signal, how
  <2>6. GateResult(Gate, signal, Evidence(Gate)) \in Result
    BY <2>2, <2>4, ResultType
  <2>7. results' \in Seq(Result) /\ ran' \in Seq(Ran) /\ Len(ran') = Len(results')
    BY <2>3, <2>5, <2>6, ConcludeEffect DEF BInv
  <2>8. QED
    BY <2>5, <2>7 DEF BInv, TypeOK, GatingType, Conclude
<1>6. ASSUME NEW survives \in BOOLEAN, GateTimer(survives)
      PROVE  GatingType'
  BY <1>6 DEF BInv, TypeOK, GatingType, GateTimer, Job
<1>7. ASSUME NEW code \in {"expected", "other"}, NEW paths, NEW hides,
             NEW held \in {"no", "group", "outside"},
             GateExits(code, paths, hides, held)
      PROVE  GatingType'
  BY <1>7 DEF BInv, TypeOK, GatingType, GateExits, Job
<1>8. CASE LetGo
  BY <1>8 DEF BInv, TypeOK, GatingType, LetGo, Job
<1>9. CASE Judge
  BY <1>9, ClassifyType DEF BInv, TypeOK, GatingType, Judge
<1>10. CASE job = None /\ job' = None /\ UNCHANGED <<results, ran>>
            /\ verdict' \in {verdict, None, "INFRA_FAIL"}
  BY <1>10 DEF BInv, TypeOK, GatingType, Verdict, Signal
<1>11. CASE Forget /\ job' = None
  <2>1. GatingType
    BY DEF BInv, TypeOK, GatingType
  <2>2. CASE UNCHANGED <<results, ran, verdict>>
    BY <1>11, <2>1, <2>2 DEF GatingType
  <2>3. CASE results' = <<>> /\ ran' = <<>> /\ verdict' = None
    BY <1>11, <2>3 DEF GatingType
  <2>4. QED
    BY <1>11, <2>2, <2>3 DEF Forget
<1>12. CASE UNCHANGED <<pc, task, gating, verdict>>
  BY <1>12 DEF BInv, TypeOK, GatingType
<1>13. pc # "gates" => job = None
  BY DEF BInv, TypeOK
<1>14. QED
  BY <1>1, <1>2, <1>3, <1>4, <1>5, <1>6, <1>7, <1>8, <1>9, <1>10, <1>11, <1>12, <1>13
  DEF Next, Harness, Processes, Conclude, Goto, vars, Answered, Preparing, Stream,
     Begin, Create, Copy, Seal, MakeCache, WriteRequest, PrepareOutput, Refused,
     ReadOutput, Ingest, Store, StoreFails, Throw, CleanTree, CleanCache, Provider,
     NativeReturns, BridgeReturns, StrayEdits, StrayAnswers, Crash, Rest

LEMMA TypeStep ==
  ASSUME BInv, [Next]_vars
  PROVE  TypeOK'
BY ProgressStep, SetsStep, TreeStep, AnswerStep, GatingStep
DEF ProgressType, SetsType, TreeType, AnswerType, GatingType, TypeOK

-----------------------------------------------------------------------------
(* The workspace that is in use *)

Inhabitants == {e \in Exec : DirOf(e) = Dir}

\* What a step may do to the workspace that is in use, and to no other.
Worksteps ==
  /\ tree[Dir] # None /\ tree'[Dir] \in Content
  /\ \A d \in (0 .. MaxExec) \ {Dir} : tree'[d] = tree[d]
  /\ \A p \in Path :
       tree'[Dir].edits[p] \subseteq tree[Dir].edits[p] \cup (Inhabitants \X Who)
  /\ tree[Dir].hidden \subseteq tree'[Dir].hidden
  /\ \A s \in Stream : tree'[Dir].raw[s] \in {tree[Dir].raw[s]} \cup Inhabitants
  /\ \/ tree'[Dir].output = tree[Dir].output
     \/ tree'[Dir].output.is # "artifact"
     \/ tree'[Dir].output.from \in {exec} \cup (strays \cap Inhabitants)
  /\ \/ \E work \in Works, leaves \in BOOLEAN : Provider(work, leaves)
     \/ EditsOf("provider", tree'[Dir]) \subseteq EditsOf("provider", tree[Dir])

\* An edit that is not the provider's is such a step.
LEMMA EditWorks ==
  ASSUME TypeOK, tree[Dir] # None, NEW paths, NEW hides \in SUBSET Path,
         NEW e \in Inhabitants, NEW who \in Who \ {"provider"},
         Edit(Dir, paths, hides, e, who)
  PROVE  Worksteps
<1>1. Dir \in 0 .. MaxExec /\ e \in Exec
  BY DirType DEF Inhabitants
<1> DEFINE old == tree[Dir]
           new == tree'[Dir]
<1>2. /\ new \in Content
      /\ \A d \in (0 .. MaxExec) \ {Dir} : tree'[d] = tree[d]
      /\ new.output = old.output /\ new.raw = old.raw /\ old.hidden \subseteq new.hidden
      /\ \A p \in Path : new.edits[p] \subseteq old.edits[p] \cup {<<e, who>>}
  BY <1>1, EditEffect
<1>3. EditsOf("provider", new) \subseteq EditsOf("provider", old)
  BY <1>2 DEF EditsOf
<1>4. \A p \in Path : new.edits[p] \subseteq old.edits[p] \cup (Inhabitants \X Who)
  BY <1>2
<1> HIDE DEF old, new
<1>5. QED
  BY <1>2, <1>3, <1>4 DEF Worksteps, old, new

\* The execution is at home in its workspace.
LEMMA AtHome ==
  ASSUME BInv, pc # "off"
  PROVE  exec \in Inhabitants
BY ExecWhileOn DEF BInv, Inhabitants, Dir

\* Making, using and judging the workspace touches no other.
LEMMA WorkspaceStep ==
  ASSUME BInv, [Next]_vars
  PROVE  \/ Begin \/ Create \/ \E fails \in BOOLEAN : CleanTree(fails)
         \/ UNCHANGED tree
         \/ Worksteps
<1> USE DEF Working, Preparing, Goto
<1>1. ASSUME NEW content \in Content, tree[Dir] # None, Dir \in 0 .. MaxExec,
             tree' = [tree EXCEPT ![Dir] = content],
             content.edits = tree[Dir].edits, content.raw = tree[Dir].raw,
             content.hidden = tree[Dir].hidden,
             content.output = tree[Dir].output \/ content.output.is = "empty"
      PROVE  Worksteps
  <2>1. /\ tree'[Dir] = content
        /\ \A d \in (0 .. MaxExec) \ {Dir} : tree'[d] = tree[d]
    BY <1>1 DEF BInv, TypeOK
  <2>2. EditsOf("provider", tree'[Dir]) \subseteq EditsOf("provider", tree[Dir])
    BY <1>1, <2>1 DEF EditsOf
  <2>3. QED
    BY <1>1, <2>1, <2>2 DEF Worksteps
<1>2. ASSUME NEW version \in Versions, Copy(version)
      PROVE  Worksteps
  <2> DEFINE content == [tree[Dir] EXCEPT !.version = version]
  <2>1. /\ content \in Content /\ content.edits = tree[Dir].edits
        /\ content.raw = tree[Dir].raw /\ content.output = tree[Dir].output
        /\ content.hidden = tree[Dir].hidden
    BY <1>2, InUse DEF Copy, Content
  <2>2. tree' = [tree EXCEPT ![Dir] = content] /\ tree[Dir] # None /\ Dir \in 0 .. MaxExec
    BY <1>2, InUse DEF Copy
  <2> HIDE DEF content
  <2>3. QED
    BY <1>1, <2>1, <2>2
<1>3. CASE Seal
  <2> DEFINE content == [tree[Dir] EXCEPT !.git = "sealed"]
  <2>1. /\ content \in Content /\ content.edits = tree[Dir].edits
        /\ content.raw = tree[Dir].raw /\ content.output = tree[Dir].output
        /\ content.hidden = tree[Dir].hidden
    BY <1>3, InUse DEF Seal, Content
  <2>2. tree' = [tree EXCEPT ![Dir] = content] /\ tree[Dir] # None /\ Dir \in 0 .. MaxExec
    BY <1>3, InUse DEF Seal
  <2> HIDE DEF content
  <2>3. QED
    BY <1>1, <2>1, <2>2
<1>4. CASE PrepareOutput /\ ~UNCHANGED tree
  <2> DEFINE content == [tree[Dir] EXCEPT !.output = [is |-> "empty"]]
  <2>1. /\ content \in Content /\ content.edits = tree[Dir].edits
        /\ content.raw = tree[Dir].raw /\ content.output.is = "empty"
        /\ content.hidden = tree[Dir].hidden
    BY <1>4, InUse DEF PrepareOutput, Content, Other
  <2>2. tree' = [tree EXCEPT ![Dir] = content] /\ tree[Dir] # None /\ Dir \in 0 .. MaxExec
    BY <1>4, InUse DEF PrepareOutput
  <2> HIDE DEF content
  <2>3. QED
    BY <1>1, <1>4, <2>1, <2>2
<1>5. CASE WriteRequest
  <2>1. exec \in Inhabitants /\ tree[Dir] # None
        /\ Edit(Dir, {"scratch"}, {}, exec, "harness")
    BY <1>5, AtHome, InUse DEF WriteRequest
  <2>2. QED
    BY <2>1, EditWorks DEF BInv, Who
<1>6. ASSUME NEW work \in Works, NEW leaves \in BOOLEAN, Provider(work, leaves)
      PROVE  Worksteps
  <2>1. exec \in Inhabitants /\ tree[Dir] # None
    BY <1>6, AtHome, InUse DEF Provider
  <2>2. <<exec, "provider">> \in Inhabitants \X Who
    BY <2>1 DEF Who
  <2>3. \A p \in Path :
          tree'[Dir].edits[p] \subseteq tree[Dir].edits[p] \cup (Inhabitants \X Who)
    BY <1>6, <2>2, ProviderEffect
  <2>4. QED
    BY <1>6, <2>1, <2>3, ProviderEffect DEF Worksteps
<1>7. ASSUME NEW code, NEW paths, NEW hides \in SUBSET {"test"}, NEW held,
             GateExits(code, paths, hides, held)
      PROVE  Worksteps
  <2>1. pc = "gates" /\ Edit(Dir, paths, hides, exec, "gate") /\ hides \in SUBSET Path
    BY <1>7 DEF BInv, TypeOK, GateExits, Path
  <2>2. exec \in Inhabitants /\ tree[Dir] # None
    BY <2>1, AtHome, InUse
  <2>3. QED
    BY <2>1, <2>2, EditWorks DEF BInv, Who
<1>8. ASSUME NEW e \in Exec, NEW hides \in SUBSET {"test"},
             StrayEdits(e, {"test"}, hides)
      PROVE  Worksteps
  <2>1. e \in Inhabitants /\ tree[Dir] # None /\ Edit(Dir, {"test"}, hides, e, "stray")
        /\ hides \in SUBSET Path
    BY <1>8 DEF StrayEdits, Inhabitants, Path
  <2>2. QED
    BY <2>1, EditWorks DEF BInv, Who
<1>a. ASSUME NEW e \in Exec, NEW work \in LateWorks, StrayAnswers(e, work)
      PROVE  Worksteps
  <2>1. /\ e \in strays /\ e \in Inhabitants /\ tree[Dir] # None /\ tree'[Dir] \in Content
        /\ \A d \in 0 .. MaxExec \ {Dir} : tree'[d] = tree[d]
        /\ \A s \in Stream : tree'[Dir].raw[s] \in {tree[Dir].raw[s], e}
        /\ \/ tree'[Dir].output = tree[Dir].output
           \/ tree'[Dir].output.is # "artifact"
           \/ tree'[Dir].output.from = e
        /\ tree'[Dir].edits = tree[Dir].edits /\ tree'[Dir].hidden = tree[Dir].hidden
    BY <1>a, LateEffect DEF BInv, Inhabitants
  <2>2. EditsOf("provider", tree'[Dir]) = EditsOf("provider", tree[Dir])
    BY <2>1 DEF EditsOf
  <2>3. QED
    BY <2>1, <2>2 DEF Worksteps
<1>9. QED
  BY <1>2, <1>3, <1>4, <1>5, <1>6, <1>7, <1>8, <1>a
  DEF Next, Harness, Processes, Conclude, Goto, vars, MakeCache, Refused, ReadOutput,
     Ingest, Structural, NotRun, GateStarts, GateKill, GateCloses, GateTimer, Judge,
     Store, StoreFails, Throw, CleanCache, NativeReturns, BridgeReturns, LetGo, Crash,
     Rest

-----------------------------------------------------------------------------
(* Where the harness is *)

\* The directory of the execution is its own as long as the execution lasts.
LEMMA SameDir ==
  ASSUME [Next]_vars
  PROVE  Begin \/ (UNCHANGED <<task, kind, invoker, exec>> /\ Dir' = Dir)
<1>1. Begin \/ UNCHANGED <<task, kind, invoker, exec>>
  BY DEF Next, Harness, Processes, Conclude, Goto, vars, Answered, Create, Copy, Seal,
     MakeCache, WriteRequest, PrepareOutput, Refused, ReadOutput, Ingest, Structural,
     NotRun, GateStarts, GateKill, GateCloses, GateTimer, Judge, Store, StoreFails,
     Throw, CleanTree, CleanCache, Provider, NativeReturns, BridgeReturns, GateExits,
     LetGo, StrayEdits, StrayAnswers, Crash, Rest
<1>2. QED
  BY <1>1 DEF Dir, DirOf

ControlPC ==
  /\ pc # "off" => exec # 0
  /\ pc \in {"copy", "seal"} => task.fixture
  /\ pc \in {"prepare"} \cup Reading => invoker = "poetic-adapter"
  /\ pc \in Reading => spawned # None
  /\ pc \in {"stdout", "stderr"} => parsed # None
  /\ pc = "gates" => inv # None

LEMMA ControlPCStep ==
  ASSUME BInv, [Next]_vars
  PROVE  ControlPC'
<1> USE NoneAssumption
<1>3. CASE Begin
  <2>a. exec' \in Exec
    BY <1>3, TypeBegin DEF BInv
  <2>b. exec' # 0
    BY <2>a DEF Exec
  <2>1. exec' # 0 /\ pc' = "create"
    BY <1>3, <2>b DEF Begin, Goto
  <2>2. QED
    BY <2>1 DEF ControlPC, Reading
<1>4. CASE ReadOutput
  <2>1. tree[Dir].output \in Other \cup Artifact(Exec) /\ spawned \in SpawnOutcome
    BY <1>4, InUse DEF BInv, TypeOK, Control, ReadOutput, Working, Reading, Content
  <2> DEFINE bound == Bind(ReadAndParse(tree[Dir].output), tree[Dir].output)
  <2>2. bound \in Parsed
    BY <2>1, ReadType
  <2>3. /\ AdapterResult(spawned, bound, FALSE) \in Returned
        /\ IF bound.valid
           THEN parsed' = bound /\ pc' = "stdout" /\ UNCHANGED <<spawned, inv>>
           ELSE Answered(bound, FALSE)
    BY <1>4, <2>1, <2>2, ResultOfAdapter DEF ReadOutput
  <2> HIDE DEF bound
  <2>4. QED
    BY <1>4, <2>1, <2>2, <2>3 DEF BInv, Control, ControlPC, ReadOutput, Answered, Reading
<1>5. ASSUME NEW s \in Stream, Ingest(s)
      PROVE  ControlPC'
  <2>1. spawned \in SpawnOutcome /\ parsed \in Parsed
    BY <1>5 DEF BInv, TypeOK, Control, Ingest, Reading, Stream
  <2>2. AdapterResult(spawned, parsed, tree[Dir].raw[s] # 0) \in Returned
    BY <2>1, ResultOfAdapter
  <2>3. QED
    BY <1>5, <2>1, <2>2 DEF BInv, Control, ControlPC, Ingest, Answered, Reading, Stream
<1>6. ASSUME NEW r \in NativeOutcome, NativeReturns(r)
      PROVE  ControlPC'
  BY <1>6 DEF BInv, Control, ControlPC, NativeReturns, NativeOutcome, Goto, Reading
<1>7. ASSUME NEW how \in SpawnOutcome, BridgeReturns(how)
      PROVE  ControlPC'
  BY <1>7 DEF BInv, Control, ControlPC, BridgeReturns, Goto, Reading
<1>8. CASE PrepareOutput \/ Refused
  <2>1. NotInvoked \in Returned /\ "failure" \in SpawnOutcome /\ invoker \in Invoker
    BY DEF BInv, TypeOK, Returned, SpawnOutcome, NotInvoked
  <2>2. QED
    BY <1>8, <2>1 DEF BInv, Control, ControlPC, PrepareOutput, Refused, Reading, Invoker
<1>9. CASE pc' = "off" \/ (pc' \in Ending /\ pc # "off")
  BY <1>9, <1>3, SameDir DEF BInv, Control, ControlPC, Ending, Reading
<1>10. CASE pc' = pc /\ UNCHANGED <<task, invoker, exec, spawned, parsed, inv>>
  BY <1>10 DEF BInv, Control, ControlPC
<1>11. CASE \/ Create \/ (\E version \in Versions : Copy(version))
            \/ Seal \/ MakeCache \/ WriteRequest
            \/ \E work \in Works, leaves \in BOOLEAN : Provider(work, leaves)
  BY <1>11 DEF BInv, Control, ControlPC, Create, Copy, Seal, MakeCache, WriteRequest,
     Provider, Goto, Reading
<1>12. CASE Processes
  BY <1>6, <1>7, <1>10, <1>11, <1>12
  DEF Processes, GateExits, LetGo, StrayEdits, StrayAnswers, answer, context
<1>13. CASE Harness
  BY <1>3, <1>4, <1>5, <1>8, <1>9, <1>10, <1>11, <1>13
  DEF Harness, Conclude, Goto, Ending, Preparing, Structural, NotRun, GateStarts,
     GateKill, GateCloses, GateTimer, Judge, Store, StoreFails, Throw, CleanTree,
     CleanCache, answer, context
<1>14. QED
  BY <1>9, <1>10, <1>12, <1>13 DEF Next, Crash, Rest, vars, context, answer

LEMMA LocationStep ==
  ASSUME BInv, [Next]_vars
  PROVE  /\ pc' \in Working => Begin \/ pc \in Working
         /\ pc' \in (Working \ {"create"}) \cup {"gates"} =>
              Create \/ pc \in (Working \ {"create"}) \cup {"gates"}
BY DEF BInv, TypeOK, Working, Preparing, Reading, Stream, Next, Harness, Processes,
   Conclude, Answered, Goto, vars, Begin, Create, Copy, Seal, MakeCache, WriteRequest,
   PrepareOutput, Refused, ReadOutput, Ingest, Structural, NotRun, GateStarts, GateKill,
   GateCloses, GateTimer, Judge, Store, StoreFails, Throw, CleanTree, CleanCache,
   Provider, NativeReturns, BridgeReturns, GateExits, LetGo,
   StrayEdits, StrayAnswers, Crash, Rest

ControlTree == pc \in (Working \ {"create"}) \cup {"gates"} => tree[Dir] # None

LEMMA ControlTreeStep ==
  ASSUME BInv, [Next]_vars
  PROVE  ControlTree'
<1>1. CASE Begin \/ \E fails \in BOOLEAN : CleanTree(fails)
  BY <1>1 DEF ControlTree, Begin, CleanTree, Goto, Working, Preparing, Reading
<1>2. CASE ~Begin /\ Create
  <2>1. Dir' = Dir
    BY <1>2, SameDir
  <2>2. tree'[Dir] # None
    BY <1>2, DirType, PristineType, NoneAssumption DEF BInv, TypeOK, Create
  <2>3. QED
    BY <2>1, <2>2 DEF ControlTree
<1>3. CASE ~Begin /\ UNCHANGED tree /\ ~Create
  BY <1>3, SameDir, LocationStep DEF BInv, Control, ControlTree
<1>4. CASE ~Begin /\ Worksteps
  BY <1>4, SameDir, NoneAssumption DEF ControlTree, Worksteps
<1>5. QED
  BY <1>1, <1>2, <1>3, <1>4, WorkspaceStep

ControlJob == job # None => Gate.kind \in {"command", "oracle"}

LEMMA ControlJobStep ==
  ASSUME BInv, [Next]_vars
  PROVE  ControlJob'
<1>1. CASE GateStarts
  BY <1>1 DEF ControlJob, GateStarts, Gate, Ordering
<1>2. CASE job' = None
  BY <1>2 DEF ControlJob
<1>3. CASE job # None /\ UNCHANGED <<task, results>>
  BY <1>3 DEF BInv, Control, ControlJob, Gate, Ordering
<1>4. QED
  BY <1>1, <1>2, <1>3
  DEF BInv, TypeOK, Preparing, Reading, Stream, Next, Harness, Processes, Conclude,
     Answered, Goto, vars, AtGate, Begin, Create, Copy, Seal, MakeCache, WriteRequest,
     PrepareOutput, Refused, ReadOutput, Ingest, Structural, NotRun, GateKill,
     GateCloses, GateTimer, Judge, Store, StoreFails, Throw, CleanTree, CleanCache,
     Provider, NativeReturns, BridgeReturns, GateExits, LetGo,
     StrayEdits, StrayAnswers, Crash, Rest

MemorySettled == settled => pc \in {"clean tree", "clean cache", "off"}
MemoryVerdict ==
  /\ pc \in Working \cup {"gates"} => verdict = None
  /\ pc \notin {"store"} /\ ~settled => verdict = None
MemoryFresh ==
  /\ pc \in Working \/ (pc = "off" /\ ~settled) => results = <<>> /\ ran = <<>>
  /\ pc \in Working \ Reading \/ (pc = "off" /\ ~settled) => ingested = Unread
  /\ pc = "off" /\ ~settled => owned = {}

LEMMA MemorySettledStep ==
  ASSUME BInv, [Next]_vars
  PROVE  MemorySettled'
BY DEF BInv, TypeOK, Memory, MemorySettled, Preparing, Reading, Stream, Next, Harness,
   Processes, Conclude, Answered, Goto, vars, Begin, Create, Copy, Seal, MakeCache,
   WriteRequest, PrepareOutput, Refused, ReadOutput, Ingest, Structural, NotRun,
   GateStarts, GateKill, GateCloses, GateTimer, Judge, Store, StoreFails, Throw,
   CleanTree, CleanCache, Provider, NativeReturns, BridgeReturns, GateExits, LetGo,
   StrayEdits, StrayAnswers, Crash, Rest

LEMMA MemoryVerdictStep ==
  ASSUME BInv, [Next]_vars
  PROVE  MemoryVerdict'
BY DEF BInv, TypeOK, Memory, MemoryVerdict, Working, Preparing, Reading, Stream, Forget,
   Next, Harness, Processes, Conclude, Answered, Goto, vars, Begin, Create, Copy, Seal,
   MakeCache, WriteRequest, PrepareOutput, Refused, ReadOutput, Ingest, Structural,
   NotRun, GateStarts, GateKill, GateCloses, GateTimer, Judge, Store, StoreFails, Throw,
   CleanTree, CleanCache, Provider, NativeReturns, BridgeReturns, GateExits, LetGo,
   StrayEdits, StrayAnswers, Crash, Rest

LEMMA MemoryFreshStep ==
  ASSUME BInv, [Next]_vars
  PROVE  MemoryFresh'
BY DEF BInv, TypeOK, Memory, MemoryFresh, Working, Preparing, Reading, Stream, Forget,
   AtGate, Next, Harness, Processes, Conclude, Answered, Goto, vars, Begin, Create,
   Copy, Seal, MakeCache, WriteRequest, PrepareOutput, Refused, ReadOutput, Ingest,
   Structural, NotRun, GateStarts, GateKill, GateCloses, GateTimer, Judge, Store,
   StoreFails, Throw, CleanTree, CleanCache, Provider, NativeReturns, BridgeReturns,
   GateExits, LetGo, StrayEdits, StrayAnswers, Crash, Rest

LEMMA BaseInit ==
  ASSUME Init
  PROVE  BInv
<1>1. tree \in [0 .. MaxExec -> Content \cup {None}]
  BY DEF Init
<1>2. results \in Seq(Result) /\ ran \in Seq(Ran) /\ Len(ran) = Len(results)
  BY DEF Init
<1>3. TypeOK
  BY <1>1, <1>2, UnreadType, ExecType DEF Init, TypeOK, PC
<1>4. Control /\ Memory
  BY DEF Init, Control, Memory, Working, Preparing, Reading
<1>5. QED
  BY <1>3, <1>4 DEF BInv

LEMMA BaseStep ==
  ASSUME BInv, [Next]_vars
  PROVE  BInv'
BY TypeStep, ControlPCStep, ControlTreeStep, ControlJobStep, MemorySettledStep,
   MemoryVerdictStep, MemoryFreshStep
DEF BInv, Control, ControlPC, ControlTree, ControlJob, Memory, MemorySettled,
    MemoryVerdict, MemoryFresh

-----------------------------------------------------------------------------
(* The results of the gates *)

LEMMA SameTask ==
  ASSUME [Next]_vars
  PROVE  UNCHANGED <<task, kind, invoker>> /\ Ordering' = Ordering
<1>1. UNCHANGED <<task, kind, invoker>>
  BY DEF Next, Harness, Processes, Conclude, Answered, Goto, vars, Begin, Create, Copy,
     Seal, MakeCache, WriteRequest, PrepareOutput, Refused, ReadOutput, Ingest,
     Structural, NotRun, GateStarts, GateKill, GateCloses, GateTimer, Judge, Store,
     StoreFails, Throw, CleanTree, CleanCache, Provider, NativeReturns, BridgeReturns,
     GateExits, LetGo, StrayEdits, StrayAnswers, Crash, Rest
<1>2. QED
  BY <1>1 DEF Ordering

\* Results come one by one, from a gate that has ended, or all are forgotten.
LEMMA GatesStep ==
  ASSUME BInv, [Next]_vars
  PROVE  \/ UNCHANGED <<results, ran>>
         \/ results' = <<>> /\ ran' = <<>>
         \/ Structural \/ NotRun \/ GateCloses
BY DEF Next, Harness, Processes, Goto, vars, Answered, Forget, Begin, Create, Copy,
   Seal, MakeCache, WriteRequest, PrepareOutput, Refused, ReadOutput, Ingest,
   GateStarts, GateKill, GateTimer, Judge, Store, StoreFails, Throw, CleanTree,
   CleanCache, Provider, NativeReturns, BridgeReturns, GateExits, LetGo, StrayEdits,
     StrayAnswers, Crash, Rest

LEMMA PrefixOfAppend ==
  ASSUME NEW S, NEW s \in Seq(S), NEW e \in S
  PROVE  /\ SubSeq(Append(s, e), 1, Len(s)) = s
         /\ \A i \in 1 .. Len(s) : SubSeq(Append(s, e), 1, i - 1) = SubSeq(s, 1, i - 1)
<1> DEFINE t == Append(s, e)
<1>1. t \in Seq(S) /\ Len(t) = Len(s) + 1 /\ Len(s) \in Nat
      /\ \A k \in 1 .. Len(s) : t[k] = s[k]
  OBVIOUS
<1>2. ASSUME NEW n \in 0 .. Len(s)
      PROVE  SubSeq(t, 1, n) = SubSeq(s, 1, n)
  <2>1. SubSeq(t, 1, n) \in Seq(S) /\ SubSeq(s, 1, n) \in Seq(S)
    BY <1>1
  <2>2. Len(SubSeq(t, 1, n)) = n /\ Len(SubSeq(s, 1, n)) = n
    BY <1>1
  <2>3. \A k \in 1 .. n : SubSeq(t, 1, n)[k] = t[k] /\ SubSeq(s, 1, n)[k] = s[k]
    BY <1>1
  <2> HIDE DEF t
  <2>4. \A k \in 1 .. n : SubSeq(t, 1, n)[k] = SubSeq(s, 1, n)[k]
    BY <1>1, <2>3
  <2>5. QED
    BY <2>1, <2>2, <2>4, SeqEqual
<1>3. SubSeq(s, 1, Len(s)) = s
  OBVIOUS
<1> HIDE DEF t
<1>4. SubSeq(t, 1, Len(s)) = s
  BY <1>1, <1>2, <1>3
<1>5. ASSUME NEW i \in 1 .. Len(s)
      PROVE  SubSeq(t, 1, i - 1) = SubSeq(s, 1, i - 1)
  <2>1. i - 1 \in 0 .. Len(s)
    BY <1>1
  <2>2. QED
    BY <1>2, <2>1
<1>6. QED
  BY <1>4, <1>5 DEF t

\* A result that fits its gate may follow results that fit theirs.
LEMMA RowsGrow ==
  ASSUME BInv, Rows, [Next]_vars, NEW result \in Result, NEW how \in Ran,
         Conclude(result, how), Fits(result, how, Gate, results)
  PROVE  Rows'
<1> DEFINE n == Len(results)
<1>1. /\ n \in Nat /\ DOMAIN results = 1 .. n /\ DOMAIN results' = 1 .. n + 1
      /\ results'[n + 1] = result /\ ran'[n + 1] = how
      /\ \A i \in 1 .. n : results'[i] = results[i] /\ ran'[i] = ran[i]
  BY ConcludeEffect DEF BInv
<1>2. /\ SubSeq(results', 1, n) = results
      /\ \A i \in 1 .. n : SubSeq(results', 1, i - 1) = SubSeq(results, 1, i - 1)
  BY PrefixOfAppend DEF BInv, TypeOK, Conclude
<1>3. Gate = Ordering[n + 1]
  BY DEF Gate
<1>4. Ordering' = Ordering /\ task' = task
  BY SameTask
<1> HIDE DEF n
<1>5. ASSUME NEW i \in 1 .. n + 1
      PROVE  Fits(results[i], ran[i], Ordering[i], SubSeq(results, 1, i - 1))'
  <2>1. CASE i = n + 1
    <3>1. (n + 1) - 1 = n
      BY <1>1
    <3>2. SubSeq(results', 1, i - 1) = results /\ results'[i] = result /\ ran'[i] = how
          /\ Ordering'[i] = Gate
      BY <1>1, <1>2, <1>3, <1>4, <2>1, <3>1
    <3>3. QED
      BY <1>4, <3>2 DEF Fits
  <2>2. CASE i \in 1 .. n
    <3>1. Fits(results[i], ran[i], Ordering[i], SubSeq(results, 1, i - 1))
      BY <1>1, <2>2 DEF Rows
    <3>2. SubSeq(results', 1, i - 1) = SubSeq(results, 1, i - 1)
          /\ results'[i] = results[i] /\ ran'[i] = ran[i]
      BY <1>1, <1>2, <2>2
    <3>3. QED
      BY <1>4, <3>1, <3>2 DEF Fits
  <2>3. QED
    BY <1>1, <2>1, <2>2
<1>6. QED
  BY <1>1, <1>5 DEF Rows

\* What a structural gate says fits it.
LEMMA StructuralFits ==
  ASSUME BInv, Structural
  PROVE  \E signal \in Signal :
           /\ Conclude(GateResult(Gate, signal, None), "structural")
           /\ Fits(GateResult(Gate, signal, None), "structural", Gate, results)
<1>1. Gate \in TaskGate(Path)
  BY GateType DEF BInv, Structural, AtGate
<1>2. CASE Gate.kind = "baseline-diff"
  <2>1. PICK signal \in Signal :
          Conclude(GateResult(Gate, signal, None), "structural")
    BY StructuralResult DEF BInv
  <2>2. Fits(GateResult(Gate, signal, None), "structural", Gate, results)
    BY <1>1, <1>2, ResultType DEF Fits
  <2>3. QED
    BY <2>1, <2>2
<1>3. CASE Gate.kind = "requirements"
  <2>1. PICK signal \in Signal :
          Requirements(Gate, task.mustHave, results) = GateResult(Gate, signal, None)
    BY DEF Requirements, Signal
  <2>2. Conclude(GateResult(Gate, signal, None), "structural")
    BY <1>3, <2>1 DEF Structural
  <2>3. Passed(GateResult(Gate, signal, None)) =>
          \A item \in task.mustHave :
            /\ Bound(item, results) # None /\ Bound(item, results).required
            /\ Passed(Bound(item, results))
    BY <2>1, RequirementsAreMet
  <2>4. Fits(GateResult(Gate, signal, None), "structural", Gate, results)
    BY <1>1, <1>3, <2>3, ResultType DEF Fits
  <2>5. QED
    BY <2>2, <2>4
<1>4. QED
  BY <1>2, <1>3 DEF Structural

LEMMA RowsStep ==
  ASSUME BInv, Rows, [Next]_vars
  PROVE  Rows'
<1>1. CASE Structural
  <2>1. PICK signal \in Signal :
          /\ Conclude(GateResult(Gate, signal, None), "structural")
          /\ Fits(GateResult(Gate, signal, None), "structural", Gate, results)
    BY <1>1, StructuralFits
  <2>2. GateResult(Gate, signal, None) \in Result /\ "structural" \in Ran
    BY <1>1, GateType, ResultType DEF BInv, Structural, AtGate, Ran
  <2>3. QED
    BY <2>1, <2>2, RowsGrow
<1>2. CASE NotRun
  <2>1. Gate \in TaskGate(Path) /\ "INFRA_FAIL" \in Signal /\ "not run" \in Ran
        /\ None \in {None} \cup STRING
    BY <1>2, GateType DEF BInv, NotRun, AtGate, Signal, Ran
  <2> DEFINE result == GateResult(Gate, "INFRA_FAIL", None)
  <2>2. /\ result \in Result /\ result.name = Gate.name /\ result.required = Gate.required
        /\ result.signal = "INFRA_FAIL" /\ result.script = None
    BY <2>1 DEF GateResult, Result, TaskGate
  <2>3. Conclude(result, "not run")
    BY <1>2 DEF NotRun
  <2> HIDE DEF result
  <2>4. Fits(result, "not run", Gate, results)
    BY <2>2 DEF Fits, Passed
  <2>5. QED
    BY <2>1, <2>2, <2>3, <2>4, RowsGrow
<1>3. CASE GateCloses
  <2>1. Len(results) < Len(task.gates)
    BY <1>3 DEF BInv, TypeOK, GateCloses
  <2>2. Gate \in TaskGate(Path) /\ Evidence(Gate) \in {None} \cup STRING
    BY <2>1, GateType DEF BInv, TaskGate, Evidence
  <2> DEFINE signal == CommandSignal([timedOut |-> job.timedOut, infra |-> job.timedOut,
                                      expected |-> job.code = "expected"])
             how == IF job.timedOut THEN "cut short" ELSE job.code
             result == GateResult(Gate, signal, Evidence(Gate))
  <2>3. signal \in Signal /\ how \in Ran
    BY <1>3 DEF BInv, TypeOK, GateCloses, Job, Ran, CommandSignal, Signal
  <2>4. /\ how = "cut short" => signal = "TIMEOUT"
        /\ how # "not run"
        /\ signal = "PASS" => how = "expected"
    BY <1>3 DEF BInv, TypeOK, GateCloses, Job, CommandSignal
  <2>5. Gate.kind \in {"command", "oracle"}
    BY <1>3 DEF BInv, Control, GateCloses
  <2>6. Evidence(Gate) # None => Evidence(Gate) = Gate.script
    BY DEF Evidence
  <2>7. Conclude(result, how)
    BY <1>3 DEF GateCloses
  <2> HIDE DEF signal, how
  <2>8. /\ result \in Result /\ result.name = Gate.name /\ result.required = Gate.required
        /\ result.signal = signal /\ result.script = Evidence(Gate)
    BY <2>2, <2>3, ResultType
  <2> HIDE DEF result
  <2>9. Fits(result, how, Gate, results)
    BY <2>4, <2>5, <2>6, <2>8 DEF Fits, Passed
  <2>10. QED
    BY <2>3, <2>7, <2>8, <2>9, RowsGrow
<1>4. CASE UNCHANGED <<results, ran>>
  <2>1. task' = task /\ Ordering' = Ordering
    BY SameTask
  <2>2. ASSUME NEW i \in DOMAIN results
        PROVE  Fits(results[i], ran[i], Ordering[i], SubSeq(results, 1, i - 1))'
    <3>1. Fits(results[i], ran[i], Ordering[i], SubSeq(results, 1, i - 1))
      BY DEF Rows
    <3>2. QED
      BY <1>4, <2>1, <3>1 DEF Fits
  <2>3. QED
    BY <1>4, <2>2 DEF Rows
<1>5. CASE results' = <<>> /\ ran' = <<>>
  BY <1>5 DEF Rows
<1>6. QED
  BY <1>1, <1>2, <1>3, <1>4, <1>5, GatesStep

\* A baseline-diff that passed has seen all the provider did so far, but for what
\* was hidden.
LEMMA UntouchedNow ==
  ASSUME BInv, Structural, Gate.kind = "baseline-diff",
         Passed(BaselineDiff(Collect(tree[Dir]), Gate))
  PROVE  PolicyOK(Meaningful(Seen(tree[Dir])), Gate)
<1>1. PolicyOK(Meaningful(Collect(tree[Dir]).paths), Gate)
  BY DEF Passed, BaselineDiff, GateResult
<1>2. Seen(tree[Dir]) \subseteq Collect(tree[Dir]).paths
  BY DEF Seen, EditsOf, Collect
<1>3. QED
  BY <1>1, <1>2 DEF PolicyOK, Meaningful

\* Only before the gates does the provider edit.
LEMMA NoMoreEdits ==
  ASSUME BInv, [Next]_vars, pc = "gates", pc' = "gates"
  PROVE  /\ Dir' = Dir
         /\ Seen(tree'[Dir]) \subseteq Seen(tree[Dir])
<1>1. ~Begin /\ ~Create /\ ~(\E fails \in BOOLEAN : CleanTree(fails)) /\ ~PrepareOutput
      /\ ~(\E work \in Works, leaves \in BOOLEAN : Provider(work, leaves))
  BY DEF Begin, Create, CleanTree, PrepareOutput, Provider, Goto
<1>2. Dir' = Dir
  BY <1>1, SameDir
<1>3. CASE UNCHANGED tree
  BY <1>2, <1>3
<1>4. CASE Worksteps
  BY <1>1, <1>2, <1>4 DEF Worksteps, Seen
<1>5. QED
  BY <1>1, <1>3, <1>4, WorkspaceStep

LEMMA UntouchedStep ==
  ASSUME BInv, Untouched, [Next]_vars
  PROVE  Untouched'
<1> SUFFICES ASSUME pc' = "gates"
             PROVE  Untouched'
  BY DEF Untouched
<1> DEFINE Holds(result, gate, content) ==
             gate.kind = "baseline-diff" /\ Passed(result) =>
               PolicyOK(Meaningful(Seen(content)), gate)
<1>1. CASE pc # "gates"
  <2>1. pc \in Working
    BY <1>1 DEF Next, Harness, Processes, Conclude, Answered, Goto, vars, Working,
       Preparing, Reading, Stream, Begin, Create, Copy, Seal, MakeCache, WriteRequest,
       PrepareOutput, Refused, ReadOutput, Ingest, Structural, NotRun, GateStarts,
       GateKill, GateCloses, GateTimer, Judge, Store, StoreFails, Throw, CleanTree,
       CleanCache, Provider, NativeReturns, BridgeReturns, GateExits, LetGo,
       StrayEdits, StrayAnswers, Crash, Rest
  <2>2. results = <<>> /\ ran = <<>>
    BY <2>1 DEF BInv, Memory
  <2>3. results' = <<>>
    <3>1. ~Structural /\ ~NotRun /\ ~GateCloses
      BY <1>1 DEF Structural, NotRun, GateCloses, AtGate, BInv, TypeOK
    <3>2. QED
      BY <2>2, <3>1, GatesStep
  <2>4. QED
    BY <2>3 DEF Untouched
<1>2. CASE pc = "gates"
  <2>1. /\ Dir' = Dir /\ Ordering' = Ordering
        /\ Seen(tree'[Dir]) \subseteq Seen(tree[Dir])
    BY <1>2, NoMoreEdits, SameTask
  <2>2. ASSUME NEW result, NEW gate, Holds(result, gate, tree[Dir])
        PROVE  Holds(result, gate, tree'[Dir'])
    BY <2>1, <2>2 DEF PolicyOK, Meaningful
  <2>3. \A i \in DOMAIN results : Holds(results[i], Ordering[i], tree[Dir])
    BY <1>2 DEF Untouched
  <2>4. ASSUME NEW result \in Result, NEW how \in Ran, Conclude(result, how),
               Holds(result, Gate, tree[Dir])
        PROVE  Untouched'
    <3> DEFINE n == Len(results)
    <3>1. /\ n \in Nat /\ DOMAIN results = 1 .. n /\ DOMAIN results' = 1 .. n + 1
          /\ results'[n + 1] = result
          /\ \A i \in 1 .. n : results'[i] = results[i]
      BY <2>4, ConcludeEffect DEF BInv
    <3>2. Gate = Ordering[n + 1]
      BY DEF Gate
    <3> HIDE DEF n, Holds
    <3>3. \A i \in 1 .. n + 1 : Holds(results'[i], Ordering[i], tree[Dir])
      BY <2>3, <2>4, <3>1, <3>2
    <3>4. \A i \in 1 .. n + 1 : Holds(results'[i], Ordering[i], tree'[Dir'])
      BY <2>2, <3>3
    <3>5. QED
      BY <2>1, <3>1, <3>4 DEF Untouched, Holds, Seen, EditsOf
  <2>5. CASE UNCHANGED <<results, ran>>
    <3> HIDE DEF Holds
    <3>1. \A i \in DOMAIN results : Holds(results[i], Ordering[i], tree'[Dir'])
      BY <2>2, <2>3
    <3>2. QED
      BY <2>1, <2>5, <3>1 DEF Untouched, Holds, Seen, EditsOf
  <2>6. CASE results' = <<>> /\ ran' = <<>>
    BY <2>6 DEF Untouched
  <2>7. CASE Structural /\ Gate.kind = "baseline-diff"
    <3> DEFINE result == BaselineDiff(Collect(tree[Dir]), Gate)
    <3>1. Conclude(result, "structural") /\ Holds(result, Gate, tree[Dir])
      BY <2>7, UntouchedNow DEF Structural
    <3>2. PICK signal \in Signal : result = GateResult(Gate, signal, None)
      BY DEF BaselineDiff, Signal
    <3>3. result \in Result /\ "structural" \in Ran
      BY <2>7, <3>2, GateType, ResultType DEF BInv, Structural, AtGate, Ran
    <3> HIDE DEF result, Holds
    <3>4. QED
      BY <2>4, <3>1, <3>3
  <2>8. CASE \/ Structural /\ Gate.kind # "baseline-diff"
             \/ NotRun \/ GateCloses
    <3>1. Gate.kind # "baseline-diff"
      BY <2>8 DEF NotRun, GateCloses, BInv, Control
    <3>2. PICK result \in Result, how \in Ran : Conclude(result, how)
      <4>1. CASE Structural
        BY <4>1, StructuralResult, GateType, ResultType DEF BInv, Structural, AtGate, Ran
      <4>2. CASE NotRun
        BY <4>2, GateType, ResultType DEF BInv, NotRun, AtGate, Ran, Signal
      <4>3. CASE GateCloses
        <5>1. Gate \in TaskGate(Path) /\ Evidence(Gate) \in {None} \cup STRING
          BY <4>3, GateType DEF BInv, TypeOK, GateCloses, TaskGate, Evidence
        <5> DEFINE signal == CommandSignal([timedOut |-> job.timedOut,
                                            infra |-> job.timedOut,
                                            expected |-> job.code = "expected"])
                   went == IF job.timedOut THEN "cut short" ELSE job.code
        <5>2. signal \in Signal /\ went \in Ran
          BY <4>3 DEF BInv, TypeOK, GateCloses, Job, Ran, CommandSignal, Signal
        <5>3. Conclude(GateResult(Gate, signal, Evidence(Gate)), went)
          BY <4>3 DEF GateCloses
        <5> HIDE DEF signal, went
        <5>4. QED
          BY <5>1, <5>2, <5>3, ResultType
      <4>4. QED
        BY <2>8, <4>1, <4>2, <4>3
    <3>3. QED
      BY <2>4, <3>1, <3>2
  <2>9. QED
    BY <2>5, <2>6, <2>7, <2>8, GatesStep
<1>3. QED
  BY <1>1, <1>2

-----------------------------------------------------------------------------
(* Whose work it is *)

LEMMA HomeAlone ==
  ASSUME TypeOK, task.fixture
  PROVE  Dir = exec /\ Inhabitants \subseteq {exec} /\ exec \in 0 .. MaxExec
         /\ \A e \in 0 .. MaxExec : DirOf(e) = e
BY DEF TypeOK, Dir, DirOf, Inhabitants

Pure(content, e) ==
  /\ \A p \in Path : content.edits[p] \subseteq {e} \X Who
  /\ \A s \in Stream : content.raw[s] \in {0, e}

ProvenanceTree ==
  task.fixture =>
    /\ \A d \in 0 .. MaxExec : d > exec => tree[d] = None
    /\ pc = "create" => tree[exec] = None
    /\ tree[exec] # None => Pure(tree[exec], exec)

LEMMA CreateStep ==
  ASSUME BInv, [Next]_vars
  PROVE  pc' = "create" => Begin \/ pc = "create"
BY DEF BInv, TypeOK, Working, Preparing, Reading, Stream, Next, Harness, Processes,
   Conclude, Answered, Goto, vars, Begin, Create, Copy, Seal, MakeCache, WriteRequest,
   PrepareOutput, Refused, ReadOutput, Ingest, Structural, NotRun, GateStarts, GateKill,
   GateCloses, GateTimer, Judge, Store, StoreFails, Throw, CleanTree, CleanCache,
   Provider, NativeReturns, BridgeReturns, GateExits, LetGo,
   StrayEdits, StrayAnswers, Crash, Rest

LEMMA ProvenanceTreeStep ==
  ASSUME BInv, Provenance, [Next]_vars
  PROVE  ProvenanceTree'
<1> SUFFICES ASSUME task.fixture
             PROVE  ProvenanceTree'
  BY SameTask DEF ProvenanceTree
<1>1. Dir = exec /\ Inhabitants \subseteq {exec} /\ exec \in 0 .. MaxExec
      /\ \A e \in 0 .. MaxExec : DirOf(e) = e
  BY HomeAlone DEF BInv
<1>2. /\ \A d \in 0 .. MaxExec : d > exec => tree[d] = None
      /\ pc = "create" => tree[exec] = None
      /\ tree[exec] # None => Pure(tree[exec], exec)
  BY DEF Provenance, Pure
<1>3. tree \in [0 .. MaxExec -> Content \cup {None}] /\ task' = task
  BY SameTask DEF BInv, TypeOK
<1>4. CASE Begin
  <2>1. exec' = exec + 1 /\ exec' \in 0 .. MaxExec
    BY <1>4, TypeBegin, ExecType DEF BInv
  <2>2. DirOf(exec + 1) = exec + 1 /\ tree[exec + 1] = None
    BY <1>1, <1>2, <2>1
  <2>3. \A d \in 0 .. MaxExec : tree'[d] = None
    BY <1>3, <1>4, <2>2 DEF Begin
  <2>4. QED
    BY <2>1, <2>3 DEF ProvenanceTree
<1>5. CASE Create
  <2>1. \A p \in Path : Pristine.edits[p] = {}
    BY DEF Pristine
  <2>2. \A s \in Stream : Pristine.raw[s] = 0
    BY DEF Pristine
  <2>3. Pure(Pristine, exec)
    BY <2>1, <2>2 DEF Pure
  <2>4. UNCHANGED exec /\ pc' # "create"
    BY <1>5 DEF Create, Goto
  <2>5. tree' \in {tree, [tree EXCEPT ![exec] = Pristine]}
    BY <1>1, <1>5 DEF Create
  <2>6. tree'[exec] \in {tree[exec], Pristine}
        /\ \A d \in 0 .. MaxExec : d # exec => tree'[d] = tree[d]
    BY <1>1, <1>3, <2>5
  <2>7. \A d \in 0 .. MaxExec : d > exec => d # exec
    BY <1>1
  <2>8. QED
    BY <1>2, <1>3, <2>3, <2>4, <2>6, <2>7 DEF ProvenanceTree
<1>6. ASSUME NEW fails \in BOOLEAN, CleanTree(fails)
      PROVE  ProvenanceTree'
  <2>1. UNCHANGED exec /\ pc' # "create"
    BY <1>6 DEF CleanTree, Goto
  <2>2. tree' \in {tree, [tree EXCEPT ![exec] = None]}
    BY <1>1, <1>6 DEF CleanTree
  <2>3. tree'[exec] \in {tree[exec], None}
        /\ \A d \in 0 .. MaxExec : d # exec => tree'[d] = tree[d]
    BY <1>1, <1>3, <2>2
  <2>4. \A d \in 0 .. MaxExec : d > exec => d # exec
    BY <1>1
  <2>5. QED
    BY <1>2, <1>3, <2>1, <2>3, <2>4 DEF ProvenanceTree
<1>7. CASE ~Begin /\ UNCHANGED tree
  <2>1. UNCHANGED exec /\ (pc' = "create" => pc = "create")
    BY <1>7, SameDir, CreateStep
  <2>2. QED
    BY <1>2, <1>3, <1>7, <2>1 DEF ProvenanceTree
<1>8. CASE ~Begin /\ Worksteps
  <2>1. UNCHANGED exec /\ (pc' = "create" => pc = "create")
    BY <1>8, SameDir, CreateStep
  <2>2. /\ tree[exec] # None
        /\ \A d \in 0 .. MaxExec : d # exec => tree'[d] = tree[d]
        /\ \A p \in Path :
             tree'[exec].edits[p] \subseteq tree[exec].edits[p] \cup (Inhabitants \X Who)
        /\ \A s \in Stream : tree'[exec].raw[s] \in {tree[exec].raw[s]} \cup Inhabitants
    BY <1>1, <1>8 DEF Worksteps
  <2>3. Pure(tree'[exec], exec)
    <3>1. Pure(tree[exec], exec)
      BY <1>2, <2>2
    <3>2. Inhabitants \X Who \subseteq {exec} \X Who
      BY <1>1
    <3>3. \A p \in Path : tree'[exec].edits[p] \subseteq {exec} \X Who
      BY <2>2, <3>1, <3>2 DEF Pure
    <3>4. \A s \in Stream : tree'[exec].raw[s] \in {0, exec}
      BY <1>1, <2>2, <3>1 DEF Pure
    <3>5. QED
      BY <3>3, <3>4 DEF Pure
  <2>4. \A d \in 0 .. MaxExec : d > exec => d # exec
    BY <1>1
  <2>5. QED
    BY <1>2, <1>3, <2>1, <2>2, <2>3, <2>4 DEF ProvenanceTree
<1>9. QED
  BY <1>4, <1>5, <1>6, <1>7, <1>8, WorkspaceStep

ProvenanceRaw == task.fixture => \A s \in Stream : ingested[s] \in {0, exec}

LEMMA ProvenanceRawStep ==
  ASSUME BInv, Provenance, [Next]_vars
  PROVE  ProvenanceRaw'
<1> SUFFICES ASSUME task.fixture
             PROVE  ProvenanceRaw'
  BY SameTask DEF ProvenanceRaw
<1>1. CASE Begin
  <2>1. ingested = Unread /\ UNCHANGED ingested
    BY <1>1 DEF BInv, Memory, Begin, Goto
  <2>2. QED
    BY <2>1 DEF ProvenanceRaw, Unread, Stream, Reading
<1>2. ASSUME NEW s \in Stream, Ingest(s)
      PROVE  ProvenanceRaw'
  <2>1. Dir = exec /\ tree[Dir] # None
    BY <1>2, HomeAlone, InUse DEF BInv, Ingest, Working, Reading, Stream
  <2>2. tree[Dir].raw[s] \in {0, exec} /\ UNCHANGED exec
    BY <1>2, <2>1 DEF Provenance, Ingest
  <2>3. ingested' = [ingested EXCEPT ![s] = tree[Dir].raw[s]]
        /\ ingested \in [Reading -> 0 .. MaxExec] /\ Stream \subseteq Reading
    BY <1>2 DEF BInv, TypeOK, Ingest, Stream, Reading
  <2>4. \A t \in Stream : ingested[t] \in {0, exec}
    BY DEF Provenance
  <2>5. \A t \in Stream : ingested'[t] \in {0, exec}
    BY <2>2, <2>3, <2>4
  <2>6. QED
    BY <2>2, <2>5 DEF ProvenanceRaw
<1>3. CASE ~Begin /\ \A s \in Stream : ingested'[s] = ingested[s]
  BY <1>3, SameDir DEF Provenance, ProvenanceRaw
<1>4. CASE ingested' = Unread
  BY <1>4 DEF ProvenanceRaw, Unread, Stream, Reading
<1>a. CASE ReadOutput
  <2>1. \A s \in Stream : ingested'[s] = ingested[s]
    BY <1>a DEF BInv, TypeOK, ReadOutput, Stream, Reading
  <2>2. QED
    BY <1>a, <1>3, <2>1 DEF ReadOutput, Begin, Goto
<1>5. QED
  BY <1>1, <1>2, <1>3, <1>4, <1>a
  DEF Next, Harness, Processes, Conclude, Answered, Goto, Forget, vars, Begin, Create,
     Copy, Seal, MakeCache, WriteRequest, PrepareOutput, Refused,
     Structural, NotRun, GateStarts, GateKill, GateCloses, GateTimer, Judge, Store,
     StoreFails, Throw, CleanTree, CleanCache, Provider, NativeReturns, BridgeReturns,
     GateExits, LetGo, StrayEdits, StrayAnswers, Crash, Rest

LEMMA ProvenanceStep ==
  ASSUME BInv, Provenance, [Next]_vars
  PROVE  Provenance'
BY ProvenanceTreeStep, ProvenanceRawStep
DEF ProvenanceTree, ProvenanceRaw, Provenance, Pure

-----------------------------------------------------------------------------
(* The answer of the bridge *)

\* As long as an execution lasts, who lives on lives on.
LEMMA StraysStay ==
  ASSUME [Next]_vars
  PROVE  Begin \/ strays \subseteq strays'
BY DEF Next, Harness, Processes, Conclude, Goto, vars, Answered, Create, Copy, Seal,
   MakeCache, WriteRequest, PrepareOutput, Refused, ReadOutput, Ingest, Structural,
   NotRun, GateStarts, GateKill, GateCloses, GateTimer, Judge, Store, StoreFails,
   Throw, CleanTree, CleanCache, Provider, NativeReturns, BridgeReturns, GateExits,
   LetGo, StrayEdits, StrayAnswers, Crash, Rest

\* What can be read as an answer.
AnswerFile ==
  invoker = "poetic-adapter" /\ Alone
    /\ pc \in {"running", "worked"} \cup Reading => OfThis(tree[Dir].output)

LEMMA AnswerFileStep ==
  ASSUME BInv, Answer, [Next]_vars
  PROVE  AnswerFile'
<1> SUFFICES ASSUME invoker = "poetic-adapter", Alone',
                    pc' \in {"running", "worked"} \cup Reading
             PROVE  OfThis(tree[Dir].output)'
  BY SameTask DEF AnswerFile
<1>a. ~Begin /\ UNCHANGED exec /\ Dir' = Dir /\ Alone
  <2>1. ~Begin
    BY DEF Begin, Goto, Reading
  <2>2. QED
    BY <2>1, SameDir, StraysStay DEF Alone
<1>1. CASE PrepareOutput
  <2>1. tree' = [tree EXCEPT ![Dir].output = [is |-> "empty"]]
    BY <1>1 DEF PrepareOutput, Reading
  <2>2. tree[Dir] \in Content /\ Dir \in 0 .. MaxExec
        /\ tree \in [0 .. MaxExec -> Content \cup {None}]
    BY <1>1, InUse DEF PrepareOutput, Working, Preparing
  <2>3. tree'[Dir].output.is = "empty"
    BY <2>1, <2>2 DEF Content
  <2>4. QED
    BY <1>a, <2>3 DEF OfThis
<1>2. CASE ~PrepareOutput
  <2>1. pc \in {"running", "worked"} \cup Reading
    BY <1>2 DEF Reading, Stream, Preparing, Next, Harness, Processes, Conclude,
       Answered, Goto, vars, Begin, Create, Copy, Seal, MakeCache, WriteRequest,
       Refused, ReadOutput, Ingest, Structural, NotRun, GateStarts, GateKill,
       GateCloses, GateTimer, Judge, Store, StoreFails, Throw, CleanTree, CleanCache,
       Provider, NativeReturns, BridgeReturns, GateExits, LetGo, StrayEdits,
       StrayAnswers, Crash, Rest
  <2>2. OfThis(tree[Dir].output)
    BY <1>a, <2>1, SameTask DEF Answer
  <2>3. ~Create /\ ~(\E fails \in BOOLEAN : CleanTree(fails))
    BY <2>1 DEF Create, CleanTree, Goto, Reading
  <2>4. \/ tree'[Dir].output = tree[Dir].output
        \/ tree'[Dir].output.is # "artifact"
        \/ tree'[Dir].output.from \in {exec} \cup (strays \cap Inhabitants)
    BY <1>a, <2>3, WorkspaceStep DEF Worksteps
  <2>a. strays \cap Inhabitants \subseteq {exec}
    BY <1>a, HomeAlone DEF Alone, BInv
  <2>5. QED
    BY <1>a, <2>2, <2>4, <2>a DEF OfThis
<1>3. QED
  BY <1>1, <1>2

\* What was read.
AnswerRead ==
  invoker = "poetic-adapter" /\ Alone =>
    /\ pc \in {"stdout", "stderr"} => ingested["output"] = exec
    /\ pc = "gates" /\ ~inv.unavailable => ingested["output"] = exec

LEMMA AnswerReadStep ==
  ASSUME BInv, Answer, [Next]_vars
  PROVE  AnswerRead'
<1> SUFFICES ASSUME invoker = "poetic-adapter", Alone',
                    pc' \in {"stdout", "stderr", "gates"}
             PROVE  AnswerRead'
  BY SameTask DEF AnswerRead
<1>a. ~Begin /\ UNCHANGED exec /\ Alone /\ "output" \in Reading
  <2>1. ~Begin
    BY DEF Begin, Goto
  <2>2. QED
    BY <2>1, SameDir, StraysStay DEF Alone, Reading
<1>1. CASE ReadOutput
  <2> DEFINE file == tree[Dir].output
             bound == Bind(ReadAndParse(file), file)
  <2>1. file \in Other \cup Artifact(Exec)
    BY <1>1, InUse DEF ReadOutput, Working, Reading, Content
  <2>2. bound \in Parsed /\ (bound.valid => file.is = "artifact" /\ file.same)
    BY <2>1, ReadType
  <2>3. OfThis(file) /\ spawned \in SpawnOutcome
    BY <1>a, <1>1 DEF Answer, ReadOutput, Reading, BInv, TypeOK, Control
  <2>4. /\ ingested' = [ingested EXCEPT !["output"] = Writer(file)]
        /\ ingested \in [Reading -> 0 .. MaxExec]
    BY <1>1 DEF ReadOutput, BInv, TypeOK
  <2>5. CASE bound.valid
    <3>1. Writer(file) = exec
      BY <2>2, <2>3, <2>5 DEF OfThis, Writer
    <3>2. ingested'["output"] = exec
      BY <1>a, <2>4, <3>1
    <3>3. QED
      BY <1>a, <3>2 DEF AnswerRead
  <2>6. CASE ~bound.valid
    <3>1. inv' = AdapterResult(spawned, bound, FALSE) /\ pc' = "gates"
      BY <1>1, <2>6 DEF ReadOutput, Answered
    <3> HIDE DEF bound
    <3>2. inv'.unavailable
      BY <2>2, <2>3, <2>6, <3>1, ResultOfAdapter
    <3>3. QED
      BY <3>1, <3>2 DEF AnswerRead
  <2>7. QED
    BY <2>5, <2>6
<1>2. ASSUME NEW s \in Stream, Ingest(s)
      PROVE  AnswerRead'
  <2>1. pc \in {"stdout", "stderr"} /\ s # "output"
    BY <1>2 DEF Ingest, Stream
  <2>2. ingested["output"] = exec
    BY <1>a, <2>1, SameTask DEF Answer
  <2>3. ingested'["output"] = ingested["output"]
    BY <1>a, <1>2, <2>1 DEF BInv, TypeOK, Ingest
  <2>4. QED
    BY <1>a, <2>2, <2>3 DEF AnswerRead
<1>3. CASE PrepareOutput \/ Refused
  <2>1. pc' = "gates" /\ inv'.unavailable
    BY <1>3, SameTask DEF PrepareOutput, Refused, NotInvoked
  <2>2. QED
    BY <2>1 DEF AnswerRead
<1>4. CASE pc \in {"stdout", "stderr", "gates"} /\ UNCHANGED <<pc, inv, ingested>>
  BY <1>a, <1>4, SameTask DEF Answer, AnswerRead
<1>5. QED
  BY <1>1, <1>2, <1>3, <1>4, SameTask
  DEF Preparing, Next, Harness, Processes, Conclude, Goto, vars, Begin, Create, Copy,
     Seal, MakeCache, WriteRequest, PrepareOutput, Refused, Structural, NotRun,
     GateStarts, GateKill, GateCloses, GateTimer, Judge, Store, StoreFails, Throw,
     CleanTree, CleanCache, Provider, NativeReturns, BridgeReturns, GateExits, LetGo,
     StrayEdits, StrayAnswers, Crash, Rest

LEMMA AnswerOwnStep ==
  ASSUME BInv, Answer, [Next]_vars
  PROVE  Answer'
BY AnswerFileStep, AnswerReadStep DEF AnswerFile, AnswerRead, Answer

-----------------------------------------------------------------------------
(* What is kept *)

KeptCache ==
  pc # "off" =>
    /\ caches \subseteq {exec}
    /\ pc \in {"create", "copy", "seal", "cache"} => caches = {}
    /\ caches # {} => "cache" \in owned

LEMMA KeptCacheStep ==
  ASSUME BInv, Kept, [Next]_vars
  PROVE  KeptCache'
BY DEF BInv, TypeOK, Memory, Kept, KeptCache, Preparing, Reading, Stream, Next, Harness,
   Processes, Conclude, Answered, Goto, Forget, vars, Begin, Create, Copy, Seal,
   MakeCache, WriteRequest, PrepareOutput, Refused, ReadOutput, Ingest, Structural,
   NotRun, GateStarts, GateKill, GateCloses, GateTimer, Judge, Store, StoreFails, Throw,
   CleanTree, CleanCache, Provider, NativeReturns, BridgeReturns, GateExits, LetGo,
   StrayEdits, StrayAnswers, Crash, Rest

KeptElsewhere == pc # "off" => \A d \in 0 .. MaxExec : d # Dir => tree[d] = None

LEMMA KeptElsewhereStep ==
  ASSUME BInv, Kept, [Next]_vars
  PROVE  KeptElsewhere'
<1> SUFFICES ASSUME pc' # "off"
             PROVE  \A d \in 0 .. MaxExec : d # Dir' => tree'[d] = None
  BY DEF KeptElsewhere
<1>1. tree \in [0 .. MaxExec -> Content \cup {None}] /\ Dir \in 0 .. MaxExec
  BY DirType DEF BInv, TypeOK
<1>2. CASE Begin
  <2>1. Dir' = DirOf(exec + 1)
    BY <1>2 DEF Begin, Dir, DirOf
  <2>2. QED
    BY <1>1, <1>2, <2>1 DEF Begin
<1>3. CASE ~Begin
  <2>1. pc # "off"
    BY <1>3 DEF Preparing, Reading, BInv, TypeOK, Stream, Next, Harness, Processes,
       Conclude, Answered, Goto, vars, AtGate, Create, Copy, Seal, MakeCache,
       WriteRequest, PrepareOutput, Refused, ReadOutput, Ingest, Structural, NotRun,
       GateStarts, GateKill, GateCloses, GateTimer, Judge, Store, StoreFails, Throw,
       CleanTree, CleanCache, Provider, NativeReturns, BridgeReturns, GateExits, LetGo,
       StrayEdits, StrayAnswers, Crash, Rest
  <2>2. Dir' = Dir /\ \A d \in 0 .. MaxExec : d # Dir => tree[d] = None
    BY <1>3, <2>1, SameDir DEF Kept
  <2>3. \A d \in 0 .. MaxExec : d # Dir => tree'[d] = tree[d]
    BY <1>1, <1>3, WorkspaceStep DEF Worksteps, Create, CleanTree
  <2>4. QED
    BY <2>2, <2>3
<1>4. QED
  BY <1>2, <1>3

KeptHere ==
  pc # "off" =>
    /\ pc \notin {"create", "copy", "seal", "clean cache"} =>
         tree[Dir] = None \/ "tree" \in owned \/ exec \in excused
    /\ pc = "clean cache" => tree[Dir] = None \/ exec \in excused

LEMMA KeptHereStep ==
  ASSUME BInv, Kept, [Next]_vars
  PROVE  KeptHere'
<1> SUFFICES ASSUME pc' # "off"
             PROVE  KeptHere'
  BY DEF KeptHere
<1>1. tree \in [0 .. MaxExec -> Content \cup {None}] /\ Dir \in 0 .. MaxExec
  BY DirType DEF BInv, TypeOK
<1>2. CASE Begin
  BY <1>2 DEF Begin, Goto, KeptHere
<1>3. ASSUME NEW fails \in BOOLEAN, CleanTree(fails)
      PROVE  KeptHere'
  <2>1. Dir' = Dir /\ UNCHANGED exec
    BY <1>3 DEF CleanTree, Dir, DirOf
  <2>2. tree[Dir] = None \/ "tree" \in owned \/ exec \in excused
    BY <1>3 DEF Kept, CleanTree, Goto
  <2>3. tree'[Dir] = None \/ exec \in excused'
    BY <1>1, <1>3, <2>2 DEF CleanTree
  <2>4. QED
    BY <1>3, <2>1, <2>3 DEF KeptHere, CleanTree, Goto
<1>4. CASE ~Begin /\ ~(\E fails \in BOOLEAN : CleanTree(fails))
  <2>1. UNCHANGED exec /\ Dir' = Dir
    BY <1>4, SameDir
  <2>2. /\ pc' # "clean cache" \/ pc = "clean cache"
        /\ excused \subseteq excused'
        /\ "tree" \in owned => "tree" \in owned'
        /\ \/ pc' \in {"create", "copy", "seal"}
           \/ "tree" \in owned' \/ exec \in excused'
           \/ pc \notin {"off", "create", "copy", "seal"}
    BY <1>4 DEF Preparing, Reading, BInv, TypeOK, Stream, Next, Harness, Processes,
       Conclude, Answered, Goto, vars, AtGate, Create, Copy, Seal, MakeCache,
       WriteRequest, PrepareOutput, Refused, ReadOutput, Ingest, Structural, NotRun,
       GateStarts, GateKill, GateCloses, GateTimer, Judge, Store, StoreFails, Throw,
       CleanCache, Provider, NativeReturns, BridgeReturns, GateExits, LetGo,
       StrayEdits, StrayAnswers, Crash, Rest
  <2>3. CASE Create
    BY <2>2, <2>3 DEF KeptHere, Create, Goto
  <2>4. CASE ~Create
    <3>1. UNCHANGED tree \/ tree[Dir] # None
      BY <1>4, <2>4, WorkspaceStep DEF Worksteps
    <3>2. QED
      BY <2>1, <2>2, <3>1 DEF Kept, KeptHere
  <2>5. QED
    BY <2>3, <2>4
<1>5. QED
  BY <1>2, <1>3, <1>4

LEMMA KeptStep ==
  ASSUME BInv, Kept, [Next]_vars
  PROVE  Kept'
BY KeptCacheStep, KeptElsewhereStep, KeptHereStep
DEF Kept, KeptCache, KeptElsewhere, KeptHere

LEMMA NothingKeptStep ==
  ASSUME BInv, Kept, NothingKept, [Next]_vars
  PROVE  NothingKept'
<1> SUFFICES ASSUME pc' = "off"
             PROVE  NothingKept'
  BY DEF NothingKept
<1>1. DOMAIN tree = 0 .. MaxExec /\ DOMAIN tree' = 0 .. MaxExec
  BY TypeStep DEF BInv, TypeOK
<1>2. ASSUME NEW fails \in BOOLEAN, CleanCache(fails)
      PROVE  NothingKept'
  <2>1. /\ caches \subseteq {exec} /\ (caches # {} => "cache" \in owned)
        /\ \A d \in 0 .. MaxExec : d # Dir => tree[d] = None
        /\ tree[Dir] = None \/ exec \in excused
    BY <1>2 DEF Kept, CleanCache, Goto
  <2>2. /\ excused' = IF fails THEN excused \cup {exec} ELSE excused
        /\ caches' = IF "cache" \in owned /\ ~fails THEN caches \ {exec} ELSE caches
        /\ UNCHANGED tree
    BY <1>2 DEF CleanCache
  <2>3. QED
    BY <1>1, <2>1, <2>2 DEF NothingKept
<1>3. CASE Crash
  <2>1. caches \subseteq {exec} /\ excused' = excused \cup {exec} /\ UNCHANGED caches
    BY <1>3 DEF Kept, Crash
  <2>2. QED
    BY <2>1 DEF NothingKept
<1>4. CASE \E e \in Exec, hides \in SUBSET {"test"} : StrayEdits(e, {"test"}, hides)
  <2>1. /\ pc = "off" /\ UNCHANGED <<caches, excused>>
        /\ tree[Dir] # None /\ Dir \in 0 .. MaxExec
    BY <1>4, DirType DEF StrayEdits, BInv
  <2>2. excused # {} /\ caches \subseteq excused
    BY <1>1, <2>1 DEF NothingKept
  <2>3. QED
    BY <2>1, <2>2 DEF NothingKept
<1>5. CASE UNCHANGED vars
  BY <1>5 DEF NothingKept, vars
<1>6. QED
  BY <1>2, <1>3, <1>4, <1>5
  DEF Preparing, Reading, BInv, TypeOK, Stream, Next, Harness, Processes, Conclude,
     Answered, Goto, vars, AtGate, Begin, Create, Copy, Seal, MakeCache, WriteRequest,
     PrepareOutput, Refused, ReadOutput, Ingest, Structural, NotRun, GateStarts,
     GateKill, GateCloses, GateTimer, Judge, Store, StoreFails, Throw, CleanTree,
     Provider, NativeReturns, BridgeReturns, GateExits, LetGo, StrayAnswers, Rest

-----------------------------------------------------------------------------
(* The verdict *)

\* Nothing that a verdict rests on changes while it stands.
LEMMA VerdictStands ==
  ASSUME BInv, [Next]_vars, verdict' # None
  PROVE  \/ Judge
         \/ verdict' = "INFRA_FAIL"
         \/ UNCHANGED <<context, strays, exec, results, ran, ingested, inv, verdict,
                        judged>>
<1>1. CASE verdict = None
  BY <1>1 DEF Next, Harness, Processes, Conclude, Answered, Goto, Forget, vars, Begin,
     Create, Copy, Seal, MakeCache, WriteRequest, PrepareOutput, Refused, ReadOutput,
     Ingest, Structural, NotRun, GateStarts, GateKill, GateCloses, GateTimer, Store,
     StoreFails, Throw, CleanTree, CleanCache, Provider, NativeReturns, BridgeReturns,
     GateExits, LetGo, StrayEdits, StrayAnswers, Crash, Rest
<1>2. CASE verdict # None
  <2>1. pc \notin Working \cup {"gates"} /\ job = None /\ (settled \/ pc = "store")
    BY <1>2 DEF BInv, TypeOK, Memory
  <2>2. QED
    BY <1>2, <2>1 DEF Working, Preparing, Reading, Stream, Next, Harness, Processes,
       Conclude, Answered, Goto, Forget, vars, AtGate, Begin, Create, Copy, Seal,
       MakeCache, WriteRequest, PrepareOutput, Refused, ReadOutput, Ingest, Structural,
       NotRun, GateStarts, GateKill, GateCloses, GateTimer, Store, StoreFails, Throw,
       CleanTree, CleanCache, Provider, NativeReturns, BridgeReturns, GateExits, LetGo,
       StrayEdits, StrayAnswers, Crash, Rest
<1>3. QED
  BY <1>1, <1>2

Verdicts == PassIsEarned /\ UntouchedTests /\ CountedIsComplete /\ OwnWorkspace /\ OwnAnswer

\* What is known of the results when the trial is judged.
LEMMA JudgedResults ==
  ASSUME BInv, Judge
  PROVE  /\ UNCHANGED <<context, strays, exec, results, ran, ingested, inv>>
         /\ judged' = tree[Dir]
         /\ Len(ran) = Len(task.gates) /\ DOMAIN ran = DOMAIN results
         /\ DOMAIN results = 1 .. Len(results) /\ Len(results) \in Nat
         /\ \A i \in DOMAIN results : results[i] \in Result /\ results[i] \in ToSet(results)
<1>1. results \in Seq(Result) /\ ran \in Seq(Ran) /\ Len(ran) = Len(results)
  BY DEF BInv, TypeOK
<1>2. /\ DOMAIN results = 1 .. Len(results) /\ DOMAIN ran = 1 .. Len(results)
      /\ Len(results) \in Nat
      /\ \A i \in DOMAIN results : results[i] \in Result
  BY <1>1
<1>3. \A i \in DOMAIN results : results[i] \in ToSet(results)
  BY <1>2 DEF ToSet
<1>4. /\ UNCHANGED <<context, strays, exec, results, ran, ingested, inv>>
         /\ judged' = tree[Dir]
      /\ Len(results) = Len(task.gates)
  BY DEF Judge
<1>5. QED
  BY <1>1, <1>2, <1>3, <1>4

LEMMA JudgedComplete ==
  ASSUME BInv, Rows, Judge
  PROVE  CountedIsComplete'
<1> SUFFICES ASSUME verdict' \in {"PASS", "FAIL", "NO_OP"}
             PROVE  CountedIsComplete'
  BY DEF CountedIsComplete, Counted
<1>1. /\ ~inv.unavailable /\ ~inv.timedOut /\ ~inv.infra
      /\ \A r \in ToSet(results) : r.signal \notin {"TIMEOUT", "INFRA_FAIL"}
  BY ClassifiedByAll DEF Judge
<1>2. \A i \in DOMAIN results : ran[i] \notin {"cut short", "not run"}
  BY <1>1, JudgedResults DEF Rows, Fits
<1>3. QED
  BY <1>1, <1>2, JudgedResults DEF CountedIsComplete

\* A required gate of a trial that passed has passed.
LEMMA RequiredPassed ==
  ASSUME BInv, Rows, Judge, verdict' = "PASS", NEW i \in DOMAIN results,
         Ordering[i].required
  PROVE  Passed(results[i])
<1>1. /\ \A r \in ToSet(results) : r.signal \notin {"TIMEOUT", "INFRA_FAIL"}
      /\ \A r \in ToSet(results) : r.required => r.signal # "FAIL"
  BY ClassifiedByAll DEF Judge
<1>2. results[i].required /\ results[i] \in Result /\ results[i] \in ToSet(results)
  BY JudgedResults DEF Rows, Fits
<1>3. results[i].signal \in Signal
  BY <1>2 DEF Result
<1>4. QED
  BY <1>1, <1>2, <1>3 DEF Passed, Signal

\* The result a requirement is bound to shows what the requirement is about: it
\* is not that of requirements, which would be bound to one before itself.
LEMMA BoundIsShown ==
  ASSUME BInv, Rows, Judge, NEW i \in DOMAIN results,
         Ordering[i].kind = "requirements", Passed(results[i]), NEW item \in task.mustHave
  PROVE  \E j \in 1 .. i - 1 : Ordering[j].required /\ Shown(j) /\ Meant(j, item)
<1> DEFINE prior == SubSeq(results, 1, i - 1)
<1>1. Bound(item, prior) # None /\ Bound(item, prior).required /\ Passed(Bound(item, prior))
  BY DEF Rows, Fits
<1>2. results \in Seq(Result) /\ i \in 1 .. Len(results) /\ Len(results) \in Nat
      /\ DOMAIN results = 1 .. Len(results)
  BY JudgedResults DEF BInv, TypeOK
<1>3. /\ prior \in Seq(Result) /\ DOMAIN prior = 1 .. i - 1
      /\ \A j \in 1 .. i - 1 : prior[j] = results[j]
  BY <1>2
<1>4. PICK j \in DOMAIN prior :
        /\ Bound(item, prior) = prior[j] /\ Meets(prior[j], item)
        /\ prior[j].script = None => Bound(item, SubSeq(prior, 1, j - 1)) = None
  BY <1>1, <1>3, BoundIsMeant
<1>5. j \in 1 .. i - 1 /\ prior[j] = results[j] /\ j \in DOMAIN results
  BY <1>2, <1>3
<1>6. SubSeq(prior, 1, j - 1) = SubSeq(results, 1, j - 1)
  <2>1. /\ SubSeq(prior, 1, j - 1) \in Seq(Result)
        /\ SubSeq(results, 1, j - 1) \in Seq(Result)
        /\ Len(SubSeq(prior, 1, j - 1)) = j - 1 /\ Len(SubSeq(results, 1, j - 1)) = j - 1
        /\ j - 1 \in Nat
    BY <1>2, <1>3, <1>5
  <2>2. \A k \in 1 .. j - 1 : SubSeq(prior, 1, j - 1)[k] = prior[k]
                              /\ SubSeq(results, 1, j - 1)[k] = results[k]
                              /\ prior[k] = results[k]
    BY <1>2, <1>3, <1>5
  <2> HIDE DEF prior
  <2>3. \A k \in 1 .. j - 1 : SubSeq(prior, 1, j - 1)[k] = SubSeq(results, 1, j - 1)[k]
    BY <2>2
  <2>4. QED
    BY <2>1, <2>3, SeqEqual
<1> HIDE DEF prior
<1>7. Fits(results[j], ran[j], Ordering[j], SubSeq(results, 1, j - 1))
  BY <1>5 DEF Rows
<1>8. results[j].required /\ Passed(results[j]) /\ Meets(results[j], item)
  BY <1>1, <1>4, <1>5
<1>9. Ordering[j].required
  BY <1>7, <1>8 DEF Fits
<1>10. Shown(j)
  <2>1. CASE Ordering[j].kind = "requirements" /\ results[j].script = None
    <3>1. Bound(item, SubSeq(results, 1, j - 1)) # None
      BY <1>7, <1>8, <2>1 DEF Fits
    <3>2. Bound(item, SubSeq(results, 1, j - 1)) = None
      BY <1>4, <1>5, <1>6, <2>1
    <3>3. QED
      BY <3>1, <3>2
  <2>2. QED
    BY <1>7, <1>8, <2>1 DEF Fits, Shown
<1>11. Meant(j, item)
  <2>1. results[j].name = Ordering[j].name
    BY <1>7 DEF Fits
  <2>2. results[j].script # None => results[j].script = Ordering[j].script
    BY <1>7 DEF Fits
  <2>3. QED
    BY <1>8, <2>1, <2>2 DEF Meets, Meant
<1>12. QED
  BY <1>5, <1>9, <1>10, <1>11

LEMMA JudgedEarned ==
  ASSUME BInv, Rows, Judge
  PROVE  PassIsEarned'
<1> SUFFICES ASSUME verdict' = "PASS"
             PROVE  PassIsEarned'
  BY DEF PassIsEarned
<1>1. /\ UNCHANGED <<task, results, ran>> /\ Ordering' = Ordering
      /\ DOMAIN ran = DOMAIN results
  BY JudgedResults DEF Ordering
<1>2. ASSUME NEW i \in DOMAIN ran, Ordering[i].required
      PROVE  /\ Ordering[i].kind \in {"command", "oracle"} => ran[i] = "expected"
             /\ Ordering[i].kind = "requirements" =>
                  \A item \in task.mustHave : \E j \in 1 .. i - 1 :
                    Ordering[j].required /\ Shown(j) /\ Meant(j, item)
  <2>1. i \in DOMAIN results /\ Passed(results[i])
    BY <1>1, <1>2, RequiredPassed
  <2>2. Ordering[i].kind \in {"command", "oracle"} => ran[i] = "expected"
    BY <2>1 DEF Rows, Fits
  <2>3. QED
    BY <2>1, <2>2, BoundIsShown
<1>3. \A j : Shown(j)' = Shown(j) /\ \A item : Meant(j, item)' = Meant(j, item)
  BY <1>1 DEF Shown, Meant
<1>4. QED
  BY <1>1, <1>2, <1>3 DEF PassIsEarned

LEMMA JudgedUntouched ==
  ASSUME BInv, Rows, Untouched, Judge
  PROVE  UntouchedTests'
<1> SUFFICES ASSUME verdict' = "PASS"
             PROVE  UntouchedTests'
  BY DEF UntouchedTests
<1>1. /\ UNCHANGED ran /\ Ordering' = Ordering /\ judged' = tree[Dir]
      /\ DOMAIN ran = DOMAIN results
  BY JudgedResults DEF Ordering
<1>2. EditedBy("provider")' \ judged'.hidden = Seen(tree[Dir])
  BY <1>1 DEF EditedBy, EditsOf, Seen
<1>3. \A i \in DOMAIN results :
        Ordering[i].kind = "baseline-diff" /\ Ordering[i].required =>
          PolicyOK(Meaningful(Seen(tree[Dir])), Ordering[i])
  BY RequiredPassed DEF Untouched, Judge
<1>4. QED
  BY <1>1, <1>2, <1>3 DEF UntouchedTests, LeftAlone

LEMMA JudgedOwn ==
  ASSUME BInv, Provenance, Answer, Judge
  PROVE  OwnWorkspace' /\ OwnAnswer'
<1>1. /\ UNCHANGED <<task, invoker, strays, exec, ingested, inv>> /\ judged' = tree[Dir]
      /\ tree[Dir] # None
  BY JudgedResults, InUse DEF Judge
<1>2. OwnWorkspace'
  BY <1>1, HomeAlone DEF OwnWorkspace, Provenance, BInv
<1>3. verdict' \in {"PASS", "FAIL", "NO_OP"} => ~inv.unavailable
  BY ClassifiedByAll DEF Judge
<1>4. OwnAnswer'
  BY <1>1, <1>3 DEF OwnAnswer, Alone, Counted, Answer, Judge
<1>5. QED
  BY <1>2, <1>4

LEMMA VerdictsStep ==
  ASSUME BInv, Rows, Provenance, Answer, Untouched, Verdicts, [Next]_vars
  PROVE  Verdicts'
<1>1. CASE Judge
  BY <1>1, JudgedComplete, JudgedEarned, JudgedUntouched, JudgedOwn DEF Verdicts
<1>2. CASE verdict' \in {None, "INFRA_FAIL"}
  <2>1. verdict' \notin {"PASS", "FAIL", "NO_OP"}
    BY <1>2, NoneAssumption DEF Verdict, Signal
  <2>2. QED
    BY <2>1 DEF Verdicts, PassIsEarned, UntouchedTests, CountedIsComplete, OwnWorkspace,
      OwnAnswer, Counted
<1>3. CASE UNCHANGED <<context, strays, exec, results, ran, ingested, inv, verdict, judged>>
  <2>1. Ordering' = Ordering
    BY <1>3 DEF Ordering
  <2>2. PassIsEarned'
    BY <1>3, <2>1 DEF Verdicts, PassIsEarned, Shown, Meant
  <2>3. UntouchedTests'
    BY <1>3, <2>1 DEF Verdicts, UntouchedTests, LeftAlone, EditedBy
  <2>4. CountedIsComplete' /\ OwnWorkspace' /\ OwnAnswer'
    BY <1>3 DEF Verdicts, CountedIsComplete, OwnWorkspace, OwnAnswer, Alone, Counted
  <2>5. QED
    BY <2>2, <2>3, <2>4 DEF Verdicts
<1>4. QED
  BY <1>1, <1>2, <1>3, VerdictStands

-----------------------------------------------------------------------------
(* The theorems *)

IInv ==
  BInv /\ Rows /\ Provenance /\ Answer /\ Untouched /\ Kept /\ Verdicts /\ NothingKept

LEMMA IInvInit == Init => IInv
<1> SUFFICES ASSUME Init
             PROVE  IInv
  OBVIOUS
<1>1. BInv
  BY BaseInit
<1>2. Rows /\ Untouched
  BY DEF Init, Rows, Untouched
<1>3. Provenance
  <2>1. /\ pc = "off" /\ ingested = Unread
        /\ \A d \in 0 .. MaxExec : tree[d] = None
    BY DEF Init
  <2>2. exec \in 0 .. MaxExec
    BY <1>1 DEF BInv, TypeOK
  <2>3. \A s \in Stream : ingested[s] = 0
    BY <2>1 DEF Unread, Stream, Reading
  <2>4. QED
    BY <2>1, <2>2, <2>3 DEF Provenance
<1>a. Answer /\ Kept
  BY DEF Init, Answer, Kept, Reading
<1>4. Verdicts /\ NothingKept
  BY NoneAssumption DEF Init, Verdicts, PassIsEarned, UntouchedTests, CountedIsComplete,
    OwnWorkspace, OwnAnswer, Counted, NothingKept, Verdict, Signal
<1>5. QED
  BY <1>1, <1>2, <1>3, <1>a, <1>4 DEF IInv

LEMMA IInvStep == IInv /\ [Next]_vars => IInv'
BY BaseStep, RowsStep, ProvenanceStep, AnswerOwnStep, UntouchedStep, KeptStep,
   VerdictsStep, NothingKeptStep DEF IInv

LEMMA Inductive == Spec => []IInv
BY IInvInit, IInvStep, PTL DEF Spec

\* Every trial, executed again and again, stays well-formed.
THEOREM TypeCorrect == Spec => []TypeOK
<1>1. IInv => TypeOK
  BY DEF IInv, BInv
<1>2. QED
  BY <1>1, Inductive, PTL

\* A PASS rests on processes that ran to their end with the expected code, one
\* for each required command and each requirement, whatever the gates of the task
\* and their order (gates.js 1720-1929 and 2767-2985, classify.js 136-282).
THEOREM EveryPassIsEarned == Spec => []PassIsEarned
<1>1. IInv => PassIsEarned
  BY DEF IInv, Verdicts
<1>2. QED
  BY <1>1, Inductive, PTL

\* No trial passes whose provider has changed, where Git can see it, what a required
\* baseline-diff protects, committed or not (gates.js 1327-1464 and 1531-1628).
THEOREM PassLeftTestsAlone == Spec => []UntouchedTests
<1>1. IInv => UntouchedTests
  BY DEF IInv, Verdicts
<1>2. QED
  BY <1>1, Inductive, PTL

\* What counts was neither cut short nor refused anywhere (classify.js 136-282,
\* run.js 1253-1275).
THEOREM EveryCountedIsComplete == Spec => []CountedIsComplete
<1>1. IInv => CountedIsComplete
  BY DEF IInv, Verdicts
<1>2. QED
  BY <1>1, Inductive, PTL

\* With a fixture a trial is judged by the work of its last execution alone,
\* however often it was begun before (workspace.js 590-655).
THEOREM JudgedByOwnWork == Spec => []OwnWorkspace
<1>1. IInv => OwnWorkspace
  BY DEF IInv, Verdicts
<1>2. QED
  BY <1>1, Inductive, PTL

\* The output.json that counts is one to this request, written in this execution,
\* unless an earlier one's bridge lives on beside it (poetic-adapter.js 952-1012
\* and 1072-1203).
THEOREM JudgedByOwnAnswer == Spec => []OwnAnswer
<1>1. IInv => OwnAnswer
  BY DEF IInv, Verdicts
<1>2. QED
  BY <1>1, Inductive, PTL

\* Every workspace and tool cache that is left over has an excuse: a crash, a
\* failed making, a failed removal (run.js 1456-1476).
THEOREM NothingIsKept == Spec => []NothingKept
<1>1. IInv => NothingKept
  BY DEF IInv
<1>2. QED
  BY <1>1, Inductive, PTL

=============================================================================
