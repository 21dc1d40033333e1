-------------------------- MODULE CampaignRunProofs --------------------------
(***************************************************************************)
(* Theorems about the runs of a campaign, for any number of trials and     *)
(* runs, any options, providers, crashes and failures.                     *)
(*                                                                         *)
(* What the manifest on disk says of a trial was once in the memory of the *)
(* run, and there it was said when the evidence was whole (Evidence).      *)
(* Between two saves the manifest in memory is ahead of the one on disk by *)
(* one trial, or by what a resume has settled (Sync); so the trial whose   *)
(* evidence is touched is never one that is finished on disk.  That holds  *)
(* until the helper of a dead run renames its file late, if one ever does. *)
(***************************************************************************)
EXTENDS CampaignRun, FiniteSetTheorems, WellFoundedInduction, TLAPS

\* The locations at which the run is busy with a trial that is running in memory,
\* that is pending, or whose end is to be saved.
AtRunning == {"recoverClear", "savingRunning", "preparing", "quarantining",
              "classifying", "writing", "parkClear"}
AtPending == {"rerunClear", "savingUncleared", "savingParked"}
Busy == AtRunning \cup AtPending \cup {"savingDone"}

\* What is in memory at each location.
Control ==
  /\ pc = "off" => opts = None /\ executed = 0
  /\ pc # "off" => opts \in Options /\ runs \in Run
  /\ pc = "loading" => executed = 0
  /\ mem = None <=> pc \in {"off", "loading"}
  /\ cur = None <=> pc \notin Busy
  /\ pc = "writing" => out # None
  /\ pc \in {"reporting", "summarizing"} => checked # None
  /\ todo \in {<<>>, <<"artifacts">>, <<"raw", "artifacts">>, Kinds}
  /\ todo # <<>> => pc \in Clearing \cup {"savingUncleared"}

\* The manifest in memory: once the interrupted trial is settled only the trial
\* the run is busy with is running, and what the run executed is finished.
Memory ==
  mem # None =>
    /\ pc \in AtRunning => mem.state[cur] = "running"
    /\ pc \in AtPending => mem.state[cur] = "pending"
    /\ pc = "savingDone" => mem.state[cur] \in Terminal
    /\ pc \notin {"recovering", "recoverClear"} =>
         \A t \in Trial : mem.state[t] = "running" => t = cur
    /\ pc = "savingNew" => mem = NewManifest
    /\ executed <= Cardinality(InState(mem, Terminal))
    /\ pc = "savingDone" => executed < Cardinality(InState(mem, Terminal))

CInv == TypeOK /\ Control /\ Memory

\* A result is of one execution.
Sound(r) == r # None /\ (r.usable => r.raw = {r.run} /\ r.art = {r.run})

\* The evidence of the trial that is being executed, from its clearing on.
Execution ==
  /\ pc = "rerunClear" =>
       /\ todo \in {<<>>, <<"artifacts">>} => raw[cur] = {}
       /\ todo = <<>> => art[cur] = {}
  /\ pc \in {"savingRunning", "preparing"} => raw[cur] = {} /\ art[cur] = {}
  /\ pc = "quarantining" => raw[cur] = {} /\ art[cur] = {runs}
  /\ pc = "classifying" => raw[cur] = {runs} /\ art[cur] = {runs}
  /\ pc = "writing" => Sound(out) /\ (out.usable => Verified(cur, out))

\* Every result, and what a run is about to report, is of one execution each.
Stamps ==
  /\ \A t \in Trial : res[t] # None => Sound(res[t])
  /\ late # None /\ late.file = "result" => Sound(late.body)
  /\ pc = "reporting" =>
       \A t \in Trial : checked[t] # 0 =>
         raw[t] = {checked[t]} /\ art[t] = {checked[t]}

EInv == CInv /\ Execution /\ Stamps

-----------------------------------------------------------------------------
(* As long as no helper of a dead run has renamed its file *)

Quiet == ~overtaken /\ (~Orphans => late = None)

\* How the manifest in memory and the one on disk may differ.
Resuming == {"recovering", "recoverClear", "savingRecovered"}
Ahead(t) ==
  \/ pc \in Resuming /\ disk.state[t] = "running" /\ mem.state[t] # "running"
  \/ t = cur /\ pc = "savingRunning" /\ disk.state[t] = "pending"
  \/ t = cur /\ pc \in {"savingDone", "savingParked"} /\ disk.state[t] = "running"
Sync ==
  mem # None /\ pc # "savingNew" =>
    /\ disk # None
    /\ pc # "savingStatus" => mem.status = disk.status
    /\ \A t \in Trial : mem.state[t] = disk.state[t] \/ Ahead(t)

\* At most one trial is running on disk.
OneRunning ==
  disk # None =>
    \A t, u \in Trial : disk.state[t] = "running" /\ disk.state[u] = "running" => t = u

\* What a manifest calls finished has a result whose evidence is on disk.
Backed(m, t) == Sound(res[t]) /\ res[t].state = m.state[t]
                /\ (res[t].usable => Verified(t, res[t]))
Evidence ==
  /\ \A t \in Trial : res[t] # None => Sound(res[t])
  /\ disk # None => \A t \in Trial : disk.state[t] \in Terminal => Backed(disk, t)
  /\ mem # None => \A t \in Trial : mem.state[t] \in Terminal => Backed(mem, t)

\* The report and the summary of a run, from the verification to the status.
Reports ==
  /\ pc \in {"reporting", "summarizing", "savingStatus"} =>
       AllVerified(mem) /\ checked = Reported(mem)
  /\ pc \in {"summarizing", "savingStatus"} => report = checked
  /\ pc = "savingStatus" =>
       /\ summary = checked
       /\ mem.status = "completed" <=> \A t \in Trial : mem.state[t] \in Terminal

IInv ==
  /\ CInv /\ Quiet /\ Sync /\ OneRunning /\ Evidence /\ Execution /\ Reports
  /\ CompletedIsReported

\* What becomes of a result that is on disk while its trial is still running there,
\* when no file operation fails: a resume finds it or has found it unusable, and
\* the run that replaces it has cleared its place before.
Durable ==
  ~Faults =>
    /\ pc \notin {"parkClear", "savingParked", "savingUncleared"}
    /\ pc = "recoverClear" =>
         IF todo = Kinds THEN ~Verified(cur, res[cur]) ELSE res[cur] = None
    /\ pc = "rerunClear" /\ todo # Kinds => res[cur] = None
    /\ pc \in {"savingRunning", "preparing", "quarantining", "classifying", "writing"} =>
         res[cur] = None
    /\ pc \in Resuming =>
         \A t \in Trial : disk.state[t] = "running" /\ mem.state[t] = "pending" =>
                            res[t] = None

-----------------------------------------------------------------------------
(* Numbers, manifests, files *)

\* A finite set of numbers has a least one: the ordering of its initial parts by
\* inclusion is well-founded.
LEMMA Least ==
  ASSUME NEW S, IsFiniteSet(S), S \subseteq Nat, S # {}
  PROVE  \E n \in S : \A m \in S : n <= m
<1> DEFINE UpTo(n) == {m \in S : m <= n}
           T == {UpTo(n) : n \in S}
<1>1. T \subseteq SUBSET S /\ T # {}
  OBVIOUS
<1>2. IsWellFoundedOn(StrictSubsetOrdering(S), SUBSET S)
  BY FS_StrictSubsetOrderingWellFounded, FS_FiniteSubsetsOfFinite
<1>3. PICK X \in T : \A Y \in T : <<Y, X>> \notin StrictSubsetOrdering(S)
  <2> HIDE DEF T
  <2>1. QED
    BY <1>1, <1>2, WFMin
<1>4. PICK n \in S : X = UpTo(n)
  BY <1>3
<1>5. ASSUME NEW m \in S, ~(n <= m)
      PROVE  FALSE
  <2>1. n \in Nat /\ m \in Nat /\ m < n
    BY <1>5
  <2>2. UpTo(m) \subseteq UpTo(n) /\ n \in UpTo(n) /\ n \notin UpTo(m)
    <3>1. \A k \in S : k \in Nat
      OBVIOUS
    <3>2. ASSUME NEW k \in S, k <= m PROVE k <= n
      BY <2>1, <3>1, <3>2
    <3>3. n <= n /\ ~(n <= m)
      BY <2>1
    <3>4. UpTo(m) \subseteq UpTo(n)
      BY <3>2
    <3>5. n \in UpTo(n) /\ n \notin UpTo(m)
      BY <3>3
    <3>6. QED
      BY <3>4, <3>5
  <2>3. UpTo(m) \in T
    OBVIOUS
  <2>4. <<UpTo(m), X>> \in StrictSubsetOrdering(S)
    BY <1>1, <1>4, <2>2 DEF StrictSubsetOrdering
  <2>5. QED
    BY <1>3, <2>3, <2>4
<1>6. QED
  BY <1>5

\* There are NTrials trials, and a set of them is no larger.
LEMMA SetsOfTrials ==
  /\ Trial \subseteq Nat /\ IsFiniteSet(Trial) /\ Cardinality(Trial) = NTrials
  /\ \A m, S : IsFiniteSet(InState(m, S)) /\ Cardinality(InState(m, S)) \in 0 .. NTrials
<1>1. NTrials \in Nat
  BY CampaignAssumption
<1>2. Trial \subseteq Nat /\ IsFiniteSet(Trial) /\ Cardinality(Trial) = NTrials
  BY <1>1, FS_Interval DEF Trial
<1>3. ASSUME NEW m, NEW S
      PROVE  IsFiniteSet(InState(m, S)) /\ Cardinality(InState(m, S)) \in 0 .. NTrials
  <2>1. InState(m, S) \in SUBSET Trial
    BY DEF InState
  <2>2. IsFiniteSet(InState(m, S)) /\ Cardinality(InState(m, S)) <= NTrials
    BY <1>2, <2>1, FS_Subset
  <2>3. Cardinality(InState(m, S)) \in Nat
    BY <2>2, FS_CardinalityType
  <2>4. QED
    BY <1>1, <2>2, <2>3
<1>4. QED
  BY <1>2, <1>3

\* nextTrial finds a trial if there is one.
LEMMA NextTrialIn ==
  ASSUME NEW m, Eligible(m) # {}
  PROVE  NextTrial(m) \in Trial /\ m.state[NextTrial(m)] = "pending"
<1>1. Eligible(m) \in SUBSET Trial
  BY DEF Eligible, InState
<1>2. IsFiniteSet(Eligible(m)) /\ Eligible(m) \subseteq Nat
  BY <1>1, SetsOfTrials, FS_Subset
<1>3. \E t \in Eligible(m) : \A u \in Eligible(m) : t <= u
  BY <1>2, Least
<1>4. NextTrial(m) \in Eligible(m)
  BY <1>3 DEF NextTrial
<1>5. QED
  BY <1>4 DEF Eligible, InState

LEMMA NewManifestType ==
  /\ NewManifest \in Manifest /\ NewManifest # None
  /\ \A t \in Trial : NewManifest.state[t] = "pending"
  /\ NewManifest.status = "pending"
BY NoneAssumption DEF NewManifest, Manifest, TrialState

\* What updateTrial does to the manifest in memory.
LEMMA UpdateEffect ==
  ASSUME NEW t \in Trial, NEW s \in TrialState, mem \in Manifest, Update(t, s)
  PROVE  /\ mem' \in Manifest /\ mem' # None /\ mem'.status = mem.status
         /\ mem'.state[t] = s
         /\ \A u \in Trial : u # t => mem'.state[u] = mem.state[u]
BY NoneAssumption DEF Update, Manifest

\* The number of finished trials never falls, but by a trial that was finished,
\* and grows when one that was not becomes so.
LEMMA UpdateCount ==
  ASSUME NEW t \in Trial, NEW s \in TrialState, mem \in Manifest, Update(t, s),
         mem.state[t] \notin Terminal
  PROVE  LET before == Cardinality(InState(mem, Terminal))
             after == Cardinality(InState(mem', Terminal))
         IN /\ before \in Nat /\ after \in Nat
            /\ after = IF s \in Terminal THEN before + 1 ELSE before
<1>1. /\ mem'.state[t] = s
      /\ \A u \in Trial : u # t => mem'.state[u] = mem.state[u]
  BY UpdateEffect
<1>2. IsFiniteSet(InState(mem, Terminal)) /\ t \notin InState(mem, Terminal)
  BY SetsOfTrials DEF InState
<1>3. Cardinality(InState(mem, Terminal)) \in Nat
  BY <1>2, FS_CardinalityType
<1>4. CASE s \in Terminal
  <2>1. InState(mem', Terminal) = InState(mem, Terminal) \cup {t}
    BY <1>1, <1>4 DEF InState
  <2>2. Cardinality(InState(mem', Terminal)) = Cardinality(InState(mem, Terminal)) + 1
    BY <1>2, <2>1, FS_AddElement
  <2>3. QED
    BY <1>3, <1>4, <2>2
<1>5. CASE s \notin Terminal
  <2>1. InState(mem', Terminal) = InState(mem, Terminal)
    BY <1>1, <1>2, <1>5 DEF InState
  <2>2. QED
    BY <1>3, <1>5, <2>1
<1>6. QED
  BY <1>4, <1>5

\* The file a run waits for is well-formed, and this is what its rename does.
LEMMA PendingType ==
  ASSUME CInv, pc \in Writing
  PROVE  IsReplacement(Pending)
<1> USE DEF CInv, TypeOK, Control, Writing, Saving, Busy, AtRunning, AtPending
<1>1. CASE pc \in Saving
  <2>1. mem \in Manifest /\ Pending = [file |-> "manifest", trial |-> None, body |-> mem]
    BY <1>1 DEF Pending
  <2>2. QED
    BY <2>1 DEF IsReplacement
<1>2. CASE pc = "writing"
  <2>1. cur \in Trial /\ out \in Result
        /\ Pending = [file |-> "result", trial |-> cur, body |-> out]
    BY <1>2 DEF Pending
  <2>2. QED
    BY <2>1 DEF IsReplacement
<1>3. CASE pc = "reporting"
  <2>1. checked \in Tally
        /\ Pending = [file |-> "report", trial |-> None, body |-> checked]
    BY <1>3 DEF Pending
  <2>2. QED
    BY <2>1 DEF IsReplacement
<1>4. CASE pc = "summarizing"
  <2>1. checked \in Tally
        /\ Pending = [file |-> "summary", trial |-> None, body |-> checked]
    BY <1>4 DEF Pending
  <2>2. QED
    BY <2>1 DEF IsReplacement
<1>5. QED
  BY <1>1, <1>2, <1>3, <1>4

LEMMA PutEffect ==
  ASSUME Put(Pending)
  PROVE  /\ pc \in Saving => disk' = mem /\ UNCHANGED <<res, report, summary>>
         /\ pc = "writing" => /\ res' = [res EXCEPT ![cur] = out]
                              /\ UNCHANGED <<disk, report, summary>>
         /\ pc = "reporting" => report' = checked /\ UNCHANGED <<disk, res, summary>>
         /\ pc = "summarizing" => summary' = checked /\ UNCHANGED <<disk, res, report>>
<1>1. CASE pc \in Saving
  <2>1. Pending = [file |-> "manifest", trial |-> None, body |-> mem]
    BY <1>1 DEF Pending, Saving
  <2>2. QED
    BY <1>1, <2>1 DEF Put, Saving
<1>2. CASE pc = "writing"
  <2>1. Pending = [file |-> "result", trial |-> cur, body |-> out]
    BY <1>2 DEF Pending, Saving
  <2>2. QED
    BY <1>2, <2>1 DEF Put, Saving
<1>3. CASE pc = "reporting"
  <2>1. Pending = [file |-> "report", trial |-> None, body |-> checked]
    BY <1>3 DEF Pending, Saving
  <2>2. QED
    BY <1>3, <2>1 DEF Put, Saving
<1>4. CASE pc = "summarizing"
  <2>1. Pending = [file |-> "summary", trial |-> None, body |-> checked]
    BY <1>4 DEF Pending, Saving
  <2>2. QED
    BY <1>4, <2>1 DEF Put, Saving
<1>5. QED
  BY <1>1, <1>2, <1>3, <1>4

\* A rename of a well-formed file keeps the types of the directory.
LEMMA PutType ==
  ASSUME NEW w, IsReplacement(w), Put(w), TypeOK
  PROVE  /\ disk' \in Manifest \cup {None} /\ res' \in [Trial -> Result \cup {None}]
         /\ report' \in Tally \cup {None} /\ summary' \in Tally \cup {None}
<1>1. CASE w.file = "manifest"
  BY <1>1 DEF IsReplacement, Put, TypeOK
<1>2. CASE w.file = "result"
  BY <1>2 DEF IsReplacement, Put, TypeOK
<1>3. CASE w.file \in {"report", "summary"}
  BY <1>3 DEF IsReplacement, Put, TypeOK
<1>4. QED
  BY <1>1, <1>2, <1>3 DEF IsReplacement

LEMMA Queues ==
  /\ \A q \in {<<>>, <<"artifacts">>, <<"raw", "artifacts">>, Kinds} :
       q \in Seq(Kind) /\ Len(q) <= 3
  /\ Kinds # <<>> /\ Head(Kinds) = "results" /\ Tail(Kinds) = <<"raw", "artifacts">>
  /\ Head(<<"raw", "artifacts">>) = "raw" /\ Tail(<<"raw", "artifacts">>) = <<"artifacts">>
  /\ Head(<<"artifacts">>) = "artifacts" /\ Tail(<<"artifacts">>) = <<>>
  /\ <<"artifacts">> # <<>> /\ <<"raw", "artifacts">> # <<>>
  /\ Kinds # <<"artifacts">> /\ Kinds # <<"raw", "artifacts">>
  /\ <<"artifacts">> # <<"raw", "artifacts">>
BY DEF Kinds, Kind

\* Who is verified can be reported.
LEMMA ReportedType ==
  ASSUME TypeOK, NEW m \in Manifest, AllVerified(m)
  PROVE  Reported(m) \in Tally /\ Reported(m) # None
<1>1. ASSUME NEW t \in InState(m, Terminal)
      PROVE  res[t].run \in Run
  <2>1. res[t] \in Result /\ t \in Trial
    BY <1>1 DEF AllVerified, Verified, TypeOK, InState
  <2>2. QED
    BY <2>1 DEF Result
<1>2. Reported(m) \in Tally
  BY <1>1 DEF Reported, Tally
<1>3. QED
  BY <1>2, NoneAssumption

-----------------------------------------------------------------------------
(* The memory of the run *)

\* Every step keeps the types.
LEMMA TypeOKStep ==
  ASSUME CInv, [Next]_vars
  PROVE  TypeOK'
<1> USE CampaignAssumption, NoneAssumption DEF CInv, TypeOK, Location, Writing, Saving,
       Clearing
<1>1. CASE Start
  BY <1>1 DEF Start, directory, memory
<1>2. CASE Load
  <2>1. CASE Stop
    BY <1>2, <2>1, Queues DEF Load, Stop, directory
  <2>2. CASE mem' = disk /\ pc' = "recovering"
             /\ UNCHANGED <<opts, cur, todo, out, executed, checked>>
    BY <1>2, <2>2 DEF Load, directory
  <2>3. QED
    BY <1>2, <2>1, <2>2 DEF Load
<1>3. CASE Create
  BY <1>3, NewManifestType DEF Create, directory, memory
<1>4. CASE Refuse
  BY <1>4, Queues DEF Refuse, Stop, directory, memory
<1>5. CASE Adopt
  <2>1. PICK t \in Trial : mem.state[t] = "running" /\ Verified(t, res[t])
             /\ Update(t, res[t].state)
    BY <1>5 DEF Adopt, InState
  <2>2. res[t].state \in TrialState /\ mem \in Manifest
    BY <1>5, <2>1 DEF Adopt, Verified, Result, Terminal, TrialState, Control
  <2>3. mem' \in Manifest
    BY <2>1, <2>2, UpdateEffect
  <2>4. QED
    BY <1>5, <2>3 DEF Adopt, directory
<1>6. CASE Recover
  BY <1>6, Queues DEF Recover, directory, memory, InState
<1>7. CASE Recovered
  BY <1>7 DEF Recovered, directory, memory
<1>8. CASE ClearKind
  <2>1. cur \in Trial
    BY <1>8 DEF ClearKind, Control, Busy, AtRunning, AtPending
  <2>2. res' \in [Trial -> Result \cup {None}]
    BY <1>8, <2>1 DEF ClearKind
  <2>3. raw' \in [Trial -> SUBSET Run] /\ art' \in [Trial -> SUBSET Run]
    BY <1>8, <2>1 DEF ClearKind
  <2>4. todo' \in Seq(Kind) /\ Len(todo') <= 3
    BY <1>8, Queues DEF ClearKind, Control
  <2>5. QED
    BY <1>8, <2>2, <2>3, <2>4 DEF ClearKind
<1>9. CASE Requeue
  <2>1. cur \in Trial /\ mem \in Manifest /\ "pending" \in TrialState
    BY <1>9 DEF Requeue, TrialState, Terminal, Control, Result, Busy, AtRunning, AtPending
  <2>2. mem' \in Manifest
    BY <1>9, <2>1, UpdateEffect DEF Requeue
  <2>3. QED
    BY <1>9, <2>2 DEF Requeue, directory
<1>10. CASE MarkRunning
  <2>1. cur \in Trial /\ mem \in Manifest /\ "running" \in TrialState
    BY <1>10 DEF MarkRunning, TrialState, Terminal, Control, Result, Busy, AtRunning,
       AtPending
  <2>2. mem' \in Manifest
    BY <1>10, <2>1, UpdateEffect DEF MarkRunning
  <2>3. QED
    BY <1>10, <2>2 DEF MarkRunning, directory
<1>11. CASE Park
  <2>1. cur \in Trial /\ mem \in Manifest /\ "pending" \in TrialState
    BY <1>11 DEF Park, TrialState, Terminal, Control, Result, Busy, AtRunning, AtPending
  <2>2. mem' \in Manifest
    BY <1>11, <2>1, UpdateEffect DEF Park
  <2>3. QED
    BY <1>11, <2>2 DEF Park, directory
<1>12. CASE Choose
  BY <1>12, NextTrialIn, Queues DEF Choose, directory, memory, Busy
<1>13. CASE LoopEnds
  BY <1>13 DEF LoopEnds, directory, memory
<1>14. CASE KeepArtifacts
  BY <1>14 DEF KeepArtifacts, directory, memory, Control
<1>15. CASE Quarantine
  BY <1>15 DEF Quarantine, directory, memory, Control
<1>16. CASE Classify
  <2>1. runs \in Run /\ cur \in Trial
    BY <1>16 DEF Classify, Control, Busy, AtRunning
  <2>2. out' \in Result
    BY <1>16, <2>1 DEF Classify, Result
  <2>3. QED
    BY <1>16, <2>2 DEF Classify, directory
<1>17. CASE Misfire
  <2>1. runs \in Run
    BY <1>17 DEF Misfire, Control
  <2>2. out' \in Result
    BY <1>17, <2>1 DEF Misfire, Result, Terminal
  <2>3. QED
    BY <1>17, <2>2 DEF Misfire, directory
<1>18. CASE WriteResult
  <2>1. cur \in Trial /\ mem \in Manifest /\ out.state \in TrialState
    BY <1>18 DEF WriteResult, TrialState, Terminal, Control, Result, Busy, AtRunning
  <2>2. mem' \in Manifest
    BY <1>18, <2>1, UpdateEffect DEF WriteResult
  <2>3. IsReplacement(Pending) /\ Put(Pending)
    BY <1>18, PendingType DEF WriteResult, CInv
  <2>4. QED
    BY <1>18, <2>2, <2>3, PutType DEF WriteResult
<1>19. CASE Save
  <2>1. IsReplacement(Pending) /\ Put(Pending)
    BY <1>19, PendingType DEF Save, CInv
  <2>2. executed' \in 0 .. NTrials
    <3>1. CASE pc = "savingDone" /\ executed' = executed + 1
      <4>1. executed < Cardinality(InState(mem, Terminal)) /\ executed \in Nat
        BY <3>1 DEF Memory, Control
      <4>2. QED
        BY <3>1, <4>1, SetsOfTrials
    <3>2. CASE executed' \in {0, executed}
      BY <3>2
    <3>3. QED
      BY <1>19, <3>1, <3>2 DEF Save, Stop
  <2>3. /\ pc' \in Location /\ cur' \in {cur, None} /\ opts' \in {opts, None}
        /\ mem' \in {mem, None} /\ todo' \in {todo, <<>>} /\ out' \in {out, None}
        /\ checked' \in {checked, None}
    BY <1>19 DEF Save, Stop, AfterSave
  <2>4. QED
    BY <1>19, <2>1, <2>2, <2>3, PutType, Queues DEF Save
<1>20. CASE Verify
  <2>1. mem \in Manifest
    BY <1>20 DEF Verify, Control
  <2>2. checked' \in Tally
    BY <1>20, <2>1, ReportedType DEF Verify
  <2>3. QED
    BY <1>20, <2>2 DEF Verify, directory
<1>21. CASE VerifyFails
  BY <1>21, Queues DEF VerifyFails, Stop, directory, memory
<1>22. CASE WriteReport
  <2>1. IsReplacement(Pending) /\ Put(Pending)
    BY <1>22, PendingType DEF WriteReport, CInv
  <2>2. QED
    BY <1>22, <2>1, PutType DEF WriteReport
<1>23. CASE WriteSummary
  <2>1. IsReplacement(Pending) /\ Put(Pending)
    BY <1>23, PendingType DEF WriteSummary, CInv
  <2>2. mem \in Manifest
    BY <1>23 DEF WriteSummary, Control
  <2>3. mem' \in Manifest
    BY <1>23, <2>2 DEF WriteSummary, Manifest
  <2>4. QED
    BY <1>23, <2>1, <2>3, PutType DEF WriteSummary
<1>24. CASE ClearFails
  <2>1. CASE pc = "rerunClear" /\ Update(cur, "pending")
    <3>1. cur \in Trial /\ mem \in Manifest
      BY <2>1 DEF Control, Busy, AtPending
    <3>2. mem' \in Manifest
      BY <2>1, <3>1, UpdateEffect DEF TrialState
    <3>3. pc' \in Location /\ UNCHANGED <<opts, cur, todo, out, executed, checked>>
      BY <1>24, <2>1 DEF ClearFails, Stop
    <3>4. QED
      BY <1>24, <3>2, <3>3 DEF ClearFails, directory
  <2>2. CASE pc # "rerunClear"
    <3>1. CASE Stop
      BY <1>24, <3>1, Queues DEF ClearFails, Stop, directory
    <3>2. CASE todo' = <<>> /\ UNCHANGED <<pc, opts, mem, cur, out, executed, checked>>
      BY <1>24, <3>2, Queues DEF ClearFails, directory
    <3>3. QED
      BY <1>24, <2>2, <3>1, <3>2 DEF ClearFails
  <2>3. QED
    BY <1>24, <2>1, <2>2 DEF ClearFails
<1>25. CASE WriteFails
  <2>1. /\ disk' \in Manifest \cup {None} /\ res' \in [Trial -> Result \cup {None}]
        /\ report' \in Tally \cup {None} /\ summary' \in Tally \cup {None}
    <3>1. CASE Put(Pending)
      BY <1>25, <3>1, PendingType, PutType DEF WriteFails, CInv
    <3>2. CASE UNCHANGED <<disk, res, report, summary>>
      BY <3>2
    <3>3. QED
      BY <1>25, <3>1, <3>2 DEF WriteFails
  <2>2. CASE Stop
    BY <1>25, <2>1, <2>2, Queues DEF WriteFails, Stop
  <2>3. CASE pc' = "parkClear" /\ todo' = Kinds /\ out' = None
             /\ UNCHANGED <<opts, mem, cur, executed, checked>>
    BY <1>25, <2>1, <2>3, Queues DEF WriteFails
  <2>4. QED
    BY <1>25, <2>2, <2>3 DEF WriteFails
<1>26. CASE Crash
  <2>1. late' = None \/ IsReplacement(late')
    BY <1>26, PendingType DEF Crash, CInv
  <2>2. QED
    BY <1>26, <2>1, Queues DEF Crash, Stop
<1>27. CASE OrphanRenames
  <2>1. IsReplacement(late) /\ Put(late)
    BY <1>27 DEF OrphanRenames
  <2>2. QED
    BY <1>27, <2>1, PutType DEF OrphanRenames, memory
<1>28. CASE Rest
  BY <1>28 DEF Rest, vars, directory, memory
<1>29. CASE UNCHANGED vars
  BY <1>29 DEF vars, directory, memory
<1>30. QED
  BY <1>1, <1>2, <1>3, <1>4, <1>5, <1>6, <1>7, <1>8, <1>9, <1>10, <1>11, <1>12, <1>13,
     <1>14, <1>15, <1>16, <1>17, <1>18, <1>19, <1>20, <1>21, <1>22, <1>23, <1>24, <1>25,
          <1>26, <1>27, <1>28, <1>29 DEF Next, Progress

\* What is in memory at a location is what the next one expects.
LEMMA ControlStep ==
  ASSUME CInv, [Next]_vars
  PROVE  Control'
<1> USE CampaignAssumption, NoneAssumption DEF CInv, TypeOK, Control, Location, Writing,
       Saving, Clearing, Busy, AtRunning, AtPending
<1>1. CASE Start
  BY <1>1 DEF Start, directory, memory, Run
<1>2. CASE Load
  <2>1. CASE Stop
    BY <1>2, <2>1 DEF Load, Stop, directory
  <2>2. CASE mem' = disk /\ pc' = "recovering"
             /\ UNCHANGED <<opts, cur, todo, out, executed, checked>>
    BY <1>2, <2>2 DEF Load, directory
  <2>3. QED
    BY <1>2, <2>1, <2>2 DEF Load
<1>3. CASE Create
  BY <1>3, NewManifestType DEF Create, directory, memory
<1>4. CASE Refuse
  BY <1>4 DEF Refuse, Stop, directory, memory
<1>5. CASE Adopt
  <2>1. PICK t \in Trial : mem.state[t] = "running" /\ Verified(t, res[t])
             /\ Update(t, res[t].state)
    BY <1>5 DEF Adopt, InState
  <2>2. res[t].state \in TrialState /\ mem \in Manifest
    BY <1>5, <2>1 DEF Adopt, Verified, Result, Terminal, TrialState
  <2>3. mem' # None
    BY <2>1, <2>2, UpdateEffect
  <2>4. QED
    BY <1>5, <2>3 DEF Adopt, directory
<1>6. CASE Recover
  BY <1>6, Queues DEF Recover, directory, memory, InState
<1>7. CASE Recovered
  BY <1>7 DEF Recovered, directory, memory
<1>8. CASE ClearKind
  BY <1>8, Queues DEF ClearKind, directory, memory
<1>9. CASE Requeue
  <2>1. cur \in Trial /\ mem \in Manifest
    BY <1>9 DEF Requeue
  <2>2. mem' # None
    BY <1>9, <2>1, UpdateEffect DEF Requeue, TrialState
  <2>3. QED
    BY <1>9, <2>2 DEF Requeue, directory
<1>10. CASE MarkRunning
  <2>1. cur \in Trial /\ mem \in Manifest
    BY <1>10 DEF MarkRunning
  <2>2. mem' # None
    BY <1>10, <2>1, UpdateEffect DEF MarkRunning, TrialState
  <2>3. QED
    BY <1>10, <2>2 DEF MarkRunning, directory
<1>11. CASE Park
  <2>1. cur \in Trial /\ mem \in Manifest
    BY <1>11 DEF Park
  <2>2. mem' # None
    BY <1>11, <2>1, UpdateEffect DEF Park, TrialState
  <2>3. QED
    BY <1>11, <2>2 DEF Park, directory
<1>12. CASE Choose
  BY <1>12, NextTrialIn, Queues DEF Choose, directory, memory
<1>13. CASE LoopEnds
  BY <1>13 DEF LoopEnds, directory, memory
<1>14. CASE KeepArtifacts
  BY <1>14 DEF KeepArtifacts, directory, memory
<1>15. CASE Quarantine
  BY <1>15 DEF Quarantine, directory, memory
<1>16. CASE Classify
  <2>1. runs \in Run /\ cur \in Trial
    BY <1>16 DEF Classify
  <2>2. out' \in Result
    BY <1>16, <2>1 DEF Classify, Result
  <2>3. QED
    BY <1>16, <2>2 DEF Classify, directory
<1>17. CASE Misfire
  <2>1. runs \in Run
    BY <1>17 DEF Misfire, Control
  <2>2. out' \in Result
    BY <1>17, <2>1 DEF Misfire, Result, Terminal
  <2>3. QED
    BY <1>17, <2>2 DEF Misfire, directory
<1>18. CASE WriteResult
  <2>1. cur \in Trial /\ mem \in Manifest /\ out.state \in TrialState
    BY <1>18 DEF WriteResult, TrialState, Terminal, Result
  <2>2. mem' # None
    BY <1>18, <2>1, UpdateEffect DEF WriteResult
  <2>3. QED
    BY <1>18, <2>2 DEF WriteResult
<1>19. CASE Save
  BY <1>19 DEF Save, AfterSave, Stop, directory, memory
<1>20. CASE Verify
  <2>1. mem \in Manifest
    BY <1>20 DEF Verify
  <2>2. checked' # None
    BY <1>20, <2>1, ReportedType DEF Verify
  <2>3. QED
    BY <1>20, <2>2 DEF Verify, directory
<1>21. CASE VerifyFails
  BY <1>21 DEF VerifyFails, Stop, directory, memory
<1>22. CASE WriteReport
  BY <1>22 DEF WriteReport, directory, memory
<1>23. CASE WriteSummary
  <2>1. mem \in Manifest
    BY <1>23 DEF WriteSummary
  <2>2. mem' \in Manifest
    BY <1>23, <2>1 DEF WriteSummary, Manifest
  <2>3. QED
    BY <1>23, <2>2 DEF WriteSummary
<1>24. CASE ClearFails
  <2>1. CASE Stop
    BY <1>24, <2>1 DEF ClearFails, Stop, directory
  <2>2. CASE pc = "rerunClear" /\ Update(cur, "pending") /\ pc' = "savingUncleared"
             /\ UNCHANGED <<opts, cur, todo, out, executed, checked>>
    <3>1. cur \in Trial /\ mem \in Manifest
      BY <2>2
    <3>2. mem' # None
      BY <2>2, <3>1, UpdateEffect DEF TrialState
    <3>3. QED
      BY <1>24, <2>2, <3>2 DEF ClearFails, directory
  <2>3. CASE todo' = <<>> /\ UNCHANGED <<pc, opts, mem, cur, out, executed, checked>>
    BY <1>24, <2>3 DEF ClearFails, directory
  <2>4. QED
    BY <1>24, <2>1, <2>2, <2>3 DEF ClearFails
<1>25. CASE WriteFails
  <2>1. CASE Stop
    BY <1>25, <2>1 DEF WriteFails, Stop
  <2>2. CASE pc = "writing" /\ pc' = "parkClear" /\ todo' = Kinds /\ out' = None
             /\ UNCHANGED <<opts, mem, cur, executed, checked>>
    BY <1>25, <2>2, Queues DEF WriteFails
  <2>3. QED
    BY <1>25, <2>1, <2>2 DEF WriteFails
<1>26. CASE Crash
  BY <1>26 DEF Crash, Stop, directory, memory
<1>27. CASE OrphanRenames
  BY <1>27 DEF OrphanRenames, directory, memory
<1>28. CASE Rest
  BY <1>28 DEF Rest, vars, directory, memory
<1>29. CASE UNCHANGED vars
  BY <1>29 DEF vars, directory, memory
<1>30. QED
  BY <1>1, <1>2, <1>3, <1>4, <1>5, <1>6, <1>7, <1>8, <1>9, <1>10, <1>11, <1>12, <1>13,
     <1>14, <1>15, <1>16, <1>17, <1>18, <1>19, <1>20, <1>21, <1>22, <1>23, <1>24, <1>25,
          <1>26, <1>27, <1>28, <1>29 DEF Next, Progress

\* The manifest in memory changes only at the trial the run is busy with, or at
\* one that an earlier run left running.
LEMMA MemoryStep ==
  ASSUME CInv, [Next]_vars
  PROVE  Memory'
<1> USE CampaignAssumption, NoneAssumption DEF CInv, TypeOK, Control, Memory, Location,
       Writing, Saving, Clearing, Busy, AtRunning, AtPending, Terminal
<1>1. CASE Start
  BY <1>1 DEF Start, directory, memory
<1>2. CASE Load
  <2>1. CASE Stop
    BY <2>1 DEF Stop
  <2>2. CASE mem' = disk /\ pc' = "recovering"
             /\ UNCHANGED <<opts, cur, todo, out, executed, checked>>
    <3>1. 0 <= Cardinality(InState(disk, Terminal)) /\ executed' = 0
      BY <1>2, <2>2, SetsOfTrials DEF Load
    <3>2. QED
      BY <1>2, <2>2, <3>1 DEF Load, directory
  <2>3. QED
    BY <1>2, <2>1, <2>2 DEF Load
<1>3. CASE Create
  <2>1. 0 <= Cardinality(InState(NewManifest, Terminal))
    BY SetsOfTrials
  <2>2. QED
    BY <1>3, <2>1, NewManifestType DEF Create, directory
<1>4. CASE Refuse
  BY <1>4 DEF Refuse, Stop, directory, memory
<1>5. CASE Adopt
  <2>1. PICK t \in Trial : mem.state[t] = "running" /\ Verified(t, res[t])
             /\ Update(t, res[t].state)
    BY <1>5 DEF Adopt, InState
  <2>2. res[t].state \in TrialState /\ mem \in Manifest
    BY <1>5, <2>1 DEF Adopt, Verified, Result, TrialState
  <2>3. Cardinality(InState(mem, Terminal)) <= Cardinality(InState(mem', Terminal))
    BY <2>1, <2>2, UpdateCount
  <2>4. executed <= Cardinality(InState(mem', Terminal))
    BY <1>5, <2>3, SetsOfTrials DEF Adopt
  <2>5. QED
    BY <1>5, <2>4 DEF Adopt, directory
<1>6. CASE Recover
  BY <1>6 DEF Recover, directory, memory, InState
<1>7. CASE Recovered
  BY <1>7 DEF Recovered, directory, memory, InState
<1>8. CASE ClearKind
  BY <1>8 DEF ClearKind, directory, memory
<1>9. CASE Requeue
  <2>1. cur \in Trial /\ mem \in Manifest /\ "pending" \in TrialState
        /\ mem.state[cur] \notin Terminal
    BY <1>9 DEF Requeue, TrialState, Result
  <2>2. /\ mem'.state[cur] = "pending"
        /\ \A u \in Trial : u # cur => mem'.state[u] = mem.state[u]
    BY <1>9, <2>1, UpdateEffect DEF Requeue
  <2>3. Cardinality(InState(mem', Terminal)) = Cardinality(InState(mem, Terminal))
        + (IF "pending" \in Terminal THEN 1 ELSE 0)
    BY <1>9, <2>1, UpdateCount DEF Requeue
  <2>4. /\ executed <= Cardinality(InState(mem', Terminal))
        /\ "pending" \in Terminal => executed < Cardinality(InState(mem', Terminal))
    BY <1>9, <2>1, <2>3, SetsOfTrials DEF Requeue
  <2>5. QED
    BY <1>9, <2>1, <2>2, <2>4 DEF Requeue, directory, Result
<1>10. CASE MarkRunning
  <2>1. cur \in Trial /\ mem \in Manifest /\ "running" \in TrialState
        /\ mem.state[cur] \notin Terminal
    BY <1>10 DEF MarkRunning, TrialState, Result
  <2>2. /\ mem'.state[cur] = "running"
        /\ \A u \in Trial : u # cur => mem'.state[u] = mem.state[u]
    BY <1>10, <2>1, UpdateEffect DEF MarkRunning
  <2>3. Cardinality(InState(mem', Terminal)) = Cardinality(InState(mem, Terminal))
        + (IF "running" \in Terminal THEN 1 ELSE 0)
    BY <1>10, <2>1, UpdateCount DEF MarkRunning
  <2>4. /\ executed <= Cardinality(InState(mem', Terminal))
        /\ "running" \in Terminal => executed < Cardinality(InState(mem', Terminal))
    BY <1>10, <2>1, <2>3, SetsOfTrials DEF MarkRunning
  <2>5. QED
    BY <1>10, <2>1, <2>2, <2>4 DEF MarkRunning, directory, Result
<1>11. CASE Park
  <2>1. cur \in Trial /\ mem \in Manifest /\ "pending" \in TrialState
        /\ mem.state[cur] \notin Terminal
    BY <1>11 DEF Park, TrialState, Result
  <2>2. /\ mem'.state[cur] = "pending"
        /\ \A u \in Trial : u # cur => mem'.state[u] = mem.state[u]
    BY <1>11, <2>1, UpdateEffect DEF Park
  <2>3. Cardinality(InState(mem', Terminal)) = Cardinality(InState(mem, Terminal))
        + (IF "pending" \in Terminal THEN 1 ELSE 0)
    BY <1>11, <2>1, UpdateCount DEF Park
  <2>4. /\ executed <= Cardinality(InState(mem', Terminal))
        /\ "pending" \in Terminal => executed < Cardinality(InState(mem', Terminal))
    BY <1>11, <2>1, <2>3, SetsOfTrials DEF Park
  <2>5. QED
    BY <1>11, <2>1, <2>2, <2>4 DEF Park, directory, Result
<1>12. CASE Choose
  BY <1>12, NextTrialIn DEF Choose, directory, memory
<1>13. CASE LoopEnds
  BY <1>13 DEF LoopEnds, directory, memory
<1>14. CASE KeepArtifacts
  BY <1>14 DEF KeepArtifacts, directory, memory
<1>15. CASE Quarantine
  BY <1>15 DEF Quarantine, directory, memory
<1>16. CASE Classify
  BY <1>16 DEF Classify, directory, memory
<1>17. CASE Misfire
  BY <1>17 DEF Misfire, directory, memory
<1>18. CASE WriteResult
  <2>1. cur \in Trial /\ mem \in Manifest /\ out.state \in TrialState
        /\ mem.state[cur] \notin Terminal
    BY <1>18 DEF WriteResult, TrialState, Result
  <2>2. /\ mem'.state[cur] = out.state
        /\ \A u \in Trial : u # cur => mem'.state[u] = mem.state[u]
    BY <1>18, <2>1, UpdateEffect DEF WriteResult
  <2>3. Cardinality(InState(mem', Terminal)) = Cardinality(InState(mem, Terminal))
        + (IF out.state \in Terminal THEN 1 ELSE 0)
    BY <1>18, <2>1, UpdateCount DEF WriteResult
  <2>4. /\ executed <= Cardinality(InState(mem', Terminal))
        /\ out.state \in Terminal => executed < Cardinality(InState(mem', Terminal))
    BY <1>18, <2>1, <2>3, SetsOfTrials DEF WriteResult
  <2>5. QED
    BY <1>18, <2>1, <2>2, <2>4 DEF WriteResult, directory, Result
<1>19. CASE Save
  <2>1. CASE Stop
    BY <2>1 DEF Stop
  <2>2. CASE pc \in DOMAIN AfterSave /\ pc' = AfterSave[pc] /\ mem' = mem
             /\ executed' = (IF pc = "savingDone" THEN executed + 1 ELSE executed)
             /\ cur' = (IF pc = "savingRunning" THEN cur ELSE None)
    <3>1. executed' <= Cardinality(InState(mem, Terminal))
      BY <1>19, <2>2, SetsOfTrials DEF Save
    <3>2. \A t \in Trial : mem.state[t] = "running" => t = cur
      BY <1>19 DEF Save
    <3>3. pc # "savingRunning" => \A t \in Trial : mem.state[t] # "running"
      BY <1>19, <2>2, <3>2 DEF AfterSave
    <3>4. QED
      BY <1>19, <2>2, <3>1, <3>2, <3>3 DEF AfterSave
  <2>3. QED
    BY <1>19, <2>1, <2>2 DEF Save
<1>20. CASE Verify
  BY <1>20 DEF Verify, directory, memory
<1>21. CASE VerifyFails
  BY <1>21 DEF VerifyFails, Stop, directory, memory
<1>22. CASE WriteReport
  BY <1>22 DEF WriteReport, directory, memory
<1>23. CASE WriteSummary
  <2>1. mem \in Manifest
    BY <1>23 DEF WriteSummary
  <2>2. mem'.state = mem.state
    BY <1>23, <2>1 DEF WriteSummary, Manifest
  <2>3. InState(mem', Terminal) = InState(mem, Terminal)
    BY <2>2 DEF InState
  <2>4. QED
    BY <1>23, <2>2, <2>3 DEF WriteSummary
<1>24. CASE ClearFails
  <2>1. CASE Stop
    BY <2>1 DEF Stop
  <2>2. CASE pc = "rerunClear" /\ Update(cur, "pending") /\ pc' = "savingUncleared"
             /\ UNCHANGED <<opts, cur, todo, out, executed, checked>>
    <3>1. cur \in Trial /\ mem \in Manifest /\ mem.state[cur] = "pending"
      BY <2>2
    <3>2. mem' = mem
      BY <2>2, <3>1 DEF Update, Manifest
    <3>3. QED
      BY <2>2, <3>2
  <2>3. CASE todo' = <<>> /\ UNCHANGED <<pc, opts, mem, cur, out, executed, checked>>
    BY <1>24, <2>3 DEF ClearFails, directory
  <2>4. QED
    BY <1>24, <2>1, <2>2, <2>3 DEF ClearFails
<1>25. CASE WriteFails
  <2>1. CASE Stop
    BY <2>1 DEF Stop
  <2>2. CASE pc = "writing" /\ pc' = "parkClear"
             /\ UNCHANGED <<opts, mem, cur, executed, checked>>
    BY <2>2
  <2>3. QED
    BY <1>25, <2>1, <2>2 DEF WriteFails
<1>26. CASE Crash
  BY <1>26 DEF Crash, Stop, directory, memory
<1>27. CASE OrphanRenames
  BY <1>27 DEF OrphanRenames, directory, memory
<1>28. CASE Rest
  BY <1>28 DEF Rest, vars, directory, memory
<1>29. CASE UNCHANGED vars
  BY <1>29 DEF vars, directory, memory
<1>30. QED
  BY <1>1, <1>2, <1>3, <1>4, <1>5, <1>6, <1>7, <1>8, <1>9, <1>10, <1>11, <1>12, <1>13,
     <1>14, <1>15, <1>16, <1>17, <1>18, <1>19, <1>20, <1>21, <1>22, <1>23, <1>24, <1>25,
          <1>26, <1>27, <1>28, <1>29 DEF Next, Progress

\* No step makes a trial anything that updateTrial would refuse.
LEMMA LegalStep ==
  ASSUME CInv, mem # None, mem' # None, [Next]_vars
  PROVE  \A t \in Trial : MayBecome(mem.state[t], mem'.state[t])
<1> USE CampaignAssumption, NoneAssumption DEF IInv, CInv, TypeOK, Control, Location,
       Writing, Saving, Clearing, Busy, AtRunning, AtPending
<1>1. CASE Start
  BY <1>1 DEF Start, directory, memory, Stop, MayBecome
<1>2. CASE Load
  BY <1>2 DEF Load, Stop, directory, memory, MayBecome
<1>3. CASE Create
  BY <1>3 DEF Create, directory, memory, MayBecome
<1>4. CASE Refuse
  BY <1>4 DEF Refuse, Stop, directory, memory, MayBecome
<1>5. CASE Adopt
  <2>1. PICK t \in Trial : mem.state[t] = "running" /\ Verified(t, res[t])
             /\ Update(t, res[t].state)
    BY <1>5 DEF Adopt, InState
  <2>2. res[t].state \in Terminal /\ res[t].state \in TrialState /\ mem \in Manifest
    BY <1>5, <2>1 DEF Adopt, Verified, Result, TrialState, Terminal
  <2>3. /\ mem'.state[t] = res[t].state
        /\ \A u \in Trial : u # t => mem'.state[u] = mem.state[u]
    BY <2>1, <2>2, UpdateEffect
  <2>4. QED
    BY <2>1, <2>2, <2>3 DEF MayBecome
<1>6. CASE Recover
  BY <1>6 DEF Recover, directory, memory, Stop, MayBecome
<1>7. CASE Recovered
  BY <1>7 DEF Recovered, directory, memory, Stop, MayBecome
<1>8. CASE ClearKind
  BY <1>8 DEF ClearKind, directory, memory, Stop, MayBecome
<1>9. CASE Requeue
  <2>1. cur \in Trial /\ mem \in Manifest /\ "pending" \in TrialState
    BY <1>9 DEF Requeue, TrialState, Terminal, Result
  <2>2. /\ mem'.state[cur] = "pending"
        /\ \A u \in Trial : u # cur => mem'.state[u] = mem.state[u]
    BY <1>9, <2>1, UpdateEffect DEF Requeue
  <2>3. QED
    BY <1>9, <2>1, <2>2 DEF Requeue, Memory, MayBecome
<1>10. CASE MarkRunning
  <2>1. cur \in Trial /\ mem \in Manifest /\ "running" \in TrialState
    BY <1>10 DEF MarkRunning, TrialState, Terminal, Result
  <2>2. /\ mem'.state[cur] = "running"
        /\ \A u \in Trial : u # cur => mem'.state[u] = mem.state[u]
    BY <1>10, <2>1, UpdateEffect DEF MarkRunning
  <2>3. QED
    BY <1>10, <2>1, <2>2 DEF MarkRunning, Memory, MayBecome
<1>11. CASE Park
  <2>1. cur \in Trial /\ mem \in Manifest /\ "pending" \in TrialState
    BY <1>11 DEF Park, TrialState, Terminal, Result
  <2>2. /\ mem'.state[cur] = "pending"
        /\ \A u \in Trial : u # cur => mem'.state[u] = mem.state[u]
    BY <1>11, <2>1, UpdateEffect DEF Park
  <2>3. QED
    BY <1>11, <2>1, <2>2 DEF Park, Memory, MayBecome
<1>12. CASE Choose
  BY <1>12 DEF Choose, directory, memory, MayBecome
<1>13. CASE LoopEnds
  BY <1>13 DEF LoopEnds, directory, memory, Stop, MayBecome
<1>14. CASE KeepArtifacts
  BY <1>14 DEF KeepArtifacts, directory, memory, Stop, MayBecome
<1>15. CASE Quarantine
  BY <1>15 DEF Quarantine, directory, memory, Stop, MayBecome
<1>16. CASE Classify
  BY <1>16 DEF Classify, directory, memory, Stop, MayBecome
<1>17. CASE Misfire
  BY <1>17 DEF Misfire, directory, memory, Stop, MayBecome
<1>18. CASE WriteResult
  <2>1. cur \in Trial /\ mem \in Manifest /\ out.state \in TrialState
    BY <1>18 DEF WriteResult, TrialState, Terminal, Result
  <2>2. /\ mem'.state[cur] = out.state
        /\ \A u \in Trial : u # cur => mem'.state[u] = mem.state[u]
    BY <1>18, <2>1, UpdateEffect DEF WriteResult
  <2>3. QED
    BY <1>18, <2>1, <2>2 DEF WriteResult, Memory, MayBecome, Result
<1>19. CASE Save
  BY <1>19 DEF Save, AfterSave, Stop, directory, memory, MayBecome
<1>20. CASE Verify
  BY <1>20 DEF Verify, directory, memory, Stop, MayBecome
<1>21. CASE VerifyFails
  BY <1>21 DEF VerifyFails, Stop, directory, memory, MayBecome
<1>22. CASE WriteReport
  BY <1>22 DEF WriteReport, directory, memory, Stop, MayBecome
<1>23. CASE WriteSummary
  <2>1. mem'.state = mem.state
    BY <1>23 DEF WriteSummary, Manifest
  <2>2. QED
    BY <2>1 DEF MayBecome
<1>24. CASE ClearFails
  <2>1. mem' = None \/ mem' = mem
    <3>1. CASE Stop
      BY <3>1 DEF Stop
    <3>2. CASE pc = "rerunClear" /\ Update(cur, "pending")
      <4>1. cur \in Trial /\ mem \in Manifest /\ mem.state[cur] = "pending"
        BY <3>2 DEF Memory
      <4>2. QED
        BY <3>2, <4>1 DEF Update, Manifest
    <3>3. QED
      BY <1>24, <3>1, <3>2 DEF ClearFails
  <2>2. QED
    BY <2>1 DEF MayBecome
<1>25. CASE WriteFails
  BY <1>25 DEF WriteFails, Stop, directory, memory, MayBecome
<1>26. CASE Crash
  BY <1>26 DEF Crash, Stop, directory, memory, MayBecome
<1>27. CASE OrphanRenames
  BY <1>27 DEF OrphanRenames, directory, memory, MayBecome, MayBecome
<1>28. CASE Rest
  BY <1>28 DEF Rest, vars, directory, memory, Stop, MayBecome
<1>29. CASE UNCHANGED vars
  BY <1>29 DEF vars, directory, memory, MayBecome
<1>30. QED
  BY <1>1, <1>2, <1>3, <1>4, <1>5, <1>6, <1>7, <1>8, <1>9, <1>10, <1>11, <1>12, <1>13,
     <1>14, <1>15, <1>16, <1>17, <1>18, <1>19, <1>20, <1>21, <1>22, <1>23, <1>24, <1>25,
          <1>26, <1>27, <1>28, <1>29 DEF Next, Progress

\* The run keeps its memory in order, whatever is on disk.
LEMMA CInvStep ==
  ASSUME CInv, [Next]_vars
  PROVE  CInv'
BY TypeOKStep, ControlStep, MemoryStep DEF CInv

-----------------------------------------------------------------------------
(* The disk, as long as no rename of a dead run came late *)

\* The trial whose evidence is being touched is not finished on disk.
LEMMA CurIsOpen ==
  ASSUME IInv, pc \in AtRunning \cup AtPending
  PROVE  /\ cur \in Trial /\ mem \in Manifest /\ disk \in Manifest
         /\ mem.state[cur] \in {"running", "pending"}
         /\ disk.state[cur] \in {"running", "pending"}
<1> USE DEF IInv, CInv, TypeOK, Control, Busy, AtRunning, AtPending
<1>1. cur \in Trial /\ mem \in Manifest /\ mem # None /\ pc # "savingNew"
  OBVIOUS
<1>2. mem.state[cur] \in {"running", "pending"}
  BY <1>1 DEF Memory
<1>3. disk # None /\ (mem.state[cur] = disk.state[cur] \/ Ahead(cur))
  BY <1>1 DEF Sync
<1>4. disk.state[cur] \in {"running", "pending"}
  BY <1>2, <1>3 DEF Ahead
<1>5. QED
  BY <1>1, <1>2, <1>3, <1>4

\* What is about to be saved may stand on disk.
LEMMA Saveable ==
  ASSUME IInv, pc \in Saving
  PROVE  /\ mem \in Manifest
         /\ \A t \in Trial : mem.state[t] \in Terminal => Backed(mem, t)
         /\ \A t, u \in Trial : mem.state[t] = "running"
                     /\ mem.state[u] = "running" => t = u
         /\ mem.status = "completed" =>
              /\ report # None /\ summary = report
              /\ \A t \in Trial : mem.state[t] \in Terminal /\ Verified(t, res[t])
                                  /\ report[t] = res[t].run
<1> USE DEF IInv, CInv, TypeOK, Control, Saving
<1>1. mem \in Manifest /\ mem # None
  OBVIOUS
<1>2. \A t \in Trial : mem.state[t] \in Terminal => Backed(mem, t)
  BY <1>1 DEF Evidence
<1>3. \A t, u \in Trial : mem.state[t] = "running" /\ mem.state[u] = "running" => t = u
  BY <1>1 DEF Memory
<1>4. ASSUME mem.status = "completed"
      PROVE  /\ report # None /\ summary = report
             /\ \A t \in Trial : mem.state[t] \in Terminal /\ Verified(t, res[t])
                                 /\ report[t] = res[t].run
  <2>1. CASE pc = "savingNew"
    <3>1. mem = NewManifest
      BY <1>1, <2>1 DEF Memory
    <3>2. QED
      BY <1>4, <3>1, NewManifestType
  <2>2. CASE pc = "savingStatus"
    <3>1. AllVerified(mem) /\ report = Reported(mem) /\ summary = report
      BY <2>2 DEF Reports
    <3>2. \A t \in Trial : mem.state[t] \in Terminal
      BY <1>4, <2>2 DEF Reports
    <3>3. report # None
      BY <1>1, <3>1, ReportedType
    <3>4. \A t \in Trial : Verified(t, res[t]) /\ report[t] = res[t].run
      BY <3>1, <3>2 DEF AllVerified, Reported, InState
    <3>5. QED
      BY <3>1, <3>2, <3>3, <3>4
  <2>3. CASE pc \notin {"savingNew", "savingStatus"}
    <3>1. /\ disk # None /\ disk.status = "completed"
          /\ \A t \in Trial : mem.state[t] = disk.state[t] \/ Ahead(t)
      BY <1>1, <1>4, <2>3 DEF Sync
    <3>2. /\ report # None /\ summary = report
          /\ \A t \in Trial : disk.state[t] \in Terminal /\ Verified(t, res[t])
                              /\ report[t] = res[t].run
      BY <3>1 DEF CompletedIsReported
    <3>3. \A t \in Trial : ~Ahead(t)
      BY <3>2 DEF Ahead, Terminal
    <3>4. QED
      BY <3>1, <3>2, <3>3
  <2>4. QED
    BY <2>1, <2>2, <2>3
<1>5. QED
  BY <1>1, <1>2, <1>3, <1>4

\* The trials of a campaign that is completed on disk are finished in memory too.
LEMMA CompletedMeans ==
  ASSUME IInv, disk # None, disk.status = "completed", mem # None, pc # "savingNew"
  PROVE  \A t \in Trial : mem.state[t] = disk.state[t] /\ mem.state[t] \in Terminal
<1>1. \A t \in Trial : disk.state[t] \in Terminal
  BY DEF IInv, CompletedIsReported
<1>2. \A t \in Trial : mem.state[t] = disk.state[t] \/ Ahead(t)
  BY DEF IInv, Sync
<1>3. \A t \in Trial : ~Ahead(t)
  BY <1>1 DEF Ahead, Terminal
<1>4. QED
  BY <1>1, <1>2, <1>3

\* A run on a completed campaign reports what is reported already.
LEMMA SameReport ==
  ASSUME IInv, disk # None, disk.status = "completed", pc \in {"reporting", "summarizing"}
  PROVE  checked = report
<1>1. mem # None /\ checked \in Tally /\ checked = Reported(mem)
  BY DEF IInv, CInv, TypeOK, Control, Reports
<1>2. /\ report # None /\ report \in Tally
      /\ \A t \in Trial : report[t] = res[t].run
  BY DEF IInv, CInv, TypeOK, CompletedIsReported
<1>3. \A t \in Trial : mem.state[t] \in Terminal
  BY <1>1, CompletedMeans
<1>4. \A t \in Trial : checked[t] = report[t]
  BY <1>1, <1>2, <1>3 DEF Reported, InState
<1>5. QED
  BY <1>1, <1>2, <1>4 DEF Tally

\* A save brings the disk up to what is in memory; between two saves memory
\* changes at one trial, or at those a resume settles.
LEMMA SyncStep ==
  ASSUME IInv, ~overtaken', CInv', [Next]_vars
  PROVE  Sync'
<1> USE CampaignAssumption, NoneAssumption DEF IInv, CInv, TypeOK, Control, Location,
       Writing, Saving, Clearing, Busy, AtRunning, AtPending
<1>1. CASE Start
  BY <1>1 DEF Start, directory, memory, Sync
<1>2. CASE Load
  <2>1. CASE Stop
    BY <2>1 DEF Stop, Sync
  <2>2. CASE mem' = disk /\ pc' = "recovering"
    BY <1>2, <2>2 DEF Load, directory, Sync
  <2>3. QED
    BY <1>2, <2>1, <2>2 DEF Load
<1>3. CASE Create
  BY <1>3 DEF Create, directory, memory, Sync
<1>4. CASE Refuse
  BY <1>4 DEF Refuse, Stop, directory, memory, Sync
<1>5. CASE Adopt
  <2>1. PICK t \in Trial : mem.state[t] = "running" /\ Verified(t, res[t])
             /\ Update(t, res[t].state)
    BY <1>5 DEF Adopt, InState
  <2>2. res[t].state \in TrialState \ {"running"} /\ mem \in Manifest
    BY <1>5, <2>1 DEF Adopt, Verified, Result, TrialState, Terminal
  <2>3. /\ mem'.status = mem.status /\ mem'.state[t] # "running"
        /\ \A u \in Trial : u # t => mem'.state[u] = mem.state[u]
    BY <2>1, <2>2, UpdateEffect
  <2>4. QED
    BY <1>5, <2>1, <2>3 DEF Adopt, Sync, Ahead, Resuming, directory
<1>6. CASE Recover
  BY <1>6 DEF Recover, directory, memory, Sync, Ahead, Resuming
<1>7. CASE Recovered
  <2>1. QED
    BY <1>7 DEF Recovered, Sync, Ahead, Resuming, directory
<1>8. CASE ClearKind
  BY <1>8 DEF ClearKind, directory, memory, Sync, Ahead, Resuming
<1>9. CASE Requeue
  <2>1. cur \in Trial /\ mem \in Manifest /\ "pending" \in TrialState
    BY <1>9 DEF Requeue, TrialState, Terminal, Result
  <2>2. /\ mem'.status = mem.status /\ mem'.state[cur] = "pending"
        /\ \A u \in Trial : u # cur => mem'.state[u] = mem.state[u]
    BY <1>9, <2>1, UpdateEffect DEF Requeue
  <2>9. QED
    BY <1>9, <2>1, <2>2 DEF Requeue, Sync, Ahead, Memory, Resuming, directory
<1>10. CASE MarkRunning
  <2>1. cur \in Trial /\ mem \in Manifest /\ "running" \in TrialState
    BY <1>10 DEF MarkRunning, TrialState, Terminal, Result
  <2>2. /\ mem'.status = mem.status /\ mem'.state[cur] = "running"
        /\ \A u \in Trial : u # cur => mem'.state[u] = mem.state[u]
    BY <1>10, <2>1, UpdateEffect DEF MarkRunning
  <2>9. QED
    BY <1>10, <2>1, <2>2 DEF MarkRunning, Sync, Ahead, Memory, Resuming, directory
<1>11. CASE Park
  <2>1. cur \in Trial /\ mem \in Manifest /\ "pending" \in TrialState
    BY <1>11 DEF Park, TrialState, Terminal, Result
  <2>2. /\ mem'.status = mem.status /\ mem'.state[cur] = "pending"
        /\ \A u \in Trial : u # cur => mem'.state[u] = mem.state[u]
    BY <1>11, <2>1, UpdateEffect DEF Park
  <2>9. QED
    BY <1>11, <2>1, <2>2 DEF Park, Sync, Ahead, Memory, Resuming, directory
<1>12. CASE Choose
  <2>1. QED
    BY <1>12 DEF Choose, Sync, Ahead, Resuming, directory
<1>13. CASE LoopEnds
  BY <1>13 DEF LoopEnds, directory, memory, Sync, Ahead, Resuming
<1>14. CASE KeepArtifacts
  BY <1>14 DEF KeepArtifacts, directory, memory, Sync, Ahead, Resuming
<1>15. CASE Quarantine
  BY <1>15 DEF Quarantine, directory, memory, Sync, Ahead, Resuming
<1>16. CASE Classify
  BY <1>16 DEF Classify, directory, memory, Sync, Ahead, Resuming
<1>17. CASE Misfire
  BY <1>17 DEF Misfire, directory, memory, Sync, Ahead, Resuming
<1>18. CASE WriteResult
  <2>1. cur \in Trial /\ mem \in Manifest /\ out.state \in TrialState
    BY <1>18 DEF WriteResult, TrialState, Terminal, Result
  <2>2. /\ mem'.status = mem.status /\ mem'.state[cur] = out.state
        /\ \A u \in Trial : u # cur => mem'.state[u] = mem.state[u]
    BY <1>18, <2>1, UpdateEffect DEF WriteResult
  <2>3. disk' = disk /\ out.state # "running"
    BY <1>18, PutEffect DEF WriteResult, Result, Terminal
  <2>9. QED
    BY <1>18, <2>1, <2>2, <2>3 DEF WriteResult, Sync, Ahead, Memory, Resuming, directory
<1>19. CASE Save
  <2>1. CASE Stop
    BY <2>1 DEF Stop, Sync
  <2>2. CASE mem' = mem
    <3>1. disk' = mem
      BY <1>19, PutEffect DEF Save
    <3>2. QED
      BY <2>2, <3>1 DEF Sync
  <2>3. QED
    BY <1>19, <2>1, <2>2 DEF Save
<1>20. CASE Verify
  BY <1>20 DEF Verify, directory, memory, Sync, Ahead, Resuming
<1>21. CASE VerifyFails
  BY <1>21 DEF VerifyFails, Stop, directory, memory, Sync
<1>22. CASE WriteReport
  <2>1. disk' = disk
    BY <1>22, PutEffect DEF WriteReport
  <2>2. QED
    BY <1>22, <2>1 DEF WriteReport, Sync, Ahead, Resuming
<1>23. CASE WriteSummary
  <2>1. disk' = disk /\ mem \in Manifest
    BY <1>23, PutEffect DEF WriteSummary
  <2>2. mem'.state = mem.state
    BY <1>23, <2>1 DEF WriteSummary, Manifest
  <2>3. QED
    BY <1>23, <2>1, <2>2 DEF WriteSummary, Sync, Ahead, Resuming
<1>24. CASE ClearFails
  <2>1. CASE Stop
    BY <2>1 DEF Stop, Sync
  <2>2. CASE pc = "rerunClear" /\ Update(cur, "pending") /\ pc' = "savingUncleared"
             /\ UNCHANGED <<opts, cur, todo, out, executed, checked>>
    <3>1. cur \in Trial /\ mem \in Manifest /\ mem.state[cur] = "pending"
      BY <2>2 DEF Memory
    <3>2. mem' = mem
      BY <2>2, <3>1 DEF Update, Manifest
    <3>3. QED
      BY <1>24, <2>2, <3>2 DEF ClearFails, Sync, Ahead, Resuming, directory
  <2>3. CASE todo' = <<>> /\ UNCHANGED <<pc, opts, mem, cur, out, executed, checked>>
    BY <1>24, <2>3 DEF ClearFails, Sync, Ahead, directory
  <2>4. QED
    BY <1>24, <2>1, <2>2, <2>3 DEF ClearFails
<1>25. CASE WriteFails
  <2>1. CASE Stop
    BY <2>1 DEF Stop, Sync
  <2>2. CASE pc = "writing" /\ pc' = "parkClear" /\ UNCHANGED <<mem, cur>>
    <3>1. disk' = disk
      BY <1>25, <2>2, PutEffect DEF WriteFails
    <3>2. QED
      BY <2>2, <3>1 DEF Sync, Ahead, Resuming
  <2>3. QED
    BY <1>25, <2>1, <2>2 DEF WriteFails
<1>26. CASE Crash
  BY <1>26 DEF Crash, Stop, directory, memory, Sync
<1>27. CASE OrphanRenames
  BY <1>27 DEF OrphanRenames
<1>28. CASE Rest
  BY <1>28 DEF Rest, vars, directory, memory, Sync, Ahead, Resuming
<1>29. CASE UNCHANGED vars
  BY <1>29 DEF vars, directory, memory, Sync, Ahead
<1>30. QED
  BY <1>1, <1>2, <1>3, <1>4, <1>5, <1>6, <1>7, <1>8, <1>9, <1>10, <1>11, <1>12, <1>13,
     <1>14, <1>15, <1>16, <1>17, <1>18, <1>19, <1>20, <1>21, <1>22, <1>23, <1>24, <1>25,
          <1>26, <1>27, <1>28, <1>29 DEF Next, Progress

\* What is saved has one running trial at most.
LEMMA OneRunningStep ==
  ASSUME IInv, ~overtaken', CInv', [Next]_vars
  PROVE  OneRunning'
<1> USE CampaignAssumption, NoneAssumption DEF IInv, CInv, TypeOK, Control, Location,
       Writing, Saving, Clearing, Busy, AtRunning, AtPending
<1>1. CASE Start
  BY <1>1 DEF Start, directory, memory, OneRunning
<1>2. CASE Load
  BY <1>2 DEF Load, Stop, directory, memory, OneRunning
<1>3. CASE Create
  BY <1>3 DEF Create, directory, memory, OneRunning
<1>4. CASE Refuse
  BY <1>4 DEF Refuse, Stop, directory, memory, OneRunning
<1>5. CASE Adopt
  BY <1>5 DEF Adopt, directory, memory, OneRunning
<1>6. CASE Recover
  BY <1>6 DEF Recover, directory, memory, OneRunning
<1>7. CASE Recovered
  BY <1>7 DEF Recovered, directory, memory, OneRunning
<1>8. CASE ClearKind
  BY <1>8 DEF ClearKind, directory, memory, OneRunning
<1>9. CASE Requeue
  BY <1>9 DEF Requeue, directory, memory, OneRunning
<1>10. CASE MarkRunning
  BY <1>10 DEF MarkRunning, directory, memory, OneRunning
<1>11. CASE Park
  BY <1>11 DEF Park, directory, memory, OneRunning
<1>12. CASE Choose
  BY <1>12 DEF Choose, directory, memory, OneRunning
<1>13. CASE LoopEnds
  BY <1>13 DEF LoopEnds, directory, memory, OneRunning
<1>14. CASE KeepArtifacts
  BY <1>14 DEF KeepArtifacts, directory, memory, OneRunning
<1>15. CASE Quarantine
  BY <1>15 DEF Quarantine, directory, memory, OneRunning
<1>16. CASE Classify
  BY <1>16 DEF Classify, directory, memory, OneRunning
<1>17. CASE Misfire
  BY <1>17 DEF Misfire, directory, memory, OneRunning
<1>18. CASE WriteResult
  <2>1. disk' = disk
    BY <1>18, PutEffect DEF WriteResult
  <2>2. QED
    BY <2>1 DEF OneRunning
<1>19. CASE Save
  <2>1. disk' = mem
    BY <1>19, PutEffect DEF Save
  <2>2. QED
    BY <1>19, <2>1, Saveable DEF Save, OneRunning
<1>20. CASE Verify
  BY <1>20 DEF Verify, directory, memory, OneRunning
<1>21. CASE VerifyFails
  BY <1>21 DEF VerifyFails, Stop, directory, memory, OneRunning
<1>22. CASE WriteReport
  <2>1. disk' = disk
    BY <1>22, PutEffect DEF WriteReport
  <2>2. QED
    BY <2>1 DEF OneRunning
<1>23. CASE WriteSummary
  <2>1. disk' = disk
    BY <1>23, PutEffect DEF WriteSummary
  <2>2. QED
    BY <2>1 DEF OneRunning
<1>24. CASE ClearFails
  BY <1>24 DEF ClearFails, Stop, directory, memory, OneRunning
<1>25. CASE WriteFails
  <2>1. disk' = disk \/ (pc \in Saving /\ disk' = mem)
    <3>1. CASE Put(Pending)
      BY <1>25, <3>1, PutEffect DEF WriteFails
    <3>2. CASE UNCHANGED <<disk, res, report, summary>>
      BY <3>2
    <3>3. QED
      BY <1>25, <3>1, <3>2 DEF WriteFails
  <2>2. QED
    BY <1>25, <2>1, Saveable DEF OneRunning
<1>26. CASE Crash
  BY <1>26 DEF Crash, Stop, directory, memory, OneRunning
<1>27. CASE OrphanRenames
  BY <1>27 DEF OrphanRenames
<1>28. CASE Rest
  BY <1>28 DEF Rest, vars, directory, memory, OneRunning
<1>29. CASE UNCHANGED vars
  BY <1>29 DEF vars, directory, memory, OneRunning
<1>30. QED
  BY <1>1, <1>2, <1>3, <1>4, <1>5, <1>6, <1>7, <1>8, <1>9, <1>10, <1>11, <1>12, <1>13,
     <1>14, <1>15, <1>16, <1>17, <1>18, <1>19, <1>20, <1>21, <1>22, <1>23, <1>24, <1>25,
          <1>26, <1>27, <1>28, <1>29 DEF Next, Progress

\* Evidence is touched only where no manifest calls the trial finished, and a trial
\* becomes finished in memory only with whole evidence.
LEMMA EvidenceStep ==
  ASSUME IInv, ~overtaken', CInv', [Next]_vars
  PROVE  Evidence'
<1> USE CampaignAssumption, NoneAssumption DEF IInv, CInv, TypeOK, Control, Location,
       Writing, Saving, Clearing, Busy, AtRunning, AtPending
<1>1. CASE Start
  BY <1>1 DEF Start, directory, memory, Evidence, Backed, Sound, Verified
<1>2. CASE Load
  <2>1. mem' \in {disk, None} /\ UNCHANGED <<disk, res, raw, art>>
    BY <1>2 DEF Load, Stop, directory
  <2>2. QED
    BY <2>1 DEF Evidence, Backed, Sound, Verified
<1>3. CASE Create
  <2>1. QED
    BY <1>3, NewManifestType DEF Create, Evidence, Backed, Sound, Verified, Terminal,
       directory
<1>4. CASE Refuse
  BY <1>4 DEF Refuse, Stop, directory, memory, Evidence, Backed, Sound, Verified
<1>5. CASE Adopt
  <2>1. PICK t \in Trial : mem.state[t] = "running" /\ Verified(t, res[t])
             /\ Update(t, res[t].state)
    BY <1>5 DEF Adopt, InState
  <2>2. res[t].state \in TrialState /\ mem \in Manifest
    BY <1>5, <2>1 DEF Adopt, Verified, Result, TrialState, Terminal
  <2>3. /\ mem'.state[t] = res[t].state
        /\ \A u \in Trial : u # t => mem'.state[u] = mem.state[u]
    BY <2>1, <2>2, UpdateEffect
  <2>4. Backed(mem, t)'
    BY <1>5, <2>1, <2>3 DEF Adopt, Evidence, Backed, Sound, Verified, directory
  <2>5. ASSUME NEW u \in Trial, u # t, mem'.state[u] \in Terminal
        PROVE  Backed(mem, u)'
    <3>1. Backed(mem, u)
      BY <2>2, <2>3, <2>5 DEF Evidence
    <3>2. QED
      BY <1>5, <2>3, <2>5, <3>1 DEF Adopt, Backed, Sound, Verified, directory
  <2>6. /\ \A u \in Trial : res[u]' # None => Sound(res[u])'
        /\ disk' # None => \A u \in Trial : disk'.state[u] \in Terminal => Backed(disk, u)'
    BY <1>5 DEF Adopt, Evidence, Backed, Sound, Verified, directory
  <2>7. QED
    BY <2>4, <2>5, <2>6 DEF Evidence
<1>6. CASE Recover
  BY <1>6 DEF Recover, directory, memory, Evidence, Backed, Sound, Verified
<1>7. CASE Recovered
  BY <1>7 DEF Recovered, directory, memory, Evidence, Backed, Sound, Verified
<1>8. CASE ClearKind
  <2>1. /\ cur \in Trial /\ mem.state[cur] \notin Terminal
        /\ disk.state[cur] \notin Terminal
    BY <1>8, CurIsOpen DEF ClearKind, Terminal
  <2>2. /\ \A t \in Trial : t # cur => res'[t] = res[t] /\ raw'[t] = raw[t]
              /\ art'[t] = art[t]
        /\ res'[cur] \in {res[cur], None} /\ UNCHANGED <<mem, disk>>
    BY <1>8, <2>1 DEF ClearKind
  <2>3. ASSUME NEW t \in Trial, t # cur
        PROVE  /\ Backed(disk, t) => Backed(disk, t)'
               /\ Backed(mem, t) => Backed(mem, t)'
    BY <2>2, <2>3 DEF Backed, Sound, Verified
  <2>4. \A t \in Trial : res[t]' # None => Sound(res[t])'
    BY <2>2 DEF Evidence, Sound
  <2>5. QED
    BY <2>1, <2>2, <2>3, <2>4 DEF Evidence
<1>9. CASE Requeue
  <2>1. cur \in Trial /\ mem \in Manifest
    BY <1>9 DEF Requeue
  <2>2. /\ mem'.state[cur] = "pending"
        /\ \A u \in Trial : u # cur => mem'.state[u] = mem.state[u]
    BY <1>9, <2>1, UpdateEffect DEF Requeue, TrialState
  <2>3. QED
    BY <1>9, <2>1, <2>2 DEF Requeue, Evidence, Backed, Sound, Verified, Terminal, directory
<1>10. CASE MarkRunning
  <2>1. cur \in Trial /\ mem \in Manifest
    BY <1>10 DEF MarkRunning
  <2>2. /\ mem'.state[cur] = "running"
        /\ \A u \in Trial : u # cur => mem'.state[u] = mem.state[u]
    BY <1>10, <2>1, UpdateEffect DEF MarkRunning, TrialState
  <2>3. QED
    BY <1>10, <2>1, <2>2 DEF MarkRunning, Evidence, Backed, Sound, Verified, Terminal,
       directory
<1>11. CASE Park
  <2>1. cur \in Trial /\ mem \in Manifest
    BY <1>11 DEF Park
  <2>2. /\ mem'.state[cur] = "pending"
        /\ \A u \in Trial : u # cur => mem'.state[u] = mem.state[u]
    BY <1>11, <2>1, UpdateEffect DEF Park, TrialState
  <2>3. QED
    BY <1>11, <2>1, <2>2 DEF Park, Evidence, Backed, Sound, Verified, Terminal, directory
<1>12. CASE Choose
  BY <1>12 DEF Choose, directory, memory, Evidence, Backed, Sound, Verified
<1>13. CASE LoopEnds
  BY <1>13 DEF LoopEnds, directory, memory, Evidence, Backed, Sound, Verified
<1>14. CASE KeepArtifacts
  <2>1. /\ cur \in Trial /\ mem.state[cur] \notin Terminal
        /\ disk.state[cur] \notin Terminal
    BY <1>14, CurIsOpen DEF KeepArtifacts, Terminal
  <2>2. /\ \A t \in Trial : t # cur => res'[t] = res[t] /\ raw'[t] = raw[t]
              /\ art'[t] = art[t]
        /\ res'[cur] \in {res[cur], None} /\ UNCHANGED <<mem, disk>>
    BY <1>14, <2>1 DEF KeepArtifacts
  <2>3. ASSUME NEW t \in Trial, t # cur
        PROVE  /\ Backed(disk, t) => Backed(disk, t)'
               /\ Backed(mem, t) => Backed(mem, t)'
    BY <2>2, <2>3 DEF Backed, Sound, Verified
  <2>4. \A t \in Trial : res[t]' # None => Sound(res[t])'
    BY <2>2 DEF Evidence, Sound
  <2>5. QED
    BY <2>1, <2>2, <2>3, <2>4 DEF Evidence
<1>15. CASE Quarantine
  <2>1. /\ cur \in Trial /\ mem.state[cur] \notin Terminal
        /\ disk.state[cur] \notin Terminal
    BY <1>15, CurIsOpen DEF Quarantine, Terminal
  <2>2. /\ \A t \in Trial : t # cur => res'[t] = res[t] /\ raw'[t] = raw[t]
              /\ art'[t] = art[t]
        /\ res'[cur] \in {res[cur], None} /\ UNCHANGED <<mem, disk>>
    BY <1>15, <2>1 DEF Quarantine
  <2>3. ASSUME NEW t \in Trial, t # cur
        PROVE  /\ Backed(disk, t) => Backed(disk, t)'
               /\ Backed(mem, t) => Backed(mem, t)'
    BY <2>2, <2>3 DEF Backed, Sound, Verified
  <2>4. \A t \in Trial : res[t]' # None => Sound(res[t])'
    BY <2>2 DEF Evidence, Sound
  <2>5. QED
    BY <2>1, <2>2, <2>3, <2>4 DEF Evidence
<1>16. CASE Classify
  BY <1>16 DEF Classify, directory, memory, Evidence, Backed, Sound, Verified
<1>17. CASE Misfire
  BY <1>17 DEF Misfire, directory, memory, Evidence, Backed, Sound, Verified
<1>18. CASE WriteResult
  <2>1. /\ cur \in Trial /\ mem \in Manifest /\ mem.state[cur] \notin Terminal
        /\ disk.state[cur] \notin Terminal
    BY <1>18, CurIsOpen DEF WriteResult, Terminal
  <2>2. /\ \A t \in Trial : t # cur => res'[t] = res[t]
        /\ res'[cur] = out /\ UNCHANGED <<raw, art, disk>>
    BY <1>18, <2>1, PutEffect DEF WriteResult
  <2>3. /\ Sound(out) /\ (out.usable => Verified(cur, out)) /\ out \in Result
    BY <1>18 DEF WriteResult, Execution
  <2>4. /\ mem'.state[cur] = out.state
        /\ \A u \in Trial : u # cur => mem'.state[u] = mem.state[u]
    BY <1>18, <2>1, <2>3, UpdateEffect DEF WriteResult, Result, Terminal, TrialState
  <2>5. Backed(mem, cur)'
    <3>1. Verified(cur, res[cur])' <=> Verified(cur, out)
      BY <1>18, <2>2 DEF Verified, WriteResult
    <3>2. Sound(res[cur])'
      BY <1>18, <2>2, <2>3 DEF Sound, WriteResult
    <3>3. QED
      BY <1>18, <2>2, <2>3, <2>4, <3>1, <3>2 DEF Backed, WriteResult
  <2>6. ASSUME NEW t \in Trial, t # cur
        PROVE  /\ Backed(disk, t) => Backed(disk, t)'
               /\ Backed(mem, t) => Backed(mem, t)'
    BY <2>2, <2>4, <2>6 DEF Backed, Sound, Verified
  <2>7. \A t \in Trial : res[t]' # None => Sound(res[t])'
    BY <2>2, <2>3 DEF Evidence, Sound
  <2>8. ASSUME NEW t \in Trial, disk' # None, disk'.state[t] \in Terminal
        PROVE  Backed(disk, t)'
    BY <2>1, <2>2, <2>6, <2>8 DEF Evidence
  <2>9. ASSUME NEW t \in Trial, mem'.state[t] \in Terminal
        PROVE  Backed(mem, t)'
    <3>1. CASE t = cur
      <4>1. cur' = cur
        BY <1>18 DEF WriteResult
      <4>2. QED
        BY <2>5, <3>1, <4>1
    <3>2. CASE t # cur
      <4>1. mem # None /\ mem.state[t] \in Terminal
        BY <2>1, <2>4, <2>9, <3>2
      <4>2. Backed(mem, t)
        BY <4>1 DEF Evidence
      <4>3. QED
        BY <2>6, <3>2, <4>2
    <3>3. QED
      BY <3>1, <3>2
  <2>10. QED
    BY <2>7, <2>8, <2>9 DEF Evidence
<1>19. CASE Save
  <2>1. disk' = mem /\ UNCHANGED <<res, raw, art>> /\ mem' \in {mem, None}
    BY <1>19, PutEffect DEF Save, Stop
  <2>2. \A t \in Trial : mem.state[t] \in Terminal => Backed(mem, t)
    BY <1>19, Saveable DEF Save
  <2>3. QED
    BY <2>1, <2>2 DEF Evidence, Backed, Sound, Verified
<1>20. CASE Verify
  BY <1>20 DEF Verify, directory, memory, Evidence, Backed, Sound, Verified
<1>21. CASE VerifyFails
  BY <1>21 DEF VerifyFails, Stop, directory, memory, Evidence, Backed, Sound, Verified
<1>22. CASE WriteReport
  <2>1. UNCHANGED <<disk, res, raw, art, mem>>
    BY <1>22, PutEffect DEF WriteReport
  <2>2. QED
    BY <2>1 DEF Evidence, Backed, Sound, Verified
<1>23. CASE WriteSummary
  <2>1. UNCHANGED <<disk, res, raw, art>> /\ mem \in Manifest
    BY <1>23, PutEffect DEF WriteSummary
  <2>2. mem'.state = mem.state
    BY <1>23, <2>1 DEF WriteSummary, Manifest
  <2>3. QED
    BY <2>1, <2>2 DEF Evidence, Backed, Sound, Verified
<1>24. CASE ClearFails
  <2>1. mem' = None \/ mem' = mem
    <3>1. CASE Stop
      BY <3>1 DEF Stop
    <3>2. CASE pc = "rerunClear" /\ Update(cur, "pending")
      <4>1. cur \in Trial /\ mem \in Manifest /\ mem.state[cur] = "pending"
        BY <3>2 DEF Memory
      <4>2. QED
        BY <3>2, <4>1 DEF Update, Manifest
    <3>3. QED
      BY <1>24, <3>1, <3>2 DEF ClearFails
  <2>2. UNCHANGED <<disk, res, raw, art>>
    BY <1>24 DEF ClearFails, directory
  <2>3. QED
    BY <2>1, <2>2 DEF Evidence, Backed, Sound, Verified
<1>25. CASE WriteFails
  <2>1. mem' \in {mem, None} /\ UNCHANGED <<raw, art>>
    BY <1>25 DEF WriteFails, Stop
  <2>2. CASE UNCHANGED <<disk, res, report, summary>>
    BY <2>1, <2>2 DEF Evidence, Backed, Sound, Verified
  <2>3. CASE Put(Pending) /\ pc \in Saving
    <3>1. disk' = mem /\ res' = res
      BY <2>3, PutEffect
    <3>2. \A t \in Trial : mem.state[t] \in Terminal => Backed(mem, t)
      BY <2>3, Saveable
    <3>3. QED
      BY <2>1, <3>1, <3>2 DEF Evidence, Backed, Sound, Verified
  <2>4. CASE Put(Pending) /\ pc = "writing"
    <3>1. /\ cur \in Trial /\ mem.state[cur] \notin Terminal
          /\ disk.state[cur] \notin Terminal
      BY <2>4, CurIsOpen DEF Terminal
    <3>2. /\ \A t \in Trial : t # cur => res'[t] = res[t]
          /\ res'[cur] = out /\ disk' = disk
      BY <2>4, <3>1, PutEffect
    <3>3. Sound(out)
      BY <2>4 DEF Execution
    <3>4. \A t \in Trial : res'[t] # None => Sound(res'[t])
      BY <3>2, <3>3 DEF Evidence
    <3>5. ASSUME NEW t \in Trial, disk' # None, disk'.state[t] \in Terminal
          PROVE  Backed(disk, t)'
      BY <2>1, <3>1, <3>2, <3>5 DEF Evidence, Backed, Sound, Verified
    <3>6. ASSUME NEW t \in Trial, mem' # None, mem'.state[t] \in Terminal
          PROVE  Backed(mem, t)'
      BY <2>1, <3>1, <3>2, <3>6 DEF Evidence, Backed, Sound, Verified
    <3>7. QED
      BY <3>4, <3>5, <3>6 DEF Evidence
  <2>5. CASE Put(Pending) /\ pc \in {"reporting", "summarizing"}
    <3>1. UNCHANGED <<disk, res>>
      BY <2>5, PutEffect
    <3>2. QED
      BY <2>1, <3>1 DEF Evidence, Backed, Sound, Verified
  <2>6. QED
    BY <1>25, <2>2, <2>3, <2>4, <2>5 DEF WriteFails
<1>26. CASE Crash
  BY <1>26 DEF Crash, Stop, directory, memory, Evidence, Backed, Sound, Verified
<1>27. CASE OrphanRenames
  BY <1>27 DEF OrphanRenames
<1>28. CASE Rest
  BY <1>28 DEF Rest, vars, directory, memory, Evidence, Backed, Sound, Verified
<1>29. CASE UNCHANGED vars
  BY <1>29 DEF vars, directory, memory, Evidence, Backed, Sound, Verified
<1>30. QED
  BY <1>1, <1>2, <1>3, <1>4, <1>5, <1>6, <1>7, <1>8, <1>9, <1>10, <1>11, <1>12, <1>13,
     <1>14, <1>15, <1>16, <1>17, <1>18, <1>19, <1>20, <1>21, <1>22, <1>23, <1>24, <1>25,
          <1>26, <1>27, <1>28, <1>29 DEF Next, Progress

\* Between the clearing of a trial and its result each kind of evidence is written
\* once, by this run, whatever is renamed meanwhile.
LEMMA ExecutionStep ==
  ASSUME CInv, Execution, CInv', [Next]_vars
  PROVE  Execution'
<1> USE CampaignAssumption, NoneAssumption DEF CInv, TypeOK, Control, Location, Writing,
       Saving, Clearing, Busy, AtRunning, AtPending
<1>1. CASE Start
  BY <1>1 DEF Start, directory, memory, Execution
<1>2. CASE Load
  BY <1>2 DEF Load, Stop, directory, memory, Execution
<1>3. CASE Create
  BY <1>3 DEF Create, directory, memory, Execution
<1>4. CASE Refuse
  BY <1>4 DEF Refuse, Stop, directory, memory, Execution
<1>5. CASE Adopt
  BY <1>5 DEF Adopt, directory, memory, Execution
<1>6. CASE Recover
  BY <1>6 DEF Recover, directory, memory, Execution
<1>7. CASE Recovered
  BY <1>7 DEF Recovered, directory, memory, Execution
<1>8. CASE ClearKind
  <2>1. cur \in Trial
    BY <1>8 DEF ClearKind
  <2>2. CASE todo = Kinds
    BY <1>8, <2>1, <2>2, Queues DEF ClearKind, Execution
  <2>3. CASE todo = <<"raw", "artifacts">>
    BY <1>8, <2>1, <2>3, Queues DEF ClearKind, Execution
  <2>4. CASE todo = <<"artifacts">>
    BY <1>8, <2>1, <2>4, Queues DEF ClearKind, Execution
  <2>5. QED
    BY <1>8, <2>2, <2>3, <2>4 DEF ClearKind
<1>9. CASE Requeue
  BY <1>9 DEF Requeue, directory, memory, Execution
<1>10. CASE MarkRunning
  BY <1>10 DEF MarkRunning, directory, memory, Execution
<1>11. CASE Park
  BY <1>11 DEF Park, directory, memory, Execution
<1>12. CASE Choose
  BY <1>12, Queues DEF Choose, directory, memory, Execution
<1>13. CASE LoopEnds
  BY <1>13 DEF LoopEnds, directory, memory, Execution
<1>14. CASE KeepArtifacts
  <2>1. cur \in Trial
    BY <1>14 DEF KeepArtifacts
  <2>2. raw'[cur] = {} /\ art'[cur] = {runs}
    BY <1>14, <2>1 DEF KeepArtifacts, Execution
  <2>3. QED
    BY <1>14, <2>2 DEF KeepArtifacts, Execution
<1>15. CASE Quarantine
  <2>1. cur \in Trial
    BY <1>15 DEF Quarantine
  <2>2. raw'[cur] = {runs} /\ art'[cur] = {runs}
    BY <1>15, <2>1 DEF Quarantine, Execution
  <2>3. QED
    BY <1>15, <2>2 DEF Quarantine, Execution
<1>16. CASE Classify
  <2>1. raw[cur] = {runs} /\ art[cur] = {runs}
    BY <1>16 DEF Classify, Execution
  <2>2. out'.run = runs /\ out'.raw = raw[cur] /\ out'.art = art[cur] /\ out' # None
    BY <1>16 DEF Classify
  <2>3. Sound(out)' /\ (out'.usable => Verified(cur, out)')
    BY <1>16, <2>1, <2>2 DEF Classify, Sound, Verified, directory
  <2>4. QED
    BY <1>16, <2>3 DEF Classify, Execution
<1>17. CASE Misfire
  <2>1. out' # None /\ ~out'.usable
    BY <1>17 DEF Misfire
  <2>2. QED
    BY <1>17, <2>1 DEF Misfire, Execution, Sound
<1>18. CASE WriteResult
  BY <1>18 DEF WriteResult, directory, memory, Execution
<1>19. CASE Save
  BY <1>19 DEF Save, AfterSave, Stop, directory, memory, Execution
<1>20. CASE Verify
  BY <1>20 DEF Verify, directory, memory, Execution
<1>21. CASE VerifyFails
  BY <1>21 DEF VerifyFails, Stop, directory, memory, Execution
<1>22. CASE WriteReport
  BY <1>22 DEF WriteReport, directory, memory, Execution
<1>23. CASE WriteSummary
  BY <1>23 DEF WriteSummary, directory, memory, Execution
<1>24. CASE ClearFails
  BY <1>24 DEF ClearFails, Stop, directory, memory, Execution
<1>25. CASE WriteFails
  BY <1>25 DEF WriteFails, Stop, directory, memory, Execution
<1>26. CASE Crash
  BY <1>26 DEF Crash, Stop, directory, memory, Execution
<1>27. CASE OrphanRenames
  BY <1>27 DEF OrphanRenames, directory, memory, Execution, Verified
<1>28. CASE Rest
  BY <1>28 DEF Rest, vars, directory, memory, Execution
<1>29. CASE UNCHANGED vars
  BY <1>29 DEF vars, directory, memory, Execution, Sound, Verified
<1>30. QED
  BY <1>1, <1>2, <1>3, <1>4, <1>5, <1>6, <1>7, <1>8, <1>9, <1>10, <1>11, <1>12, <1>13,
     <1>14, <1>15, <1>16, <1>17, <1>18, <1>19, <1>20, <1>21, <1>22, <1>23, <1>24, <1>25,
          <1>26, <1>27, <1>28, <1>29 DEF Next, Progress

\* What was verified is what is written, in both files.
LEMMA ReportsStep ==
  ASSUME IInv, ~overtaken', CInv', [Next]_vars
  PROVE  Reports'
<1> USE CampaignAssumption, NoneAssumption DEF IInv, CInv, TypeOK, Control, Location,
       Writing, Saving, Clearing, Busy, AtRunning, AtPending
<1>1. CASE Start
  BY <1>1 DEF Start, directory, memory, Reports
<1>2. CASE Load
  BY <1>2 DEF Load, Stop, directory, memory, Reports
<1>3. CASE Create
  BY <1>3 DEF Create, directory, memory, Reports
<1>4. CASE Refuse
  BY <1>4 DEF Refuse, Stop, directory, memory, Reports
<1>5. CASE Adopt
  BY <1>5 DEF Adopt, directory, memory, Reports
<1>6. CASE Recover
  BY <1>6 DEF Recover, directory, memory, Reports
<1>7. CASE Recovered
  BY <1>7 DEF Recovered, directory, memory, Reports
<1>8. CASE ClearKind
  BY <1>8 DEF ClearKind, directory, memory, Reports
<1>9. CASE Requeue
  BY <1>9 DEF Requeue, directory, memory, Reports
<1>10. CASE MarkRunning
  BY <1>10 DEF MarkRunning, directory, memory, Reports
<1>11. CASE Park
  BY <1>11 DEF Park, directory, memory, Reports
<1>12. CASE Choose
  BY <1>12 DEF Choose, directory, memory, Reports
<1>13. CASE LoopEnds
  BY <1>13 DEF LoopEnds, directory, memory, Reports
<1>14. CASE KeepArtifacts
  BY <1>14 DEF KeepArtifacts, directory, memory, Reports
<1>15. CASE Quarantine
  BY <1>15 DEF Quarantine, directory, memory, Reports
<1>16. CASE Classify
  BY <1>16 DEF Classify, directory, memory, Reports
<1>17. CASE Misfire
  BY <1>17 DEF Misfire, directory, memory, Reports
<1>18. CASE WriteResult
  BY <1>18 DEF WriteResult, directory, memory, Reports
<1>19. CASE Save
  BY <1>19 DEF Save, AfterSave, Stop, directory, memory, Reports
<1>20. CASE Verify
  BY <1>20 DEF Verify, directory, memory, Reports, AllVerified, Reported, InState, Verified
<1>21. CASE VerifyFails
  BY <1>21 DEF VerifyFails, Stop, directory, memory, Reports
<1>22. CASE WriteReport
  <2>1. report' = checked /\ UNCHANGED <<disk, res, summary>>
    BY <1>22, PutEffect DEF WriteReport
  <2>2. AllVerified(mem)' /\ Reported(mem)' = Reported(mem)
    BY <1>22, <2>1 DEF WriteReport, Reports, AllVerified, Reported, InState, Verified
  <2>3. QED
    BY <1>22, <2>1, <2>2 DEF WriteReport, Reports
<1>23. CASE WriteSummary
  <2>1. summary' = checked /\ UNCHANGED <<disk, res, report>> /\ mem \in Manifest
    BY <1>23, PutEffect DEF WriteSummary
  <2>2. mem'.state = mem.state
    BY <1>23, <2>1 DEF WriteSummary, Manifest
  <2>3. AllVerified(mem)' /\ Reported(mem)' = Reported(mem)
    BY <1>23, <2>1, <2>2 DEF WriteSummary, Reports, AllVerified, Reported, InState, Verified
  <2>4. ASSUME mem'.status = "completed", NEW t \in Trial
        PROVE  mem'.state[t] \in Terminal
    <3>1. InState(mem, {"pending"}) = {}
      BY <1>23, <2>1, <2>4 DEF WriteSummary, Manifest
    <3>2. mem.state[t] # "pending" /\ mem.state[t] # "running"
      BY <1>23, <2>1, <3>1 DEF InState, WriteSummary, Memory
    <3>3. mem.state[t] \in TrialState
      BY <2>1 DEF Manifest
    <3>4. QED
      BY <2>2, <3>2, <3>3 DEF TrialState, Terminal
  <2>5. ASSUME \A t \in Trial : mem'.state[t] \in Terminal
        PROVE  mem'.status = "completed"
    <3>1. InState(mem, {"pending"}) = {}
      BY <2>2, <2>5 DEF InState, Terminal
    <3>2. QED
      BY <1>23, <2>1, <3>1 DEF WriteSummary, Manifest
  <2>6. QED
    BY <1>23, <2>1, <2>3, <2>4, <2>5 DEF WriteSummary, Reports
<1>24. CASE ClearFails
  BY <1>24 DEF ClearFails, Stop, directory, memory, Reports
<1>25. CASE WriteFails
  BY <1>25 DEF WriteFails, Stop, directory, memory, Reports
<1>26. CASE Crash
  BY <1>26 DEF Crash, Stop, directory, memory, Reports
<1>27. CASE OrphanRenames
  BY <1>27 DEF OrphanRenames
<1>28. CASE Rest
  BY <1>28 DEF Rest, vars, directory, memory, Reports
<1>29. CASE UNCHANGED vars
  BY <1>29 DEF vars, directory, memory, Reports, AllVerified, Reported, InState, Verified
<1>30. QED
  BY <1>1, <1>2, <1>3, <1>4, <1>5, <1>6, <1>7, <1>8, <1>9, <1>10, <1>11, <1>12, <1>13,
     <1>14, <1>15, <1>16, <1>17, <1>18, <1>19, <1>20, <1>21, <1>22, <1>23, <1>24, <1>25,
          <1>26, <1>27, <1>28, <1>29 DEF Next, Progress

\* A completed campaign is reported before it is saved as such, and a later run
\* reports the same again.
LEMMA CompletedStep ==
  ASSUME IInv, ~overtaken', CInv', [Next]_vars
  PROVE  CompletedIsReported'
<1> USE CampaignAssumption, NoneAssumption DEF IInv, CInv, TypeOK, Control, Location,
       Writing, Saving, Clearing, Busy, AtRunning, AtPending
<1>1. CASE Start
  BY <1>1 DEF Start, directory, memory, CompletedIsReported, Verified
<1>2. CASE Load
  BY <1>2 DEF Load, Stop, directory, memory, CompletedIsReported, Verified
<1>3. CASE Create
  BY <1>3 DEF Create, directory, memory, CompletedIsReported, Verified
<1>4. CASE Refuse
  BY <1>4 DEF Refuse, Stop, directory, memory, CompletedIsReported, Verified
<1>5. CASE Adopt
  BY <1>5 DEF Adopt, directory, memory, CompletedIsReported, Verified
<1>6. CASE Recover
  BY <1>6 DEF Recover, directory, memory, CompletedIsReported, Verified
<1>7. CASE Recovered
  BY <1>7 DEF Recovered, directory, memory, CompletedIsReported, Verified
<1>8. CASE ClearKind
  <2>1. cur \in Trial /\ disk.state[cur] \notin Terminal
    BY <1>8, CurIsOpen DEF ClearKind, Terminal
  <2>2. disk.status # "completed" /\ disk # None
    BY <1>8, <2>1, CurIsOpen DEF ClearKind, CompletedIsReported
  <2>3. disk' = disk
    BY <1>8 DEF ClearKind
  <2>4. QED
    BY <2>2, <2>3 DEF CompletedIsReported
<1>9. CASE Requeue
  BY <1>9 DEF Requeue, directory, memory, CompletedIsReported, Verified
<1>10. CASE MarkRunning
  BY <1>10 DEF MarkRunning, directory, memory, CompletedIsReported, Verified
<1>11. CASE Park
  BY <1>11 DEF Park, directory, memory, CompletedIsReported, Verified
<1>12. CASE Choose
  BY <1>12 DEF Choose, directory, memory, CompletedIsReported, Verified
<1>13. CASE LoopEnds
  BY <1>13 DEF LoopEnds, directory, memory, CompletedIsReported, Verified
<1>14. CASE KeepArtifacts
  <2>1. cur \in Trial /\ disk.state[cur] \notin Terminal
    BY <1>14, CurIsOpen DEF KeepArtifacts, Terminal
  <2>2. disk.status # "completed" /\ disk # None
    BY <1>14, <2>1, CurIsOpen DEF KeepArtifacts, CompletedIsReported
  <2>3. disk' = disk
    BY <1>14 DEF KeepArtifacts
  <2>4. QED
    BY <2>2, <2>3 DEF CompletedIsReported
<1>15. CASE Quarantine
  <2>1. cur \in Trial /\ disk.state[cur] \notin Terminal
    BY <1>15, CurIsOpen DEF Quarantine, Terminal
  <2>2. disk.status # "completed" /\ disk # None
    BY <1>15, <2>1, CurIsOpen DEF Quarantine, CompletedIsReported
  <2>3. disk' = disk
    BY <1>15 DEF Quarantine
  <2>4. QED
    BY <2>2, <2>3 DEF CompletedIsReported
<1>16. CASE Classify
  BY <1>16 DEF Classify, directory, memory, CompletedIsReported, Verified
<1>17. CASE Misfire
  BY <1>17 DEF Misfire, directory, memory, CompletedIsReported, Verified
<1>18. CASE WriteResult
  <2>1. cur \in Trial /\ disk.state[cur] \notin Terminal
    BY <1>18, CurIsOpen DEF WriteResult, Terminal
  <2>2. disk.status # "completed" /\ disk # None
    BY <1>18, <2>1, CurIsOpen DEF WriteResult, CompletedIsReported
  <2>3. disk' = disk
    BY <1>18, PutEffect DEF WriteResult
  <2>4. QED
    BY <2>2, <2>3 DEF CompletedIsReported
<1>19. CASE Save
  <2>1. disk' = mem /\ UNCHANGED <<res, raw, art, report, summary>>
    BY <1>19, PutEffect DEF Save
  <2>2. QED
    BY <1>19, <2>1, Saveable DEF Save, CompletedIsReported, Verified
<1>20. CASE Verify
  BY <1>20 DEF Verify, directory, memory, CompletedIsReported, Verified
<1>21. CASE VerifyFails
  BY <1>21 DEF VerifyFails, Stop, directory, memory, CompletedIsReported, Verified
<1>22. CASE WriteReport
  <2>1. pc \in {"reporting", "summarizing"}
    BY <1>22 DEF WriteReport
  <2>2. report' = checked /\ UNCHANGED <<disk, res, summary, raw, art>>
    BY <1>22, PutEffect DEF WriteReport
  <2>3. CASE disk # None /\ disk.status = "completed"
    <3>1. checked = report
      BY <2>1, <2>3, SameReport
    <3>2. QED
      BY <2>2, <3>1 DEF CompletedIsReported, Verified
  <2>4. QED
    BY <2>2, <2>3 DEF CompletedIsReported
<1>23. CASE WriteSummary
  <2>1. pc \in {"reporting", "summarizing"}
    BY <1>23 DEF WriteSummary
  <2>2. summary' = checked /\ UNCHANGED <<disk, res, report, raw, art>>
    BY <1>23, PutEffect DEF WriteSummary
  <2>3. CASE disk # None /\ disk.status = "completed"
    <3>1. checked = report
      BY <2>1, <2>3, SameReport
    <3>2. QED
      BY <2>2, <3>1 DEF CompletedIsReported, Verified
  <2>4. QED
    BY <2>2, <2>3 DEF CompletedIsReported
<1>24. CASE ClearFails
  BY <1>24 DEF ClearFails, Stop, directory, memory, CompletedIsReported, Verified
<1>25. CASE WriteFails
  <2>1. UNCHANGED <<raw, art>>
    BY <1>25 DEF WriteFails
  <2>2. CASE UNCHANGED <<disk, res, report, summary>>
    BY <2>1, <2>2 DEF CompletedIsReported, Verified
  <2>3. CASE Put(Pending) /\ pc \in Saving
    <3>1. disk' = mem /\ UNCHANGED <<res, report, summary>>
      BY <2>3, PutEffect
    <3>2. QED
      BY <2>1, <2>3, <3>1, Saveable DEF CompletedIsReported, Verified
  <2>4. CASE Put(Pending) /\ pc = "writing"
    <3>1. cur \in Trial /\ disk # None /\ disk.state[cur] \notin Terminal
      BY <2>4, CurIsOpen DEF Terminal
    <3>2. disk.status # "completed" /\ disk' = disk
      BY <2>4, <3>1, PutEffect DEF CompletedIsReported
    <3>3. QED
      BY <3>2 DEF CompletedIsReported
  <2>5. CASE Put(Pending) /\ pc \in {"reporting", "summarizing"}
    <3>1. /\ UNCHANGED <<disk, res>>
          /\ report' \in {report, checked} /\ summary' \in {summary, checked}
      BY <2>5, PutEffect
    <3>2. CASE disk # None /\ disk.status = "completed"
      <4>1. checked = report
        BY <2>5, <3>2, SameReport
      <4>2. QED
        BY <2>1, <3>1, <3>2, <4>1 DEF CompletedIsReported, Verified
    <3>3. QED
      BY <3>1, <3>2 DEF CompletedIsReported
  <2>6. QED
    BY <1>25, <2>2, <2>3, <2>4, <2>5 DEF WriteFails
<1>26. CASE Crash
  BY <1>26 DEF Crash, Stop, directory, memory, CompletedIsReported, Verified
<1>27. CASE OrphanRenames
  BY <1>27 DEF OrphanRenames
<1>28. CASE Rest
  BY <1>28 DEF Rest, vars, directory, memory, CompletedIsReported, Verified
<1>29. CASE UNCHANGED vars
  BY <1>29 DEF vars, directory, memory, CompletedIsReported, Verified
<1>30. QED
  BY <1>1, <1>2, <1>3, <1>4, <1>5, <1>6, <1>7, <1>8, <1>9, <1>10, <1>11, <1>12, <1>13,
     <1>14, <1>15, <1>16, <1>17, <1>18, <1>19, <1>20, <1>21, <1>22, <1>23, <1>24, <1>25,
          <1>26, <1>27, <1>28, <1>29 DEF Next, Progress

-----------------------------------------------------------------------------
(* The theorems *)

LEMMA InitIInv == Init => IInv
<1> SUFFICES ASSUME Init PROVE IInv
  OBVIOUS
<1> USE CampaignAssumption, NoneAssumption DEF Init
<1>1. TypeOK
  <2>1. 0 \in 0 .. MaxRuns /\ 0 \in 0 .. NTrials
    BY SMT
  <2>2. todo \in Seq(Kind) /\ Len(todo) <= 3
    BY Queues
  <2>3. pc \in Location
    BY DEF Location
  <2>4. QED
    BY <2>1, <2>2, <2>3 DEF TypeOK
<1>2. Control /\ Memory
  BY Queues DEF Control, Memory, Busy, AtRunning, AtPending
<1>3. Quiet /\ Sync /\ OneRunning /\ Evidence /\ Execution /\ Reports /\ CompletedIsReported
  BY DEF Quiet, Sync, OneRunning, Evidence, Execution, Reports, CompletedIsReported
<1>4. QED
  BY <1>1, <1>2, <1>3 DEF IInv, CInv

\* A rename for a dead run is not forgotten, and needs a helper that outlives it.
LEMMA LateStays ==
  ASSUME [Next]_vars, overtaken
  PROVE  overtaken'
BY DEF Next, Progress, Start, Load, Create, Refuse, Adopt, Recover, Recovered, ClearKind,
  Requeue, MarkRunning, Park, Choose, LoopEnds, KeepArtifacts, Quarantine, Classify,
  Misfire,
  WriteResult, Save, Verify, VerifyFails, WriteReport, WriteSummary, ClearFails, WriteFails,
  Crash, OrphanRenames, Rest, vars, directory

LEMMA NeverLate ==
  ASSUME IInv, ~Orphans, [Next]_vars
  PROVE  ~overtaken'
BY DEF IInv, Quiet, Next, Progress, Start, Load, Create, Refuse, Adopt, Recover, Recovered,
  ClearKind, Requeue, MarkRunning, Park, Choose, LoopEnds, KeepArtifacts, Quarantine,
  Classify, Misfire, WriteResult, Save, Verify, VerifyFails, WriteReport, WriteSummary,
  ClearFails, WriteFails, Crash, OrphanRenames, Rest, vars, directory

LEMMA IInvStep ==
  ASSUME IInv, ~overtaken', [Next]_vars
  PROVE  IInv'
<1>1. CInv'
  BY CInvStep DEF IInv
<1>2. Quiet'
  BY DEF IInv, Quiet, Next, Progress, Start, Load, Create, Refuse, Adopt, Recover,
     Recovered,
         ClearKind, Requeue, MarkRunning, Park, Choose, LoopEnds, KeepArtifacts, Quarantine,
         Classify, Misfire, WriteResult, Save, Verify, VerifyFails, WriteReport,
            WriteSummary,
         ClearFails, WriteFails, Crash, OrphanRenames, Rest, vars, directory
<1>3. QED
  BY <1>1, <1>2, SyncStep, OneRunningStep, EvidenceStep, ExecutionStep, ReportsStep,
     CompletedStep DEF IInv

LEMMA StampsStep ==
  ASSUME EInv, [Next]_vars
  PROVE  Stamps'
<1> USE NoneAssumption DEF EInv, CInv, TypeOK
<1>1. ASSUME NEW t \in Trial, res'[t] # None
      PROVE  Sound(res'[t])
  <2>1. CASE res'[t] = res[t]
    BY <1>1, <2>1 DEF Stamps
  <2>2. CASE ClearKind /\ res'[t] # res[t]
    <3>1. cur \in Trial
      BY <2>2 DEF ClearKind, Control, Clearing, Busy, AtRunning, AtPending
    <3>2. QED
      BY <1>1, <2>2, <3>1 DEF ClearKind
  <2>3. CASE Put(Pending) /\ res'[t] # res[t] /\ pc \in Writing
    <3>1. pc = "writing" /\ res' = [res EXCEPT ![cur] = out]
      BY <2>3, PutEffect DEF Writing
    <3>2. Sound(out)
      BY <3>1 DEF Execution
    <3>3. QED
      BY <2>3, <3>1, <3>2
  <2>4. CASE OrphanRenames /\ res'[t] # res[t]
    <3>1. late.file = "result" /\ res' = [res EXCEPT ![late.trial] = late.body]
      BY <2>4 DEF OrphanRenames, Put
    <3>2. Sound(late.body)
      BY <2>4, <3>1 DEF OrphanRenames, Stamps
    <3>3. QED
      BY <2>4, <3>1, <3>2
  <2>5. QED
    BY <2>1, <2>2, <2>3, <2>4 DEF Next, Progress, Start, Load, Create, Refuse, Adopt,
       Recover,
       Recovered, Requeue, MarkRunning, Park, Choose, LoopEnds, KeepArtifacts, Quarantine,
       Classify, Misfire, WriteResult, Save, Verify, VerifyFails, WriteReport, WriteSummary,
       ClearFails, WriteFails, Crash, Rest, vars, directory, Writing
<1>2. ASSUME late' # None, late'.file = "result"
      PROVE  Sound(late'.body)
  <2>1. CASE late' = late
    BY <1>2, <2>1 DEF Stamps
  <2>2. CASE Crash /\ late' # late
    <3>1. pc \in Writing /\ late' = Pending
      BY <2>2 DEF Crash
    <3>2. pc = "writing" /\ late'.body = out
      BY <1>2, <3>1 DEF Pending, Writing, Saving
    <3>3. QED
      BY <3>2 DEF Execution
  <2>3. QED
    BY <1>2, <2>1, <2>2 DEF Next, Progress, Start, Load, Create, Refuse, Adopt, Recover,
       Recovered, ClearKind, Requeue, MarkRunning, Park, Choose, LoopEnds, KeepArtifacts,
       Quarantine, Classify, Misfire, WriteResult, Save, Verify, VerifyFails, WriteReport,
       WriteSummary, ClearFails, WriteFails, OrphanRenames, Rest, vars, directory
<1>3. ASSUME pc' = "reporting", NEW t \in Trial, checked'[t] # 0
      PROVE  raw'[t] = {checked'[t]} /\ art'[t] = {checked'[t]}
  <2>1. CASE Verify
    <3>1. /\ AllVerified(mem) /\ checked' = Reported(mem)
          /\ UNCHANGED <<raw, art>>
      BY <2>1 DEF Verify, directory
    <3>2. t \in InState(mem, Terminal) /\ checked'[t] = res[t].run
      BY <1>3, <3>1 DEF Reported
    <3>3. Verified(t, res[t])
      BY <3>1, <3>2 DEF AllVerified
    <3>4. Sound(res[t])
      BY <3>3 DEF Verified, Stamps
    <3>5. QED
      BY <3>1, <3>2, <3>3, <3>4 DEF Verified, Sound
  <2>2. CASE pc = "reporting" /\ UNCHANGED <<raw, art, checked>>
    BY <1>3, <2>2 DEF Stamps
  <2>3. QED
    BY <1>3, <2>1, <2>2 DEF Next, Progress, Start, Load, Create, Refuse, Adopt, Recover,
       Recovered, ClearKind, Requeue, MarkRunning, Park, Choose, LoopEnds, KeepArtifacts,
       Quarantine, Classify, Misfire, WriteResult, Save, AfterSave, VerifyFails,
       WriteReport, WriteSummary, ClearFails, WriteFails, Crash, OrphanRenames, Rest, Stop,
       Clearing, vars, directory, memory
<1>4. QED
  BY <1>1, <1>2, <1>3 DEF Stamps

\* What is written to report.json is of the executions whose evidence is on disk,
\* whatever fails, and whatever the helpers of dead runs rename (run.js 1545).
THEOREM ReportsAreOfEvidence == Spec => ReportMatchesEvidence
<1>1. Init => EInv
  <2>1. Init => CInv /\ Execution
    BY InitIInv DEF IInv
  <2>2. Init => Stamps
    BY DEF Init, Stamps
  <2>3. QED
    BY <2>1, <2>2 DEF EInv
<1>2. EInv /\ [Next]_vars => EInv'
  BY CInvStep, ExecutionStep, StampsStep DEF EInv
<1>3. EInv /\ [Next]_vars =>
        [WriteReport =>
           \A t \in Trial : report'[t] # 0 =>
             raw[t] = {report'[t]} /\ art[t] = {report'[t]}]_vars
  <2> SUFFICES ASSUME EInv, WriteReport
               PROVE  \A t \in Trial : report'[t] # 0 =>
                        raw[t] = {report'[t]} /\ art[t] = {report'[t]}
    OBVIOUS
  <2>1. pc = "reporting" /\ report' = checked
    BY PutEffect DEF WriteReport
  <2>2. QED
    BY <2>1 DEF EInv, Stamps
<1>4. QED
  BY <1>1, <1>2, <1>3, PTL DEF Spec, ReportMatchesEvidence

\* The types hold, whatever fails, and whatever the helpers of dead runs rename.
THEOREM TypeCorrect == Spec => []TypeOK
<1>1. Init => CInv
  BY InitIInv DEF IInv
<1>2. CInv /\ [Next]_vars => CInv'
  BY CInvStep
<1>3. CInv => TypeOK
  BY DEF CInv
<1>4. QED
  BY <1>1, <1>2, <1>3, PTL DEF Spec

\* updateTrial never throws (manifest.js 77): every step takes a trial from a state
\* to one it may take, even from a manifest that a late rename has put on disk.
THEOREM TransitionsAreLegal == Spec => LegalTransitions
<1>1. Init => CInv
  BY InitIInv DEF IInv
<1>2. CInv /\ [Next]_vars => CInv'
  BY CInvStep
<1>3. CInv /\ [Next]_vars =>
        [mem # None /\ mem' # None =>
           \A t \in Trial : MayBecome(mem.state[t], mem'.state[t])]_vars
  BY LegalStep
<1>4. QED
  BY <1>1, <1>2, <1>3, PTL DEF Spec, LegalTransitions

\* The invariant, until somebody renames a file for a run that is dead.
THEOREM InductiveUntilLate == Spec => [](overtaken \/ IInv)
<1>1. Init => IInv
  BY InitIInv
<1>2. (overtaken \/ IInv) /\ [Next]_vars => (overtaken \/ IInv)'
  BY LateStays, IInvStep
<1>3. QED
  BY <1>1, <1>2, PTL DEF Spec

\* The invariant, when no helper outlives its run.
THEOREM Inductive ==
  ASSUME ~Orphans
  PROVE  Spec => []IInv
<1>1. Init => IInv
  BY InitIInv
<1>2. IInv /\ [Next]_vars => IInv'
  BY NeverLate, IInvStep
<1>3. QED
  BY <1>1, <1>2, PTL DEF Spec

\* A trial that manifest.json calls finished has its result and whole evidence on
\* disk, whatever died or failed before (run.js 1376-1420).
THEOREM FinishedHasEvidence ==
  ASSUME ~Orphans
  PROVE  Spec => []TerminalHasEvidence
<1>1. IInv => TerminalHasEvidence
  <2> SUFFICES ASSUME IInv, disk # None, NEW t \in InState(disk, Terminal)
               PROVE  Whole(t) /\ res[t].state = disk.state[t]
                      /\ (res[t].usable => Verified(t, res[t]))
    BY DEF TerminalHasEvidence
  <2>1. Backed(disk, t)
    BY DEF IInv, Evidence, InState
  <2>2. QED
    BY <2>1 DEF Backed, Sound, Whole
<1>2. QED
  BY <1>1, Inductive, PTL

\* A completed campaign has everything in both of its reports, as it is on disk
\* (run.js 1545-1618).
THEOREM CompletedHasReport ==
  ASSUME ~Orphans
  PROVE  Spec => []CompletedIsReported
<1>1. IInv => CompletedIsReported
  BY DEF IInv
<1>2. QED
  BY <1>1, Inductive, PTL


-----------------------------------------------------------------------------
(* The directory as its reader sees it *)

\* What a step can do to the directory: touch the evidence of one unfinished trial,
\* or replace the manifest by the one in memory.
Touches ==
  /\ pc \in AtRunning \cup AtPending
  /\ disk' = disk
  /\ \A t \in Trial : t # cur => res'[t] = res[t] /\ raw'[t] = raw[t] /\ art'[t] = art[t]
Replaces == pc \in Saving /\ disk' = mem /\ UNCHANGED <<res, raw, art>>

LEMMA DirectoryStep ==
  ASSUME IInv, ~overtaken', [Next]_vars
  PROVE  Touches \/ Replaces \/ UNCHANGED <<disk, res, raw, art>>
<1> USE DEF Touches, Replaces, AtRunning, AtPending
<1>1. CASE ClearKind \/ KeepArtifacts \/ Quarantine
  <2>1. pc \in AtRunning \cup AtPending /\ disk' = disk
    BY <1>1 DEF ClearKind, KeepArtifacts, Quarantine, Clearing
  <2>2. cur \in Trial /\ res \in [Trial -> Result \cup {None}]
        /\ raw \in [Trial -> SUBSET Run] /\ art \in [Trial -> SUBSET Run]
    BY <2>1, CurIsOpen DEF IInv, CInv, TypeOK
  <2>3. QED
    BY <1>1, <2>1, <2>2 DEF ClearKind, KeepArtifacts, Quarantine
<1>2. CASE (WriteResult \/ Save \/ WriteReport \/ WriteSummary \/ WriteFails)
           /\ Put(Pending)
  <2>1. CASE pc = "writing"
    <3>1. cur \in Trial /\ res \in [Trial -> Result \cup {None}]
      BY <2>1, CurIsOpen DEF IInv, CInv, TypeOK
    <3>2. /\ res' = [res EXCEPT ![cur] = out] /\ disk' = disk
          /\ UNCHANGED <<raw, art>>
      BY <1>2, <2>1, PutEffect DEF WriteResult, Save, WriteReport, WriteSummary, WriteFails
    <3>3. QED
      BY <2>1, <3>1, <3>2
  <2>2. CASE pc \in Saving \cup {"reporting", "summarizing"}
    BY <1>2, <2>2, PutEffect DEF WriteResult, Save, WriteReport, WriteSummary, WriteFails
  <2>3. QED
    BY <1>2, <2>1, <2>2 DEF WriteResult, Save, WriteReport, WriteSummary, WriteFails,
       Writing
<1>3. CASE ~(ClearKind \/ KeepArtifacts \/ Quarantine)
           /\ ~((WriteResult \/ Save \/ WriteReport \/ WriteSummary \/ WriteFails)
                /\ Put(Pending))
  BY <1>3 DEF IInv, Quiet, Next, Progress, Start, Load, Create, Refuse, Adopt, Recover,
     Recovered, Requeue, MarkRunning, Park, Choose, LoopEnds, Classify, Misfire,
        WriteResult,
     Save, Verify, VerifyFails, WriteReport, WriteSummary, ClearFails, WriteFails, Crash,
     OrphanRenames, Rest, vars, directory
<1>4. QED
  BY <1>1, <1>2, <1>3

\* Nothing touches the evidence of a trial while the manifest on disk calls it
\* finished: neither a later run nor a clear meant for another trial.
THEOREM EvidenceIsKept ==
  ASSUME ~Orphans
  PROVE  Spec => TerminalEvidenceKept
<1>1. ASSUME IInv, [Next]_vars, disk # None, NEW t \in InState(disk, Terminal)
      PROVE  res'[t] = res[t] /\ raw'[t] = raw[t] /\ art'[t] = art[t]
  <2>1. CASE Touches
    <3>1. disk.state[cur] \notin Terminal
      BY <2>1, <1>1, CurIsOpen DEF Touches, Terminal
    <3>2. t \in Trial /\ t # cur
      BY <3>1 DEF InState
    <3>3. QED
      BY <2>1, <3>2 DEF Touches
  <2>2. CASE ~Touches
    BY <1>1, <2>2, NeverLate, DirectoryStep DEF Replaces
  <2>3. QED
    BY <2>1, <2>2
<1>2. IInv /\ [Next]_vars =>
        [disk # None =>
           \A t \in InState(disk, Terminal) :
             res'[t] = res[t] /\ raw'[t] = raw[t] /\ art'[t] = art[t]]_vars
  BY <1>1
<1>3. QED
  BY <1>2, Inductive, PTL DEF Spec, TerminalEvidenceKept

LEMMA DurableStep ==
  ASSUME IInv, Durable, ~overtaken', [Next]_vars
  PROVE  Durable'
<1> SUFFICES ASSUME ~Faults
             PROVE  Durable'
  BY DEF Durable
<1> USE DEF IInv, CInv, Control, Location, Writing, Saving, Clearing, Resuming
<1>1. CASE Start \/ Refuse \/ Crash \/ VerifyFails
  BY <1>1 DEF Start, Refuse, Crash, VerifyFails, Stop, Durable
<1>2. CASE Load
  BY <1>2 DEF Load, Stop, directory, Durable
<1>3. CASE Create \/ Choose \/ LoopEnds \/ Verify
  BY <1>3 DEF Create, Choose, LoopEnds, Verify, Durable
<1>4. CASE Adopt
  <2>1. /\ pc = "recovering" /\ mem \in Manifest
        /\ UNCHANGED <<disk, res, pc>>
    BY <1>4 DEF Adopt, directory, TypeOK
  <2>2. PICK t \in Trial : /\ Verified(t, res[t]) /\ Update(t, res[t].state)
    BY <1>4 DEF Adopt, InState
  <2>3. res[t].state \in TrialState /\ res[t].state # "pending"
    BY <2>2 DEF TypeOK, Verified, Result, Terminal, TrialState
  <2>4. mem'.state[t] # "pending" /\ \A u \in Trial : u # t => mem'.state[u] = mem.state[u]
    BY <2>1, <2>2, <2>3, UpdateEffect
  <2>5. QED
    BY <2>1, <2>4 DEF Durable
<1>5. CASE Recover
  <2>1. /\ pc = "recovering" /\ pc' = "recoverClear" /\ todo' = Kinds
        /\ ~Verified(cur', res[cur']) /\ UNCHANGED <<disk, res, raw, art, mem>>
    BY <1>5 DEF Recover, directory
  <2>2. QED
    BY <2>1 DEF Durable, Verified
<1>6. CASE Recovered
  BY <1>6 DEF Recovered, directory, Durable
<1>7. CASE ClearKind
  <2>1. /\ pc \in Clearing /\ todo # <<>> /\ todo' = Tail(todo)
        /\ res' = IF Head(todo) = "results" THEN [res EXCEPT ![cur] = None] ELSE res
        /\ UNCHANGED <<pc, cur, mem, disk>>
    BY <1>7 DEF ClearKind
  <2>2. todo' # Kinds /\ (Head(todo) = "results" <=> todo = Kinds)
    BY <2>1, Queues
  <2>3. cur \in Trial /\ res \in [Trial -> Result \cup {None}]
    BY <2>1, CurIsOpen DEF TypeOK, AtRunning, AtPending
  <2>4. res'[cur] = None
    BY <2>1, <2>2, <2>3 DEF Durable
  <2>5. \A t \in Trial : res[t] = None => res'[t] = None
    BY <2>1, <2>3
  <2>6. QED
    BY <2>1, <2>2, <2>4, <2>5 DEF Durable
<1>8. CASE Requeue
  <2>1. /\ pc = "recoverClear" /\ pc' = "recovering" /\ todo = <<>>
        /\ UNCHANGED <<disk, res>> /\ Update(cur, "pending")
    BY <1>8 DEF Requeue, directory
  <2>2. cur \in Trial /\ mem \in Manifest
    BY <2>1, CurIsOpen DEF AtRunning
  <2>3. \A t \in Trial : t # cur => mem'.state[t] = mem.state[t]
    BY <2>1, <2>2, UpdateEffect DEF TrialState
  <2>4. res[cur] = None
    BY <2>1, Queues DEF Durable
  <2>5. QED
    BY <2>1, <2>3, <2>4 DEF Durable
<1>9. CASE MarkRunning
  <2>1. /\ pc = "rerunClear" /\ pc' = "savingRunning" /\ todo = <<>>
        /\ UNCHANGED <<res, cur>>
    BY <1>9 DEF MarkRunning, directory
  <2>2. res[cur] = None
    BY <2>1, Queues DEF Durable
  <2>3. QED
    BY <2>1, <2>2 DEF Durable
<1>10. CASE KeepArtifacts \/ Quarantine \/ Classify \/ Misfire
  BY <1>10 DEF KeepArtifacts, Quarantine, Classify, Misfire, directory, Durable
<1>11. CASE WriteResult \/ WriteReport \/ WriteSummary
  BY <1>11 DEF WriteResult, WriteReport, WriteSummary, Durable
<1>12. CASE Save
  <2>1. pc \in Saving /\ disk' = mem /\ UNCHANGED res
    BY <1>12, PutEffect DEF Save
  <2>2. CASE Stop
    BY <2>2 DEF Stop, Durable
  <2>3. CASE ~Stop
    <3>1. /\ pc \in {"savingNew", "savingRecovered", "savingRunning", "savingDone"}
          /\ pc = "savingNew" => pc' = "recovering"
          /\ pc = "savingRecovered" => pc' = "choosing"
          /\ pc = "savingRunning" => pc' = "preparing" /\ cur' = cur
          /\ pc = "savingDone" => pc' = "choosing"
          /\ mem' = mem
      BY <1>12, <2>3 DEF Save, AfterSave
    <3>2. QED
      BY <2>1, <3>1 DEF Durable
  <2>4. QED
    BY <2>2, <2>3
<1>13. CASE Rest \/ UNCHANGED vars
  BY <1>13 DEF Rest, vars, directory, memory, Durable, Verified
<1>14. CASE Park
  BY <1>14 DEF Park, Durable
<1>15. QED
  BY <1>1, <1>2, <1>3, <1>4, <1>5, <1>6, <1>7, <1>8, <1>9, <1>10, <1>11, <1>12, <1>13, <1>14
  DEF Next, Progress, ClearFails, WriteFails, OrphanRenames

\* When no file operation fails, a crash does not lose a finished trial: what is
\* verified on disk while the manifest there still says running stays, and is
\* adopted (run.js 899-945).
THEOREM DurableIsKept ==
  ASSUME ~Faults
  PROVE  Spec => DurableResultKept
<1>1. Init => IInv /\ Durable
  BY InitIInv DEF Init, Durable, Resuming
<1>2. (overtaken \/ (IInv /\ Durable)) /\ [Next]_vars => (overtaken \/ (IInv /\ Durable))'
  BY LateStays, IInvStep, DurableStep
<1>3. ASSUME IInv, Durable, [Next]_vars, disk # None, ~overtaken',
             NEW t \in InState(disk, {"running"}), Verified(t, res[t])
      PROVE  /\ res'[t] = res[t] /\ raw'[t] = raw[t] /\ art'[t] = art[t]
             /\ disk' # None
             /\ disk'.state[t] \in {"running", res[t].state} \/ pc = "savingNew"
  <2>1. t \in Trial /\ disk.state[t] = "running" /\ res[t] # None
    BY <1>3 DEF InState, Verified
  <2>2. CASE Touches
    <3>1. t # cur
      <4>1. CASE pc = "recoverClear"
        BY <1>3, <2>1, <4>1 DEF Durable
      <4>2. CASE pc = "rerunClear"
        <5>1. mem.state[cur] = "pending" /\ cur \in Trial /\ mem # None
          BY <1>3, <4>2 DEF IInv, CInv, TypeOK, Control, Memory, AtPending, Busy
        <5>2. disk.state[cur] = "pending"
          BY <1>3, <4>2, <5>1 DEF IInv, Sync, Ahead, Resuming
        <5>3. QED
          BY <2>1, <5>2
      <4>3. QED
        BY <1>3, <2>1, <2>2, <4>1, <4>2 DEF Durable, Touches, AtRunning, AtPending
    <3>2. QED
      BY <1>3, <2>1, <2>2, <3>1 DEF Touches
  <2>3. CASE Replaces /\ pc # "savingNew"
    <3>1. /\ mem # None /\ disk' = mem /\ UNCHANGED <<res, raw, art>> /\ pc \in Saving
      BY <1>3, <2>3, Saveable, NoneAssumption DEF Replaces
    <3>2. mem.state[t] \in {"running", res[t].state}
      <4>1. mem.state[t] = "running" \/ Ahead(t)
        BY <1>3, <2>1, <2>3, <3>1 DEF IInv, Sync
      <4>2. mem.state[t] \in Terminal => mem.state[t] = res[t].state
        BY <1>3, <2>1, <3>1 DEF IInv, Evidence, Backed
      <4>3. CASE Ahead(t) /\ pc = "savingRecovered"
        <5>1. mem.state[t] # "pending"
          BY <1>3, <2>1, <4>3 DEF Durable, Resuming
        <5>2. mem.state[t] \in TrialState
          BY <2>1, <3>1, <1>3 DEF IInv, CInv, TypeOK, Manifest
        <5>3. QED
          BY <4>2, <5>1, <5>2 DEF TrialState, Terminal
      <4>4. CASE Ahead(t) /\ pc = "savingDone"
        BY <1>3, <2>1, <3>1, <4>2, <4>4 DEF IInv, CInv, Memory, Ahead, Resuming
      <4>5. CASE Ahead(t) /\ pc \notin {"savingRecovered", "savingDone"}
        BY <1>3, <2>1, <3>1, <4>5 DEF Ahead, Resuming, Durable, Saving
      <4>6. QED
        BY <4>1, <4>3, <4>4, <4>5
    <3>3. QED
      BY <3>1, <3>2
  <2>4. CASE Replaces /\ pc = "savingNew"
    <3>1. mem # None
      BY <1>3, <2>4, Saveable, NoneAssumption DEF Replaces
    <3>2. QED
      BY <2>4, <3>1 DEF Replaces
  <2>5. CASE UNCHANGED <<disk, res, raw, art>>
    BY <1>3, <2>1, <2>5
  <2>6. QED
    BY <1>3, <2>2, <2>3, <2>4, <2>5, DirectoryStep
<1>4. (overtaken \/ (IInv /\ Durable)) /\ [Next]_vars =>
        [disk # None /\ ~overtaken' =>
           \A t \in InState(disk, {"running"}) :
             Verified(t, res[t]) =>
               /\ res'[t] = res[t] /\ raw'[t] = raw[t] /\ art'[t] = art[t]
               /\ disk' # None
               /\ disk'.state[t] \in {"running", res[t].state} \/ pc = "savingNew"]_vars
  BY <1>3, LateStays
<1>5. QED
  BY <1>1, <1>2, <1>4, PTL DEF Spec, DurableResultKept

\* What a save of the manifest does to the ledger.
LEMMA SaveMaps ==
  ASSUME IInv, Replaces
  PROVE  [Ledger!Next]_(Ledger!ledger)
<1> DEFINE before == [t \in Trial |->
                        IF disk # None /\ disk.state[t] \in Terminal THEN res[t] ELSE None]
           after == [t \in Trial |->
                       IF mem.state[t] \in Terminal THEN res[t] ELSE None]
<1>1. mem # None /\ mem \in Manifest /\ disk' = mem /\ res' = res /\ pc \in Saving
  BY DEF Replaces, IInv, CInv, TypeOK, Control, Saving
<1>2. after = [t \in Trial |->
                 IF disk' # None /\ disk'.state[t] \in Terminal THEN res'[t] ELSE None]
  BY <1>1
<1>3. CASE pc = "savingNew"
  <2>1. \A t \in Trial : mem.state[t] \notin Terminal
    BY <1>1, <1>3, NewManifestType DEF IInv, CInv, Memory, Terminal
  <2>2. mem.status # "completed"
    BY <1>1, <1>3, NewManifestType DEF IInv, CInv, Memory
  <2>3. after = [t \in Trial |-> None]
    BY <2>1
  <2>4. Ledger!StartOver
    BY <1>1, <1>2, <2>2, <2>3 DEF Ledger!StartOver
  <2>5. QED
    BY <2>4 DEF Ledger!Next
<1>4. CASE pc = "savingStatus"
  <2>1. /\ disk # None
        /\ \A t \in Trial : mem.state[t] = disk.state[t]
    BY <1>1, <1>4 DEF IInv, Sync, Ahead, Resuming
  <2>2. after = before
    BY <2>1
  <2>3. CASE mem.status = "completed"
    <3>1. \A t \in Trial : mem.state[t] \in Terminal /\ Verified(t, res[t])
      BY <1>1, <2>3, <1>4, Saveable
    <3>2. \A t \in Trial : before[t] \in
            {r \in Result : r.usable /\ r.raw = {r.run} /\ r.art = {r.run}}
      BY <2>1, <3>1 DEF IInv, CInv, TypeOK, Evidence, Sound, Verified
    <3>3. Ledger!Declare
      BY <1>1, <1>2, <2>2, <2>3, <3>2 DEF Ledger!Declare
    <3>4. QED
      BY <3>3 DEF Ledger!Next
  <2>4. CASE mem.status # "completed"
    <3>1. disk.status # "completed"
      BY <1>1, <1>4, <2>1, <2>4 DEF IInv, Reports, CompletedIsReported
    <3>2. UNCHANGED Ledger!ledger
      BY <1>1, <1>2, <2>2, <2>4, <3>1 DEF Ledger!ledger
    <3>3. QED
      BY <3>2
  <2>5. QED
    BY <2>3, <2>4
<1>5. CASE pc \notin {"savingNew", "savingStatus"}
  <2>1. /\ disk # None /\ mem.status = disk.status
        /\ \A t \in Trial : mem.state[t] = disk.state[t] \/ Ahead(t)
    BY <1>1, <1>5 DEF IInv, Sync
  <2>2. \A t, u \in Trial : Ahead(t) /\ Ahead(u) => t = u
    BY <2>1 DEF IInv, OneRunning, Ahead, Resuming
  <2>3. \A t \in Trial : Ahead(t) => before[t] = None
    BY DEF Ahead, Terminal
  <2>4. CASE \E x \in Trial : Ahead(x) /\ mem.state[x] \in Terminal
    <3>1. PICK x \in Trial : Ahead(x) /\ mem.state[x] \in Terminal
      BY <2>4
    <3>2. \A t \in Trial : t # x => after[t] = before[t]
      BY <2>1, <2>2, <3>1
    <3>3. after[x] \in Result /\ before[x] = None
      BY <1>1, <2>3, <3>1 DEF IInv, CInv, TypeOK, Evidence, Backed, Sound
    <3>4. after = [before EXCEPT ![x] = after[x]]
      BY <3>2
    <3>5. Ledger!Close(x)
      BY <1>1, <1>2, <2>1, <3>3, <3>4 DEF Ledger!Close
    <3>6. QED
      BY <3>5 DEF Ledger!Next
  <2>5. CASE \A x \in Trial : Ahead(x) => mem.state[x] \notin Terminal
    <3>1. \A t \in Trial : after[t] = before[t]
      BY <2>1, <2>3, <2>5
    <3>2. after = before
      BY <3>1
    <3>3. UNCHANGED Ledger!ledger
      BY <1>1, <1>2, <2>1, <3>2 DEF Ledger!ledger
    <3>4. QED
      BY <3>3
  <2>6. QED
    BY <2>4, <2>5
<1>6. QED
  BY <1>3, <1>4, <1>5

\* The directory implements the ledger: a trial is closed once, with the result
\* that stays, and a campaign is complete when everything in it can be reported.
THEOREM LedgerRefined ==
  ASSUME ~Orphans
  PROVE  Spec => ImplementsLedger
<1>1. Init => Ledger!Init
  BY DEF Init, Ledger!Init
<1>2. ASSUME IInv, [Next]_vars
      PROVE  [Ledger!Next]_(Ledger!ledger)
  <2>1. CASE Replaces
    BY <1>2, <2>1, SaveMaps
  <2>2. CASE Touches
    <3>1. disk.state[cur] \notin Terminal
      BY <1>2, <2>2, CurIsOpen DEF Touches, Terminal
    <3>2. UNCHANGED Ledger!ledger
      BY <2>2, <3>1 DEF Touches, Ledger!ledger
    <3>3. QED
      BY <3>2
  <2>3. CASE UNCHANGED <<disk, res, raw, art>>
    BY <2>3 DEF Ledger!ledger
  <2>4. QED
    BY <1>2, <2>1, <2>2, <2>3, NeverLate, DirectoryStep
<1>3. QED
  BY <1>1, <1>2, Inductive, PTL DEF Spec, ImplementsLedger, Ledger!Spec

=============================================================================
