------------------------- MODULE CampaignExportProofs -------------------------
(***************************************************************************)
(* Theorems about the export of a campaign beside its runs, for any number *)
(* of trials and runs and whatever the user does to the destination.       *)
(*                                                                         *)
(* The export holds no lock.  What it has read stays true because it reads *)
(* only of trials that the manifest it loaded calls finished, and as long  *)
(* as nobody starts the campaign over such a trial is finished on disk as  *)
(* well (Settled), so that no run touches its evidence.                    *)
(***************************************************************************)
EXTENDS CampaignExport, CampaignRunProofs

\* Where the export knows the manifest, and where it has a staging directory.
AtManifest == {"reading", "writing", "raw", "recheck", "rmdir", "publishing"}
AtFull == {"raw", "recheck", "rmdir", "publishing"}
AtWhole == {"recheck", "rmdir", "publishing"}

Bundle(content) ==
  /\ content.parts = Part
  /\ \E t \in Trial : content.results[t] # None
  /\ \A t \in Trial : content.results[t] # None => content.results[t].usable

\* What the export has in memory and in the staging directory at each location.
Progressing ==
  /\ got \in [Trial -> Result \cup {None}]
  /\ \A t \in Trial : got[t] # None => got[t].usable
  /\ staging # None => staging \in Staging
  /\ xpc \in AtManifest => InState(loaded, Terminal) # {}
  /\ xpc \in AtManifest \ {"reading"} =>
       \A t \in InState(loaded, Terminal) : got[t] # None
  /\ xpc \in AtManifest \ {"reading"} => staging # None
  /\ xpc \in AtFull => staging.results = got
  /\ xpc = "raw" => staging.parts = Part \ {"readme"}
  /\ xpc \in AtWhole => staging.parts = Part
  /\ dest.is = "bundle" => Bundle(dest.of)

\* Only finished trials are read, and nothing is there before the manifest is
\* loaded.
Reading ==
  /\ loaded = None <=> xpc \in {"off", "loading"}
  /\ xpc \in {"off", "loading", "reading"} => staging = None
  /\ loaded = None => got = Nobody /\ left = {}
  /\ loaded # None =>
       /\ loaded \in Manifest
       /\ left \subseteq InState(loaded, Terminal)
       /\ \A t \in Trial : got[t] # None => t \in InState(loaded, Terminal)
       /\ staging # None =>
            \A t \in Trial : staging.raw[t] # {} => t \in InState(loaded, Terminal)

\* What the loaded manifest calls finished is finished on disk.
Settled ==
  ~restarted /\ loaded # None =>
    /\ disk # None /\ pc # "savingNew"
    /\ \A t \in InState(loaded, Terminal) : disk.state[t] \in Terminal

XInv == CInv /\ Progressing /\ Reading
SInv == IInv /\ XInv /\ Settled /\ ExportIsSnapshot

-----------------------------------------------------------------------------
(* The steps *)

\* For the runs the export and the user are not there.
LEMMA Beside ==
  ASSUME [ExportNext]_allVars
  PROVE  [Next]_vars
BY DEF ExportNext, Campaign, allVars

LEMMA XInvInit ==
  ASSUME ExportInit
  PROVE  XInv /\ IInv
<1>1. IInv /\ CInv
  BY InitIInv DEF ExportInit, IInv
<1>2. Nobody \in [Trial -> Result \cup {None}] /\ \A t \in Trial : Nobody[t] = None
  BY DEF Nobody
<1> HIDE DEF Nobody
<1>3. Progressing
  BY <1>2 DEF ExportInit, Progressing, AtManifest, AtFull, AtWhole
<1>4. Reading
  BY DEF ExportInit, Reading, AtManifest
<1>5. QED
  BY <1>1, <1>3, <1>4 DEF XInv

\* After the call nothing is left of it in memory.
LEMMA LeaveEffect ==
  ASSUME Leave
  PROVE  /\ got' \in [Trial -> Result \cup {None}] /\ \A t \in Trial : got'[t] = None
         /\ xpc' = "off" /\ loaded' = None /\ got' = Nobody /\ left' = {}
BY DEF Leave, Nobody

\* How the staging directory is filled.
LEMMA StagingEffect ==
  ASSUME XInv, staging # None
  PROVE  /\ WriteBundle =>
              /\ staging' \in Staging /\ staging'.parts = {"manifest", "results", "report"}
              /\ staging'.results = got /\ staging'.raw = staging.raw
         /\ \A t \in Trial, copied \in BOOLEAN : CopyRaw(t, copied) =>
              /\ staging' \in Staging /\ staging'.parts = staging.parts
              /\ staging'.results = staging.results
              /\ staging'.raw[t] \in {staging.raw[t], raw[t]}
              /\ \A u \in Trial : u # t => staging'.raw[u] = staging.raw[u]
         /\ WriteReadme =>
              /\ staging' \in Staging /\ staging'.parts = staging.parts \cup {"readme"}
              /\ staging'.results = staging.results /\ staging'.raw = staging.raw
<1>1. staging \in Staging /\ got \in [Trial -> Result \cup {None}]
      /\ raw \in [Trial -> SUBSET Run]
  BY DEF XInv, Progressing, CInv, TypeOK
<1>2. ASSUME WriteBundle
      PROVE  /\ staging' \in Staging /\ staging'.parts = {"manifest", "results", "report"}
             /\ staging'.results = got /\ staging'.raw = staging.raw
  <2>1. staging' = [staging EXCEPT !.parts = {"manifest", "results", "report"},
                                   !.results = got]
    BY <1>2 DEF WriteBundle
  <2>2. {"manifest", "results", "report"} \in SUBSET Part
    BY DEF Part
  <2>3. QED
    BY <1>1, <2>1, <2>2 DEF Staging
<1>3. ASSUME WriteReadme
      PROVE  /\ staging' \in Staging /\ staging'.parts = staging.parts \cup {"readme"}
             /\ staging'.results = staging.results /\ staging'.raw = staging.raw
  <2>1. staging' = [staging EXCEPT !.parts = @ \cup {"readme"}]
    BY <1>3 DEF WriteReadme
  <2>2. staging.parts \cup {"readme"} \in SUBSET Part
    BY <1>1 DEF Staging, Part
  <2>3. QED
    BY <1>1, <2>1, <2>2 DEF Staging
<1>4. ASSUME NEW t \in Trial, NEW copied \in BOOLEAN, CopyRaw(t, copied)
      PROVE  /\ staging' \in Staging /\ staging'.parts = staging.parts
             /\ staging'.results = staging.results
             /\ staging'.raw[t] \in {staging.raw[t], raw[t]}
             /\ \A u \in Trial : u # t => staging'.raw[u] = staging.raw[u]
  <2> DEFINE copies == [staging.raw EXCEPT ![t] = raw[t]]
  <2>1. copies \in [Trial -> SUBSET Run] /\ copies[t] = raw[t]
        /\ \A u \in Trial : u # t => copies[u] = staging.raw[u]
    BY <1>1 DEF Staging
  <2>2. staging' = staging \/ staging' = [staging EXCEPT !.raw = copies]
    BY <1>4 DEF CopyRaw
  <2> HIDE DEF copies
  <2>3. CASE staging' = [staging EXCEPT !.raw = copies]
    <3>1. staging' \in Staging /\ staging'.parts = staging.parts
          /\ staging'.results = staging.results /\ staging'.raw = copies
      BY <1>1, <2>1, <2>3 DEF Staging
    <3>2. QED
      BY <2>1, <3>1
  <2>4. QED
    BY <1>1, <2>2, <2>3
<1>5. QED
  BY <1>2, <1>3, <1>4

LEMMA StageEffect ==
  ASSUME Stage
  PROVE  staging' \in Staging /\ \A t \in Trial : staging'.raw[t] = {}
<1>1. Nobody \in [Trial -> Result \cup {None}]
  BY DEF Nobody
<1>2. NoRaw \in [Trial -> SUBSET Run] /\ \A t \in Trial : NoRaw[t] = {}
  BY DEF NoRaw
<1>3. staging' = [parts |-> {}, results |-> Nobody, raw |-> NoRaw]
  BY DEF Stage
<1> HIDE DEF Nobody, NoRaw
<1>4. QED
  BY <1>1, <1>2, <1>3 DEF Staging

LEMMA ProgressingStep ==
  ASSUME XInv, [ExportNext]_allVars
  PROVE  Progressing'
<1> USE DEF XInv, Progressing, AtManifest, AtFull, AtWhole
<1>1. CASE UNCHANGED exporting
  BY <1>1 DEF exporting, Bundle
<1>2. CASE BeginExport
  BY <1>2 DEF BeginExport, Go, Bundle
<1>3. CASE LoadManifest
  <2>1. CASE Leave
    BY <1>3, <2>1, LeaveEffect DEF LoadManifest, Bundle
  <2>2. CASE ~Leave
    BY <1>3, <2>2 DEF LoadManifest, Bundle
  <2>3. QED
    BY <2>1, <2>2
<1>4. ASSUME NEW t \in Trial, ReadResult(t)
      PROVE  Progressing'
  <2>1. CASE Leave
    BY <1>4, <2>1, LeaveEffect DEF ReadResult, Bundle
  <2>2. CASE ~Leave
    <3>1. /\ Verified(t, res[t]) /\ got' = [got EXCEPT ![t] = res[t]]
          /\ UNCHANGED <<xpc, loaded, staging, dest>> /\ xpc = "reading"
      BY <1>4, <2>2 DEF ReadResult
    <3>2. res[t] \in Result /\ res[t].usable
      BY <3>1 DEF CInv, TypeOK, Verified
    <3>3. got' \in [Trial -> Result \cup {None}]
          /\ \A u \in Trial : got'[u] # None => got'[u].usable
      BY <3>1, <3>2
    <3>4. QED
      BY <3>1, <3>3 DEF Bundle
  <2>3. QED
    BY <2>1, <2>2
<1>5. CASE Stage
  <2>1. /\ xpc = "reading" /\ xpc' = "writing" /\ UNCHANGED <<got, loaded, dest>>
        /\ staging' # None /\ Unread = {}
    BY <1>5, StageEffect, StagingAssumption DEF Stage, Go
  <2>2. \A t \in InState(loaded, Terminal) : got[t] # None
    BY <2>1 DEF Unread
  <2>3. QED
    BY <1>5, <2>1, <2>2, StageEffect DEF Bundle
<1>6. CASE WriteBundle
  <2>1. UNCHANGED <<got, loaded, dest>> /\ xpc = "writing" /\ xpc' = "raw"
    BY <1>6 DEF WriteBundle, Go
  <2>2. /\ staging' \in Staging /\ staging'.parts = {"manifest", "results", "report"}
        /\ staging'.results = got /\ staging' # None
    BY <1>6, <2>1, StagingEffect, StagingAssumption
  <2>3. QED
    BY <2>1, <2>2 DEF Part, Bundle
<1>7. ASSUME NEW t \in Trial, NEW copied \in BOOLEAN, CopyRaw(t, copied)
      PROVE  Progressing'
  <2>1. UNCHANGED <<xpc, got, loaded, dest>> /\ xpc = "raw"
    BY <1>7 DEF CopyRaw
  <2>2. /\ staging' \in Staging /\ staging'.parts = staging.parts
        /\ staging'.results = staging.results /\ staging' # None
    BY <1>7, <2>1, StagingEffect, StagingAssumption
  <2>3. QED
    BY <2>1, <2>2 DEF Bundle
<1>8. CASE WriteReadme
  <2>1. UNCHANGED <<got, loaded, dest>> /\ xpc = "raw" /\ xpc' \in {"recheck", "publishing"}
    BY <1>8 DEF WriteReadme
  <2>2. /\ staging' \in Staging /\ staging'.parts = staging.parts \cup {"readme"}
        /\ staging'.results = staging.results /\ staging' # None
    BY <1>8, <2>1, StagingEffect, StagingAssumption
  <2>3. QED
    BY <2>1, <2>2 DEF Part, Bundle
<1>9. CASE Recheck
  BY <1>9 DEF Recheck, Bundle
<1>10. CASE RemoveEmpty
  BY <1>10 DEF RemoveEmpty, Bundle
<1>11. CASE Publish
  <2>1. CASE Leave
    <3>1. dest' = dest \/ (dest' = [is |-> "bundle", of |-> staging] /\ xpc = "publishing")
      BY <1>11 DEF Publish
    <3>2. xpc = "publishing" => Bundle(staging)
      BY DEF Bundle, InState
    <3>3. dest'.is = "bundle" => Bundle(dest.of)'
      BY <3>1, <3>2 DEF Bundle
    <3>4. staging' = None
      BY <1>11, <2>1, LeaveEffect DEF Publish
    <3>5. QED
      BY <2>1, <3>3, <3>4, LeaveEffect
  <2>2. CASE ~Leave
    <3>1. UNCHANGED <<got, loaded, staging, dest>> /\ xpc' = "aborting"
      BY <1>11, <2>2 DEF Publish
    <3>2. QED
      BY <3>1 DEF Bundle
  <2>3. QED
    BY <2>1, <2>2
<1>12. CASE WriteError
  BY <1>12 DEF WriteError, Bundle
<1>13. CASE Abort \/ ExportDies
  BY <1>13, LeaveEffect DEF Abort, ExportDies, Bundle
<1>14. CASE User
  BY <1>14 DEF User, Bundle
<1>15. QED
  BY <1>1, <1>2, <1>3, <1>4, <1>5, <1>6, <1>7, <1>8, <1>9, <1>10, <1>11, <1>12, <1>13, <1>14
  DEF ExportNext, Export, Campaign, allVars, exporting

LEMMA ReadingStep ==
  ASSUME XInv, [ExportNext]_allVars
  PROVE  Reading'
<1> USE DEF XInv, Reading
<1>1. CASE UNCHANGED exporting \/ User
  BY <1>1 DEF exporting, User
<1>2. CASE Leave /\ staging' = None
  BY <1>2, LeaveEffect
<1>3. CASE BeginExport \/ Recheck \/ RemoveEmpty \/ WriteError
  BY <1>3 DEF BeginExport, Recheck, RemoveEmpty, WriteError, Go
<1>4. CASE LoadManifest /\ ~Leave
  <2>1. loaded' = disk /\ disk # None /\ UNCHANGED <<got, left, staging>>
        /\ xpc = "loading" /\ xpc' = "reading"
    BY <1>4 DEF LoadManifest
  <2>2. disk \in Manifest
    BY <2>1 DEF CInv, TypeOK
  <2>3. \A t \in Trial : got[t] = None
    BY <2>1 DEF Nobody
  <2>4. QED
    BY <2>1, <2>2, <2>3
<1>5. ASSUME NEW t \in Trial, ReadResult(t), ~Leave
      PROVE  Reading'
  <2>1. /\ got' = [got EXCEPT ![t] = res[t]] /\ t \in InState(loaded, Terminal)
        /\ UNCHANGED <<xpc, loaded, left, staging>> /\ xpc = "reading"
    BY <1>5 DEF ReadResult, Unread
  <2>2. got \in [Trial -> Result \cup {None}]
    BY DEF Progressing
  <2>3. \A u \in Trial : u # t => got'[u] = got[u]
    BY <2>1, <2>2
  <2>4. QED
    BY <2>1, <2>3
<1>6. CASE Stage
  <2>1. xpc = "reading" /\ xpc' = "writing" /\ UNCHANGED <<loaded, got, left>>
    BY <1>6 DEF Stage, Go
  <2>2. \A t \in Trial : staging'.raw[t] = {}
    BY <1>6, StageEffect
  <2>3. QED
    BY <2>1, <2>2
<1>7. CASE WriteBundle
  <2>1. /\ xpc = "writing" /\ xpc' = "raw" /\ UNCHANGED <<loaded, got>>
        /\ left' \in {{}, InState(loaded, Terminal)}
    BY <1>7 DEF WriteBundle, Go
  <2>2. staging # None
    BY <2>1 DEF Progressing, AtManifest
  <2>3. staging'.raw = staging.raw
    BY <1>7, <2>2, StagingEffect
  <2>4. QED
    BY <2>1, <2>2, <2>3
<1>8. ASSUME NEW t \in Trial, NEW copied \in BOOLEAN, CopyRaw(t, copied)
      PROVE  Reading'
  <2>1. /\ xpc = "raw" /\ UNCHANGED <<xpc, loaded, got>> /\ t \in left /\ left' = left \ {t}
    BY <1>8 DEF CopyRaw
  <2>2. staging # None /\ t \in InState(loaded, Terminal)
    BY <2>1 DEF Progressing, AtManifest
  <2>3. \A u \in Trial : u # t => staging'.raw[u] = staging.raw[u]
    BY <1>8, <2>2, StagingEffect
  <2>4. QED
    BY <2>1, <2>2, <2>3
<1>9. CASE WriteReadme
  <2>1. /\ xpc = "raw" /\ xpc' \in {"recheck", "publishing"}
        /\ UNCHANGED <<loaded, got, left>>
    BY <1>9 DEF WriteReadme
  <2>2. staging # None
    BY <2>1 DEF Progressing, AtManifest
  <2>3. staging'.raw = staging.raw
    BY <1>9, <2>2, StagingEffect
  <2>4. QED
    BY <2>1, <2>2, <2>3
<1>10. CASE Publish /\ ~Leave
  BY <1>10 DEF Publish
<1>11. (LoadManifest \/ (\E t \in Trial : ReadResult(t))) /\ Leave => staging' = None
  BY DEF LoadManifest, ReadResult
<1>12. (Publish /\ Leave) \/ Abort \/ ExportDies => Leave /\ staging' = None
  BY DEF Publish, Abort, ExportDies, Leave
<1>13. QED
  BY <1>1, <1>2, <1>3, <1>4, <1>5, <1>6, <1>7, <1>8, <1>9, <1>10, <1>11, <1>12
  DEF ExportNext, Export, Campaign, allVars, exporting

LEMMA XInvStep ==
  ASSUME XInv, [ExportNext]_allVars
  PROVE  XInv'
BY ProgressingStep, ReadingStep, Beside, CInvStep DEF XInv

\* A trial that is finished on disk stays so, and nothing of its evidence changes,
\* unless a new manifest is being saved.
LEMMA FinishedStays ==
  ASSUME ~Orphans, IInv, [Next]_vars,
         NEW t \in Trial, disk # None, disk.state[t] \in Terminal
  PROVE  /\ res'[t] = res[t] /\ raw'[t] = raw[t] /\ art'[t] = art[t]
         /\ pc # "savingNew" => disk' # None /\ disk'.state[t] \in Terminal
<1>1. CASE Touches
  <2>1. disk.state[cur] \notin Terminal
    BY <1>1, CurIsOpen DEF Touches, Terminal
  <2>2. t # cur
    BY <2>1
  <2>3. QED
    BY <1>1, <2>2 DEF Touches
<1>2. CASE Replaces
  <2>1. mem # None
    BY <1>2, Saveable, NoneAssumption DEF Replaces
  <2>2. pc # "savingNew" => mem.state[t] = disk.state[t] \/ Ahead(t)
    BY <2>1 DEF IInv, Sync
  <2>3. ~Ahead(t)
    BY DEF Ahead, Terminal
  <2>4. QED
    BY <1>2, <2>1, <2>2, <2>3 DEF Replaces
<1>3. CASE UNCHANGED <<disk, res, raw, art>>
  BY <1>3
<1>4. QED
  BY <1>1, <1>2, <1>3, NeverLate, DirectoryStep

\* Unless the manifest is loaded now, what has happened to it is remembered.
LEMMA RestartedStep ==
  ASSUME [ExportNext]_allVars, ~LoadManifest, ~restarted'
  PROVE  ~restarted /\ (pc' # "savingNew" \/ UNCHANGED vars)
<1>1. CASE Campaign
  BY <1>1 DEF Campaign
<1>2. CASE UNCHANGED <<restarted, vars>>
  BY <1>2
<1>3. QED
  BY <1>1, <1>2 DEF ExportNext, Export, User, BeginExport, ReadResult, Stage, WriteBundle,
    CopyRaw, WriteReadme, Recheck, RemoveEmpty, Publish, WriteError, Abort, ExportDies,
    allVars

LEMMA SettledStep ==
  ASSUME ~Orphans, SInv, [ExportNext]_allVars
  PROVE  Settled'
<1> SUFFICES ASSUME ~restarted', loaded' # None
             PROVE  Settled'
  BY DEF Settled
<1>1. CASE loaded' = loaded
  <2>a. ~LoadManifest
    BY <1>1, LeaveEffect DEF LoadManifest, SInv, XInv, Reading
  <2>1. ~restarted /\ pc' # "savingNew"
    BY <1>1, <2>a, RestartedStep DEF vars, memory, SInv, Settled
  <2>2. /\ disk # None /\ pc # "savingNew"
        /\ \A t \in InState(loaded, Terminal) : disk.state[t] \in Terminal
    BY <1>1, <2>1 DEF SInv, Settled
  <2>3. \A t \in InState(loaded, Terminal) : disk' # None /\ disk'.state[t] \in Terminal
    BY <2>2, Beside, FinishedStays DEF SInv, InState
  <2>4. disk' # None
    <3>1. CASE Touches
      BY <2>2, <3>1 DEF Touches
    <3>2. CASE Replaces
      BY <3>2, Saveable, NoneAssumption DEF Replaces, SInv
    <3>3. QED
      BY <2>2, <3>1, <3>2, Beside, NeverLate, DirectoryStep DEF SInv
  <2>5. QED
    BY <1>1, <2>1, <2>3, <2>4 DEF Settled
<1>2. CASE loaded' # loaded
  <2>1. LoadManifest /\ ~Leave /\ UNCHANGED vars
    BY <1>2, LeaveEffect DEF ExportNext, Campaign, Export, User, BeginExport, ReadResult,
      Stage, WriteBundle, CopyRaw, WriteReadme, Recheck, RemoveEmpty, Publish, WriteError,
      Abort, ExportDies, LoadManifest, allVars, exporting
  <2>2. loaded' = disk /\ disk # None /\ restarted' = (pc = "savingNew")
        /\ disk' = disk /\ pc' = pc
    BY <2>1 DEF LoadManifest, vars, directory, memory
  <2>3. QED
    BY <2>2 DEF Settled, InState
<1>3. QED
  BY <1>1, <1>2

LEMMA SnapshotStep ==
  ASSUME ~Orphans, SInv, XInv', [ExportNext]_allVars
  PROVE  ExportIsSnapshot'
<1> SUFFICES ASSUME ~restarted', NEW t \in Trial
             PROVE  /\ got'[t] # None => got'[t] = res'[t] /\ Verified(t, res[t])'
                    /\ staging' # None => staging'.raw[t] \in {{}, raw'[t]}
  BY DEF ExportIsSnapshot
<1>1. CASE loaded' = None
  <2>1. got'[t] = None /\ staging' = None
    BY <1>1 DEF XInv, Reading, Nobody
  <2>2. QED
    BY <2>1
<1>2. CASE loaded' # None /\ UNCHANGED <<loaded, got, staging, left>>
  <2>a. ~LoadManifest
    BY <1>2, LeaveEffect DEF LoadManifest, SInv, XInv, Reading
  <2>1. ~restarted /\ loaded # None
    BY <1>2, <2>a, RestartedStep
  <2>2. t \in InState(loaded, Terminal) =>
          res'[t] = res[t] /\ raw'[t] = raw[t] /\ art'[t] = art[t]
    BY <2>1, Beside, FinishedStays DEF SInv, Settled
  <2>3. /\ got[t] # None => got[t] = res[t] /\ Verified(t, res[t])
        /\ staging # None => staging.raw[t] \in {{}, raw[t]}
    BY <2>1 DEF SInv, ExportIsSnapshot
  <2>4. /\ got[t] # None => t \in InState(loaded, Terminal)
        /\ staging # None /\ staging.raw[t] # {} => t \in InState(loaded, Terminal)
    BY <2>1 DEF SInv, XInv, Reading
  <2>5. QED
    BY <1>2, <2>2, <2>3, <2>4 DEF Verified
<1>3. CASE UNCHANGED vars /\ loaded' # None
  <2>1. res' = res /\ raw' = raw /\ art' = art
    BY <1>3 DEF vars, directory
  <2>2. CASE LoadManifest
    <3>1. UNCHANGED <<got, staging>> /\ xpc = "loading"
      BY <1>3, <2>2 DEF LoadManifest, Leave
    <3>2. got'[t] = None /\ staging' = None
      BY <3>1 DEF SInv, XInv, Reading, Nobody
    <3>3. QED
      BY <3>2
  <2>3. CASE ~LoadManifest
    <3>1. ~restarted
      BY <2>3, RestartedStep
    <3>2. /\ got[t] # None => got[t] = res[t] /\ Verified(t, res[t])
          /\ staging # None => staging.raw[t] \in {{}, raw[t]}
      BY <3>1 DEF SInv, ExportIsSnapshot
    <3>3. got' = got \/ \E u \in Trial : /\ got' = [got EXCEPT ![u] = res[u]]
                                         /\ Verified(u, res[u])
      BY <1>3, <2>3 DEF ExportNext, Campaign, Export, User, BeginExport, ReadResult,
        Stage, WriteBundle, CopyRaw, WriteReadme, Recheck, RemoveEmpty, Publish, WriteError,
        Abort, ExportDies, allVars, exporting, Leave
    <3>4. got \in [Trial -> Result \cup {None}]
      BY DEF SInv, XInv, Progressing
    <3>5. got'[t] # None => got'[t] = res'[t] /\ Verified(t, res[t])'
      BY <2>1, <3>2, <3>3, <3>4 DEF Verified
    <3>6. CASE \E u \in Trial, copied \in BOOLEAN : CopyRaw(u, copied)
      <4>1. PICK u \in Trial, copied \in BOOLEAN : CopyRaw(u, copied)
        BY <3>6
      <4>2. xpc = "raw"
        BY <4>1 DEF CopyRaw
      <4>3. staging # None
        BY <4>2 DEF SInv, XInv, Progressing, AtManifest
      <4>4. staging'.raw[t] \in {staging.raw[t], raw[t]}
        BY <4>1, <4>3, StagingEffect DEF SInv
      <4>5. QED
        BY <2>1, <3>2, <3>5, <4>3, <4>4
    <3>7. CASE Stage
      BY <3>5, <3>7, StageEffect
    <3>8. CASE WriteBundle \/ WriteReadme
      <4>1. staging # None
        BY <3>8 DEF WriteBundle, WriteReadme, Go, SInv, XInv, Progressing, AtManifest
      <4>a. staging'.raw = staging.raw
        BY <3>8, <4>1, StagingEffect DEF SInv
      <4>2. QED
        BY <2>1, <3>2, <3>5, <4>1, <4>a
    <3>9. CASE UNCHANGED staging \/ staging' = None
      BY <2>1, <3>2, <3>5, <3>9
    <3>10. QED
      BY <1>3, <2>3, <3>6, <3>7, <3>8, <3>9
      DEF ExportNext, Campaign, Export, User, BeginExport, ReadResult, Recheck,
        RemoveEmpty, Publish, WriteError, Abort, ExportDies, allVars, exporting, Leave
  <2>4. QED
    BY <2>2, <2>3
<1>4. QED
  BY <1>1, <1>2, <1>3 DEF ExportNext, Campaign, allVars, exporting

-----------------------------------------------------------------------------
(* The theorems *)

LEMMA Shape == ExportSpec => []XInv
<1>1. ExportInit => XInv
  BY XInvInit
<1>2. XInv /\ [ExportNext]_allVars => XInv'
  BY XInvStep
<1>3. QED
  BY <1>1, <1>2, PTL DEF ExportSpec

\* A bundle in the destination has every part and only usable results, whatever
\* fails or dies, even when a rename of a dead run comes late (export.js 919-1065).
THEOREM BundlesAreWhole == ExportSpec => []BundleIsWhole
<1>1. XInv => BundleIsWhole
  BY DEF XInv, Progressing, Bundle, BundleIsWhole
<1>2. QED
  BY <1>1, Shape, PTL

\* An export needs no lock: what it has read of a finished trial stays what is on
\* disk, as long as nobody starts the campaign over and no rename of a dead run
\* comes late (export.js 860-910).
THEOREM ExportsAreSnapshots ==
  ASSUME ~Orphans
  PROVE  ExportSpec => []ExportIsSnapshot
<1>1. ExportInit => SInv
  <2> SUFFICES ASSUME ExportInit
               PROVE  SInv
    OBVIOUS
  <2>1. XInv /\ IInv
    BY XInvInit
  <2>2. loaded = None /\ staging = None /\ \A t \in Trial : got[t] = None
    BY DEF ExportInit, Nobody
  <2>3. QED
    BY <2>1, <2>2 DEF SInv, Settled, ExportIsSnapshot
<1>2. SInv /\ [ExportNext]_allVars => SInv'
  <2> SUFFICES ASSUME SInv, [ExportNext]_allVars
               PROVE  SInv'
    OBVIOUS
  <2>1. XInv'
    BY XInvStep DEF SInv
  <2>2. IInv'
    BY Beside, NeverLate, IInvStep DEF SInv
  <2>3. QED
    BY <2>1, <2>2, SettledStep, SnapshotStep DEF SInv
<1>3. SInv => ExportIsSnapshot
  BY DEF SInv
<1>4. QED
  BY <1>1, <1>2, <1>3, PTL DEF ExportSpec

\* Nobody but the user takes away what lies in the destination (export.js
\* 1028-1062).
THEOREM OnlyTheEmptyIsReplaced == ExportSpec => OnlyEmptyIsReplaced
<1>1. [ExportNext]_allVars =>
        [dest.is \in {"user", "bundle"} /\ dest' # dest => User]_allVars
  BY DEF ExportNext, Campaign, Export, BeginExport, LoadManifest, ReadResult, Stage,
    WriteBundle, CopyRaw, WriteReadme, Recheck, RemoveEmpty, Publish, WriteError, Abort,
    ExportDies, allVars, exporting
<1>2. QED
  BY <1>1, PTL DEF ExportSpec, OnlyEmptyIsReplaced

=============================================================================
