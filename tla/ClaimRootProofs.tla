--------------------------- MODULE ClaimRootProofs ---------------------------
(***************************************************************************)
(* Theorems about the claiming of a campaign directory, for any number of  *)
(* processes.                                                              *)
(*                                                                         *)
(* What a process met stays there, so it can be held against what the      *)
(* process does later (Findings).  A whole marker goes only when something *)
(* is spoilt, so owners keep theirs (Marking).  A process that is alone    *)
(* and met nothing knows, at each of its looks, what the next one will     *)
(* show (Solitude): that is why it is never refused.                       *)
(***************************************************************************)
EXTENDS ClaimRoot, TLAPS

\* The directory is there for who is beyond the mkdir, and for every helper.
Inside == {"git", "marker", "manifest", "list", "load", "create", "validate",
           "owner", "private", "done"}
Presence ==
  /\ dir = None => created = {}
  /\ \A p \in Proc : pc[p] \in Inside \/ helper[p] # None => dir # None
  /\ \A p \in Proc : found[p] = None <=> pc[p] = "off"
  /\ \A p \in Proc : helper[p] # None => pc[p] \in {"create", "dead"}
  /\ \A p \in created \cup marked : pc[p] \notin {"off", "root", "mkdir"}

\* Obstacles stay, and keep a process out.  The campaign of a manifest that
\* validates is the only way into what is foreign.
Findings ==
  \A p \in Proc : found[p] # None =>
    /\ p \in created => found[p] = {}
    /\ "git" \in found[p] =>
         /\ dir # None /\ dir.git
         /\ pc[p] \in {"root", "mkdir", "git", "refused", "dead"} /\ helper[p] = None
    /\ "foreign" \in found[p] =>
         /\ dir # None /\ dir.foreign
         /\ pc[p] = "create" \/ helper[p] # None \/ p \in marked => dir.manifest = "valid"

\* The markers of owners, and what else a campaign directory shows.
Marking ==
  /\ \A p \in Proc : Owner(p) \/ helper[p] = "sync" => dir.marker = "whole" \/ spoilt
  /\ dir # None =>
       /\ dir.own => dir.marker = "whole" \/ dir.manifest = "valid" \/ spoilt
       /\ dir.manifest = "invalid" => dir.foreign

\* Who claims at the same time as another is in met.
Company == \A p \in Claiming \ met, q \in Claiming : q = p

Alone(p) == pc[p] \in Asking /\ p \notin met /\ ~spoilt /\ found[p] = {}

\* What a process on its own knows at each look.
Knows(p) ==
  /\ ~dir.git /\ ~dir.foreign
  /\ dir.marker = "torn" => helper[p] = "write"
  /\ pc[p] \in {"manifest", "list", "load"} => dir.marker = "none"
  /\ pc[p] = "git" /\ p \in created => dir.marker = "none"
  /\ pc[p] = "create" /\ helper[p] \in {None, "open"} => dir.marker = "none"
  /\ pc[p] = "list" => dir.manifest = "none"
  /\ pc[p] = "load" => dir.manifest # "none"
  /\ pc[p] = "validate" => dir.marker = "whole"

Solitude ==
  \A p \in Proc : Alone(p) /\ dir # None => Knows(p)

IInv ==
  /\ TypeOK /\ Presence /\ Findings /\ Marking
  /\ Company /\ Solitude /\ RefusedForAReason

-----------------------------------------------------------------------------
(* The directory *)

LEMMA EmptyType == Empty \in Directory
BY DEF Empty, Directory

LEMMA ObstaclesType == Obstacles \in SUBSET Obstacle /\ Obstacles # None
BY NoneAssumption DEF Obstacles

\* The updates the actions make stay within Directory.
LEMMA FieldType ==
  ASSUME NEW d \in Directory
  PROVE  /\ \A m \in {"none", "torn", "whole"} : [d EXCEPT !.marker = m] \in Directory
         /\ [d EXCEPT !.own = TRUE] \in Directory
         /\ [d EXCEPT !.foreign = TRUE] \in Directory
         /\ [d EXCEPT !.git = TRUE] \in Directory
         /\ [d EXCEPT !.manifest = IF @ = "none" THEN "valid" ELSE @] \in Directory
         /\ d # None
BY NoneAssumption DEF Directory

\* What keeps a run out, by where it lies.
LEMMA ObstaclesMean ==
  ASSUME dir \in Directory \cup {None}
  PROVE  /\ Obstacles \in SUBSET Obstacle /\ Obstacles # None
         /\ "git" \in Obstacles <=> dir # None /\ dir.git
         /\ "foreign" \in Obstacles <=> dir # None /\ dir.foreign
         /\ "torn" \in Obstacles <=> dir # None /\ dir.marker = "torn"
<1>1. Obstacles \in SUBSET Obstacle /\ Obstacles # None
  BY ObstaclesType
<1>2. CASE dir = None
  BY <1>1, <1>2 DEF Obstacles
<1>3. CASE dir # None
  BY <1>1, <1>3 DEF Obstacles, Obstacle
<1>4. QED
  BY <1>2, <1>3

\* Runs and helpers change fields of the directory and never remove it.
LEMMA DirStays ==
  ASSUME TypeOK, Presence, NEW p \in Proc,
         \/ Private(p) \/ Manifest(p)
         \/ HelperOpens(p) \/ HelperWrites(p) \/ HelperFails(p)
  PROVE  dir' \in Directory /\ dir' # None
<1>1. dir \in Directory
  BY NoneAssumption DEF TypeOK, Presence, Inside, HelperStep, At,
         Private, Manifest, HelperOpens, HelperWrites, HelperFails
<1>2. QED
  BY <1>1, FieldType DEF Private, Manifest, HelperOpens, HelperWrites, HelperFails

\* The user adds, and once there is a directory that spoils the claims under way.
LEMMA UserEffect ==
  ASSUME TypeOK, User
  PROVE  /\ dir' \in Directory /\ dir' # None
         /\ dir = None => dir' = Empty /\ spoilt' = spoilt
         /\ dir # None => /\ spoilt'
                          /\ dir.git => dir'.git
                          /\ dir.foreign => dir'.foreign
                          /\ dir'.manifest = dir.manifest
                          /\ dir'.marker = dir.marker /\ dir'.own = dir.own
<1>1. CASE dir = None
  <2>1. dir' = Empty
    BY <1>1 DEF User
  <2>2. spoilt' = spoilt
    BY <1>1, SMT DEF User, TypeOK
  <2>3. QED
    BY <1>1, <2>1, <2>2, EmptyType, FieldType
<1>2. CASE dir # None
  <2>1. dir \in Directory /\ dir # None
    BY <1>2 DEF TypeOK
  <2>2. spoilt'
    BY <1>2, Zenon DEF User
  <2>3. CASE dir' = [dir EXCEPT !.foreign = TRUE]
    <3>1. dir' \in Directory /\ dir' # None
      BY <2>1, <2>3, FieldType
    <3>2. dir'.foreign /\ dir'.git = dir.git
      BY <2>1, <2>3 DEF Directory
    <3>3. dir'.manifest = dir.manifest /\ dir'.marker = dir.marker /\ dir'.own = dir.own
      BY <2>1, <2>3 DEF Directory
    <3>4. QED
      BY <2>1, <2>2, <3>1, <3>2, <3>3
  <2>4. CASE dir' = [dir EXCEPT !.git = TRUE]
    <3>1. dir' \in Directory /\ dir' # None
      BY <2>1, <2>4, FieldType
    <3>2. dir'.git /\ dir'.foreign = dir.foreign
      BY <2>1, <2>4 DEF Directory
    <3>3. dir'.manifest = dir.manifest /\ dir'.marker = dir.marker /\ dir'.own = dir.own
      BY <2>1, <2>4 DEF Directory
    <3>4. QED
      BY <2>1, <2>2, <3>1, <3>2, <3>3
  <2>5. QED
    BY <1>2, <2>3, <2>4 DEF User
<1>3. QED
  BY <1>1, <1>2

-----------------------------------------------------------------------------
(* The invariant is inductive *)

LEMMA InitIInv == Init => IInv
<1> USE NoneAssumption
<1> SUFFICES ASSUME Init PROVE IInv
  OBVIOUS
<1> DEFINE Fine == /\ dir \in Directory \cup {None}
                   /\ dir # None =>
                        /\ dir.own => dir.manifest = "valid"
                        /\ dir.manifest = "invalid" => dir.foreign
<1>1. Fine
  <2>1. CASE dir \in {None, Empty, TornDirectory}
    <3>1. Empty \in Directory /\ TornDirectory \in Directory
      BY DEF Empty, TornDirectory, Directory
    <3>2. ~Empty.own /\ Empty.manifest = "none"
      BY DEF Empty
    <3>3. ~TornDirectory.own /\ TornDirectory.manifest = "none"
      BY DEF Empty, TornDirectory
    <3>4. QED
      BY <2>1, <3>1, <3>2, <3>3
  <2>2. ASSUME NEW g \in BOOLEAN, NEW m \in {"none", "invalid"}, dir = UserDirectory(g, m)
        PROVE  Fine
    BY <2>2 DEF UserDirectory, Empty, Directory
  <2>3. ASSUME NEW m \in {"none", "whole"}, dir = CampaignDirectory(m)
        PROVE  Fine
    BY <2>3 DEF CampaignDirectory, Empty, Directory
  <2>4. QED
    BY <2>1, <2>2, <2>3 DEF Init
<1>2. TypeOK
  BY <1>1 DEF Init, TypeOK, PC, HelperStep
<1>3. Presence
  BY DEF Init, Presence, Inside
<1>4. Findings
  BY DEF Init, Findings
<1>5. Marking
  BY <1>1 DEF Init, Marking, Owner, HelperStep
<1>6. Company /\ Solitude /\ RefusedForAReason
  BY DEF Init, Company, Claiming, Solitude, Alone, Asking, RefusedForAReason
<1>7. QED
  BY <1>2, <1>3, <1>4, <1>5, <1>6 DEF IInv

\* Every step keeps the types.
LEMMA TypeOKStep ==
  ASSUME IInv, Next
  PROVE TypeOK'
<1> USE NoneAssumption DEF IInv, TypeOK, Obstacle, PC, Asking, HelperStep, Ended, At, Goto
<1>1. ASSUME NEW p \in Proc, Call(p) PROVE TypeOK'
  BY <1>1, ObstaclesType DEF Call, Claiming
<1>2. ASSUME NEW p \in Proc, SeekRoot(p) PROVE TypeOK'
  BY <1>2 DEF SeekRoot, Look
<1>3. ASSUME NEW p \in Proc, MakeRoot(p) PROVE TypeOK'
  BY <1>3, ObstaclesType, EmptyType DEF MakeRoot, Presence
<1>4. ASSUME NEW p \in Proc, SeekGit(p) PROVE TypeOK'
  BY <1>4 DEF SeekGit, Look
<1>5. ASSUME NEW p \in Proc, SeekMarker(p) PROVE TypeOK'
  BY <1>5 DEF SeekMarker, Look
<1>6. ASSUME NEW p \in Proc, SeekManifest(p) PROVE TypeOK'
  BY <1>6 DEF SeekManifest, Look
<1>7. ASSUME NEW p \in Proc, List(p) PROVE TypeOK'
  BY <1>7 DEF List, Look
<1>8. ASSUME NEW p \in Proc, LoadManifest(p) PROVE TypeOK'
  BY <1>8 DEF LoadManifest, Look
<1>9. ASSUME NEW p \in Proc, Create(p) PROVE TypeOK'
  BY <1>9 DEF Create
<1>10. ASSUME NEW p \in Proc, Validate(p) PROVE TypeOK'
  BY <1>10 DEF Validate, Look
<1>11. ASSUME NEW p \in Proc, Private(p) PROVE TypeOK'
  BY <1>11, DirStays DEF Private, Presence
<1>12. ASSUME NEW p \in Proc, Manifest(p) PROVE TypeOK'
  BY <1>12, DirStays DEF Manifest, Presence
<1>13. ASSUME NEW p \in Proc, HelperOpens(p) PROVE TypeOK'
  BY <1>13, DirStays DEF HelperOpens, Report, Presence
<1>14. ASSUME NEW p \in Proc, HelperWrites(p) PROVE TypeOK'
  BY <1>14, DirStays DEF HelperWrites, Presence
<1>15. ASSUME NEW p \in Proc, HelperSyncs(p) PROVE TypeOK'
  BY <1>15 DEF HelperSyncs, Report
<1>16. ASSUME NEW p \in Proc, HelperFails(p) PROVE TypeOK'
  BY <1>16, DirStays DEF HelperFails, Report, Presence
<1>17. ASSUME NEW p \in Proc, HelperDies(p) PROVE TypeOK'
  BY <1>17 DEF HelperDies, Report
<1>18. ASSUME NEW p \in Proc, Crash(p) PROVE TypeOK'
  BY <1>18 DEF Crash
<1>19. CASE User
  BY <1>19, UserEffect DEF User
<1>20. CASE Rest
  BY <1>20 DEF Rest, vars
<1>21. QED
  BY <1>1, <1>2, <1>3, <1>4, <1>5, <1>6, <1>7, <1>8, <1>9, <1>10, <1>11, <1>12, <1>13,
     <1>14, <1>15, <1>16, <1>17, <1>18, <1>19, <1>20 DEF Next, Claim, Helper, Fault

\* The directory never goes; a process is never back at its mkdir.
LEMMA PresenceStep ==
  ASSUME IInv, Next
  PROVE Presence'
<1> USE NoneAssumption DEF IInv, TypeOK, PC, Asking, HelperStep, Ended, At, Goto,
       Presence, Inside
<1>1. ASSUME NEW p \in Proc, Call(p) PROVE Presence'
  BY <1>1, ObstaclesType DEF Call
<1>2. ASSUME NEW p \in Proc, SeekRoot(p) PROVE Presence'
  BY <1>2 DEF SeekRoot, Look
<1>3. ASSUME NEW p \in Proc, MakeRoot(p) PROVE Presence'
  BY <1>3, ObstaclesType, EmptyType DEF MakeRoot
<1>4. ASSUME NEW p \in Proc, SeekGit(p) PROVE Presence'
  BY <1>4 DEF SeekGit, Look
<1>5. ASSUME NEW p \in Proc, SeekMarker(p) PROVE Presence'
  BY <1>5 DEF SeekMarker, Look
<1>6. ASSUME NEW p \in Proc, SeekManifest(p) PROVE Presence'
  BY <1>6 DEF SeekManifest, Look
<1>7. ASSUME NEW p \in Proc, List(p) PROVE Presence'
  BY <1>7 DEF List, Look
<1>8. ASSUME NEW p \in Proc, LoadManifest(p) PROVE Presence'
  BY <1>8 DEF LoadManifest, Look
<1>9. ASSUME NEW p \in Proc, Create(p) PROVE Presence'
  BY <1>9 DEF Create
<1>10. ASSUME NEW p \in Proc, Validate(p) PROVE Presence'
  BY <1>10 DEF Validate, Look
<1>11. ASSUME NEW p \in Proc, Private(p) PROVE Presence'
  BY <1>11, DirStays DEF Private
<1>12. ASSUME NEW p \in Proc, Manifest(p) PROVE Presence'
  BY <1>12, DirStays DEF Manifest
<1>13. ASSUME NEW p \in Proc, HelperOpens(p) PROVE Presence'
  BY <1>13, DirStays DEF HelperOpens, Report
<1>14. ASSUME NEW p \in Proc, HelperWrites(p) PROVE Presence'
  BY <1>14, DirStays DEF HelperWrites
<1>15. ASSUME NEW p \in Proc, HelperSyncs(p) PROVE Presence'
  BY <1>15 DEF HelperSyncs, Report
<1>16. ASSUME NEW p \in Proc, HelperFails(p) PROVE Presence'
  BY <1>16, DirStays DEF HelperFails, Report
<1>17. ASSUME NEW p \in Proc, HelperDies(p) PROVE Presence'
  BY <1>17 DEF HelperDies, Report
<1>18. ASSUME NEW p \in Proc, Crash(p) PROVE Presence'
  BY <1>18 DEF Crash
<1>19. CASE User
  BY <1>19, UserEffect DEF User
<1>20. CASE Rest
  BY <1>20 DEF Rest, vars
<1>21. QED
  BY <1>1, <1>2, <1>3, <1>4, <1>5, <1>6, <1>7, <1>8, <1>9, <1>10, <1>11, <1>12, <1>13,
     <1>14, <1>15, <1>16, <1>17, <1>18, <1>19, <1>20 DEF Next, Claim, Helper, Fault

\* Nothing that kept a process out when it looked is ever removed, and no
\* process goes past what keeps it out.
LEMMA FindingsStep ==
  ASSUME IInv, Next
  PROVE Findings'
<1> USE NoneAssumption DEF IInv, TypeOK, Directory, PC, Asking, HelperStep, Ended, At,
       Goto, Presence, Inside, Findings
<1>1. ASSUME NEW p \in Proc, Call(p) PROVE Findings'
  BY <1>1, ObstaclesMean DEF Call
<1>2. ASSUME NEW p \in Proc, SeekRoot(p) PROVE Findings'
  BY <1>2 DEF SeekRoot, Look
<1>3. ASSUME NEW p \in Proc, MakeRoot(p) PROVE Findings'
  <2>1. CASE dir = None
    <3>1. Obstacles = {}
      BY <2>1 DEF Obstacles
    <3>2. QED
      BY <1>3, <2>1, <3>1 DEF MakeRoot
  <2>2. CASE dir # None
    <3>1. p \notin created /\ dir' = dir /\ created' = created
      BY <1>3, <2>2 DEF MakeRoot
    <3>2. QED
      BY <1>3, <2>2, <3>1, ObstaclesMean DEF MakeRoot
  <2>3. QED
    BY <2>1, <2>2
<1>4. ASSUME NEW p \in Proc, SeekGit(p) PROVE Findings'
  BY <1>4 DEF SeekGit, Look
<1>5. ASSUME NEW p \in Proc, SeekMarker(p) PROVE Findings'
  BY <1>5 DEF SeekMarker, Look
<1>6. ASSUME NEW p \in Proc, SeekManifest(p) PROVE Findings'
  BY <1>6 DEF SeekManifest, Look
<1>7. ASSUME NEW p \in Proc, List(p) PROVE Findings'
  BY <1>7 DEF List, Look, Empty
<1>8. ASSUME NEW p \in Proc, LoadManifest(p) PROVE Findings'
  BY <1>8 DEF LoadManifest, Look
<1>9. ASSUME NEW p \in Proc, Create(p) PROVE Findings'
  BY <1>9 DEF Create
<1>10. ASSUME NEW p \in Proc, Validate(p) PROVE Findings'
  BY <1>10 DEF Validate, Look
<1>11. ASSUME NEW p \in Proc, Private(p) PROVE Findings'
  BY <1>11 DEF Private
<1>12. ASSUME NEW p \in Proc, Manifest(p) PROVE Findings'
  BY <1>12 DEF Manifest
<1>13. ASSUME NEW p \in Proc, HelperOpens(p) PROVE Findings'
  BY <1>13 DEF HelperOpens, Report
<1>14. ASSUME NEW p \in Proc, HelperWrites(p) PROVE Findings'
  BY <1>14 DEF HelperWrites
<1>15. ASSUME NEW p \in Proc, HelperSyncs(p) PROVE Findings'
  BY <1>15 DEF HelperSyncs, Report
<1>16. ASSUME NEW p \in Proc, HelperFails(p) PROVE Findings'
  BY <1>16 DEF HelperFails, Report
<1>17. ASSUME NEW p \in Proc, HelperDies(p) PROVE Findings'
  BY <1>17 DEF HelperDies, Report
<1>18. ASSUME NEW p \in Proc, Crash(p) PROVE Findings'
  BY <1>18 DEF Crash
<1>19. CASE User
  BY <1>19, UserEffect DEF User, Empty
<1>20. CASE Rest
  BY <1>20 DEF Rest, vars
<1>21. QED
  BY <1>1, <1>2, <1>3, <1>4, <1>5, <1>6, <1>7, <1>8, <1>9, <1>10, <1>11, <1>12, <1>13,
     <1>14, <1>15, <1>16, <1>17, <1>18, <1>19, <1>20 DEF Next, Claim, Helper, Fault

\* A marker that was once whole goes only with a failing helper.
LEMMA MarkingStep ==
  ASSUME IInv, Next
  PROVE Marking'
<1> USE NoneAssumption DEF IInv, TypeOK, Directory, PC, Asking, HelperStep, Ended, At,
       Goto, Presence, Inside, Findings, Marking, Owner
<1>1. ASSUME NEW p \in Proc, Call(p) PROVE Marking'
  BY <1>1 DEF Call
<1>2. ASSUME NEW p \in Proc, SeekRoot(p) PROVE Marking'
  BY <1>2 DEF SeekRoot, Look
<1>3. ASSUME NEW p \in Proc, MakeRoot(p) PROVE Marking'
  BY <1>3 DEF MakeRoot, Empty
<1>4. ASSUME NEW p \in Proc, SeekGit(p) PROVE Marking'
  BY <1>4 DEF SeekGit, Look
<1>5. ASSUME NEW p \in Proc, SeekMarker(p) PROVE Marking'
  BY <1>5 DEF SeekMarker, Look
<1>6. ASSUME NEW p \in Proc, SeekManifest(p) PROVE Marking'
  BY <1>6 DEF SeekManifest, Look
<1>7. ASSUME NEW p \in Proc, List(p) PROVE Marking'
  BY <1>7 DEF List, Look, Empty
<1>8. ASSUME NEW p \in Proc, LoadManifest(p) PROVE Marking'
  BY <1>8 DEF LoadManifest, Look
<1>9. ASSUME NEW p \in Proc, Create(p) PROVE Marking'
  BY <1>9 DEF Create
<1>10. ASSUME NEW p \in Proc, Validate(p) PROVE Marking'
  BY <1>10 DEF Validate, Look
<1>11. ASSUME NEW p \in Proc, Private(p) PROVE Marking'
  BY <1>11 DEF Private
<1>12. ASSUME NEW p \in Proc, Manifest(p) PROVE Marking'
  BY <1>12 DEF Manifest
<1>13. ASSUME NEW p \in Proc, HelperOpens(p) PROVE Marking'
  BY <1>13 DEF HelperOpens, Report
<1>14. ASSUME NEW p \in Proc, HelperWrites(p) PROVE Marking'
  BY <1>14 DEF HelperWrites
<1>15. ASSUME NEW p \in Proc, HelperSyncs(p) PROVE Marking'
  BY <1>15 DEF HelperSyncs, Report
<1>16. ASSUME NEW p \in Proc, HelperFails(p) PROVE Marking'
  BY <1>16 DEF HelperFails, Report
<1>17. ASSUME NEW p \in Proc, HelperDies(p) PROVE Marking'
  BY <1>17 DEF HelperDies, Report
<1>18. ASSUME NEW p \in Proc, Crash(p) PROVE Marking'
  BY <1>18 DEF Crash
<1>19. CASE User
  BY <1>19, UserEffect DEF User, Empty
<1>20. CASE Rest
  BY <1>20 DEF Rest, vars
<1>21. QED
  BY <1>1, <1>2, <1>3, <1>4, <1>5, <1>6, <1>7, <1>8, <1>9, <1>10, <1>11, <1>12, <1>13,
     <1>14, <1>15, <1>16, <1>17, <1>18, <1>19, <1>20 DEF Next, Claim, Helper, Fault

\* Two claims that overlap are both known to: the later call sees to it.
LEMMA CompanyStep ==
  ASSUME IInv, Next
  PROVE Company'
<1> USE NoneAssumption DEF IInv, TypeOK, PC, Asking, HelperStep, Ended, At, Goto,
       Presence, Inside, Claiming, Company
<1>1. ASSUME NEW p \in Proc, Call(p) PROVE Company'
  BY <1>1 DEF Call
<1>2. ASSUME NEW p \in Proc, SeekRoot(p) PROVE Company'
  BY <1>2 DEF SeekRoot, Look
<1>3. ASSUME NEW p \in Proc, MakeRoot(p) PROVE Company'
  BY <1>3 DEF MakeRoot
<1>4. ASSUME NEW p \in Proc, SeekGit(p) PROVE Company'
  BY <1>4 DEF SeekGit, Look
<1>5. ASSUME NEW p \in Proc, SeekMarker(p) PROVE Company'
  BY <1>5 DEF SeekMarker, Look
<1>6. ASSUME NEW p \in Proc, SeekManifest(p) PROVE Company'
  BY <1>6 DEF SeekManifest, Look
<1>7. ASSUME NEW p \in Proc, List(p) PROVE Company'
  BY <1>7 DEF List, Look
<1>8. ASSUME NEW p \in Proc, LoadManifest(p) PROVE Company'
  BY <1>8 DEF LoadManifest, Look
<1>9. ASSUME NEW p \in Proc, Create(p) PROVE Company'
  BY <1>9 DEF Create
<1>10. ASSUME NEW p \in Proc, Validate(p) PROVE Company'
  BY <1>10 DEF Validate, Look
<1>11. ASSUME NEW p \in Proc, Private(p) PROVE Company'
  BY <1>11 DEF Private
<1>12. ASSUME NEW p \in Proc, Manifest(p) PROVE Company'
  BY <1>12 DEF Manifest
<1>13. ASSUME NEW p \in Proc, HelperOpens(p) PROVE Company'
  BY <1>13 DEF HelperOpens, Report
<1>14. ASSUME NEW p \in Proc, HelperWrites(p) PROVE Company'
  BY <1>14 DEF HelperWrites
<1>15. ASSUME NEW p \in Proc, HelperSyncs(p) PROVE Company'
  BY <1>15 DEF HelperSyncs, Report
<1>16. ASSUME NEW p \in Proc, HelperFails(p) PROVE Company'
  BY <1>16 DEF HelperFails, Report
<1>17. ASSUME NEW p \in Proc, HelperDies(p) PROVE Company'
  BY <1>17 DEF HelperDies, Report
<1>18. ASSUME NEW p \in Proc, Crash(p) PROVE Company'
  BY <1>18 DEF Crash
<1>19. CASE User
  BY <1>19, UserEffect DEF User
<1>20. CASE Rest
  BY <1>20 DEF Rest, vars
<1>21. QED
  BY <1>1, <1>2, <1>3, <1>4, <1>5, <1>6, <1>7, <1>8, <1>9, <1>10, <1>11, <1>12, <1>13,
     <1>14, <1>15, <1>16, <1>17, <1>18, <1>19, <1>20 DEF Next, Claim, Helper, Fault

\* What a process on its own found at a look still holds at the next one.
LEMMA SolitudeStep ==
  ASSUME IInv, Next
  PROVE Solitude'
<1> USE NoneAssumption DEF IInv, TypeOK, Directory, PC, Asking, HelperStep, Ended, At,
       Goto, Presence, Inside, Findings, Marking, Claiming, Company, Alone, Knows,
       Solitude, Owner
<1>1. ASSUME NEW p \in Proc, Call(p) PROVE Solitude'
  BY <1>1, ObstaclesMean DEF Call
<1>2. ASSUME NEW p \in Proc, SeekRoot(p) PROVE Solitude'
  BY <1>2 DEF SeekRoot, Look
<1>3. ASSUME NEW p \in Proc, MakeRoot(p) PROVE Solitude'
  BY <1>3, ObstaclesMean DEF MakeRoot, Empty
<1>4. ASSUME NEW p \in Proc, SeekGit(p) PROVE Solitude'
  BY <1>4 DEF SeekGit, Look
<1>5. ASSUME NEW p \in Proc, SeekMarker(p) PROVE Solitude'
  BY <1>5 DEF SeekMarker, Look
<1>6. ASSUME NEW p \in Proc, SeekManifest(p) PROVE Solitude'
  BY <1>6 DEF SeekManifest, Look
<1>7. ASSUME NEW p \in Proc, List(p) PROVE Solitude'
  BY <1>7 DEF List, Look, Empty
<1>8. ASSUME NEW p \in Proc, LoadManifest(p) PROVE Solitude'
  BY <1>8 DEF LoadManifest, Look
<1>9. ASSUME NEW p \in Proc, Create(p) PROVE Solitude'
  BY <1>9 DEF Create
<1>10. ASSUME NEW p \in Proc, Validate(p) PROVE Solitude'
  BY <1>10 DEF Validate, Look
<1>11. ASSUME NEW p \in Proc, Private(p) PROVE Solitude'
  BY <1>11 DEF Private
<1>12. ASSUME NEW p \in Proc, Manifest(p) PROVE Solitude'
  BY <1>12 DEF Manifest
<1>13. ASSUME NEW p \in Proc, HelperOpens(p) PROVE Solitude'
  BY <1>13 DEF HelperOpens, Report
<1>14. ASSUME NEW p \in Proc, HelperWrites(p) PROVE Solitude'
  BY <1>14 DEF HelperWrites
<1>15. ASSUME NEW p \in Proc, HelperSyncs(p) PROVE Solitude'
  BY <1>15 DEF HelperSyncs, Report
<1>16. ASSUME NEW p \in Proc, HelperFails(p) PROVE Solitude'
  BY <1>16 DEF HelperFails, Report
<1>17. ASSUME NEW p \in Proc, HelperDies(p) PROVE Solitude'
  BY <1>17 DEF HelperDies, Report
<1>18. ASSUME NEW p \in Proc, Crash(p) PROVE Solitude'
  BY <1>18 DEF Crash
<1>19. CASE User
  BY <1>19, UserEffect DEF User, Empty
<1>20. CASE Rest
  BY <1>20 DEF Rest, vars
<1>21. QED
  BY <1>1, <1>2, <1>3, <1>4, <1>5, <1>6, <1>7, <1>8, <1>9, <1>10, <1>11, <1>12, <1>13,
     <1>14, <1>15, <1>16, <1>17, <1>18, <1>19, <1>20 DEF Next, Claim, Helper, Fault

\* Each refusal follows from what the process was known to meet.
LEMMA RefusedForAReasonStep ==
  ASSUME IInv, Next
  PROVE RefusedForAReason'
<1> USE NoneAssumption DEF IInv, TypeOK, Directory, PC, Asking, HelperStep, Ended, At,
       Goto, Presence, Inside, Marking, Alone, Knows, Solitude, RefusedForAReason
<1>1. ASSUME NEW p \in Proc, Call(p) PROVE RefusedForAReason'
  BY <1>1 DEF Call
<1>2. ASSUME NEW p \in Proc, SeekRoot(p) PROVE RefusedForAReason'
  BY <1>2 DEF SeekRoot, Look
<1>3. ASSUME NEW p \in Proc, MakeRoot(p) PROVE RefusedForAReason'
  BY <1>3 DEF MakeRoot, Empty
<1>4. ASSUME NEW p \in Proc, SeekGit(p) PROVE RefusedForAReason'
  BY <1>4 DEF SeekGit, Look
<1>5. ASSUME NEW p \in Proc, SeekMarker(p) PROVE RefusedForAReason'
  BY <1>5 DEF SeekMarker, Look
<1>6. ASSUME NEW p \in Proc, SeekManifest(p) PROVE RefusedForAReason'
  BY <1>6 DEF SeekManifest, Look
<1>7. ASSUME NEW p \in Proc, List(p) PROVE RefusedForAReason'
  BY <1>7 DEF List, Look, Empty
<1>8. ASSUME NEW p \in Proc, LoadManifest(p) PROVE RefusedForAReason'
  BY <1>8 DEF LoadManifest, Look
<1>9. ASSUME NEW p \in Proc, Create(p) PROVE RefusedForAReason'
  BY <1>9 DEF Create
<1>10. ASSUME NEW p \in Proc, Validate(p) PROVE RefusedForAReason'
  BY <1>10 DEF Validate, Look
<1>11. ASSUME NEW p \in Proc, Private(p) PROVE RefusedForAReason'
  BY <1>11 DEF Private
<1>12. ASSUME NEW p \in Proc, Manifest(p) PROVE RefusedForAReason'
  BY <1>12 DEF Manifest
<1>13. ASSUME NEW p \in Proc, HelperOpens(p) PROVE RefusedForAReason'
  BY <1>13 DEF HelperOpens, Report
<1>14. ASSUME NEW p \in Proc, HelperWrites(p) PROVE RefusedForAReason'
  BY <1>14 DEF HelperWrites
<1>15. ASSUME NEW p \in Proc, HelperSyncs(p) PROVE RefusedForAReason'
  BY <1>15 DEF HelperSyncs, Report
<1>16. ASSUME NEW p \in Proc, HelperFails(p) PROVE RefusedForAReason'
  BY <1>16 DEF HelperFails, Report
<1>17. ASSUME NEW p \in Proc, HelperDies(p) PROVE RefusedForAReason'
  BY <1>17 DEF HelperDies, Report
<1>18. ASSUME NEW p \in Proc, Crash(p) PROVE RefusedForAReason'
  BY <1>18 DEF Crash
<1>19. CASE User
  BY <1>19, UserEffect DEF User
<1>20. CASE Rest
  BY <1>20 DEF Rest, vars
<1>21. QED
  BY <1>1, <1>2, <1>3, <1>4, <1>5, <1>6, <1>7, <1>8, <1>9, <1>10, <1>11, <1>12, <1>13,
     <1>14, <1>15, <1>16, <1>17, <1>18, <1>19, <1>20 DEF Next, Claim, Helper, Fault

\* What no variable of the model changes in.
LEMMA Stutter == IInv /\ UNCHANGED vars => IInv'
BY DEF IInv, vars, TypeOK, Presence, Findings, Marking, Company, Claiming, Solitude,
       Alone, Knows, RefusedForAReason, Owner

THEOREM Inductive == Spec => []IInv
<1>1. IInv /\ Next => IInv'
  BY TypeOKStep, PresenceStep, FindingsStep, MarkingStep, CompanyStep, SolitudeStep,
     RefusedForAReasonStep DEF IInv
<1>2. QED
  BY InitIInv, <1>1, Stutter, PTL DEF Spec

-----------------------------------------------------------------------------
(* The theorems *)

\* The types of the variables; of all processes at most one made the directory.
THEOREM TypeCorrect == Spec => []TypeOK
<1>1. IInv => TypeOK
  BY DEF IInv
<1>2. QED
  BY Inductive, <1>1, PTL

\* However many processes claim a directory, whatever its user does to it meanwhile
\* and whenever processes and helpers die: nobody marks what was somebody else's,
\* nobody owns a repository, and an owner can show its marker (run.js 104-165).
THEOREM OwnershipIsRight == Spec => []OwnedRightly
<1>1. IInv => OwnedRightly
  BY DEF IInv, Findings, Marking, OwnedRightly, Owner
<1>2. QED
  BY Inductive, <1>1, PTL

\* However many processes claim a directory, one that is refused met an obstacle, a
\* failure or a competitor (run.js 104-165).
THEOREM RefusalHasReason == Spec => []RefusedForAReason
<1>1. IInv => RefusedForAReason
  BY DEF IInv
<1>2. QED
  BY Inductive, <1>1, PTL

=============================================================================
