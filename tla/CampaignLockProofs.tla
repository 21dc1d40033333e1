-------------------------- MODULE CampaignLockProofs --------------------------
(***************************************************************************)
(* Theorems about the campaign lock, for any set of processes on any hosts *)
(* and any leftovers of dead ones.                                         *)
(*                                                                         *)
(* The inductive invariant has two halves.  The first (Control) says how   *)
(* the location of a process, its helper and its claim on the lock go      *)
(* together; it holds whatever happens to the guard.  The second (Exclusion)*)
(* is the argument why the lock excludes: the guard has one holder, so     *)
(* nothing changes the dead lock between a reclaimer's check and its       *)
(* unlink, so a live lock is never unlinked by anybody else.               *)
(***************************************************************************)
EXTENDS CampaignLock, TLAPS

\* The file a waiting process asked its helper for.
Job(l) == IF l \in {"creating", "recreating"} THEN "lock" ELSE "guard"

HelperOK ==
  \A p \in Proc :
    /\ \/ helper[p] = NoHelper
       \/ helper[p].file \in File /\ helper[p].at \in {"open", "write", "sync"}
    /\ (helper[p] # NoHelper /\ ~helper[p].killed /\ ~Dead(p)) => pc[p] \in Creating
    /\ pc[p] \in Creating =>
         /\ helper[p] # NoHelper
         /\ ~helper[p].killed
         /\ helper[p].file = Job(pc[p])

HeldOK ==
  \A p \in Proc :
    /\ p \in held => pc[p] \notin {"idle", "dead", "done", "failed", "relUnguarding"}
    /\ pc[p] \in {"working", "relReading", "relUnlinking"} => p \in held

Control == TypeOK /\ HelperOK /\ HeldOK

\* A lock that is being written is its writer's and incomplete, whether or not
\* the writer's parent lives; one that is being synced is its live creator's, who
\* does not have it yet.
WriterHasLock ==
  \A p \in Proc : helper[p].file = "lock" =>
    /\ helper[p].at = "write" => disk["lock"] = p /\ ~written["lock"]
    /\ (helper[p].at = "sync" /\ ~helper[p].killed /\ ~Dead(p))
         => disk["lock"] = p /\ written["lock"] /\ p \notin held

\* What a working process relies on is on disk: campaign.lock is there, was
\* created by it and is complete, so that every other process reads it as held.
HeldIsOnDisk ==
  \A p \in held :
    /\ disk["lock"] = p /\ written["lock"]
    /\ pc[p] \in {"working", "creating", "reading", "unguarding",
                  "relReading", "relUnlinking"}

GuardIsMine ==
  \A p \in Proc :
    (\/ Reclaiming(p)
     \/ /\ helper[p].file = "guard" /\ helper[p].at \in {"write", "sync"}
        /\ ~helper[p].killed /\ ~Dead(p))
      => disk["guard"] = p

CheckedIsDead ==
  \A p \in Proc : pc[p] = "unlinking" =>
    /\ disk["lock"] = seen["lock"][p] /\ written["lock"]
    /\ \E q \in Proc : disk["lock"] = q /\ Dead(q) /\ HostOf[q] = HostOf[p]

Exclusion == ~broken => WriterHasLock /\ HeldIsOnDisk /\ GuardIsMine /\ CheckedIsDead

IInv == Control /\ Exclusion

-----------------------------------------------------------------------------
(* Control *)

\* The three shapes of a helper, so that no other proof opens the records.
LEMMA HelperShapes ==
  /\ NoHelper \in HelperState
  /\ NoHelper.file = "none" /\ NoHelper.at = "none" /\ ~NoHelper.killed
  /\ \A f \in File :
       /\ Helper(f) \in HelperState /\ Helper(f) # NoHelper
       /\ Helper(f).file = f /\ Helper(f).at = "open" /\ ~Helper(f).killed
  /\ \A h \in HelperState :
       LET w == [h EXCEPT !.at = "write"]  k == [h EXCEPT !.killed = TRUE] IN
       /\ w \in HelperState /\ w # NoHelper
       /\ w.file = h.file /\ w.at = "write" /\ w.killed = h.killed
       /\ k \in HelperState /\ k # NoHelper
       /\ k.file = h.file /\ k.at = h.at /\ k.killed
BY DEF NoHelper, Helper, HelperState, File

\* A fourth one: HelperWrite leaves a helper that has still to sync its file.
LEMMA SyncShape ==
  \A h \in HelperState :
    LET y == [h EXCEPT !.at = "sync"] IN
    /\ y \in HelperState /\ y # NoHelper
    /\ y.file = h.file /\ y.at = "sync" /\ y.killed = h.killed
BY DEF NoHelper, HelperState, File

\* At the start no process holds the lock or waits for a helper.
LEMMA ControlInit == Init => Control
<1> SUFFICES ASSUME Init PROVE Control
  OBVIOUS
<1>1. TypeOK
  BY LockAssumption, HelperShapes DEF Init, TypeOK, Location, File
<1>2. HelperOK
  BY DEF Init, HelperOK, NoHelper, Creating
<1>3. HeldOK
  BY DEF Init, HeldOK
<1>4. QED
  BY <1>1, <1>2, <1>3 DEF Control

\* Where a waiting process goes, in one expression per location and outcome.
After(p, o) ==
  IF pc[p] = "creating" /\ o = "ok" THEN "working"
  ELSE IF pc[p] = "creating" /\ o = "exists" THEN "reading"
  ELSE IF pc[p] = "guarding" /\ o = "exists" THEN "gReading"
  ELSE IF pc[p] \in {"guarding", "reguarding"} /\ o = "ok" THEN "rechecking"
  ELSE IF pc[p] = "recreating" THEN "unguarding"
  ELSE Returned(p)

\* OnCreate, entry by entry: what acquireLock does with each outcome of a create.
LEMMA OnCreateTable ==
  /\ OnCreate["creating"]["ok"] = "working"
  /\ OnCreate["creating"]["exists"] = "reading"
  /\ OnCreate["creating"]["error"] = "return"
  /\ OnCreate["guarding"]["ok"] = "rechecking"
  /\ OnCreate["guarding"]["exists"] = "gReading"
  /\ OnCreate["guarding"]["error"] = "return"
  /\ OnCreate["reguarding"]["ok"] = "rechecking"
  /\ OnCreate["reguarding"]["exists"] = "return"
  /\ OnCreate["reguarding"]["error"] = "return"
  /\ OnCreate["recreating"]["ok"] = "unguarding"
  /\ OnCreate["recreating"]["exists"] = "unguarding"
  /\ OnCreate["recreating"]["error"] = "unguarding"
BY DEF OnCreate

\* What a helper's report does to its parent: nothing when the parent is dead
\* or has given up waiting, else one move.
LEMMA ReportMoves ==
  ASSUME Control, NEW p \in Proc, helper[p] # NoHelper,
         NEW o \in {"ok", "exists", "error"}, Report(p, o)
  PROVE  \/ (helper[p].killed \/ Dead(p)) /\ pc' = pc
         \/ /\ ~helper[p].killed /\ ~Dead(p) /\ pc[p] \in Creating
            /\ helper[p].file = Job(pc[p])
            /\ pc' = [pc EXCEPT ![p] = After(p, o)]
<1>1. CASE helper[p].killed \/ Dead(p)
  BY <1>1 DEF Report
<1>2. CASE ~helper[p].killed /\ ~Dead(p)
  <2>1. pc[p] \in Creating /\ helper[p].file = Job(pc[p])
    BY <1>2 DEF Control, HelperOK
  <2>2. Goto(p, OnCreate[pc[p]][o])
    BY <1>2 DEF Report
  <2>3. After(p, o) = IF OnCreate[pc[p]][o] = "return" THEN Returned(p)
                      ELSE OnCreate[pc[p]][o]
    BY <2>1, OnCreateTable DEF Creating, After
  <2>4. QED
    BY <1>2, <2>1, <2>2, <2>3 DEF Goto
<1>3. QED
  BY <1>1, <1>2

\* Every step of acquireLock, releaseLock, a helper or a failure keeps a process,
\* its helper and its claim on the lock in agreement.
LEMMA ControlStep == Control /\ [Next]_vars => Control'
<1> SUFFICES ASSUME Control, [Next]_vars PROVE Control'
  OBVIOUS
<1>0. TypeOK /\ HelperOK /\ HeldOK
  BY DEF Control
<1>a. /\ pc \in [Proc -> Location] /\ held \subseteq Proc
      /\ helper \in [Proc -> HelperState]
  BY <1>0 DEF TypeOK
<1>1. ASSUME NEW p \in Proc, Acquire(p) PROVE Control'
  <2>1. TypeOK'
    BY <1>0, <1>1, LockAssumption, HelperShapes DEF TypeOK, Location, Creating, File, Acquire, Goto, Returned, Create
  <2>2. HelperOK'
    BY <1>0, <1>a, <1>1, HelperShapes DEF Creating, File, HelperOK, Job, Dead, Acquire, Goto, Returned, Create
  <2>3. HeldOK'
    BY <1>0, <1>a, <1>1 DEF HeldOK, Acquire, Goto, Returned
  <2>4. QED
    BY <2>1, <2>2, <2>3 DEF Control
<1>2. ASSUME NEW p \in Proc, ReadLock(p) PROVE Control'
  <2>1. TypeOK'
    BY <1>0, <1>2, LockAssumption, HelperShapes DEF TypeOK, Location, Creating, File, ReadLock, Goto, Returned
  <2>2. HelperOK'
    BY <1>0, <1>a, <1>2, HelperShapes DEF Creating, File, HelperOK, Job, Dead, ReadLock, Goto, Returned
  <2>3. HeldOK'
    BY <1>0, <1>a, <1>2 DEF HeldOK, ReadLock, Goto, Returned
  <2>4. QED
    BY <2>1, <2>2, <2>3 DEF Control
<1>3. ASSUME NEW p \in Proc, JudgeLock(p) PROVE Control'
  <2>1. TypeOK'
    BY <1>0, <1>3, LockAssumption, HelperShapes DEF TypeOK, Location, Creating, File, JudgeLock, Goto, Returned, Create
  <2>2. HelperOK'
    BY <1>0, <1>a, <1>3, HelperShapes DEF Creating, File, HelperOK, Job, Dead, JudgeLock, Goto, Returned, Create
  <2>3. HeldOK'
    BY <1>0, <1>a, <1>3 DEF HeldOK, JudgeLock, Goto, Returned
  <2>4. QED
    BY <2>1, <2>2, <2>3 DEF Control
<1>4. ASSUME NEW p \in Proc, ReadGuard(p) PROVE Control'
  <2>1. TypeOK'
    BY <1>0, <1>4, LockAssumption, HelperShapes DEF TypeOK, Location, Creating, File, ReadGuard, Goto, Returned
  <2>2. HelperOK'
    BY <1>0, <1>a, <1>4, HelperShapes DEF Creating, File, HelperOK, Job, Dead, ReadGuard, Goto, Returned
  <2>3. HeldOK'
    BY <1>0, <1>a, <1>4 DEF HeldOK, ReadGuard, Goto, Returned
  <2>4. QED
    BY <2>1, <2>2, <2>3 DEF Control
<1>5. ASSUME NEW p \in Proc, JudgeGuard(p) PROVE Control'
  <2>1. TypeOK'
    BY <1>0, <1>5, LockAssumption, HelperShapes DEF TypeOK, Location, Creating, File, JudgeGuard, Goto, Returned
  <2>2. HelperOK'
    BY <1>0, <1>a, <1>5, HelperShapes DEF Creating, File, HelperOK, Job, Dead, JudgeGuard, Goto, Returned
  <2>3. HeldOK'
    BY <1>0, <1>a, <1>5 DEF HeldOK, JudgeGuard, Goto, Returned
  <2>4. QED
    BY <2>1, <2>2, <2>3 DEF Control
<1>6. ASSUME NEW p \in Proc, RereadGuard(p) PROVE Control'
  <2>1. TypeOK'
    BY <1>0, <1>6, LockAssumption, HelperShapes DEF TypeOK, Location, Creating, File, RereadGuard, Goto, Returned, Create
  <2>2. HelperOK'
    BY <1>0, <1>a, <1>6, HelperShapes DEF Creating, File, HelperOK, Job, Dead, RereadGuard, Goto, Returned, Create
  <2>3. HeldOK'
    BY <1>0, <1>a, <1>6 DEF HeldOK, RereadGuard, Goto, Returned
  <2>4. QED
    BY <2>1, <2>2, <2>3 DEF Control
<1>7. ASSUME NEW p \in Proc, UnlinkGuard(p) PROVE Control'
  <2>1. TypeOK'
    BY <1>0, <1>7, LockAssumption, HelperShapes DEF TypeOK, Location, Creating, File, UnlinkGuard, Goto, Returned, Create, UnlinkGuardOf, Unlink
  <2>2. HelperOK'
    BY <1>0, <1>a, <1>7, HelperShapes DEF Creating, File, HelperOK, Job, Dead, UnlinkGuard, Goto, Returned, Create, UnlinkGuardOf, Unlink
  <2>3. HeldOK'
    BY <1>0, <1>a, <1>7 DEF HeldOK, UnlinkGuard, Goto, Returned
  <2>4. QED
    BY <2>1, <2>2, <2>3 DEF Control
<1>8. ASSUME NEW p \in Proc, RecheckLock(p) PROVE Control'
  <2>1. TypeOK'
    BY <1>0, <1>8, LockAssumption, HelperShapes DEF TypeOK, Location, Creating, File, RecheckLock, Goto, Returned, Create
  <2>2. HelperOK'
    BY <1>0, <1>a, <1>8, HelperShapes DEF Creating, File, HelperOK, Job, Dead, RecheckLock, Goto, Returned, Create
  <2>3. HeldOK'
    BY <1>0, <1>a, <1>8 DEF HeldOK, RecheckLock, Goto, Returned
  <2>4. QED
    BY <2>1, <2>2, <2>3 DEF Control
<1>9. ASSUME NEW p \in Proc, UnlinkLock(p) PROVE Control'
  <2>1. TypeOK'
    BY <1>0, <1>9, LockAssumption, HelperShapes DEF TypeOK, Location, Creating, File, UnlinkLock, Goto, Returned, Create, Unlink
  <2>2. HelperOK'
    BY <1>0, <1>a, <1>9, HelperShapes DEF Creating, File, HelperOK, Job, Dead, UnlinkLock, Goto, Returned, Create, Unlink
  <2>3. HeldOK'
    BY <1>0, <1>a, <1>9 DEF HeldOK, UnlinkLock, Goto, Returned, Unlink
  <2>4. QED
    BY <2>1, <2>2, <2>3 DEF Control
<1>10. ASSUME NEW p \in Proc, Unguard(p) PROVE Control'
  <2>1. TypeOK'
    BY <1>0, <1>10, LockAssumption, HelperShapes DEF TypeOK, Location, Creating, File, Unguard, Goto, Returned, UnlinkGuardOf, Unlink
  <2>2. HelperOK'
    BY <1>0, <1>a, <1>10, HelperShapes DEF Creating, File, HelperOK, Job, Dead, Unguard, Goto, Returned, UnlinkGuardOf, Unlink
  <2>3. HeldOK'
    BY <1>0, <1>a, <1>10 DEF HeldOK, Unguard, Goto, Returned
  <2>4. QED
    BY <2>1, <2>2, <2>3 DEF Control
<1>11. ASSUME NEW p \in Proc, Release(p) PROVE Control'
  <2>1. TypeOK'
    BY <1>0, <1>11, LockAssumption, HelperShapes DEF TypeOK, Location, Creating, File, Release, Goto, Returned
  <2>2. HelperOK'
    BY <1>0, <1>a, <1>11, HelperShapes DEF Creating, File, HelperOK, Job, Dead, Release, Goto, Returned
  <2>3. HeldOK'
    BY <1>0, <1>a, <1>11 DEF HeldOK, Release, Goto, Returned
  <2>4. QED
    BY <2>1, <2>2, <2>3 DEF Control
<1>12. ASSUME NEW p \in Proc, ReleaseRead(p) PROVE Control'
  <2>1. TypeOK'
    BY <1>0, <1>12, LockAssumption, HelperShapes DEF TypeOK, Location, Creating, File, ReleaseRead, Goto, Returned
  <2>2. HelperOK'
    BY <1>0, <1>a, <1>12, HelperShapes DEF Creating, File, HelperOK, Job, Dead, ReleaseRead, Goto, Returned
  <2>3. HeldOK'
    BY <1>0, <1>a, <1>12 DEF HeldOK, ReleaseRead, Goto, Returned
  <2>4. QED
    BY <2>1, <2>2, <2>3 DEF Control
<1>13. ASSUME NEW p \in Proc, ReleaseUnlink(p) PROVE Control'
  <2>1. TypeOK'
    BY <1>0, <1>13, LockAssumption, HelperShapes DEF TypeOK, Location, Creating, File, ReleaseUnlink, Goto, Returned, Unlink
  <2>2. HelperOK'
    BY <1>0, <1>a, <1>13, HelperShapes DEF Creating, File, HelperOK, Job, Dead, ReleaseUnlink, Goto, Returned, Unlink
  <2>3. HeldOK'
    BY <1>0, <1>a, <1>13 DEF HeldOK, ReleaseUnlink, Goto, Returned, Unlink
  <2>4. QED
    BY <2>1, <2>2, <2>3 DEF Control
<1>14. ASSUME NEW p \in Proc, ReleaseUnguard(p) PROVE Control'
  <2>1. TypeOK'
    BY <1>0, <1>14, LockAssumption, HelperShapes DEF TypeOK, Location, Creating, File, ReleaseUnguard, Goto, Returned, UnlinkGuardOf, Unlink
  <2>2. HelperOK'
    BY <1>0, <1>a, <1>14, HelperShapes DEF Creating, File, HelperOK, Job, Dead, ReleaseUnguard, Goto, Returned, UnlinkGuardOf, Unlink
  <2>3. HeldOK'
    BY <1>0, <1>a, <1>14 DEF HeldOK, ReleaseUnguard, Goto, Returned
  <2>4. QED
    BY <2>1, <2>2, <2>3 DEF Control
<1>15. ASSUME NEW p \in Proc, HelperOpen(p) PROVE Control'
  <2> DEFINE w == [helper[p] EXCEPT !.at = "write"]
  <2>1. helper[p] # NoHelper /\ helper[p].at = "open" /\ helper[p].file \in File
    BY <1>0, <1>15, HelperShapes DEF HelperOpen, HelperOK
  <2>2. /\ w \in HelperState /\ w # NoHelper
        /\ w.file = helper[p].file /\ w.at = "write" /\ w.killed = helper[p].killed
    BY <1>a, HelperShapes
  <2>3. CASE /\ pc' = pc
             /\ helper' = [helper EXCEPT ![p] = IF helper[p].killed THEN NoHelper ELSE w]
             /\ disk' = [disk EXCEPT ![helper[p].file] = p]
             /\ written' = [written EXCEPT ![helper[p].file] = FALSE]
    <3> HIDE DEF w
    <3>1. TypeOK'
      BY <1>0, <1>15, <2>1, <2>2, <2>3, HelperShapes DEF TypeOK, HelperOpen
    <3>2. HelperOK'
      BY <1>0, <1>a, <2>1, <2>2, <2>3 DEF HelperOK, Dead
    <3>3. HeldOK'
      BY <1>0, <1>15, <2>3 DEF HeldOK, HelperOpen
    <3>4. QED
      BY <3>1, <3>2, <3>3 DEF Control
  <2>4. CASE /\ helper' = [helper EXCEPT ![p] = NoHelper]
             /\ Report(p, "exists") /\ UNCHANGED <<disk, written>>
    <3>1. \/ (helper[p].killed \/ Dead(p)) /\ pc' = pc
          \/ /\ ~helper[p].killed /\ ~Dead(p) /\ pc[p] \in Creating
             /\ helper[p].file = Job(pc[p])
             /\ pc' = [pc EXCEPT ![p] = After(p, "exists")]
      BY <2>1, <2>4, ReportMoves
    <3>2. pc' \in [Proc -> Location]
      BY <1>a, <3>1 DEF Location, After, Returned
    <3>3. TypeOK'
      BY <1>0, <1>15, <2>4, <3>2, HelperShapes DEF TypeOK, HelperOpen
    <3>4. HelperOK'
      BY <1>0, <1>a, <2>4, <3>1, HelperShapes
      DEF Creating, HelperOK, After, Returned, Dead
    <3>5. HeldOK'
      BY <1>0, <1>a, <1>15, <3>1 DEF HeldOK, HelperOpen, Creating, After, Returned, Dead
    <3>6. QED
      BY <3>3, <3>4, <3>5 DEF Control
  <2>5. QED
    BY <1>15, <2>3, <2>4 DEF HelperOpen
<1>16. ASSUME NEW p \in Proc, HelperSync(p) PROVE Control'
  <2>1. helper[p] # NoHelper /\ Report(p, "ok")
    BY <1>0, <1>16 DEF HelperSync, NoHelper
  <2>2. \/ (helper[p].killed \/ Dead(p)) /\ pc' = pc
        \/ /\ ~helper[p].killed /\ ~Dead(p) /\ pc[p] \in Creating
           /\ helper[p].file = Job(pc[p])
           /\ pc' = [pc EXCEPT ![p] = After(p, "ok")]
    BY <2>1, ReportMoves
  <2>3. TypeOK'
    BY <1>0, <1>16, <2>1, <2>2, LockAssumption, HelperShapes DEF TypeOK, Location, Creating, File, After, Returned, HelperSync
  <2>4. HelperOK'
    BY <1>0, <1>a, <1>16, <2>1, <2>2, HelperShapes DEF Creating, File, HelperOK, After, Returned, Job, Dead, HelperSync
  <2>5. HeldOK'
    <3>1. CASE pc' = pc /\ held' = held
      BY <1>0, <3>1 DEF HeldOK
    <3>2. CASE /\ ~helper[p].killed /\ ~Dead(p) /\ pc[p] \in Creating
               /\ helper[p].file = Job(pc[p])
               /\ pc' = [pc EXCEPT ![p] = After(p, "ok")]
      <4>1. pc[p] \in {"creating", "recreating"} =>
              held' = held \cup {p} /\ pc'[p] \in {"working", "unguarding"}
        BY <1>a, <1>16, <3>2 DEF HelperSync, Job, After
      <4>2. pc[p] \in {"guarding", "reguarding"} =>
              held' = held /\ pc'[p] = "rechecking"
        BY <1>a, <1>16, <3>2 DEF HelperSync, Job, After
      <4>3. QED
        BY <1>0, <1>a, <3>2, <4>1, <4>2 DEF HeldOK, Creating
    <3>3. QED
      BY <1>16, <2>2, <3>1, <3>2 DEF HelperSync
  <2>6. QED
    BY <2>3, <2>4, <2>5 DEF Control
<1>26. ASSUME NEW p \in Proc, HelperWrite(p) PROVE Control'
  <2> DEFINE y == [helper[p] EXCEPT !.at = "sync"]
  <2>1. helper[p] # NoHelper /\ helper[p].file \in File
    BY <1>0, <1>26, HelperShapes DEF HelperWrite, HelperOK
  <2>2. /\ y \in HelperState /\ y # NoHelper
        /\ y.file = helper[p].file /\ y.at = "sync" /\ y.killed = helper[p].killed
    BY <1>a, SyncShape
  <2>3. /\ pc' = pc /\ UNCHANGED <<held, disk, aged, seen, broken>>
        /\ helper' = [helper EXCEPT ![p] = IF helper[p].killed THEN NoHelper ELSE y]
    BY <1>26 DEF HelperWrite
  <2> HIDE DEF y
  <2>4. written' \in [File -> BOOLEAN]
    BY <1>0, <1>26, <2>1 DEF TypeOK, HelperWrite
  <2>5. TypeOK'
    BY <1>0, <2>2, <2>3, <2>4, HelperShapes DEF TypeOK
  <2>6. HelperOK'
    BY <1>0, <1>a, <2>1, <2>2, <2>3 DEF HelperOK, Dead
  <2>7. HeldOK'
    BY <1>0, <2>3 DEF HeldOK
  <2>8. QED
    BY <2>5, <2>6, <2>7 DEF Control
<1>17. ASSUME NEW p \in Proc, HelperFails(p) PROVE Control'
  <2>1. helper[p] # NoHelper /\ Report(p, "error")
    BY <1>0, <1>17 DEF HelperFails, NoHelper
  <2>2. \/ (helper[p].killed \/ Dead(p)) /\ pc' = pc
        \/ /\ ~helper[p].killed /\ ~Dead(p) /\ pc[p] \in Creating
           /\ helper[p].file = Job(pc[p])
           /\ pc' = [pc EXCEPT ![p] = After(p, "error")]
    BY <2>1, ReportMoves
  <2>3. TypeOK'
    <3>1. pc' \in [Proc -> Location]
      BY <1>a, <2>2 DEF Location, After, Returned
    <3>2. helper' \in [Proc -> HelperState]
      BY <1>a, <1>17, HelperShapes DEF HelperFails
    <3>3. disk' \in [File -> Proc \cup {None}] /\ broken' \in BOOLEAN
      BY <1>0, <1>17 DEF TypeOK, File, HelperFails, UnlinkGuardOf, Unlink
    <3>4. QED
      BY <1>0, <1>17, <3>1, <3>2, <3>3 DEF TypeOK, HelperFails
  <2>4. HelperOK'
    BY <1>0, <1>a, <1>17, <2>1, <2>2, HelperShapes DEF Creating, File, HelperOK, After, Returned, Job, Dead, HelperFails
  <2>5. HeldOK'
    BY <1>0, <1>a, <1>17, <2>1, <2>2 DEF HelperOK, HeldOK, Creating, After, Returned, Dead, HelperFails
  <2>6. QED
    BY <2>3, <2>4, <2>5 DEF Control
<1>18. ASSUME NEW p \in Proc, HelperTimeout(p) PROVE Control'
  <2>1. helper[p] # NoHelper /\ Report(p, "error")
    BY <1>0, <1>18 DEF HelperTimeout, NoHelper
  <2>2. \/ (helper[p].killed \/ Dead(p)) /\ pc' = pc
        \/ /\ ~helper[p].killed /\ ~Dead(p) /\ pc[p] \in Creating
           /\ helper[p].file = Job(pc[p])
           /\ pc' = [pc EXCEPT ![p] = After(p, "error")]
    BY <2>1, ReportMoves
  <2>3. TypeOK'
    BY <1>0, <1>18, <2>1, <2>2, LockAssumption, HelperShapes DEF TypeOK, Location, Creating, File, After, Returned, HelperTimeout
  <2>4. HelperOK'
    BY <1>0, <1>a, <1>18, <2>1, <2>2, HelperShapes DEF Creating, File, HelperOK, After, Returned, Job, Dead, HelperTimeout
  <2>5. HeldOK'
    BY <1>0, <1>a, <1>18, <2>1, <2>2 DEF HelperOK, HeldOK, Creating, After, Returned, Dead, HelperTimeout
  <2>6. QED
    BY <2>3, <2>4, <2>5 DEF Control
<1>19. ASSUME NEW p \in Proc, HelperDies(p) PROVE Control'
  <2>1. TypeOK'
    BY <1>0, <1>19, LockAssumption, HelperShapes DEF TypeOK, Location, Creating, File, HelperDies, Goto, Returned
  <2>2. HelperOK'
    BY <1>0, <1>a, <1>19, HelperShapes DEF Creating, File, HelperOK, Job, Dead, HelperDies, Goto, Returned
  <2>3. HeldOK'
    BY <1>0, <1>a, <1>19 DEF HeldOK, HelperDies, Goto, Returned
  <2>4. QED
    BY <2>1, <2>2, <2>3 DEF Control
<1>20. ASSUME NEW p \in Proc, FileError(p) PROVE Control'
  <2>1. TypeOK'
    BY <1>0, <1>20, LockAssumption, HelperShapes DEF TypeOK, Location, Creating, File, FileError, Goto, Returned
  <2>2. HelperOK'
    BY <1>0, <1>a, <1>20, HelperShapes DEF Creating, File, HelperOK, Job, Dead, FileError, Goto, Returned
  <2>3. HeldOK'
    BY <1>0, <1>a, <1>20 DEF HeldOK, FileError, Goto, Returned
  <2>4. QED
    BY <2>1, <2>2, <2>3 DEF Control
<1>21. ASSUME NEW p \in Proc, Crash(p) PROVE Control'
  <2>1. TypeOK'
    BY <1>0, <1>21, LockAssumption, HelperShapes DEF TypeOK, Location, Creating, File, Crash, Goto, Returned
  <2>2. HelperOK'
    BY <1>0, <1>a, <1>21, HelperShapes DEF Creating, File, HelperOK, Job, Dead, Crash, Goto, Returned
  <2>3. HeldOK'
    BY <1>0, <1>a, <1>21 DEF HeldOK, Crash, Goto, Returned
  <2>4. QED
    BY <2>1, <2>2, <2>3 DEF Control
<1>22. ASSUME NEW p \in Proc, Exit(p) PROVE Control'
  <2>1. TypeOK'
    BY <1>0, <1>22, LockAssumption, HelperShapes DEF TypeOK, Location, Creating, File, Exit, Goto, Returned
  <2>2. HelperOK'
    BY <1>0, <1>a, <1>22, HelperShapes DEF Creating, File, HelperOK, Job, Dead, Exit, Goto, Returned
  <2>3. HeldOK'
    BY <1>0, <1>a, <1>22 DEF HeldOK, Exit, Goto, Returned
  <2>4. QED
    BY <2>1, <2>2, <2>3 DEF Control
<1>23. CASE Lapse
  <2>1. TypeOK'
    BY <1>0, <1>23, HelperShapes DEF Lapse, TypeOK
  <2>2. HelperOK' /\ HeldOK'
    BY <1>0, <1>a, <1>23 DEF Lapse, HelperOK, HeldOK, Dead
  <2>3. QED
    BY <2>1, <2>2 DEF Control
<1>24. CASE UNCHANGED vars
  <2>1. TypeOK'
    BY <1>0, <1>24, HelperShapes DEF vars, TypeOK
  <2>2. HelperOK' /\ HeldOK'
    BY <1>0, <1>a, <1>24 DEF vars, HelperOK, HeldOK, Dead
  <2>3. QED
    BY <2>1, <2>2 DEF Control
<1>25. QED
  BY <1>1, <1>2, <1>3, <1>4, <1>5, <1>6, <1>7, <1>8, <1>9, <1>10, <1>11, <1>12, <1>13, <1>14, <1>15, <1>16, <1>17, <1>18, <1>19, <1>20, <1>21, <1>22, <1>23, <1>24, <1>26
  DEF Next, Step, Child, Fault, Terminated

-----------------------------------------------------------------------------
(* Exclusion *)

\* At the start there is no live lock that could be torn, lost or misjudged.
LEMMA ExclusionInit == Init => Exclusion
<1> SUFFICES ASSUME Init PROVE Exclusion
  OBVIOUS
<1>1. WriterHasLock /\ GuardIsMine
  BY DEF Init, WriterHasLock, GuardIsMine, NoHelper, Reclaiming
<1>2. HeldIsOnDisk /\ CheckedIsDead
  BY DEF Init, HeldIsOnDisk, CheckedIsDead
<1>3. QED
  BY <1>1, <1>2 DEF Exclusion

\* Unless a step deprives a working reclaimer of its guard, it keeps what a
\* holder, a writer and a reclaimer rely on (recoverDeadLock, releaseLock).
LEMMA ExclusionStep == IInv /\ Control' /\ [Next]_vars => Exclusion'
<1> SUFFICES ASSUME IInv, Control', [Next]_vars, ~broken'
             PROVE  (WriterHasLock /\ HeldIsOnDisk /\ GuardIsMine /\ CheckedIsDead)'
  BY DEF Exclusion
<1>a. /\ pc \in [Proc -> Location] /\ held \subseteq Proc
      /\ helper \in [Proc -> HelperState]
      /\ disk \in [File -> Proc \cup {None}] /\ written \in [File -> BOOLEAN]
      /\ seen \in [File -> [Proc -> Proc \cup {None}]]
      /\ broken \in BOOLEAN
  BY DEF IInv, Control, TypeOK
<1>b. HelperOK /\ HeldOK
  BY DEF IInv, Control
<1>d. Control
  BY DEF IInv
<1>c. (~broken => WriterHasLock /\ HeldIsOnDisk /\ GuardIsMine /\ CheckedIsDead)
  BY DEF IInv, Exclusion
<1>1. ASSUME NEW p \in Proc, Acquire(p)
       PROVE  (WriterHasLock /\ HeldIsOnDisk /\ GuardIsMine /\ CheckedIsDead)'
  <2>0. WriterHasLock /\ HeldIsOnDisk /\ GuardIsMine /\ CheckedIsDead
    BY <1>c, <1>1 DEF Acquire
  <2>1. WriterHasLock'
    BY <1>a, <1>b, <1>1, <2>0, HelperShapes DEF WriterHasLock, File, Acquire, Goto, Returned, Dead, Create
  <2>2. HeldIsOnDisk'
    BY <1>a, <1>b, <1>1, <2>0 DEF HeldIsOnDisk, HeldOK, File, Acquire, Goto, Returned, Dead, Create
  <2>3. GuardIsMine'
    BY <1>a, <1>b, <1>1, <2>0, HelperShapes DEF GuardIsMine, Reclaiming, HelperOK, Creating, File, Acquire, Goto, Returned, Dead, Create
  <2>4. CheckedIsDead'
    BY <1>a, <1>b, <1>1, <2>0 DEF CheckedIsDead, File, Acquire, Goto, Returned, Dead, Create
  <2>5. QED
    BY <2>1, <2>2, <2>3, <2>4
<1>2. ASSUME NEW p \in Proc, ReadLock(p)
       PROVE  (WriterHasLock /\ HeldIsOnDisk /\ GuardIsMine /\ CheckedIsDead)'
  <2>0. WriterHasLock /\ HeldIsOnDisk /\ GuardIsMine /\ CheckedIsDead
    BY <1>c, <1>2 DEF ReadLock
  <2>1. WriterHasLock'
    BY <1>a, <1>b, <1>2, <2>0, HelperShapes DEF WriterHasLock, HelperOK, Creating, File, ReadLock, Goto, Returned, Dead
  <2>2. HeldIsOnDisk'
    BY <1>a, <1>b, <1>2, <2>0 DEF HeldIsOnDisk, HeldOK, File, ReadLock, Readable, Goto, Returned, Dead
  <2>3. GuardIsMine'
    BY <1>a, <1>b, <1>2, <2>0, HelperShapes DEF GuardIsMine, Reclaiming, HelperOK, Creating, File, ReadLock, Goto, Returned, Dead
  <2>4. CheckedIsDead'
    BY <1>a, <1>b, <1>2, <2>0 DEF CheckedIsDead, File, ReadLock, Goto, Returned, Dead
  <2>5. QED
    BY <2>1, <2>2, <2>3, <2>4
<1>3. ASSUME NEW p \in Proc, JudgeLock(p)
       PROVE  (WriterHasLock /\ HeldIsOnDisk /\ GuardIsMine /\ CheckedIsDead)'
  <2>0. WriterHasLock /\ HeldIsOnDisk /\ GuardIsMine /\ CheckedIsDead
    BY <1>c, <1>3 DEF JudgeLock
  <2>1. WriterHasLock'
    BY <1>a, <1>b, <1>3, <2>0, HelperShapes DEF WriterHasLock, File, JudgeLock, Goto, Returned, Dead, Create
  <2>2. HeldIsOnDisk'
    BY <1>a, <1>b, <1>3, <2>0 DEF HeldIsOnDisk, HeldOK, File, JudgeLock, Goto, Returned, Dead, Create
  <2>3. GuardIsMine'
    BY <1>a, <1>b, <1>3, <2>0, HelperShapes DEF GuardIsMine, Reclaiming, HelperOK, Creating, File, JudgeLock, Goto, Returned, Dead, Create
  <2>4. CheckedIsDead'
    BY <1>a, <1>b, <1>3, <2>0 DEF CheckedIsDead, File, JudgeLock, Goto, Returned, Dead, Create
  <2>5. QED
    BY <2>1, <2>2, <2>3, <2>4
<1>4. ASSUME NEW p \in Proc, ReadGuard(p)
       PROVE  (WriterHasLock /\ HeldIsOnDisk /\ GuardIsMine /\ CheckedIsDead)'
  <2>0. WriterHasLock /\ HeldIsOnDisk /\ GuardIsMine /\ CheckedIsDead
    BY <1>c, <1>4 DEF ReadGuard
  <2>1. WriterHasLock'
    BY <1>a, <1>b, <1>4, <2>0, HelperShapes DEF WriterHasLock, File, ReadGuard, Goto, Returned, Dead
  <2>2. HeldIsOnDisk'
    BY <1>a, <1>b, <1>4, <2>0 DEF HeldIsOnDisk, HeldOK, File, ReadGuard, Goto, Returned, Dead
  <2>3. GuardIsMine'
    BY <1>a, <1>b, <1>4, <2>0, HelperShapes DEF GuardIsMine, Reclaiming, HelperOK, Creating, File, ReadGuard, Goto, Returned, Dead
  <2>4. CheckedIsDead'
    BY <1>a, <1>b, <1>4, <2>0 DEF CheckedIsDead, File, ReadGuard, Goto, Returned, Dead
  <2>5. QED
    BY <2>1, <2>2, <2>3, <2>4
<1>5. ASSUME NEW p \in Proc, JudgeGuard(p)
       PROVE  (WriterHasLock /\ HeldIsOnDisk /\ GuardIsMine /\ CheckedIsDead)'
  <2>0. WriterHasLock /\ HeldIsOnDisk /\ GuardIsMine /\ CheckedIsDead
    BY <1>c, <1>5 DEF JudgeGuard
  <2>1. WriterHasLock'
    BY <1>a, <1>b, <1>5, <2>0, HelperShapes DEF WriterHasLock, File, JudgeGuard, Goto, Returned, Dead
  <2>2. HeldIsOnDisk'
    BY <1>a, <1>b, <1>5, <2>0 DEF HeldIsOnDisk, HeldOK, File, JudgeGuard, Goto, Returned, Dead
  <2>3. GuardIsMine'
    BY <1>a, <1>b, <1>5, <2>0, HelperShapes DEF GuardIsMine, Reclaiming, HelperOK, Creating, File, JudgeGuard, Goto, Returned, Dead
  <2>4. CheckedIsDead'
    BY <1>a, <1>b, <1>5, <2>0 DEF CheckedIsDead, File, JudgeGuard, Goto, Returned, Dead
  <2>5. QED
    BY <2>1, <2>2, <2>3, <2>4
<1>6. ASSUME NEW p \in Proc, RereadGuard(p)
       PROVE  (WriterHasLock /\ HeldIsOnDisk /\ GuardIsMine /\ CheckedIsDead)'
  <2>0. WriterHasLock /\ HeldIsOnDisk /\ GuardIsMine /\ CheckedIsDead
    BY <1>c, <1>6 DEF RereadGuard
  <2>1. WriterHasLock'
    BY <1>a, <1>b, <1>6, <2>0, HelperShapes DEF WriterHasLock, File, RereadGuard, Goto, Returned, Dead, Create
  <2>2. HeldIsOnDisk'
    BY <1>a, <1>b, <1>6, <2>0 DEF HeldIsOnDisk, HeldOK, File, RereadGuard, Goto, Returned, Dead, Create
  <2>3. GuardIsMine'
    BY <1>a, <1>b, <1>6, <2>0, HelperShapes DEF GuardIsMine, Reclaiming, HelperOK, Creating, File, RereadGuard, Goto, Returned, Dead, Create
  <2>4. CheckedIsDead'
    BY <1>a, <1>b, <1>6, <2>0 DEF CheckedIsDead, File, RereadGuard, Goto, Returned, Dead, Create
  <2>5. QED
    BY <2>1, <2>2, <2>3, <2>4
<1>7. ASSUME NEW p \in Proc, UnlinkGuard(p)
       PROVE  (WriterHasLock /\ HeldIsOnDisk /\ GuardIsMine /\ CheckedIsDead)'
  <2>0. WriterHasLock /\ HeldIsOnDisk /\ GuardIsMine /\ CheckedIsDead
    BY <1>c, <1>7 DEF UnlinkGuard, UnlinkGuardOf
  <2>1. WriterHasLock'
    BY <1>a, <1>b, <1>7, <2>0, HelperShapes DEF WriterHasLock, File, UnlinkGuard, Goto, Returned, Dead, Create, UnlinkGuardOf, Unlink
  <2>2. HeldIsOnDisk'
    BY <1>a, <1>b, <1>7, <2>0 DEF HeldIsOnDisk, HeldOK, File, UnlinkGuard, Goto, Returned, Dead, Create, UnlinkGuardOf, Unlink
  <2>3. GuardIsMine'
    <3>1. \A q \in Proc \ {p} : InGuard(q) => disk["guard"] # q
      BY <1>7 DEF UnlinkGuard, UnlinkGuardOf
    <3>2. \A q \in Proc : (/\ helper[q].file = "guard" /\ helper[q].at \in {"write", "sync"}
                          /\ ~helper[q].killed /\ ~Dead(q)) => InGuard(q)
      BY <1>b, HelperShapes DEF HelperOK, Creating, Job, InGuard
    <3>3. \A q \in Proc \ {p} : ~ (\/ Reclaiming(q)
                                  \/ /\ helper[q].file = "guard" /\ helper[q].at \in {"write", "sync"}
                                     /\ ~helper[q].killed /\ ~Dead(q))
      BY <2>0, <3>1, <3>2 DEF GuardIsMine, Reclaiming, InGuard
    <3>4. QED
      BY <1>a, <1>b, <1>7, <3>3, HelperShapes
      DEF GuardIsMine, Reclaiming, HelperOK, Creating, File, UnlinkGuard, Goto, Returned, Dead, Create
  <2>4. CheckedIsDead'
    BY <1>a, <1>b, <1>7, <2>0 DEF CheckedIsDead, File, UnlinkGuard, Goto, Returned, Dead, Create, UnlinkGuardOf, Unlink
  <2>5. QED
    BY <2>1, <2>2, <2>3, <2>4
<1>8. ASSUME NEW p \in Proc, RecheckLock(p)
       PROVE  (WriterHasLock /\ HeldIsOnDisk /\ GuardIsMine /\ CheckedIsDead)'
  <2>0. WriterHasLock /\ HeldIsOnDisk /\ GuardIsMine /\ CheckedIsDead
    BY <1>c, <1>8 DEF RecheckLock
  <2>1. WriterHasLock'
    BY <1>a, <1>b, <1>8, <2>0, HelperShapes DEF WriterHasLock, File, RecheckLock, Goto, Returned, Dead, Create
  <2>2. HeldIsOnDisk'
    BY <1>a, <1>b, <1>8, <2>0 DEF HeldIsOnDisk, HeldOK, File, RecheckLock, Goto, Returned, Dead, Create
  <2>3. GuardIsMine'
    BY <1>a, <1>b, <1>8, <2>0, HelperShapes DEF GuardIsMine, Reclaiming, HelperOK, Creating, File, RecheckLock, Goto, Returned, Dead, Create
  <2>4. CheckedIsDead'
    BY <1>a, <1>b, <1>8, <2>0 DEF CheckedIsDead, File, RecheckLock, Goto, Returned, Dead, Create, CanRecoverLock, Readable
  <2>5. QED
    BY <2>1, <2>2, <2>3, <2>4
<1>9. ASSUME NEW p \in Proc, UnlinkLock(p)
       PROVE  (WriterHasLock /\ HeldIsOnDisk /\ GuardIsMine /\ CheckedIsDead)'
  <2>0. WriterHasLock /\ HeldIsOnDisk /\ GuardIsMine /\ CheckedIsDead
    BY <1>c, <1>9 DEF UnlinkLock
  <2>1. written["lock"] /\ \E d \in Proc : disk["lock"] = d /\ Dead(d)
    BY <1>9, <2>0 DEF UnlinkLock, CheckedIsDead
  <2>2. \A q \in Proc : Reclaiming(q) => q = p
    BY <1>9, <2>0 DEF GuardIsMine, Reclaiming, UnlinkLock
  <2>3. \A q \in Proc : q \notin held
    BY <1>b, <2>0, <2>1 DEF HeldIsOnDisk, HeldOK, Dead
  <2>4. \A q \in Proc : helper[q].file = "lock" =>
          helper[q].at # "write" /\ (helper[q].at = "sync" => helper[q].killed \/ Dead(q))
    BY <2>0, <2>1 DEF WriterHasLock
  <2>5. WriterHasLock'
    BY <1>a, <1>9, <2>4, HelperShapes DEF WriterHasLock, File, UnlinkLock, Create, Goto, Dead
  <2>6. HeldIsOnDisk'
    BY <1>a, <1>9, <2>3 DEF HeldIsOnDisk, UnlinkLock
  <2>7. GuardIsMine'
    BY <1>a, <1>b, <1>9, <2>0, HelperShapes
    DEF GuardIsMine, Reclaiming, HelperOK, Creating, File, UnlinkLock, Goto, Dead, Create, Unlink
  <2>8. CheckedIsDead'
    BY <1>a, <1>9, <2>2 DEF CheckedIsDead, Reclaiming, UnlinkLock, Goto
  <2>9. QED
    BY <2>5, <2>6, <2>7, <2>8
<1>10. ASSUME NEW p \in Proc, Unguard(p)
       PROVE  (WriterHasLock /\ HeldIsOnDisk /\ GuardIsMine /\ CheckedIsDead)'
  <2>0. WriterHasLock /\ HeldIsOnDisk /\ GuardIsMine /\ CheckedIsDead
    BY <1>c, <1>10 DEF Unguard, UnlinkGuardOf
  <2>1. WriterHasLock'
    BY <1>a, <1>b, <1>10, <2>0, HelperShapes DEF WriterHasLock, File, Unguard, Goto, Returned, Dead, UnlinkGuardOf, Unlink
  <2>2. HeldIsOnDisk'
    BY <1>a, <1>b, <1>10, <2>0 DEF HeldIsOnDisk, HeldOK, File, Unguard, Goto, Returned, Dead, UnlinkGuardOf, Unlink
  <2>3. GuardIsMine'
    <3>1. \A q \in Proc \ {p} : InGuard(q) => disk["guard"] # q
      BY <1>10 DEF Unguard, UnlinkGuardOf
    <3>2. \A q \in Proc : (/\ helper[q].file = "guard" /\ helper[q].at \in {"write", "sync"}
                          /\ ~helper[q].killed /\ ~Dead(q)) => InGuard(q)
      BY <1>b, HelperShapes DEF HelperOK, Creating, Job, InGuard
    <3>3. \A q \in Proc \ {p} : ~ (\/ Reclaiming(q)
                                  \/ /\ helper[q].file = "guard" /\ helper[q].at \in {"write", "sync"}
                                     /\ ~helper[q].killed /\ ~Dead(q))
      BY <2>0, <3>1, <3>2 DEF GuardIsMine, Reclaiming, InGuard
    <3>4. QED
      BY <1>a, <1>b, <1>10, <3>3, HelperShapes
      DEF GuardIsMine, Reclaiming, HelperOK, Creating, File, Unguard, Goto, Returned, Dead
  <2>4. CheckedIsDead'
    BY <1>a, <1>b, <1>10, <2>0 DEF CheckedIsDead, File, Unguard, Goto, Returned, Dead, UnlinkGuardOf, Unlink
  <2>5. QED
    BY <2>1, <2>2, <2>3, <2>4
<1>11. ASSUME NEW p \in Proc, Release(p)
       PROVE  (WriterHasLock /\ HeldIsOnDisk /\ GuardIsMine /\ CheckedIsDead)'
  <2>0. WriterHasLock /\ HeldIsOnDisk /\ GuardIsMine /\ CheckedIsDead
    BY <1>c, <1>11 DEF Release
  <2>1. WriterHasLock'
    BY <1>a, <1>b, <1>11, <2>0, HelperShapes DEF WriterHasLock, File, Release, Goto, Returned, Dead
  <2>2. HeldIsOnDisk'
    BY <1>a, <1>b, <1>11, <2>0 DEF HeldIsOnDisk, HeldOK, File, Release, Goto, Returned, Dead
  <2>3. GuardIsMine'
    BY <1>a, <1>b, <1>11, <2>0, HelperShapes DEF GuardIsMine, Reclaiming, HelperOK, Creating, File, Release, Goto, Returned, Dead
  <2>4. CheckedIsDead'
    BY <1>a, <1>b, <1>11, <2>0 DEF CheckedIsDead, File, Release, Goto, Returned, Dead
  <2>5. QED
    BY <2>1, <2>2, <2>3, <2>4
<1>12. ASSUME NEW p \in Proc, ReleaseRead(p)
       PROVE  (WriterHasLock /\ HeldIsOnDisk /\ GuardIsMine /\ CheckedIsDead)'
  <2>0. WriterHasLock /\ HeldIsOnDisk /\ GuardIsMine /\ CheckedIsDead
    BY <1>c, <1>12 DEF ReleaseRead
  <2>1. WriterHasLock'
    BY <1>a, <1>b, <1>12, <2>0, HelperShapes DEF WriterHasLock, File, ReleaseRead, Goto, Returned, Dead
  <2>2. HeldIsOnDisk'
    BY <1>a, <1>b, <1>12, <2>0 DEF HeldIsOnDisk, HeldOK, File, ReleaseRead, Goto, Returned, Dead
  <2>3. GuardIsMine'
    BY <1>a, <1>b, <1>12, <2>0, HelperShapes DEF GuardIsMine, Reclaiming, HelperOK, Creating, File, ReleaseRead, Goto, Returned, Dead
  <2>4. CheckedIsDead'
    BY <1>a, <1>b, <1>12, <2>0 DEF CheckedIsDead, File, ReleaseRead, Goto, Returned, Dead
  <2>5. QED
    BY <2>1, <2>2, <2>3, <2>4
<1>13. ASSUME NEW p \in Proc, ReleaseUnlink(p)
       PROVE  (WriterHasLock /\ HeldIsOnDisk /\ GuardIsMine /\ CheckedIsDead)'
  <2>0. WriterHasLock /\ HeldIsOnDisk /\ GuardIsMine /\ CheckedIsDead
    BY <1>c, <1>13 DEF ReleaseUnlink
  <2>1. disk["lock"] = p /\ written["lock"] /\ ~Dead(p)
    BY <1>b, <1>13, <2>0 DEF ReleaseUnlink, HeldIsOnDisk, HeldOK, Dead
  <2>2. WriterHasLock'
    <3>1. \A q \in Proc : helper[q].file = "lock" =>
            helper[q].at # "write" /\ (helper[q].at = "sync" => helper[q].killed \/ Dead(q))
      BY <1>b, <1>13, <2>0, <2>1, HelperShapes
      DEF WriterHasLock, HelperOK, Creating, ReleaseUnlink
    <3>2. QED
      BY <1>a, <1>13, <2>1, <3>1 DEF WriterHasLock, ReleaseUnlink, Goto, Dead
  <2>3. HeldIsOnDisk'
    BY <1>a, <1>13, <2>0, <2>1 DEF HeldIsOnDisk, ReleaseUnlink
  <2>4. GuardIsMine'
    BY <1>a, <1>13, <2>0 DEF GuardIsMine, Reclaiming, File, ReleaseUnlink, Goto, Dead, Unlink
  <2>5. CheckedIsDead'
    <3>1. \A q \in Proc : pc[q] # "unlinking"
      BY <2>0, <2>1 DEF CheckedIsDead
    <3>2. QED
      BY <1>a, <1>13, <3>1 DEF CheckedIsDead, ReleaseUnlink, Goto
  <2>6. QED
    BY <2>2, <2>3, <2>4, <2>5
<1>14. ASSUME NEW p \in Proc, ReleaseUnguard(p)
       PROVE  (WriterHasLock /\ HeldIsOnDisk /\ GuardIsMine /\ CheckedIsDead)'
  <2>0. WriterHasLock /\ HeldIsOnDisk /\ GuardIsMine /\ CheckedIsDead
    BY <1>c, <1>14 DEF ReleaseUnguard, UnlinkGuardOf
  <2>1. WriterHasLock'
    BY <1>a, <1>b, <1>14, <2>0, HelperShapes DEF WriterHasLock, File, ReleaseUnguard, Goto, Returned, Dead, UnlinkGuardOf, Unlink
  <2>2. HeldIsOnDisk'
    BY <1>a, <1>b, <1>14, <2>0 DEF HeldIsOnDisk, HeldOK, File, ReleaseUnguard, Goto, Returned, Dead, UnlinkGuardOf, Unlink
  <2>3. GuardIsMine'
    <3>1. \A q \in Proc \ {p} : InGuard(q) => disk["guard"] # q
      BY <1>14 DEF ReleaseUnguard, UnlinkGuardOf
    <3>2. \A q \in Proc : (/\ helper[q].file = "guard" /\ helper[q].at \in {"write", "sync"}
                          /\ ~helper[q].killed /\ ~Dead(q)) => InGuard(q)
      BY <1>b, HelperShapes DEF HelperOK, Creating, Job, InGuard
    <3>3. \A q \in Proc \ {p} : ~ (\/ Reclaiming(q)
                                  \/ /\ helper[q].file = "guard" /\ helper[q].at \in {"write", "sync"}
                                     /\ ~helper[q].killed /\ ~Dead(q))
      BY <2>0, <3>1, <3>2 DEF GuardIsMine, Reclaiming, InGuard
    <3>4. QED
      BY <1>a, <1>b, <1>14, <3>3, HelperShapes
      DEF GuardIsMine, Reclaiming, HelperOK, Creating, File, ReleaseUnguard, Goto, Returned, Dead
  <2>4. CheckedIsDead'
    BY <1>a, <1>b, <1>14, <2>0 DEF CheckedIsDead, File, ReleaseUnguard, Goto, Returned, Dead, UnlinkGuardOf, Unlink
  <2>5. QED
    BY <2>1, <2>2, <2>3, <2>4
<1>15. ASSUME NEW p \in Proc, HelperOpen(p)
       PROVE  (WriterHasLock /\ HeldIsOnDisk /\ GuardIsMine /\ CheckedIsDead)'
  <2>0. WriterHasLock /\ HeldIsOnDisk /\ GuardIsMine /\ CheckedIsDead
    BY <1>a, <1>c, <1>15 DEF HelperOpen
  <2> DEFINE w == [helper[p] EXCEPT !.at = "write"]
  <2>1. helper[p] # NoHelper /\ helper[p].at = "open" /\ helper[p].file \in File
    BY <1>b, <1>15, HelperShapes DEF HelperOpen, HelperOK
  <2>2. /\ w \in HelperState /\ w # NoHelper
        /\ w.file = helper[p].file /\ w.at = "write" /\ w.killed = helper[p].killed
    BY <1>a, HelperShapes
  <2>3. CASE /\ pc' = pc /\ disk[helper[p].file] = None
             /\ helper' = [helper EXCEPT ![p] = IF helper[p].killed THEN NoHelper ELSE w]
             /\ disk' = [disk EXCEPT ![helper[p].file] = p]
             /\ written' = [written EXCEPT ![helper[p].file] = FALSE]
    <3> HIDE DEF w
    <3>1. WriterHasLock'
      BY <1>a, <1>15, <2>0, <2>1, <2>2, <2>3, HelperShapes, LockAssumption
      DEF WriterHasLock, HelperOpen, File, Dead
    <3>2. HeldIsOnDisk'
      BY <1>a, <1>15, <2>0, <2>1, <2>3, LockAssumption DEF HeldIsOnDisk, File, HelperOpen
    <3>3. GuardIsMine'
      BY <1>a, <2>0, <2>1, <2>2, <2>3, HelperShapes, LockAssumption
      DEF GuardIsMine, Reclaiming, Dead, File
    <3>4. CheckedIsDead'
      BY <1>a, <1>15, <2>0, <2>1, <2>3, LockAssumption DEF CheckedIsDead, Dead, File, HelperOpen
    <3>5. QED
      BY <3>1, <3>2, <3>3, <3>4
  <2>4. CASE /\ helper' = [helper EXCEPT ![p] = NoHelper]
             /\ Report(p, "exists") /\ UNCHANGED <<disk, written>>
    <3>0. \/ (helper[p].killed \/ Dead(p)) /\ pc' = pc
          \/ /\ ~helper[p].killed /\ ~Dead(p) /\ pc[p] \in Creating
             /\ helper[p].file = Job(pc[p])
             /\ pc' = [pc EXCEPT ![p] = After(p, "exists")]
      BY <1>d, <2>1, <2>4, ReportMoves
    <3>1. WriterHasLock'
      <4>1. \A q \in Proc : Dead(q) => Dead(q)'
        BY <1>a, <3>0 DEF Dead
      <4>2. helper'[p] = NoHelper /\ \A q \in Proc : q # p => helper'[q] = helper[q]
        BY <1>a, <2>4
      <4>3. QED
        BY <1>15, <2>0, <2>4, <4>1, <4>2, HelperShapes DEF WriterHasLock, HelperOpen
    <3>2. HeldIsOnDisk'
      BY <1>a, <1>15, <2>0, <2>4, <3>0
      DEF HeldIsOnDisk, HelperOpen, After, Returned
    <3>3. GuardIsMine'
      BY <1>a, <2>0, <2>4, <3>0, HelperShapes
      DEF GuardIsMine, Reclaiming, After, Returned, Dead, Creating
    <3>4. CheckedIsDead'
      BY <1>a, <1>15, <2>0, <2>4, <3>0
      DEF CheckedIsDead, HelperOpen, After, Returned, Dead, Creating
    <3>5. QED
      BY <3>1, <3>2, <3>3, <3>4
  <2>5. QED
    BY <1>15, <2>3, <2>4 DEF HelperOpen
<1>16. ASSUME NEW p \in Proc, HelperSync(p)
       PROVE  (WriterHasLock /\ HeldIsOnDisk /\ GuardIsMine /\ CheckedIsDead)'
  <2>0. WriterHasLock /\ HeldIsOnDisk /\ GuardIsMine /\ CheckedIsDead
    BY <1>a, <1>c, <1>16 DEF HelperSync
  <2>1. helper[p] # NoHelper /\ Report(p, "ok")
    BY <1>16, HelperShapes DEF HelperSync
  <2>2. \/ (helper[p].killed \/ Dead(p)) /\ pc' = pc
        \/ /\ ~helper[p].killed /\ ~Dead(p) /\ pc[p] \in Creating
           /\ helper[p].file = Job(pc[p])
           /\ pc' = [pc EXCEPT ![p] = After(p, "ok")]
    BY <1>d, <2>1, ReportMoves
  <2>3. WriterHasLock'
    <3>1. \A q \in Proc : Dead(q) => Dead(q)'
      BY <1>a, <2>2 DEF Dead
    <3>2. helper'[p] = NoHelper /\ \A q \in Proc : q # p => helper'[q] = helper[q]
      BY <1>a, <1>16 DEF HelperSync
    <3>3. QED
      BY <1>16, <2>0, <3>1, <3>2, HelperShapes DEF WriterHasLock, HelperSync
  <2>4. HeldIsOnDisk'
    <3>1. \A q \in held : disk'["lock"] = q /\ written'["lock"]
      BY <1>a, <1>16, <2>0 DEF HeldIsOnDisk, File, HelperSync
    <3>2. p \in held' /\ p \notin held => /\ helper[p].file = "lock" /\ helper[p].at = "sync"
                                       /\ ~helper[p].killed /\ ~Dead(p)
      BY <1>16 DEF HelperSync
    <3>3. p \in held' /\ p \notin held => disk'["lock"] = p /\ written'["lock"]
      BY <1>a, <1>16, <2>0, <3>2 DEF WriterHasLock, File, HelperSync
    <3>4. p \in held' => pc'[p] \in {"working", "creating", "reading", "unguarding",
                                    "relReading", "relUnlinking"}
      BY <1>a, <2>0, <2>2, <3>2 DEF HeldIsOnDisk, Creating, Job, After, Returned
    <3>5. \A q \in held' : q # p => q \in held /\ pc'[q] = pc[q]
      BY <1>a, <1>16, <2>2 DEF HelperSync
    <3>6. QED
      BY <2>0, <3>1, <3>3, <3>4, <3>5 DEF HeldIsOnDisk
  <2>5. GuardIsMine'
    <3>1. Reclaiming(p)' => \/ Reclaiming(p)
                            \/ /\ helper[p].file = "guard"
                               /\ ~helper[p].killed /\ ~Dead(p)
      BY <1>a, <2>2 DEF Reclaiming, Creating, Job, After, Returned
    <3>2. \A q \in Proc : q # p => /\ (Reclaiming(q)' <=> Reclaiming(q))
                                  /\ helper'[q] = helper[q] /\ (Dead(q)' <=> Dead(q))
      BY <1>a, <1>16, <2>2 DEF Reclaiming, HelperSync, Dead
    <3>3. helper'[p] = NoHelper
      BY <1>a, <1>16 DEF HelperSync
    <3>4. helper[p].at = "sync" /\ disk' = disk
      BY <1>16 DEF HelperSync
    <3>5. Reclaiming(p)' => disk'["guard"] = p
      BY <2>0, <3>1, <3>4 DEF GuardIsMine
    <3>6. \A q \in Proc : q # p => (Reclaiming(q)' => disk'["guard"] = q)
      BY <2>0, <3>2, <3>4 DEF GuardIsMine
    <3>7. \A q \in Proc :
            (/\ helper'[q].file = "guard" /\ helper'[q].at \in {"write", "sync"}
             /\ ~helper'[q].killed /\ ~Dead(q)') => disk'["guard"] = q
      BY <2>0, <3>2, <3>3, <3>4, HelperShapes DEF GuardIsMine
    <3>8. QED
      BY <3>5, <3>6, <3>7 DEF GuardIsMine
  <2>6. CheckedIsDead'
    <3>1. \A q \in Proc : pc'[q] = "unlinking" => pc[q] = "unlinking"
      BY <1>a, <2>2 DEF After, Returned
    <3>2. \A q \in Proc : Dead(q) => Dead(q)'
      BY <1>a, <2>2 DEF Dead
    <3>3. written["lock"] => written'["lock"]
      BY <1>a, <1>16 DEF HelperSync, File
    <3>4. QED
      BY <1>16, <2>0, <3>1, <3>2, <3>3 DEF CheckedIsDead, HelperSync
  <2>7. QED
    BY <2>3, <2>4, <2>5, <2>6
<1>26. ASSUME NEW p \in Proc, HelperWrite(p)
       PROVE  (WriterHasLock /\ HeldIsOnDisk /\ GuardIsMine /\ CheckedIsDead)'
  <2> DEFINE y == [helper[p] EXCEPT !.at = "sync"]
  <2>0. WriterHasLock /\ HeldIsOnDisk /\ GuardIsMine /\ CheckedIsDead
    BY <1>a, <1>c, <1>26 DEF HelperWrite
  <2>1. helper[p] # NoHelper /\ helper[p].at = "write" /\ helper[p].file \in File
    BY <1>b, <1>26, HelperShapes DEF HelperWrite, HelperOK
  <2>2. /\ y \in HelperState /\ y # NoHelper
        /\ y.file = helper[p].file /\ y.at = "sync" /\ y.killed = helper[p].killed
    BY <1>a, SyncShape
  <2>3. /\ pc' = pc /\ held' = held /\ disk' = disk /\ seen' = seen
        /\ helper' = [helper EXCEPT ![p] = IF helper[p].killed THEN NoHelper ELSE y]
        /\ \A f \in File : written'[f] =
             (written[f] \/ (f = helper[p].file /\ disk[f] = p))
    BY <1>a, <1>26, <2>1 DEF HelperWrite
  <2> HIDE DEF y
  <2>4. WriterHasLock'
    <3>1. helper'[p] = NoHelper \/ (helper'[p] = y /\ ~helper[p].killed)
      BY <1>a, <2>3
    <3>2. \A q \in Proc : q # p => helper'[q] = helper[q] /\ (Dead(q)' <=> Dead(q))
      BY <1>a, <2>3 DEF Dead
    <3>3. helper[p].file = "lock" => disk["lock"] = p /\ ~written["lock"]
      BY <2>0, <2>1 DEF WriterHasLock
    <3>4. CASE helper[p].file = "lock"
      <4>1. \A q \in Proc : q # p /\ helper[q].file = "lock" => helper[q].at # "write"
        BY <2>0, <3>3, <3>4 DEF WriterHasLock
      <4>2. disk'["lock"] = p /\ written'["lock"]
        BY <2>3, <3>3, <3>4 DEF File
      <4>3. QED
        BY <2>0, <2>2, <2>3, <3>1, <3>2, <3>3, <3>4, <4>1, <4>2, HelperShapes
        DEF WriterHasLock, HeldIsOnDisk
    <3>5. CASE helper[p].file # "lock"
      <4>1. disk'["lock"] = disk["lock"] /\ written'["lock"] = written["lock"]
        BY <1>a, <2>3, <3>5 DEF File
      <4>2. QED
        BY <2>0, <2>2, <2>3, <3>1, <3>2, <3>5, <4>1, HelperShapes DEF WriterHasLock
    <3>6. QED
      BY <3>4, <3>5
  <2>5. HeldIsOnDisk'
    BY <2>0, <2>3 DEF HeldIsOnDisk, File
  <2>6. GuardIsMine'
    BY <1>a, <2>0, <2>1, <2>2, <2>3, HelperShapes DEF GuardIsMine, Reclaiming, Dead
  <2>7. CheckedIsDead'
    BY <2>0, <2>3 DEF CheckedIsDead, Dead, File
  <2>8. QED
    BY <2>4, <2>5, <2>6, <2>7
<1>17. ASSUME NEW p \in Proc, HelperFails(p)
       PROVE  (WriterHasLock /\ HeldIsOnDisk /\ GuardIsMine /\ CheckedIsDead)'
  <2>0. WriterHasLock /\ HeldIsOnDisk /\ GuardIsMine /\ CheckedIsDead
    BY <1>a, <1>c, <1>17 DEF HelperFails, UnlinkGuardOf
  <2>1. helper[p] # NoHelper /\ Report(p, "error")
    BY <1>17, HelperShapes DEF HelperFails
  <2>2. \/ (helper[p].killed \/ Dead(p)) /\ pc' = pc
        \/ /\ ~helper[p].killed /\ ~Dead(p) /\ pc[p] \in Creating
           /\ helper[p].file = Job(pc[p])
           /\ pc' = [pc EXCEPT ![p] = After(p, "error")]
    BY <1>d, <2>1, ReportMoves
  <2>a. \A q \in Proc : pc'[q] # pc[q] =>
          /\ q = p /\ pc[p] \in Creating
          /\ \/ pc'[p] = "unguarding" /\ pc[p] = "recreating"
             \/ pc'[p] = "failed" /\ p \notin held
             \/ pc'[p] = "working" /\ p \in held
    <3>1. /\ pc[p] = "recreating" => After(p, "error") = "unguarding"
          /\ pc[p] # "recreating" => After(p, "error") = Returned(p)
      BY DEF After
    <3>2. QED
      BY <1>a, <2>2, <3>1 DEF Returned
  <2>b. /\ helper'[p] = NoHelper /\ \A q \in Proc : q # p => helper'[q] = helper[q]
        /\ held' = held /\ written' = written
    BY <1>a, <1>17 DEF HelperFails
  <2>c. \A q \in Proc : Dead(q) => Dead(q)'
    BY <2>a DEF Dead, Creating
  <2>d. ASSUME helper[p].file = "lock", helper[p].at \in {"write", "sync"}
        PROVE  disk["lock"] = p /\ p \notin held /\ (written["lock"] => ~Dead(p))
    <3>1. helper[p].at = "sync" => ~Dead(p)
      BY <1>a, <1>17, <2>d DEF HelperFails
    <3>2. QED
      BY <1>17, <2>0, <2>d, <3>1 DEF WriterHasLock, HeldIsOnDisk, HelperFails
  <2>e. ~ (helper[p].file = "lock" /\ helper[p].at \in {"write", "sync"}) =>
          disk'["lock"] = disk["lock"]
    <3>1. ASSUME ~ (helper[p].file = "lock" /\ helper[p].at \in {"write", "sync"})
          PROVE  disk' = disk \/ disk' = [disk EXCEPT !["guard"] = None]
      BY <1>17, <3>1 DEF HelperFails, UnlinkGuardOf, Unlink
    <3>2. QED
      BY <1>a, <3>1 DEF File
  <2>f. \/ disk'["lock"] = disk["lock"]
        \/ disk["lock"] = p /\ p \notin held /\ (written["lock"] => ~Dead(p))
    <3>1. helper[p].file = "lock" /\ helper[p].at \in {"write", "sync"} =>
            disk["lock"] = p /\ p \notin held /\ (written["lock"] => ~Dead(p))
      BY <2>d
    <3>2. QED
      BY <2>e, <3>1
  <2>3. WriterHasLock'
    BY <2>0, <2>b, <2>c, <2>f, HelperShapes DEF WriterHasLock
  <2>4. HeldIsOnDisk'
    <3>1. \A q \in held : disk'["lock"] = q
      BY <2>0, <2>f DEF HeldIsOnDisk
    <3>2. held' = held /\ written' = written
      BY <1>17 DEF HelperFails
    <3>3. \A q \in held : pc'[q] = pc[q] \/ pc'[q] = "working"
      <4>1. \A q \in held : pc[q] # "recreating"
        BY <2>0 DEF HeldIsOnDisk
      <4>2. QED
        BY <1>a, <2>a, <4>1
    <3>4. QED
      BY <2>0, <3>1, <3>2, <3>3 DEF HeldIsOnDisk
  <2>5. GuardIsMine'
    <3>1. \A q \in Proc : q # p /\ (\/ Reclaiming(q)
              \/ /\ helper[q].file = "guard" /\ helper[q].at \in {"write", "sync"}
                 /\ ~helper[q].killed /\ ~Dead(q)) => InGuard(q) /\ disk["guard"] = q
      BY <1>b, <2>0, HelperShapes DEF GuardIsMine, Reclaiming, InGuard, HelperOK, Creating, Job
    <3>2. \A q \in Proc : q # p /\ InGuard(q) /\ disk["guard"] = q => disk'["guard"] = q
      BY <1>a, <1>17 DEF HelperFails, UnlinkGuardOf, Unlink, File
    <3>3. ~Reclaiming(p)'
      BY <1>a, <1>b, <1>17, <2>1, <2>2 DEF Reclaiming, HelperOK, HelperFails, Creating, Dead, After, Returned
    <3>4. helper'[p] = NoHelper /\ \A q \in Proc : q # p => helper'[q] = helper[q]
      BY <1>a, <1>17 DEF HelperFails
    <3>5. \A q \in Proc : q # p => (Reclaiming(q)' <=> Reclaiming(q)) /\ (Dead(q)' <=> Dead(q))
      BY <2>a DEF Reclaiming, Dead
    <3>6. QED
      BY <3>1, <3>2, <3>3, <3>4, <3>5, HelperShapes DEF GuardIsMine
  <2>6. CheckedIsDead'
    <3>1. disk'["lock"] = disk["lock"] \/ \A q \in Proc : pc[q] # "unlinking"
      BY <2>0, <2>f DEF CheckedIsDead
    <3>2. \A q \in Proc : Dead(q) => Dead(q)'
      BY <2>a DEF Dead, Creating
    <3>3. QED
      BY <1>17, <2>0, <2>a, <3>1, <3>2 DEF CheckedIsDead, HelperFails
  <2>7. QED
    BY <2>3, <2>4, <2>5, <2>6
<1>18. ASSUME NEW p \in Proc, HelperTimeout(p)
       PROVE  (WriterHasLock /\ HeldIsOnDisk /\ GuardIsMine /\ CheckedIsDead)'
  <2>0. WriterHasLock /\ HeldIsOnDisk /\ GuardIsMine /\ CheckedIsDead
    BY <1>a, <1>c, <1>18 DEF HelperTimeout
  <2>1. helper[p] # NoHelper /\ Report(p, "error")
    BY <1>18, HelperShapes DEF HelperTimeout
  <2>2. \/ (helper[p].killed \/ Dead(p)) /\ pc' = pc
        \/ /\ ~helper[p].killed /\ ~Dead(p) /\ pc[p] \in Creating
           /\ helper[p].file = Job(pc[p])
           /\ pc' = [pc EXCEPT ![p] = After(p, "error")]
    BY <1>d, <2>1, ReportMoves
  <2>a. \A q \in Proc : pc'[q] # pc[q] =>
          /\ q = p /\ pc[p] \in Creating
          /\ \/ pc'[p] = "unguarding" /\ pc[p] = "recreating"
             \/ pc'[p] = "failed" /\ p \notin held
             \/ pc'[p] = "working" /\ p \in held
    <3>1. /\ pc[p] = "recreating" => After(p, "error") = "unguarding"
          /\ pc[p] # "recreating" => After(p, "error") = Returned(p)
      BY DEF After
    <3>2. QED
      BY <1>a, <2>2, <3>1 DEF Returned
  <2>b. /\ helper'[p].killed /\ helper'[p].file = helper[p].file /\ helper'[p].at = helper[p].at
        /\ \A q \in Proc : q # p => helper'[q] = helper[q]
    BY <1>a, <1>18, HelperShapes DEF HelperTimeout
  <2>3. WriterHasLock'
    <3>1. \A q \in Proc : Dead(q) => Dead(q)'
      BY <2>a DEF Dead, Creating
    <3>2. QED
      BY <1>18, <2>0, <2>b, <3>1 DEF WriterHasLock, HelperTimeout
  <2>4. HeldIsOnDisk'
    <3>1. held' = held /\ disk' = disk /\ written' = written
      BY <1>18 DEF HelperTimeout
    <3>2. \A q \in held : pc'[q] = pc[q] \/ pc'[q] = "working"
      <4>1. \A q \in held : pc[q] # "recreating"
        BY <2>0 DEF HeldIsOnDisk
      <4>2. QED
        BY <1>a, <2>a, <4>1
    <3>3. QED
      BY <2>0, <3>1, <3>2 DEF HeldIsOnDisk
  <2>5. GuardIsMine'
    BY <1>18, <2>0, <2>a, <2>b DEF GuardIsMine, Reclaiming, Creating, Dead, HelperTimeout
  <2>6. CheckedIsDead'
    BY <1>18, <2>0, <2>a DEF CheckedIsDead, Creating, Dead, HelperTimeout
  <2>7. QED
    BY <2>3, <2>4, <2>5, <2>6
<1>19. ASSUME NEW p \in Proc, HelperDies(p)
       PROVE  (WriterHasLock /\ HeldIsOnDisk /\ GuardIsMine /\ CheckedIsDead)'
  <2>0. WriterHasLock /\ HeldIsOnDisk /\ GuardIsMine /\ CheckedIsDead
    BY <1>c, <1>19 DEF HelperDies
  <2>1. WriterHasLock'
    BY <1>a, <1>b, <1>19, <2>0, HelperShapes DEF WriterHasLock, File, HelperDies, Goto, Returned, Dead
  <2>2. HeldIsOnDisk'
    BY <1>a, <1>b, <1>19, <2>0 DEF HeldIsOnDisk, HeldOK, File, HelperDies, Goto, Returned, Dead
  <2>3. GuardIsMine'
    BY <1>a, <1>b, <1>19, <2>0, HelperShapes DEF GuardIsMine, Reclaiming, HelperOK, Creating, File, HelperDies, Goto, Returned, Dead
  <2>4. CheckedIsDead'
    BY <1>a, <1>b, <1>19, <2>0 DEF CheckedIsDead, File, HelperDies, Goto, Returned, Dead
  <2>5. QED
    BY <2>1, <2>2, <2>3, <2>4
<1>20. ASSUME NEW p \in Proc, FileError(p)
       PROVE  (WriterHasLock /\ HeldIsOnDisk /\ GuardIsMine /\ CheckedIsDead)'
  <2>0. WriterHasLock /\ HeldIsOnDisk /\ GuardIsMine /\ CheckedIsDead
    BY <1>c, <1>20 DEF FileError
  <2>1. WriterHasLock'
    BY <1>a, <1>b, <1>20, <2>0, HelperShapes DEF WriterHasLock, File, FileError, Goto, Returned, Dead
  <2>2. HeldIsOnDisk'
    BY <1>a, <1>b, <1>20, <2>0 DEF HeldIsOnDisk, HeldOK, File, FileError, Goto, Returned, Dead
  <2>3. GuardIsMine'
    BY <1>a, <1>b, <1>20, <2>0, HelperShapes DEF GuardIsMine, Reclaiming, HelperOK, Creating, File, FileError, Goto, Returned, Dead
  <2>4. CheckedIsDead'
    BY <1>a, <1>b, <1>20, <2>0 DEF CheckedIsDead, File, FileError, Goto, Returned, Dead
  <2>5. QED
    BY <2>1, <2>2, <2>3, <2>4
<1>21. ASSUME NEW p \in Proc, Crash(p)
       PROVE  (WriterHasLock /\ HeldIsOnDisk /\ GuardIsMine /\ CheckedIsDead)'
  <2>0. WriterHasLock /\ HeldIsOnDisk /\ GuardIsMine /\ CheckedIsDead
    BY <1>c, <1>21 DEF Crash
  <2>1. WriterHasLock'
    BY <1>a, <1>b, <1>21, <2>0, HelperShapes DEF WriterHasLock, File, Crash, Goto, Returned, Dead
  <2>2. HeldIsOnDisk'
    BY <1>a, <1>b, <1>21, <2>0 DEF HeldIsOnDisk, HeldOK, File, Crash, Goto, Returned, Dead
  <2>3. GuardIsMine'
    BY <1>a, <1>b, <1>21, <2>0, HelperShapes DEF GuardIsMine, Reclaiming, HelperOK, Creating, File, Crash, Goto, Returned, Dead
  <2>4. CheckedIsDead'
    BY <1>a, <1>b, <1>21, <2>0 DEF CheckedIsDead, File, Crash, Goto, Returned, Dead
  <2>5. QED
    BY <2>1, <2>2, <2>3, <2>4
<1>22. ASSUME NEW p \in Proc, Exit(p)
       PROVE  (WriterHasLock /\ HeldIsOnDisk /\ GuardIsMine /\ CheckedIsDead)'
  <2>0. WriterHasLock /\ HeldIsOnDisk /\ GuardIsMine /\ CheckedIsDead
    BY <1>c, <1>22 DEF Exit
  <2>1. WriterHasLock'
    BY <1>a, <1>b, <1>22, <2>0, HelperShapes DEF WriterHasLock, File, Exit, Goto, Returned, Dead
  <2>2. HeldIsOnDisk'
    BY <1>a, <1>b, <1>22, <2>0 DEF HeldIsOnDisk, HeldOK, File, Exit, Goto, Returned, Dead
  <2>3. GuardIsMine'
    BY <1>a, <1>b, <1>22, <2>0, HelperShapes DEF GuardIsMine, Reclaiming, HelperOK, Creating, File, Exit, Goto, Returned, Dead
  <2>4. CheckedIsDead'
    BY <1>a, <1>b, <1>22, <2>0 DEF CheckedIsDead, File, Exit, Goto, Returned, Dead
  <2>5. QED
    BY <2>1, <2>2, <2>3, <2>4
<1>23. CASE UNCHANGED <<pc, held, helper, disk, written, seen, broken>>
  BY <1>a, <1>c, <1>23 DEF WriterHasLock, HeldIsOnDisk, GuardIsMine, CheckedIsDead, Reclaiming, Dead
<1>24. QED
  BY <1>1, <1>2, <1>3, <1>4, <1>5, <1>6, <1>7, <1>8, <1>9, <1>10, <1>11, <1>12, <1>13, <1>14, <1>15, <1>16, <1>17, <1>18, <1>19, <1>20, <1>21, <1>22, <1>23, <1>26
  DEF Next, Step, Child, Fault, Terminated, Lapse, vars
-----------------------------------------------------------------------------
(* Theorems *)

\* Both halves hold at the start, whatever dead processes left behind.
LEMMA IInvInit == Init => IInv
BY ControlInit, ExclusionInit DEF IInv

\* Both halves are kept together: the invariant is inductive.
LEMMA IInvStep == IInv /\ [Next]_vars => IInv'
BY ControlStep, ExclusionStep DEF IInv

\* Every reachable state satisfies the inductive invariant of the lock protocol
\* (acquireLock, recoverDeadLock, releaseLock and their helpers).
THEOREM Invariance == Spec => []IInv
<1>1. Init => IInv
  BY IInvInit
<1>2. IInv /\ [Next]_vars => IInv'
  BY IInvStep
<1>3. QED
  BY <1>1, <1>2, PTL DEF Spec

\* The state of the lock protocol is always well-formed.
THEOREM TypeCorrect == Spec => []TypeOK
<1>1. IInv => TypeOK
  BY DEF IInv, Control
<1>2. QED
  BY <1>1, Invariance, PTL

\* However many processes acquire, reclaim, crash and release, two of them never
\* run the campaign at once while no working reclaimer was deprived of its guard.
THEOREM Mutex == Spec => []MutualExclusion
<1>1. IInv => MutualExclusion
  BY DEF IInv, Exclusion, HeldIsOnDisk, MutualExclusion
<1>2. QED
  BY <1>1, Invariance, PTL

\* The recovery guard has one holder at a time, and it is on disk while it works.
THEOREM OneReclaimer == Spec => []GuardSerializes
<1>1. IInv => GuardSerializes
  BY DEF IInv, Exclusion, GuardIsMine, GuardSerializes
<1>2. QED
  BY <1>1, Invariance, PTL

\* The lock a reclaimer is about to unlink is that of a dead process of its host.
THEOREM OnlyDeadLocksReclaimed == Spec => []UnlinksDeadLock
<1>1. IInv => UnlinksDeadLock
  BY DEF IInv, Exclusion, CheckedIsDead, UnlinksDeadLock
<1>2. QED
  BY <1>1, Invariance, PTL

\* Only three steps take campaign.lock away from its creator.
LEMMA LockRemovers ==
  ASSUME IInv, [Next]_vars, NEW p \in Proc, disk["lock"] = p, disk'["lock"] # p
  PROVE  \E q \in Proc :
           \/ UnlinkLock(q)
           \/ ReleaseUnlink(q)
           \/ HelperFails(q) /\ helper[q].at \in {"write", "sync"} /\ helper[q].file = "lock"
<1>1. disk \in [File -> Proc \cup {None}]
  BY DEF IInv, Control, TypeOK
<1>2. disk' # disk
  OBVIOUS
<1>3. ASSUME NEW q \in Proc, UnlinkGuardOf(q) PROVE FALSE
  BY <1>1, <1>3 DEF UnlinkGuardOf, Unlink, File
<1>4. ASSUME NEW q \in Proc, HelperOpen(q) PROVE FALSE
  BY <1>1, <1>4, LockAssumption DEF HelperOpen, File
<1>5. ASSUME NEW q \in Proc, HelperFails(q)
      PROVE  helper[q].at \in {"write", "sync"} /\ helper[q].file = "lock"
  BY <1>2, <1>3, <1>5 DEF HelperFails
<1>6. ASSUME NEW q \in Proc,
             \/ Acquire(q) \/ ReadLock(q) \/ JudgeLock(q) \/ ReadGuard(q)
             \/ JudgeGuard(q) \/ RereadGuard(q) \/ RecheckLock(q)
             \/ Release(q) \/ ReleaseRead(q) \/ Exit(q)
      PROVE  FALSE
  BY <1>2, <1>6 DEF Acquire, ReadLock, JudgeLock, ReadGuard, JudgeGuard, RereadGuard,
                    RecheckLock, Release, ReleaseRead, Exit
<1>7. ASSUME NEW q \in Proc,
             \/ HelperWrite(q) \/ HelperSync(q) \/ HelperDies(q) \/ HelperTimeout(q) \/ FileError(q)
             \/ Crash(q)
      PROVE  FALSE
  BY <1>2, <1>7 DEF HelperWrite, HelperSync, HelperDies, HelperTimeout, FileError, Crash
<1>8. ASSUME NEW q \in Proc, UnlinkGuard(q) \/ Unguard(q) \/ ReleaseUnguard(q)
      PROVE  FALSE
  BY <1>3, <1>8 DEF UnlinkGuard, Unguard, ReleaseUnguard
<1>9. QED
  BY <1>2, <1>4, <1>5, <1>6, <1>7, <1>8
  DEF Next, Step, Child, Fault, Terminated, Lapse, vars

\* campaign.lock is taken from a live process only by its own release or by its
\* own helper's failed write, while no working reclaimer was deprived of its guard.
THEOREM LiveLockIsKept == Spec => LiveLockKept
<1> DEFINE Kept ==
      \A p \in Proc :
        (disk["lock"] = p /\ ~Dead(p) /\ disk'["lock"] # p /\ ~broken')
          => \/ pc[p] = "relUnlinking" /\ pc'[p] = "relUnguarding"
             \/ helper[p].file = "lock" /\ helper'[p] = NoHelper
<1>1. IInv /\ [Next]_vars => Kept
  <2> SUFFICES ASSUME IInv, [Next]_vars, NEW p \in Proc, disk["lock"] = p, ~Dead(p),
                      disk'["lock"] # p, ~broken'
               PROVE  \/ pc[p] = "relUnlinking" /\ pc'[p] = "relUnguarding"
                      \/ helper[p].file = "lock" /\ helper'[p] = NoHelper
    OBVIOUS
  <2>1. /\ pc \in [Proc -> Location] /\ helper \in [Proc -> HelperState]
        /\ broken \in BOOLEAN /\ HeldOK
    BY DEF IInv, Control, TypeOK
  <2>2. PICK q \in Proc :
          \/ UnlinkLock(q)
          \/ ReleaseUnlink(q)
          \/ HelperFails(q) /\ helper[q].at \in {"write", "sync"} /\ helper[q].file = "lock"
    BY LockRemovers
  <2>3. ~broken
    BY <2>1, <2>2 DEF UnlinkLock, ReleaseUnlink, HelperFails, UnlinkGuardOf
  <2>4. WriterHasLock /\ HeldIsOnDisk /\ CheckedIsDead
    BY <2>3 DEF IInv, Exclusion
  <2>5. CASE UnlinkLock(q)
    BY <2>4, <2>5 DEF UnlinkLock, CheckedIsDead
  <2>6. CASE ReleaseUnlink(q)
    <3>1. q = p
      BY <2>1, <2>4, <2>6 DEF ReleaseUnlink, HeldOK, HeldIsOnDisk
    <3>2. QED
      BY <2>1, <2>6, <3>1, LockAssumption DEF ReleaseUnlink, Goto
  <2>7. CASE HelperFails(q) /\ helper[q].at \in {"write", "sync"} /\ helper[q].file = "lock"
    <3>1. q = p
      BY <2>1, <2>4, <2>7 DEF WriterHasLock, HelperFails
    <3>2. QED
      BY <2>1, <2>7, <3>1 DEF HelperFails
  <2>8. QED
    BY <2>2, <2>5, <2>6, <2>7
<1>2. IInv /\ [Next]_vars => [Kept]_vars
  BY <1>1
<1>3. QED
  BY <1>2, Invariance, PTL DEF Spec, LiveLockKept

\* A step changes who has the lock by at most one process, and then leaves
\* broken alone.
LEMMA HeldChanges ==
  ASSUME IInv, [Next]_vars
  PROVE  \/ held' = held /\ (broken' = broken \/ broken' = TRUE)
         \/ \E p \in Proc : held' = held \cup {p} /\ broken' = broken
         \/ \E p \in Proc : held' = held \ {p} /\ broken' = broken
<1>0. broken \in BOOLEAN
  BY DEF IInv, Control, TypeOK
<1>1. ASSUME NEW p \in Proc,
             \/ Acquire(p) \/ ReadLock(p) \/ JudgeLock(p) \/ ReadGuard(p)
             \/ JudgeGuard(p) \/ RereadGuard(p) \/ RecheckLock(p) \/ UnlinkLock(p)
             \/ Release(p) \/ ReleaseRead(p) \/ ReleaseUnlink(p) \/ Exit(p)
      PROVE  /\ broken' = broken
             /\ held' = held \/ held' = held \cup {p} \/ held' = held \ {p}
  BY <1>1 DEF Acquire, ReadLock, JudgeLock, ReadGuard, JudgeGuard, RereadGuard,
              RecheckLock, UnlinkLock, Release, ReleaseRead, ReleaseUnlink, Exit
<1>2. ASSUME NEW p \in Proc,
             \/ HelperOpen(p) \/ HelperWrite(p) \/ HelperSync(p) \/ HelperDies(p) \/ HelperTimeout(p)
             \/ FileError(p) \/ Crash(p)
      PROVE  /\ broken' = broken
             /\ held' = held \/ held' = held \cup {p} \/ held' = held \ {p}
  BY <1>2 DEF HelperOpen, HelperWrite, HelperSync, HelperDies, HelperTimeout, FileError, Crash
<1>3. ASSUME NEW p \in Proc,
             UnlinkGuard(p) \/ Unguard(p) \/ ReleaseUnguard(p) \/ HelperFails(p)
      PROVE  held' = held /\ (broken' = broken \/ broken' = TRUE)
  <2>1. held' = held
    BY <1>3 DEF UnlinkGuard, Unguard, ReleaseUnguard, HelperFails
  <2>2. broken' = broken \/ UnlinkGuardOf(p)
                         \/ broken' = (broken \/ (helper[p].at = "sync" /\ Dead(p)))
    BY <1>3 DEF UnlinkGuard, Unguard, ReleaseUnguard, HelperFails
  <2>3. QED
    BY <1>0, <2>1, <2>2 DEF UnlinkGuardOf
<1>4. CASE UNCHANGED <<held, broken>>
  BY <1>4
<1>5. QED
  BY <1>1, <1>2, <1>3, <1>4 DEF Next, Step, Child, Fault, Terminated, Lapse, vars

\* The lock files implement the lease: every step of any number of processes is a
\* grant to a process when nobody has the campaign, a drop, a break or a stutter.
THEOREM LeaseRefined == Spec => ImplementsLease
<1>1. Init => Lease!Init
  BY DEF Init, Lease!Init
<1>2. IInv /\ IInv' /\ [Next]_vars => [Lease!Next]_(Lease!lease)
  <2> SUFFICES ASSUME IInv, IInv', [Next]_vars
               PROVE  Lease!Next \/ (held' = held /\ broken' = broken)
    BY DEF Lease!lease
  <2>1. CASE held' = held /\ (broken' = broken \/ broken' = TRUE)
    BY <2>1 DEF Lease!Next, Lease!Break
  <2>2. ASSUME NEW p \in Proc, p \notin held, held' = held \cup {p}, broken' = broken
        PROVE  Lease!Grant(p)
    <3>1. MutualExclusion'
      BY DEF IInv, Exclusion, HeldIsOnDisk, MutualExclusion
    <3>2. ~broken => \A q \in held : q = p
      BY <2>2, <3>1 DEF MutualExclusion
    <3>3. QED
      BY <2>2, <3>2 DEF Lease!Grant
  <2>3. ASSUME NEW p \in Proc, p \in held, held' = held \ {p}, broken' = broken
        PROVE  Lease!Drop(p)
    BY <2>3 DEF Lease!Drop
  <2>4. QED
    BY <2>1, <2>2, <2>3, HeldChanges DEF Lease!Next
<1>3. QED
  BY <1>1, <1>2, Invariance, PTL DEF Spec, ImplementsLease, Lease!Spec

=============================================================================
