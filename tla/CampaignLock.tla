---------------------------- MODULE CampaignLock ----------------------------
(***************************************************************************)
(* The campaign directory lock of the harness (src/harness/lock.js).       *)
(*                                                                         *)
(* A process that runs or resumes a campaign creates campaign.lock with    *)
(* O_CREAT|O_EXCL.  When the file is there already and its owner is a dead *)
(* process of the same host, the process reclaims it under a second        *)
(* exclusive file, the recovery guard campaign.lock.recover, which may     *)
(* itself have been left by a dead reclaimer and be reclaimed.             *)
(*                                                                         *)
(* Both files are created by a helper child (fs-boundary-helper.js) that   *)
(* opens the file in one system call, writes it in another and syncs it in *)
(* a third, is killed when it takes too long, and outlives a parent that   *)
(* is killed.                                                              *)
(*                                                                         *)
(* An element of Proc is the life of one process: a pid, one runCampaign   *)
(* call with an owner id of its own.  Running the command again is another *)
(* element of Proc.                                                        *)
(***************************************************************************)
EXTENDS Naturals, FiniteSets

CONSTANTS
  Proc,        \* process lives
  None,        \* no file, no snapshot
  HostOf,      \* the host each process runs on
  Tagged,      \* the processes whose owner id encodes their pid
  Leftover,    \* processes that died before the behaviour starts
  Crashes,     \* may a process die before it is done?
  Faults       \* may a file operation fail and may a helper be too slow?

ASSUME LockAssumption ==
  /\ None \notin Proc
  /\ Tagged \subseteq Proc
  /\ Leftover \subseteq Proc
  /\ Crashes \in BOOLEAN
  /\ Faults \in BOOLEAN

File == {"lock", "guard"}

VARIABLES
  pc,        \* where each process is in acquireLock and releaseLock
  held,      \* the processes that acquired the lock and did not release it
  helper,    \* the helper child of each process
  disk,      \* who created the file at each path, None when there is none
  written,   \* has that file its content yet?
  aged,      \* the processes whose stamp in a file is at least 30 s old
  seen,      \* the identity each process last read from each file
  broken     \* was a file unlinked that its unlinker no longer answers for: the
             \* guard of a working reclaimer, or a lock whose creator is dead, by
             \* the creator's helper

vars == <<pc, held, helper, disk, written, aged, seen, broken>>

HelperState == [file : File \cup {"none"}, at : {"none", "open", "write", "sync"}, killed : BOOLEAN]
NoHelper == [file |-> "none", at |-> "none", killed |-> FALSE]
Helper(f) == [file |-> f, at |-> "open", killed |-> FALSE]

\* Where a process waits for its helper, and where it goes on from there when
\* the file was created, when it existed, and when the helper failed.  "return"
\* is a return of acquireLock.
Creating == {"creating", "guarding", "reguarding", "recreating"}
\* Mutants of OnCreate: the EEXIST of the second create is nobody's business; a
\* guard that exists is taken for one's own.
OnCreateUncaught ==
  [creating   |-> [ok |-> "working",    exists |-> "reading",    error |-> "return"],
   guarding   |-> [ok |-> "rechecking", exists |-> "gReading",   error |-> "return"],
   reguarding |-> [ok |-> "rechecking", exists |-> "thrown",     error |-> "return"],
   recreating |-> [ok |-> "unguarding", exists |-> "unguarding", error |-> "unguarding"]]
OnCreateGuardIgnored ==
  [creating   |-> [ok |-> "working",    exists |-> "reading",    error |-> "return"],
   guarding   |-> [ok |-> "rechecking", exists |-> "rechecking", error |-> "return"],
   reguarding |-> [ok |-> "rechecking", exists |-> "return",     error |-> "return"],
   recreating |-> [ok |-> "unguarding", exists |-> "unguarding", error |-> "unguarding"]]

OnCreate ==
  [creating   |-> [ok |-> "working",    exists |-> "reading",    error |-> "return"],
   guarding   |-> [ok |-> "rechecking", exists |-> "gReading",   error |-> "return"],
   reguarding |-> [ok |-> "rechecking", exists |-> "return",     error |-> "return"],
   recreating |-> [ok |-> "unguarding", exists |-> "unguarding", error |-> "unguarding"]]

Location == Creating \cup
  { "idle", "reading", "judging", "gReading", "gJudging", "gRereading",
    "gUnlinking", "rechecking", "unlinking", "unguarding", "working",
    "relReading", "relUnlinking", "relUnguarding", "done", "failed", "dead" }

TypeOK ==
  /\ pc \in [Proc -> Location]
  /\ held \subseteq Proc
  /\ helper \in [Proc -> HelperState]
  /\ disk \in [File -> Proc \cup {None}]
  /\ written \in [File -> BOOLEAN]
  /\ aged \in [File -> SUBSET Proc]
  /\ seen \in [File -> [Proc -> Proc \cup {None}]]
  /\ broken \in BOOLEAN

\* The campaign directory as earlier processes left it: any of them may have
\* died holding the lock, the guard or both, or halfway through creating one.
Init ==
  /\ pc = [p \in Proc |-> IF p \in Leftover THEN "dead" ELSE "idle"]
  /\ held = {}
  /\ helper = [p \in Proc |-> NoHelper]
  /\ disk \in [File -> Leftover \cup {None}]
  /\ written \in [File -> BOOLEAN]
  /\ aged = [f \in File |-> Leftover]
  /\ seen = [f \in File |-> [p \in Proc |-> None]]
  /\ broken = FALSE

-----------------------------------------------------------------------------
Dead(p) == pc[p] = "dead"
Readable(f) == disk[f] # None /\ written[f]

\* Mutants of CanRecoverLock and CanRecoverGuard: no liveness probe; age alone;
\* a pid of another host looked up here; a guard judged like a lock.
CanRecoverLockUnprobed(p, q) ==
  HostOf[q] = HostOf[p] /\ (q \in aged["lock"] \/ q \in Tagged)
CanRecoverLockByAge(p, q) ==
  HostOf[q] = HostOf[p] /\ q \in aged["lock"]
CanRecoverLockAnyHost(p, q) ==
  (HostOf[q] # HostOf[p] \/ Dead(q)) /\ (q \in aged["lock"] \/ q \in Tagged)
CanRecoverGuardTagged(p, q) ==
  HostOf[q] = HostOf[p] /\ Dead(q) /\ q \in Tagged

\* canRecoverDeadLock and canRecoverDeadGuard, asked by p about an owner q.
CanRecoverLock(p, q) ==
  HostOf[q] = HostOf[p] /\ Dead(q) /\ (q \in aged["lock"] \/ q \in Tagged)
CanRecoverGuard(p, q) ==
  HostOf[q] = HostOf[p] /\ Dead(q) /\ q \in aged["guard"]

\* Where acquireLock returns to: a process that had the lock (it called
\* acquireLock again) or got it goes on to work, another one gives up.
Returned(p) == IF p \in held THEN "working" ELSE "failed"

Goto(p, l) == pc' = [pc EXCEPT ![p] = IF l = "return" THEN Returned(p) ELSE l]

Create(p, f) == helper' = [helper EXCEPT ![p] = Helper(f)]

\* A reclaimer that created the guard, or whose helper did, and that has not
\* come to releasing it.
InGuard(q) ==
  pc[q] \in {"guarding", "reguarding", "rechecking", "unlinking", "recreating"}

Unlink(f) == disk' = [disk EXCEPT ![f] = None]

\* Unlinking the guard by its path, whoever created it.
UnlinkGuardOf(p) ==
  /\ Unlink("guard")
  /\ broken' = (broken \/ \E q \in Proc \ {p} : disk["guard"] = q /\ InGuard(q))

-----------------------------------------------------------------------------
(* acquireLock *)

\* A new process, or one that has the lock and asks for it again.
Acquire(p) ==
  /\ pc[p] \in {"idle", "working"} /\ helper[p] = NoHelper
  /\ Goto(p, "creating")
  /\ Create(p, "lock")
  /\ UNCHANGED <<held, disk, written, aged, seen, broken>>

\* readLock after EEXIST: no lock or an unreadable one is a refusal, one's own
\* lock a success, and the lock of another process a candidate for recovery.
ReadLock(p) ==
  /\ pc[p] = "reading"
  /\ \/ /\ ~Readable("lock")
        /\ Goto(p, "return")
        /\ UNCHANGED <<held, seen>>
     \/ /\ Readable("lock") /\ disk["lock"] = p
        /\ pc' = [pc EXCEPT ![p] = "working"]
        /\ held' = held \cup {p}
        /\ UNCHANGED seen
     \/ /\ Readable("lock") /\ disk["lock"] # p
        /\ Goto(p, "judging")
        /\ seen' = [seen EXCEPT !["lock"][p] = disk["lock"]]
        /\ UNCHANGED held
  /\ UNCHANGED <<helper, disk, written, aged, broken>>

\* The liveness probe comes after the read: the owner may have died, or the
\* file may have changed, between the two.
JudgeLock(p) ==
  /\ pc[p] = "judging"
  /\ \/ /\ CanRecoverLock(p, seen["lock"][p])
        /\ Goto(p, "guarding")
        /\ Create(p, "guard")
        /\ aged' = [aged EXCEPT !["guard"] = @ \ {p}]
     \/ /\ ~CanRecoverLock(p, seen["lock"][p])
        /\ Goto(p, "return")
        /\ UNCHANGED <<helper, aged>>
  /\ UNCHANGED <<held, disk, written, seen, broken>>

(* acquireRecoveryGuard *)

ReadGuard(p) ==
  /\ pc[p] = "gReading"
  /\ \/ /\ ~Readable("guard")
        /\ Goto(p, "return")
        /\ UNCHANGED seen
     \/ /\ Readable("guard")
        /\ Goto(p, "gJudging")
        /\ seen' = [seen EXCEPT !["guard"][p] = disk["guard"]]
  /\ UNCHANGED <<held, helper, disk, written, aged, broken>>

JudgeGuard(p) ==
  /\ pc[p] = "gJudging"
  /\ Goto(p, IF CanRecoverGuard(p, seen["guard"][p]) THEN "gRereading" ELSE "return")
  /\ UNCHANGED <<held, helper, disk, written, aged, seen, broken>>

\* The second read, before the unlink.  A guard that vanished is created
\* afresh; a changed identity or a verdict that no longer holds is a refusal.
RereadGuard(p) ==
  /\ pc[p] = "gRereading"
  /\ \/ /\ disk["guard"] = None
        /\ Goto(p, "reguarding")
        /\ Create(p, "guard")
     \/ /\ Readable("guard")
        /\ disk["guard"] = seen["guard"][p]
        /\ CanRecoverGuard(p, disk["guard"])
        /\ Goto(p, "gUnlinking")
        /\ UNCHANGED helper
     \/ /\ disk["guard"] # None
        /\ ~ (/\ written["guard"]
              /\ disk["guard"] = seen["guard"][p]
              /\ CanRecoverGuard(p, disk["guard"]))
        /\ Goto(p, "return")
        /\ UNCHANGED helper
  /\ UNCHANGED <<held, disk, written, aged, seen, broken>>

\* By its path: whatever guard is there by now.
UnlinkGuard(p) ==
  /\ pc[p] = "gUnlinking"
  /\ UnlinkGuardOf(p)
  /\ Goto(p, "reguarding")
  /\ Create(p, "guard")
  /\ UNCHANGED <<held, written, aged, seen>>

(* recoverDeadLock, under the guard *)

\* Mutant of RecheckLock: the guard is taken for proof that nothing changed.
RecheckLockSkipped(p) ==
  /\ pc[p] = "rechecking"
  /\ Goto(p, "unlinking")
  /\ UNCHANGED <<held, helper, disk, written, aged, seen, broken>>

RecheckLock(p) ==
  /\ pc[p] = "rechecking"
  /\ \/ /\ disk["lock"] = None
        /\ Goto(p, "recreating")
        /\ Create(p, "lock")
     \/ /\ Readable("lock")
        /\ disk["lock"] = seen["lock"][p]
        /\ CanRecoverLock(p, disk["lock"])
        /\ Goto(p, "unlinking")
        /\ UNCHANGED helper
     \/ /\ disk["lock"] # None
        /\ ~ (/\ written["lock"]
              /\ disk["lock"] = seen["lock"][p]
              /\ CanRecoverLock(p, disk["lock"]))
        /\ Goto(p, "unguarding")
        /\ UNCHANGED helper
  /\ UNCHANGED <<held, disk, written, aged, seen, broken>>

UnlinkLock(p) ==
  /\ pc[p] = "unlinking"
  /\ Unlink("lock")
  /\ Goto(p, "recreating")
  /\ Create(p, "lock")
  /\ UNCHANGED <<held, written, aged, seen, broken>>

\* The finally block: the guard goes, then acquireLock returns.
Unguard(p) ==
  /\ pc[p] = "unguarding"
  /\ UnlinkGuardOf(p)
  /\ Goto(p, "return")
  /\ UNCHANGED <<held, helper, written, aged, seen>>

-----------------------------------------------------------------------------
(* releaseLock *)

Release(p) ==
  /\ pc[p] = "working"
  /\ Goto(p, "relReading")
  /\ UNCHANGED <<held, helper, disk, written, aged, seen, broken>>

\* No lock is fine, an unreadable lock or another owner's an error.
ReleaseRead(p) ==
  /\ pc[p] = "relReading"
  /\ \/ /\ Readable("lock") /\ disk["lock"] = p
        /\ Goto(p, "relUnlinking")
        /\ UNCHANGED held
     \/ /\ ~ (Readable("lock") /\ disk["lock"] = p)
        /\ Goto(p, IF disk["lock"] = None THEN "done" ELSE "failed")
        /\ held' = held \ {p}
  /\ UNCHANGED <<helper, disk, written, aged, seen, broken>>

ReleaseUnlink(p) ==
  /\ pc[p] = "relUnlinking"
  /\ Unlink("lock")
  /\ Goto(p, IF disk["lock"] = None THEN "done" ELSE "relUnguarding")
  /\ held' = held \ {p}
  /\ UNCHANGED <<helper, written, aged, seen, broken>>

\* "Clear a stale recovery guard": whatever guard is there.
ReleaseUnguard(p) ==
  /\ pc[p] = "relUnguarding"
  /\ UnlinkGuardOf(p)
  /\ Goto(p, "done")
  /\ UNCHANGED <<held, helper, written, aged, seen>>

-----------------------------------------------------------------------------
(* The helper child, and its parent's wait for it *)

\* The parent gets the outcome, unless it died or stopped waiting.
Report(p, outcome) ==
  IF helper[p].killed \/ Dead(p) THEN UNCHANGED pc
  ELSE Goto(p, OnCreate[pc[p]][outcome])

\* openSync(O_CREAT | O_EXCL): the file exists from here on, empty.
HelperOpen(p) ==
  LET f == helper[p].file IN
  /\ helper[p].at = "open"
  /\ \/ /\ disk[f] = None
        /\ disk' = [disk EXCEPT ![f] = p]
        /\ written' = [written EXCEPT ![f] = FALSE]
        /\ helper' = [helper EXCEPT ![p] = IF @.killed THEN NoHelper
                                          ELSE [@ EXCEPT !.at = "write"]]
        /\ UNCHANGED pc
     \/ /\ disk[f] # None
        /\ helper' = [helper EXCEPT ![p] = NoHelper]
        /\ Report(p, "exists")
        /\ UNCHANGED <<disk, written>>
  /\ UNCHANGED <<held, aged, seen, broken>>

\* writeSync on the open descriptor: the file may have been unlinked since.
\* From here on others can read it.
HelperWrite(p) ==
  LET f == helper[p].file IN
  /\ helper[p].at = "write"
  /\ written' = [written EXCEPT ![f] = @ \/ disk[f] = p]
  /\ helper' = [helper EXCEPT ![p] = IF @.killed THEN NoHelper
                                    ELSE [@ EXCEPT !.at = "sync"]]
  /\ UNCHANGED <<pc, held, disk, aged, seen, broken>>

\* fchmodSync, fsyncSync and the report that the file was created.
HelperSync(p) ==
  LET f == helper[p].file IN
  /\ helper[p].at = "sync" /\ ~helper[p].killed
  /\ helper' = [helper EXCEPT ![p] = NoHelper]
  /\ Report(p, "ok")
  /\ held' = IF f = "lock" /\ ~Dead(p) THEN held \cup {p} ELSE held
  /\ UNCHANGED <<disk, written, aged, seen, broken>>

\* The open fails, or the write or the sync fails and the file is unlinked by
\* its name, whatever file that is by then.
HelperFails(p) ==
  /\ Faults
  /\ helper[p] # NoHelper /\ ~helper[p].killed
  /\ \/ helper[p].at = "open" /\ UNCHANGED <<disk, broken>>
     \/ /\ helper[p].at \in {"write", "sync"} /\ helper[p].file = "lock"
        /\ Unlink("lock")
        /\ broken' = (broken \/ (helper[p].at = "sync" /\ Dead(p)))
     \/ /\ helper[p].at \in {"write", "sync"} /\ helper[p].file = "guard"
        /\ UnlinkGuardOf(p)
  /\ helper' = [helper EXCEPT ![p] = NoHelper]
  /\ Report(p, "error")
  /\ UNCHANGED <<held, written, aged, seen>>

\* The parent's timer: it signals the helper and goes on without it.
HelperTimeout(p) ==
  /\ Faults
  /\ ~Dead(p) /\ helper[p] # NoHelper /\ ~helper[p].killed
  /\ helper' = [helper EXCEPT ![p].killed = TRUE]
  /\ Report(p, "error")
  /\ UNCHANGED <<held, disk, written, aged, seen, broken>>

\* The signal arrives; a system call under way may have completed before.
HelperDies(p) ==
  /\ helper[p].killed
  /\ helper' = [helper EXCEPT ![p] = NoHelper]
  /\ UNCHANGED <<pc, held, disk, written, aged, seen, broken>>

-----------------------------------------------------------------------------
(* Failures, deaths, time *)

\* A read or an unlink of the process itself fails.  The error leaves the
\* try block through the finally where there is one; an error of the unlink
\* in the finally replaces the result, even a success.
FileError(p) ==
  /\ Faults
  /\ \/ /\ pc[p] \in {"reading", "gReading", "gRereading", "gUnlinking"}
        /\ Goto(p, "return")
        /\ UNCHANGED held
     \/ /\ pc[p] \in {"rechecking", "unlinking"}
        /\ Goto(p, "unguarding")
        /\ UNCHANGED held
     \/ /\ pc[p] \in {"unguarding", "relReading", "relUnlinking", "relUnguarding"}
        /\ Goto(p, "failed")
        /\ held' = held \ {p}
  /\ UNCHANGED <<helper, disk, written, aged, seen, broken>>

\* The process dies: alone, or with its helper (Ctrl-C, the host goes down).
Crash(p) ==
  /\ Crashes
  /\ pc[p] \notin {"idle", "done", "failed", "dead"}
  /\ Goto(p, "dead")
  /\ held' = held \ {p}
  /\ helper' \in {helper, [helper EXCEPT ![p] = NoHelper]}
  /\ UNCHANGED <<disk, written, aged, seen, broken>>

Exit(p) ==
  /\ pc[p] \in {"done", "failed"}
  /\ Goto(p, "dead")
  /\ UNCHANGED <<held, helper, disk, written, aged, seen, broken>>

\* Thirty seconds pass: every stamp made so far is old.
Lapse ==
  /\ aged' = [f \in File |-> {p \in Proc : pc[p] # "idle"}]
  /\ aged' # aged
  /\ UNCHANGED <<pc, held, helper, disk, written, seen, broken>>

\* Every process has come and gone.
Terminated ==
  /\ \A p \in Proc : Dead(p) /\ helper[p] = NoHelper
  /\ UNCHANGED vars

Step(p) ==
  \/ ReadLock(p) \/ JudgeLock(p)
  \/ ReadGuard(p) \/ JudgeGuard(p) \/ RereadGuard(p) \/ UnlinkGuard(p)
  \/ RecheckLock(p) \/ UnlinkLock(p) \/ Unguard(p)
  \/ ReleaseRead(p) \/ ReleaseUnlink(p) \/ ReleaseUnguard(p)
  \/ Exit(p)

Child(p) == HelperOpen(p) \/ HelperWrite(p) \/ HelperSync(p) \/ HelperDies(p)

Fault(p) == HelperFails(p) \/ HelperTimeout(p) \/ FileError(p) \/ Crash(p)

Next ==
  \/ \E p \in Proc : Acquire(p) \/ Release(p) \/ Step(p) \/ Child(p) \/ Fault(p)
  \/ Lapse
  \/ Terminated

Spec == Init /\ [][Next]_vars

\* A live process and a helper that was not killed run on.  Nothing makes
\* anybody start a process, and a campaign may take for ever.
Fairness ==
  \A p \in Proc : WF_vars(Step(p)) /\ WF_vars(Child(p))

FairSpec == Spec /\ Fairness

-----------------------------------------------------------------------------
(* Properties *)

\* Two processes never run the campaign at once, provided no working reclaimer
\* was deprived of its guard and no dead process's helper unlinked a lock: what
\* acquireLock and the reclamation of dead locks are for (lock.js header,
\* recoverDeadLock).
MutualExclusion == ~broken => \A p, q \in held : p = q

\* The same with no proviso, as the header of lock.js claims it.
StrictMutualExclusion == \A p, q \in held : p = q

\* At most one live process is between taking the guard and releasing it in
\* recoverDeadLock, and the guard on disk is its own: "stale-lock recovery is
\* serialized".
Reclaiming(p) == pc[p] \in {"rechecking", "unlinking", "recreating"}
GuardSerializes == ~broken => \A p \in Proc : Reclaiming(p) => disk["guard"] = p

\* A reclaimer about to unlink the lock (recoverDeadLock, after its re-check)
\* unlinks what it checked: the lock of a dead process of its own host.
UnlinksDeadLock ==
  ~broken => \A p \in Proc : pc[p] = "unlinking" =>
     \E q \in Proc : disk["lock"] = q /\ Dead(q) /\ HostOf[q] = HostOf[p]

\* campaign.lock is taken from a live process only by its own release, or by its
\* own helper's failed write: "never steals a live or ambiguous lock".
LiveLockKept ==
  [][ \A p \in Proc :
        (disk["lock"] = p /\ ~Dead(p) /\ disk'["lock"] # p /\ ~broken')
          => \/ pc[p] = "relUnlinking" /\ pc'[p] = "relUnguarding"
             \/ helper[p].file = "lock" /\ helper'[p] = NoHelper ]_vars

\* A campaign whose processes are all dead can be resumed: when somebody asks
\* for the lock and every file there is complete, somebody gets it (acquireLock
\* with both recoveries).  Asked of runs on one host in which nobody crashes.
Resumable ==
  (/\ \E p \in Proc : pc[p] = "creating"
   /\ \A f \in File : disk[f] = None \/ written[f]) ~> (held # {})

\* The files implement the promise.
Lease == INSTANCE CampaignLease WITH holders <- held
ImplementsLease == Lease!Spec

=============================================================================
