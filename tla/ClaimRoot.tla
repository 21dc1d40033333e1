------------------------------ MODULE ClaimRoot ------------------------------
(***************************************************************************)
(* How runCampaign comes to own the directory it was given:                *)
(* claimCampaignRoot and validateCampaignOwnerMarker of src/harness/run.js,*)
(* before any lock.  Several processes may claim one directory at once,    *)
(* while its user works in it.  The marker is created by a helper child    *)
(* (safe-fs.js createFileExclusiveNoFollow): opened, written and synced,   *)
(* each of which others may see, and any of which may be the last.         *)
(***************************************************************************)
EXTENDS Naturals, FiniteSets

CONSTANTS
  Proc,  \* calls of runCampaign
  None

VARIABLES
  dir,     \* the directory, or None
  pc,      \* where each process is
  created, \* the processes that made the directory
  helper,  \* where the helper of each is, or None
  \* history
  found,   \* what each process met, on its call and at its mkdir, that keeps a run out
  marked,  \* the processes whose helper created the marker
  met,     \* the processes that claimed while another did
  spoilt   \* has a helper died or failed, or the user put something there?

vars == <<dir, pc, created, helper, found, marked, met, spoilt>>

\* foreign: entries that are not a campaign's; own: the subdirectories of one.
Directory ==
  [git : BOOLEAN, foreign : BOOLEAN, own : BOOLEAN,
   manifest : {"none", "valid", "invalid"}, marker : {"none", "torn", "whole"}]

Empty ==
  [git |-> FALSE, foreign |-> FALSE, own |-> FALSE, manifest |-> "none", marker |-> "none"]

\* What may keep a run out of a directory.
Obstacle == {"git", "foreign", "torn"}
Obstacles ==
  IF dir = None THEN {}
  ELSE {o \in Obstacle : CASE o = "git" -> dir.git [] o = "foreign" -> dir.foreign
                            [] o = "torn" -> dir.marker = "torn"}

Asking == {"root", "mkdir", "git", "marker", "manifest", "list", "load",
           "create", "validate"}
HelperStep == {"open", "write", "sync"}
Ended == {"refused", "failed", "dead", "done"}
PC == {"off", "owner", "private"} \cup Asking \cup Ended

ASSUME NoneAssumption ==
  None \notin Directory \cup HelperStep /\ \A S \in SUBSET Obstacle : S # None

TypeOK ==
  /\ dir \in Directory \cup {None}
  /\ pc \in [Proc -> PC]
  /\ created \subseteq Proc /\ \A p, q \in created : p = q
  /\ helper \in [Proc -> HelperStep \cup {None}]
  /\ \A p \in Proc : helper[p] \in {"write", "sync"} => p \in marked
  /\ found \in [Proc -> (SUBSET Obstacle) \cup {None}]
  /\ marked \subseteq Proc /\ met \subseteq Proc /\ spoilt \in BOOLEAN

\* The directory is new, or the user's, or that of an earlier campaign, which may
\* be older than the markers or have died before its marker was whole.
UserDirectory(g, m) == [Empty EXCEPT !.foreign = TRUE, !.git = g, !.manifest = m]
CampaignDirectory(m) == [Empty EXCEPT !.own = TRUE, !.manifest = "valid", !.marker = m]
TornDirectory == [Empty EXCEPT !.marker = "torn"]

Init ==
  /\ \/ dir \in {None, Empty, TornDirectory}
     \/ \E g \in BOOLEAN, m \in {"none", "invalid"} : dir = UserDirectory(g, m)
     \/ \E m \in {"none", "whole"} : dir = CampaignDirectory(m)
  /\ pc = [p \in Proc |-> "off"] /\ created = {}
  /\ helper = [p \in Proc |-> None]
  /\ found = [p \in Proc |-> None] /\ marked = {} /\ met = {} /\ spoilt = FALSE

Goto(p, l) == pc' = [pc EXCEPT ![p] = l]
At(p, l) == pc[p] = l

\* At l process p looks whether what it wants is there, and goes on.
Look(p, l, there, then, else) ==
  /\ At(p, l) /\ Goto(p, IF there THEN then ELSE else)
  /\ UNCHANGED <<dir, created, helper, found, marked, met, spoilt>>

-----------------------------------------------------------------------------
(* claimCampaignRoot *)

Claiming == {p \in Proc : pc[p] \in Asking \/ helper[p] # None}

Call(p) ==
  /\ At(p, "off") /\ Goto(p, "root")
  /\ found' = [found EXCEPT ![p] = Obstacles]
  /\ met' = met \cup IF Claiming = {} THEN {} ELSE {p} \cup Claiming
  /\ UNCHANGED <<dir, created, helper, marked, spoilt>>

SeekRoot(p) == Look(p, "root", dir = None, "mkdir", "git")

\* Mutant of MakeRoot: whoever called mkdir takes the directory for its own.
MakeRootAnyway(p) ==
  /\ At(p, "mkdir") /\ Goto(p, "git")
  /\ dir' = IF dir = None THEN Empty ELSE dir
  /\ created' = created \cup {p}
  /\ found' = [found EXCEPT ![p] = Obstacles]
  /\ UNCHANGED <<helper, marked, met, spoilt>>

\* EEXIST is no error: another process was faster.
MakeRoot(p) ==
  /\ At(p, "mkdir") /\ Goto(p, "git")
  /\ IF dir = None THEN dir' = Empty /\ created' = created \cup {p}
     ELSE UNCHANGED <<dir, created>>
  /\ found' = [found EXCEPT ![p] = Obstacles]
  /\ UNCHANGED <<helper, marked, met, spoilt>>

\* A repository is refused, marker or not; a directory just made is not looked at.
SeekGit(p) ==
  Look(p, "git", dir.git, "refused", IF p \in created THEN "create" ELSE "marker")

SeekMarker(p) == Look(p, "marker", dir.marker # "none", "validate", "manifest")

SeekManifest(p) == Look(p, "manifest", dir.manifest # "none", "load", "list")

\* readdir.
List(p) == Look(p, "list", dir = Empty, "create", "refused")

LoadManifest(p) == Look(p, "load", dir.manifest = "valid", "create", "refused")

\* Mutant of Create: the promise is not awaited.
CreateUnawaited(p) ==
  /\ At(p, "create") /\ helper[p] = None
  /\ helper' = [helper EXCEPT ![p] = "open"] /\ Goto(p, "validate")
  /\ UNCHANGED <<dir, created, found, marked, met, spoilt>>

Create(p) ==
  /\ At(p, "create") /\ helper[p] = None
  /\ helper' = [helper EXCEPT ![p] = "open"]
  /\ UNCHANGED <<dir, pc, created, found, marked, met, spoilt>>

\* Mutant of Validate: that there is a marker is enough.
ValidatePresence(p) == Look(p, "validate", dir.marker # "none", "owner", "refused")

\* validateCampaignOwnerMarker.
Validate(p) == Look(p, "validate", dir.marker = "whole", "owner", "refused")

-----------------------------------------------------------------------------
(* createFileExclusiveNoFollow: the helper *)

\* The helper of p ends; p, if it lives, goes to l.
Report(p, l) ==
  /\ helper' = [helper EXCEPT ![p] = None]
  /\ IF At(p, "create") THEN Goto(p, l) ELSE UNCHANGED pc

HelperOpens(p) ==
  /\ helper[p] = "open"
  /\ IF dir.marker = "none"
     THEN /\ dir' = [dir EXCEPT !.marker = "torn"]
          /\ helper' = [helper EXCEPT ![p] = "write"]
          /\ marked' = marked \cup {p}
          /\ UNCHANGED pc
     ELSE Report(p, "validate") /\ UNCHANGED <<dir, marked>>
  /\ UNCHANGED <<created, found, met, spoilt>>

HelperWrites(p) ==
  /\ helper[p] = "write"
  /\ dir' = [dir EXCEPT !.marker = "whole"]
  /\ helper' = [helper EXCEPT ![p] = "sync"]
  /\ UNCHANGED <<pc, created, found, marked, met, spoilt>>

HelperSyncs(p) ==
  /\ helper[p] = "sync"
  /\ Report(p, "owner")
  /\ UNCHANGED <<dir, created, found, marked, met, spoilt>>

\* The write, the chmod or the sync fails: the helper removes the marker, whole or
\* not; or the open fails.
HelperFails(p) ==
  /\ helper[p] # None
  /\ dir' = IF helper[p] = "open" THEN dir ELSE [dir EXCEPT !.marker = "none"]
  /\ Report(p, "failed")
  /\ spoilt' = TRUE
  /\ UNCHANGED <<created, found, marked, met>>

\* The helper is killed: by the timeout of its parent, or with it.
HelperDies(p) ==
  /\ helper[p] # None
  /\ Report(p, "failed")
  /\ spoilt' = (spoilt \/ helper[p] = "write")
  /\ UNCHANGED <<dir, created, found, marked, met>>

-----------------------------------------------------------------------------
(* After the claim, and around it *)

\* Mutant of Private: the subdirectories are made before the marker.
PrivateFirst(p) ==
  /\ \/ At(p, "owner") /\ Goto(p, "private") /\ UNCHANGED dir
     \/ At(p, "create") /\ helper[p] = None /\ ~dir.own
        /\ dir' = [dir EXCEPT !.own = TRUE] /\ UNCHANGED pc
  /\ UNCHANGED <<created, helper, found, marked, met, spoilt>>

\* ensurePrivateDir: raw/, results/ and artifacts/.
Private(p) ==
  /\ At(p, "owner") /\ Goto(p, "private")
  /\ dir' = [dir EXCEPT !.own = TRUE]
  /\ UNCHANGED <<created, helper, found, marked, met, spoilt>>

\* The run creates the manifest, or loads it, under the lock.
Manifest(p) ==
  /\ At(p, "private") /\ Goto(p, "done")
  /\ dir' = [dir EXCEPT !.manifest = IF @ = "none" THEN "valid" ELSE @]
  /\ UNCHANGED <<created, helper, found, marked, met, spoilt>>

Crash(p) ==
  /\ pc[p] \notin {"off"} \cup Ended /\ Goto(p, "dead")
  /\ UNCHANGED <<dir, created, helper, found, marked, met, spoilt>>

\* The user makes the directory, puts files there or makes it a repository.
User ==
  /\ IF dir = None THEN dir' = Empty
     ELSE dir' \in {[dir EXCEPT !.foreign = TRUE], [dir EXCEPT !.git = TRUE]}
  /\ dir' # dir
  /\ spoilt' = (spoilt \/ dir # None)
  /\ UNCHANGED <<pc, created, helper, found, marked, met>>

Rest == (\A p \in Proc : pc[p] \in Ended /\ helper[p] = None) /\ UNCHANGED vars

-----------------------------------------------------------------------------

Claim(p) ==
  \/ Call(p) \/ SeekRoot(p) \/ MakeRoot(p) \/ SeekGit(p) \/ SeekMarker(p)
  \/ SeekManifest(p) \/ List(p) \/ LoadManifest(p) \/ Create(p) \/ Validate(p)
  \/ Private(p) \/ Manifest(p)

Helper(p) == HelperOpens(p) \/ HelperWrites(p) \/ HelperSyncs(p)

Fault(p) == HelperFails(p) \/ HelperDies(p) \/ Crash(p)

Next == (\E p \in Proc : Claim(p) \/ Helper(p) \/ Fault(p)) \/ User \/ Rest

Spec == Init /\ [][Next]_vars

\* Every process of the instance is started, and a live one goes on.
FairSpec == Spec /\ \A p \in Proc : WF_vars(Claim(p)) /\ WF_vars(Helper(p))

-----------------------------------------------------------------------------
(* Properties *)

Owner(p) == pc[p] \in {"owner", "private", "done"}

\* A directory in which somebody's files lay when the run was started, or when it
\* lost the race to make it, gets a marker only as a campaign, by its manifest; no
\* run owns what was a repository then, whoever marks it meanwhile; and who owns
\* the directory can show a whole marker, unless a helper that failed to sync it
\* took it away again (run.js 84-86 and 104-165).
OwnedRightly ==
  \A p \in Proc : found[p] # None =>
    /\ p \in marked /\ "foreign" \in found[p] => dir.manifest = "valid"
    /\ Owner(p) => "git" \notin found[p]
    /\ Owner(p) => dir.marker = "whole" \/ spoilt

\* A claim is refused because of what it found, because of a marker nobody
\* finished, or because another claim was under way (run.js 108): a process that
\* died at any other moment never keeps the next one out.
RefusedForAReason ==
  \A p \in Proc : pc[p] = "refused" =>
    spoilt \/ p \in met \/ found[p] # {}

\* Of several processes that claim at once a directory in which nothing kept the
\* first of them out somebody gets it, as long as no process or helper dies and
\* nobody else interferes (run.js 104-165).
SomebodyOwns ==
  (\E p \in Proc : pc[p] = "root" /\ found[p] = {}) ~>
    \/ spoilt
    \/ \E p \in Proc : Owner(p) \/ pc[p] \in {"dead", "failed"}

=============================================================================
