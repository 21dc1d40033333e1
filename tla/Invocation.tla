------------------------------ MODULE Invocation ------------------------------
(***************************************************************************)
(* One provider invocation and its verdict: native-cli.js (and             *)
(* poetic-system.js, which differs in having no prompt file) around        *)
(* spawn-controlled.js, and what run.js and classify.js make of it.        *)
(*                                                                         *)
(* The provider is a tree of processes.  Its leader is the child that the  *)
(* harness spawned, in a process group of its own; the leader and its      *)
(* descendants fork, leave the group, redirect their streams, write and    *)
(* die as they please, while the harness reads the two pipes, runs its two *)
(* timers, and finally removes scratch, stores the raw output, runs the    *)
(* gates and classifies.  Bytes are counted, not named: the code tells     *)
(* them apart only by how many there are.                                  *)
(***************************************************************************)
EXTENDS Naturals, FiniteSets

CONSTANTS
  Leader,    \* the spawned child: the command or the wrapper around it
  Others,    \* the other processes that may come to be
  Limit,     \* captureLimit
  MaxBytes,  \* bound on what the tree writes to a stream
  None

Tree == Others \cup {Leader}
Stream == {"stdout", "stderr"}

ASSUME InvocationAssumption ==
  Leader \notin Others /\ Limit \in Nat \ {0} /\ MaxBytes \in Nat

VARIABLES
  kind,      \* the confinement the host offers
  transport, \* how the prompt is passed
  limited,   \* is there a timeout?
  stage,     \* where the harness is
  scratch,   \* the temporary directories that the invocation has made
  lost,      \* those of them that nobody has removed who should, or could not
  alive,     \* the living processes of the tree
  group,     \* those of them that are in the leader's process group
  open,      \* for each stream, those that hold the pipe open
  unborn,    \* the processes that do not exist yet
  written,   \* bytes the tree has written to each stream
  read,      \* bytes the harness has read from each stream
  buf,       \* the capture of each stream
  ended,     \* how the leader ended
  closed,    \* has `close' been emitted?
  timedOut,
  timer,     \* the timeout
  killTimer, \* the SIGKILL one second after it; gone if the campaign ended first
  result,    \* what spawnControlled resolves to
  stored,    \* how many bytes of each stream raw/ holds
  verdict    \* the classification

context == <<kind, transport, limited>>
tree == <<alive, group, open, unborn, written, ended>>
timers == <<timedOut, timer, killTimer>>
harness == <<stage, scratch, lost, read, buf, closed, result, stored, verdict>>
vars == <<context, tree, timers, harness>>

Kind == {"none", "bwrap", "sandbox-exec"}
Transport == {"stdin", "prompt-file"}
Stage == {"prompt", "wrap", "spawn", "wait", "unwrap", "unprompt", "judge",
          "classify", "done"}
Scratch == {"prompt", "temp", "profile"}
Ended == {"zero", "nonzero", "signal", "enoent"}
Infra == {"none", "prompt", "confinement", "spawn", "timeout"}
Verdict == {"PASS", "FAIL", "NO_OP", "INFRA_FAIL", "TIMEOUT"}
Count == [Stream -> Nat]

\* noise: does stderr say that a file or command was not found?
Result == [code : {"zero", "nonzero", "null"}, infra : Infra, timedOut : BOOLEAN,
           kept : Count, truncated : Count, noise : BOOLEAN]

Nothing == [s \in Stream |-> 0]

ASSUME NoneAssumption == None \notin Result \cup Count \cup Ended \cup Verdict

TypeOK ==
  /\ kind \in Kind /\ transport \in Transport /\ limited \in BOOLEAN
  /\ stage \in Stage /\ scratch \subseteq Scratch /\ lost \subseteq Scratch
  /\ alive \subseteq Tree /\ group \subseteq alive /\ unborn \subseteq Others \ alive
  /\ open \in [Stream -> SUBSET alive] /\ written \in Count
  /\ read \in Count
  /\ buf \in [Stream -> [kept : 0 .. Limit, truncated : Nat]]
  /\ ended \in Ended \cup {None} /\ closed \in BOOLEAN
  /\ timedOut \in BOOLEAN
  /\ timer \in {"off", "armed"} /\ killTimer \in {"off", "armed", "gone"}
  /\ result \in Result \cup {None}
  /\ stored \in Count \cup {None}
  /\ verdict \in Verdict \cup {None}

Init ==
  /\ kind \in Kind /\ transport \in Transport /\ limited \in BOOLEAN
  /\ stage = IF transport = "prompt-file" THEN "prompt" ELSE "wrap"
  /\ scratch = {} /\ lost = {}
  /\ alive = {} /\ group = {} /\ open = [s \in Stream |-> {}]
  /\ unborn = Others /\ written = Nothing /\ ended = None
  /\ timedOut = FALSE /\ timer = "off" /\ killTimer = "off"
  /\ read = Nothing /\ buf = [s \in Stream |-> [kept |-> 0, truncated |-> 0]]
  /\ closed = FALSE /\ result = None /\ stored = None /\ verdict = None

-----------------------------------------------------------------------------
(* What spawnControlled resolves to. *)

\* A failure before the child ran, or instead of it: no exit code, no output.
Refusal(why) ==
  [code |-> "null", infra |-> why, timedOut |-> FALSE, kept |-> Nothing,
   truncated |-> Nothing, noise |-> FALSE]

ExitCode == CASE ended = "zero" -> "zero"
              [] ended \in {"nonzero", "enoent"} -> "nonzero"
              [] ended = "signal" -> "null"

\* Mutant of CloseResult: the timeout is told only of a child that it ended.
CloseResultIfKilled(noise) ==
  [code |-> ExitCode, timedOut |-> timedOut /\ ended = "signal",
   infra |-> IF timedOut /\ ended = "signal" THEN "timeout" ELSE "none",
   kept |-> [s \in Stream |-> buf[s].kept],
   truncated |-> [s \in Stream |-> buf[s].truncated],
   noise |-> noise]

\* The result of the `close' handler; noise is what stderr happens to say.
CloseResult(noise) ==
  [code |-> ExitCode, timedOut |-> timedOut,
   infra |-> IF timedOut THEN "timeout" ELSE "none",
   kept |-> [s \in Stream |-> buf[s].kept],
   truncated |-> [s \in Stream |-> buf[s].truncated],
   noise |-> noise]

\* Mutant of Finish: every event settles.
FinishAgain(r) ==
  /\ result' = r /\ timer' = "off"
  /\ stage' = IF result = None THEN "unwrap" ELSE stage

\* finish: the first result counts, and it stops the timeout (not the SIGKILL).
Finish(r) ==
  IF result = None
  THEN result' = r /\ timer' = "off" /\ stage' = "unwrap"
  ELSE UNCHANGED <<result, timer, stage>>

\* Mutants of AppendBounded: the chunk that crosses the limit is kept whole.
AppendWhole(b, n) ==
  IF b.kept >= Limit THEN [b EXCEPT !.truncated = @ + n] ELSE [b EXCEPT !.kept = @ + n]

\* ... or what the crossing chunk loses is not counted.
AppendUncounted(b, n) ==
  LET room == Limit - b.kept
  IN  IF room = 0 THEN [b EXCEPT !.truncated = @ + n]
      ELSE [b EXCEPT !.kept = @ + IF n <= room THEN n ELSE room]

\* appendBoundedBytes
AppendBounded(b, n) ==
  LET room == Limit - b.kept
      kept == IF n <= room THEN n ELSE room
  IN  [kept |-> b.kept + kept, truncated |-> b.truncated + n - kept]

-----------------------------------------------------------------------------
(* The processes. *)

\* bwrap --die-with-parent --unshare-pid: nothing survives the wrapper.
DiesWithLeader == kind = "bwrap"

\* The processes of `dying' die, and those that cannot outlive them.
Die(dying) ==
  LET gone == IF Leader \in dying /\ DiesWithLeader THEN alive ELSE dying
  IN  /\ alive' = alive \ gone
      /\ group' = group \ gone
      /\ open' = [s \in Stream |-> open[s] \ gone]
      /\ UNCHANGED <<unborn, written>>

\* Mutant of Target: child.kill without the process group.
TargetChild == group \cap {Leader}

\* killTree reaches the whole group, also when the leader has ended.
Target == group

KillTree(survivors) ==
  /\ Die(Target \ survivors)
  /\ ended' = IF Leader \in Target \ survivors THEN "signal" ELSE ended

Fork(p, q) ==
  /\ p \in alive /\ q \in unborn
  /\ unborn' = unborn \ {q}
  /\ alive' = alive \cup {q}
  /\ group' = IF p \in group THEN group \cup {q} ELSE group
  /\ open' = [s \in Stream |-> IF p \in open[s] THEN open[s] \cup {q} ELSE open[s]]
  /\ UNCHANGED <<written, ended, context, timers, harness>>

\* setsid or setpgid; the leader already leads a session.
LeaveGroup(p) ==
  /\ p \in group \ {Leader}
  /\ group' = group \ {p}
  /\ UNCHANGED <<alive, open, unborn, written, ended, context, timers, harness>>

Redirect(p, s) ==
  /\ p \in open[s]
  /\ open' = [open EXCEPT ![s] = @ \ {p}]
  /\ UNCHANGED <<alive, group, unborn, written, ended, context, timers, harness>>

Write(p, s) ==
  /\ p \in open[s] /\ written[s] < MaxBytes
  /\ written' = [written EXCEPT ![s] = @ + 1]
  /\ UNCHANGED <<alive, group, open, unborn, ended, context, timers, harness>>

\* A process ends by itself or is killed by somebody other than the harness.
End(p, how) ==
  /\ p \in alive
  /\ Die({p})
  /\ ended' = IF p = Leader THEN how ELSE ended
  /\ UNCHANGED <<context, timers, harness>>

-----------------------------------------------------------------------------
(* The harness up to the spawn. *)

\* rm -r of what is there, whose failure nobody is told.
Remove(there, dirs) ==
  \E kept \in SUBSET (there \cap dirs) :
    /\ scratch' = (there \ dirs) \cup kept
    /\ lost' = lost \cup kept

\* mkdtemp and writeFile of the prompt.
WritePrompt ==
  /\ stage = "prompt"
  /\ scratch' = scratch \cup {"prompt"}
  /\ stage' = "wrap"
  /\ UNCHANGED <<context, tree, timers, lost, read, buf, closed, result, stored, verdict>>

\* One of the two fails: the directory is removed and the invoker returns.
PromptFails(made) ==
  /\ stage = "prompt" /\ made \subseteq {"prompt"}
  /\ Remove(scratch \cup made, {"prompt"})
  /\ result' = Refusal("prompt")
  /\ stage' = "judge"
  /\ UNCHANGED <<context, tree, timers, read, buf, closed, stored, verdict>>

\* createProviderPrivateTemp.
MakeTemp ==
  /\ stage = "wrap" /\ kind # "none" /\ "temp" \notin scratch
  /\ scratch' = scratch \cup {"temp"}
  /\ UNCHANGED <<context, tree, timers, stage, lost, read, buf, closed, result, stored,
                 verdict>>

\* mkdtemp and writeFile of the Seatbelt profile.
MakeProfile ==
  /\ stage = "wrap" /\ kind = "sandbox-exec" /\ "temp" \in scratch
  /\ "profile" \notin scratch
  /\ scratch' = scratch \cup {"profile"}
  /\ UNCHANGED <<context, tree, timers, stage, lost, read, buf, closed, result, stored,
                 verdict>>

\* Everything is made: the command is wrapped.
Wrap ==
  /\ stage = "wrap" /\ "temp" \in scratch
  /\ kind = "sandbox-exec" => "profile" \in scratch
  /\ stage' = "spawn"
  /\ UNCHANGED <<context, tree, timers, scratch, lost, read, buf, closed, result, stored,
                 verdict>>

\* Mutant of WrapFails: the catch removes the profile only.
WrapFailsUnclean ==
  /\ stage = "wrap"
  /\ Remove(scratch, {"profile"})
  /\ result' = Refusal("confinement")
  /\ stage' = "unprompt"
  /\ UNCHANGED <<context, tree, timers, read, buf, closed, stored, verdict>>

\* No confinement, or a step fails: the catch removes what there is.
WrapFails ==
  /\ stage = "wrap"
  /\ Remove(scratch, {"temp", "profile"})
  /\ result' = Refusal("confinement")
  /\ stage' = "unprompt"
  /\ UNCHANGED <<context, tree, timers, read, buf, closed, stored, verdict>>

\* The private temp is made and its chmod fails: the catch does not know of it.
TempFails ==
  /\ stage = "wrap" /\ kind # "none" /\ "temp" \notin scratch
  /\ scratch' = scratch \cup {"temp"} /\ lost' = lost \cup {"temp"}
  /\ result' = Refusal("confinement")
  /\ stage' = "unprompt"
  /\ UNCHANGED <<context, tree, timers, read, buf, closed, stored, verdict>>

Spawn ==
  /\ stage = "spawn"
  /\ alive' = {Leader} /\ group' = {Leader} /\ open' = [s \in Stream |-> {Leader}]
  /\ timer' = IF limited THEN "armed" ELSE "off"
  /\ stage' = "wait"
  /\ UNCHANGED <<context, unborn, written, ended, timedOut, killTimer, scratch, lost,
                 read, buf, closed, result, stored, verdict>>

\* The child could not be started, which `error' and then `close' will tell.
SpawnNotFound ==
  /\ stage = "spawn"
  /\ ended' = "enoent"
  /\ timer' = IF limited THEN "armed" ELSE "off"
  /\ stage' = "wait"
  /\ UNCHANGED <<context, alive, group, open, unborn, written, timedOut, killTimer,
                 scratch, lost, read, buf, closed, result, stored, verdict>>

SpawnThrows ==
  /\ stage = "spawn"
  /\ result' = Refusal("spawn")
  /\ stage' = "unwrap"
  /\ UNCHANGED <<context, tree, timers, scratch, lost, read, buf, closed, stored, verdict>>

-----------------------------------------------------------------------------
(* The events of the child, in the order they happen to come. *)

Chunk(s, n) ==
  /\ stage = "wait" /\ read[s] + n <= written[s]
  /\ read' = [read EXCEPT ![s] = @ + n]
  /\ buf' = [buf EXCEPT ![s] = AppendBounded(@, n)]
  /\ UNCHANGED <<context, tree, timers, stage, scratch, lost, closed, result, stored,
                 verdict>>

\* `error': the child could not be started.
SpawnError ==
  /\ stage = "wait" /\ ended = "enoent" /\ result = None
  /\ Finish(Refusal("spawn"))
  /\ UNCHANGED <<context, tree, timedOut, killTimer, scratch, lost, read, buf, closed,
                 stored, verdict>>

\* `close': the child has ended, and both pipes are read to their end.  After
\* `error' it comes as well, and finds the promise settled.
Close(noise) ==
  /\ ended # None /\ ~closed
  /\ ended = "enoent" => result # None
  /\ \A s \in Stream : open[s] = {} /\ read[s] = written[s]
  /\ noise => buf["stderr"].kept > 0
  /\ closed' = TRUE
  /\ Finish(CloseResult(noise))
  /\ UNCHANGED <<context, tree, timedOut, killTimer, scratch, lost, read, buf, stored,
                 verdict>>

\* The timeout sends SIGTERM, which all but the wrapper may survive, and sets
\* the second timer, which finish does not clear.
Timeout(survivors) ==
  /\ timer = "armed" /\ ended # "enoent"
  /\ survivors \subseteq Target
  /\ DiesWithLeader => Leader \notin survivors
  /\ timedOut' = TRUE /\ timer' = "off" /\ killTimer' = "armed"
  /\ KillTree(survivors)
  /\ UNCHANGED <<context, harness>>

\* Mutant of Kill: the second signal is only for a leader that still runs.
KillWithLeader ==
  /\ killTimer = "armed" /\ Leader \in alive
  /\ killTimer' = "off"
  /\ KillTree({})
  /\ UNCHANGED <<context, timedOut, timer, harness>>

\* One second later, whether or not the invocation is settled.
Kill ==
  /\ killTimer = "armed"
  /\ killTimer' = "off"
  /\ KillTree({})
  /\ UNCHANGED <<context, timedOut, timer, harness>>

\* The timer does not keep the campaign's process: with nothing left to do it
\* ends, and whom SIGTERM did not end lives on.
Exit ==
  /\ stage = "done" /\ killTimer = "armed"
  /\ killTimer' = "gone"
  /\ UNCHANGED <<context, tree, timedOut, timer, harness>>

-----------------------------------------------------------------------------
(* The harness after it. *)

\* The `finally' of spawnControlled.
Unwrap ==
  /\ stage = "unwrap"
  /\ Remove(scratch, {"temp", "profile"})
  /\ stage' = "unprompt"
  /\ UNCHANGED <<context, tree, timers, read, buf, closed, result, stored, verdict>>

\* The `finally' of invokeNativeCli.
Unprompt ==
  /\ stage = "unprompt"
  /\ Remove(scratch, {"prompt"})
  /\ stage' = "judge"
  /\ UNCHANGED <<context, tree, timers, read, buf, closed, result, stored, verdict>>

NoOutput(r) == r.kept = Nothing

LooksLikeCommandNotFound(r) ==
  \/ r.infra = "spawn"
  \/ r.kept["stdout"] = 0 /\ r.noise /\ r.code # "zero"

\* Mutant of RawUnavailable: a truncated capture is stored as if it were complete.
RawUnavailableIfFailed(r) ==
  \/ LooksLikeCommandNotFound(r)
  \/ r.infra \in {"confinement", "spawn"}
  \/ r.infra # "none" /\ (r.code = "null" \/ NoOutput(r))

\* isRawEvidenceUnavailable
RawUnavailable(r) ==
  \/ \E s \in Stream : r.truncated[s] > 0
  \/ LooksLikeCommandNotFound(r)
  \/ r.infra \in {"confinement", "spawn"}
  \/ r.infra # "none" /\ (r.code = "null" \/ NoOutput(r))

\* Raw output is stored only if all of it is there.
Judge ==
  /\ stage = "judge"
  /\ stored' = IF RawUnavailable(result) THEN None ELSE result.kept
  /\ stage' = "classify"
  /\ UNCHANGED <<context, tree, timers, scratch, lost, read, buf, closed, result, verdict>>

\* What the gates say (gates.js): each may fail, be unavailable, or time out.
Gates == SUBSET {"failed", "infra", "timeout"}

Signals(r, gates, unchanged) ==
  LET infra == r.infra # "none" \/ LooksLikeCommandNotFound(r)
  IN  (IF r.timedOut \/ "timeout" \in gates THEN {"TIMEOUT"} ELSE {})
      \cup (IF stored = None \/ infra \/ "infra" \in gates THEN {"INFRA_FAIL"} ELSE {})
      \cup (IF unchanged THEN {"NO_OP"} ELSE {})
      \cup (IF r.code = "nonzero" /\ ~infra /\ ~r.timedOut THEN {"FAIL"} ELSE {})
      \cup (IF "failed" \in gates THEN {"FAIL"} ELSE {})

Precedence == [PASS |-> 0, FAIL |-> 1, NO_OP |-> 2, INFRA_FAIL |-> 3, TIMEOUT |-> 4]

Highest(signals) ==
  CHOOSE v \in signals \cup {"PASS"} :
    \A w \in signals : Precedence[w] <= Precedence[v]

\* unchanged: the provider changed no file.
Classify(gates, unchanged) ==
  /\ stage = "classify"
  /\ verdict' = IF stored = None THEN "INFRA_FAIL"
                ELSE Highest(Signals(result, gates, unchanged))
  /\ stage' = "done"
  /\ UNCHANGED <<context, tree, timers, scratch, lost, read, buf, closed, result, stored>>

\* The verdict is there, nothing of the invocation is left to happen.
Rest ==
  /\ stage = "done" /\ alive = {} /\ killTimer # "armed"
  /\ UNCHANGED vars

-----------------------------------------------------------------------------

Provider ==
  \/ \E p \in Tree : \/ \E q \in Others : Fork(p, q)
                     \/ LeaveGroup(p)
                     \/ \E s \in Stream : Redirect(p, s) \/ Write(p, s)
                     \/ \E how \in Ended \ {"enoent"} : End(p, how)

Harness ==
  \/ WritePrompt \/ MakeTemp \/ MakeProfile \/ Wrap \/ Spawn
  \/ \E s \in Stream, n \in 1 .. MaxBytes : Chunk(s, n)
  \/ SpawnError
  \/ \E noise \in BOOLEAN : Close(noise)
  \/ \E survivors \in SUBSET Tree : Timeout(survivors)
  \/ Kill
  \/ Unwrap \/ Unprompt \/ Judge
  \/ \E gates \in Gates, unchanged \in BOOLEAN : Classify(gates, unchanged)

Failure ==
  \/ \E made \in SUBSET {"prompt"} : PromptFails(made)
  \/ WrapFails \/ TempFails \/ SpawnNotFound \/ SpawnThrows

Next == Provider \/ Harness \/ Failure \/ Exit \/ Rest

Spec == Init /\ [][Next]_vars

\* The harness goes on: it waits for nothing but the child and its timers, and
\* while it does its process lives.  Afterwards the second timer fires unless the
\* process has ended, which it need not do (Exit): other trials may follow.  The
\* processes of the provider need not do anything.
Fairness == WF_vars(Harness \/ Failure)

FairSpec == Spec /\ Fairness

-----------------------------------------------------------------------------
(* Properties. *)

Returned == stage \in {"judge", "classify", "done"}

\* What raw/ holds is all that the processes of the provider ever wrote to
\* their streams (spawn-controlled.js 264-296, run.js 485-560): a result that
\* came before a pipe was read to its end, or that lost bytes, is not stored.
RawIsWhole == stored # None => stored = written

\* A trial that counts for or against the arm (PASS, FAIL, NO_OP) is one that
\* the harness did not disturb: the leader ended on its own, nobody of its group
\* was signalled, and nobody holds its streams (run.js 1253-1275, classify.js).
CountedIsUndisturbed ==
  verdict \in {"PASS", "FAIL", "NO_OP"} =>
    /\ ~timedOut /\ ended # None
    /\ \A s \in Stream : open[s] = {}

\* In whatever chunks the output of the tree comes, the capture is the first
\* Limit bytes and truncation is told exactly when there are more (appendBoundedBytes).
CaptureExact ==
  result # None /\ closed /\ ended # "enoent" =>
    \A s \in Stream :
      /\ result.kept[s] = IF written[s] <= Limit THEN written[s] ELSE Limit
      /\ result.kept[s] + result.truncated[s] = written[s]

\* When run.js goes on, only a failed removal, or a private temp that could not
\* be made private, has left scratch behind, whatever step of the preparation
\* failed; and after an invocation confined by bwrap, or refused, no process of it
\* runs any more (provider-confine.js 206-208, 286-290 and 458-490, native-cli.js
\* 225-245 and 325-330).
NothingLeft ==
  Returned => scratch \subseteq lost /\ (kind # "sandbox-exec" => alive = {})

\* spawnControlled resolves once: `close' after `error', or after anything else,
\* changes nothing of the result (spawn-controlled.js 233-247).
SettlesOnce == [][result # None => UNCHANGED result]_vars

\* After a timeout nobody is left in the process group, also when the streams
\* closed and the result was there before the second signal, unless the whole
\* campaign is over within that second (spawn-controlled.js 305-318).
GroupIsKilled == timedOut ~> (killTimer = "gone" \/ [](group = {}))

\* A process that left the group, which no signal reaches, holds a pipe.
Escaped == \E s \in Stream : open[s] \ group # {}

\* An invocation with a timeout comes to its verdict, unless an escaped process
\* keeps a pipe open for ever (spawn-controlled.js 277, 305-318).
Settles == limited => <>(verdict # None) \/ <>[]Escaped

-----------------------------------------------------------------------------
(* What the code says of itself. *)

\* The reason stored with PASS is "invoker and required executable gates
\* succeeded" (classify.js 256).
PassMeansSuccess == verdict = "PASS" => ended = "zero"

=============================================================================
