--------------------------- MODULE InvocationProofs ---------------------------
(***************************************************************************)
(* Theorems about one provider invocation, for any tree of processes and   *)
(* any capture limit.                                                      *)
(*                                                                         *)
(* The inductive invariant follows the result.  It is there exactly from   *)
(* the moment on that the harness has stopped listening (Listening), and   *)
(* it is either a refusal, made when nothing had been started, or a whole  *)
(* account of a tree that has let go of both streams (ResultOK).  What is  *)
(* stored, and what the verdict says, is traced back to it.                *)
(***************************************************************************)
EXTENDS Invocation, TLAPS

\* The harness listens until there is a result; before the child is spawned
\* there is nothing to listen to.
Listening ==
  /\ result = None <=> stage \in {"prompt", "wrap", "spawn", "wait"}
  /\ timer = "armed" => stage = "wait"
  /\ stage \in {"prompt", "wrap", "spawn"} => alive = {} /\ ended = None

\* A capture accounts for every byte that was read, and drops none before it is full.
Accounts(kept, truncated, n) ==
  kept + truncated = n /\ kept \in 0 .. Limit /\ (truncated > 0 => kept = Limit)

Accounting ==
  \A s \in Stream : Accounts(buf[s].kept, buf[s].truncated, read[s])

\* The leader ends once.  Under bwrap the tree ends with it; without confinement
\* there is no tree.
TreeOK ==
  /\ ended # None => Leader \notin alive
  /\ ended = "enoent" => alive = {}
  /\ closed => ended # None
  /\ (kind = "bwrap" /\ alive # {}) => Leader \in alive
  /\ kind = "none" => alive = {} /\ stage \notin {"spawn", "wait", "unwrap"}

IsRefusal(r) ==
  /\ r.code = "null" /\ r.infra \in {"prompt", "confinement", "spawn"}
  /\ alive = {} /\ ended \in {None, "enoent"}

IsAccount(r) ==
  /\ ended \notin {None, "enoent"}
  /\ r.timedOut = timedOut
  /\ \A s \in Stream : open[s] = {} /\ Accounts(r.kept[s], r.truncated[s], written[s])

ResultOK == result # None => IsRefusal(result) \/ IsAccount(result)

\* Where nobody is to remove it any more, what is there is lost.
ScratchOK ==
  /\ stage = "prompt" => scratch = {}
  /\ stage = "unprompt" => scratch \subseteq lost \cup {"prompt"}
  /\ Returned => scratch \subseteq lost
  /\ stage = "wrap" =>
       /\ kind = "none" => "temp" \notin scratch
       /\ "temp" \notin scratch => scratch \subseteq {"prompt"}

StoredOK ==
  stored # None =>
    /\ stage \in {"classify", "done"}
    /\ stored = result.kept /\ ~RawUnavailable(result)

VerdictOK ==
  /\ verdict # None => stage = "done"
  /\ verdict \in {"PASS", "FAIL", "NO_OP"} => stored # None /\ ~result.timedOut

IInv ==
  /\ TypeOK /\ Listening /\ Accounting /\ TreeOK /\ ResultOK
  /\ ScratchOK /\ StoredOK /\ VerdictOK

-----------------------------------------------------------------------------
(* Lemmas about the operators. *)

\* appendBoundedBytes accounts for the chunk it is given.
LEMMA AppendAccounts ==
  ASSUME NEW b \in [kept : 0 .. Limit, truncated : Nat], NEW m \in Nat,
         NEW n \in Nat \ {0}, Accounts(b.kept, b.truncated, m)
  PROVE  /\ AppendBounded(b, n) \in [kept : 0 .. Limit, truncated : Nat]
         /\ Accounts(AppendBounded(b, n).kept, AppendBounded(b, n).truncated, m + n)
<1> DEFINE room == Limit - b.kept
           more == IF n <= room THEN n ELSE room
<1>1. Limit \in Nat \ {0}
  BY InvocationAssumption
<1>2. room \in Nat /\ more \in Nat /\ more <= n /\ more <= room /\ (more < n => more = room)
  BY <1>1
<1>3. /\ AppendBounded(b, n).kept = b.kept + more
      /\ AppendBounded(b, n).truncated = b.truncated + n - more
      /\ AppendBounded(b, n) = [kept |-> b.kept + more, truncated |-> b.truncated + n - more]
  BY DEF AppendBounded
<1>4. b.kept \in Nat /\ b.truncated \in Nat /\ b.kept + b.truncated = m
      /\ (b.truncated > 0 => room = 0)
  BY <1>1 DEF Accounts
<1> HIDE DEF more
<1>5. b.kept + more \in 0 .. Limit /\ b.truncated + n - more \in Nat
  BY <1>1, <1>2, <1>4
<1>6. b.truncated + n - more > 0 => b.kept + more = Limit
  BY <1>1, <1>2, <1>4
<1>7. (b.kept + more) + (b.truncated + n - more) = m + n
  BY <1>2, <1>4
<1> QED
  BY <1>3, <1>5, <1>6, <1>7 DEF Accounts

\* pickHighestClassification: no signal outranks what it picks.
LEMMA HighestOutranks ==
  ASSUME NEW S \in SUBSET Verdict
  PROVE  /\ Highest(S) \in Verdict
         /\ \A w \in S : Precedence[w] <= Precedence[Highest(S)]
<1> DEFINE P(v) == \A w \in S : Precedence[w] <= Precedence[v]
<1>1. \E v \in S \cup {"PASS"} : P(v)
  <2>1. CASE "TIMEOUT" \in S
    BY <2>1 DEF Verdict, Precedence
  <2>2. CASE "TIMEOUT" \notin S /\ "INFRA_FAIL" \in S
    BY <2>2 DEF Verdict, Precedence
  <2>3. CASE S \cap {"TIMEOUT", "INFRA_FAIL"} = {} /\ "NO_OP" \in S
    BY <2>3 DEF Verdict, Precedence
  <2>4. CASE S \cap {"TIMEOUT", "INFRA_FAIL", "NO_OP"} = {} /\ "FAIL" \in S
    BY <2>4 DEF Verdict, Precedence
  <2>5. CASE S \subseteq {"PASS"}
    BY <2>5 DEF Verdict, Precedence
  <2> QED
    BY <2>1, <2>2, <2>3, <2>4, <2>5 DEF Verdict
<1>2. Highest(S) \in S \cup {"PASS"} /\ P(Highest(S))
  BY <1>1 DEF Highest
<1> QED
  BY <1>2 DEF Verdict

\* A timeout outranks whatever a trial could count with.
LEMMA TimeoutDoesNotCount ==
  ASSUME NEW S \in SUBSET Verdict, "TIMEOUT" \in S
  PROVE  Highest(S) = "TIMEOUT"
<1>1. Highest(S) \in Verdict /\ Precedence["TIMEOUT"] <= Precedence[Highest(S)]
  BY HighestOutranks
<1> QED
  BY <1>1 DEF Verdict, Precedence

LEMMA SignalsTyped ==
  ASSUME NEW r, NEW gates, NEW unchanged
  PROVE  Signals(r, gates, unchanged) \in SUBSET Verdict
BY DEF Signals, Verdict

\* A refusal is never stored as evidence.
LEMMA RefusalUnavailable ==
  ASSUME NEW r, IsRefusal(r)
  PROVE  RawUnavailable(r)
BY DEF IsRefusal, RawUnavailable

LEMMA RefusalTyped ==
  ASSUME NEW why \in {"prompt", "confinement", "spawn"}
  PROVE  /\ Refusal(why) \in Result /\ Refusal(why) # None
         /\ Refusal(why).code = "null" /\ Refusal(why).infra = why
<1>1. Nothing \in Count
  BY DEF Nothing, Count
<1>2. Refusal(why) \in Result
  BY <1>1 DEF Refusal, Result, Infra
<1>3. Refusal(why) # None
  BY <1>2, NoneAssumption
<1> QED
  BY <1>2, <1>3 DEF Refusal

\* The capture of a refusal, or of a whole account, is typed.
LEMMA CloseResultTyped ==
  ASSUME NEW noise \in BOOLEAN, TypeOK, ended \notin {None}
  PROVE  /\ CloseResult(noise) \in Result /\ CloseResult(noise) # None
         /\ CloseResult(noise).timedOut = timedOut
         /\ CloseResult(noise).kept = [s \in Stream |-> buf[s].kept]
         /\ CloseResult(noise).truncated = [s \in Stream |-> buf[s].truncated]
<1>1. ExitCode \in {"zero", "nonzero", "null"}
  BY DEF ExitCode, TypeOK, Ended
<1>2. /\ [s \in Stream |-> buf[s].kept] \in Count
      /\ [s \in Stream |-> buf[s].truncated] \in Count
  <2>1. \A s \in Stream : buf[s].kept \in Nat /\ buf[s].truncated \in Nat
    BY InvocationAssumption DEF TypeOK
  <2> QED
    BY <2>1 DEF Count
<1>3. timedOut \in BOOLEAN
  BY DEF TypeOK
<1>4. CloseResult(noise) \in Result
  BY <1>1, <1>2, <1>3 DEF CloseResult, Result, Infra
<1>5. CloseResult(noise) # None
  BY <1>4, NoneAssumption
<1> QED
  BY <1>4, <1>5 DEF CloseResult

\* Who dies leaves the tree, its group and its streams; under bwrap nobody
\* outlives the leader.
LEMMA DieShrinks ==
  ASSUME TypeOK, NEW dying \in SUBSET alive, Die(dying)
  PROVE  /\ alive' \subseteq alive \ dying /\ group' \subseteq group \cap alive'
         /\ open' \in [Stream -> SUBSET alive']
         /\ \A s \in Stream : open'[s] \subseteq open[s]
         /\ unborn' = unborn /\ written' = written
         /\ Leader \in alive \ dying => Leader \in alive'
         /\ kind = "bwrap" /\ Leader \in dying => alive' = {}
BY DEF Die, DiesWithLeader, TypeOK

\* A removal leaves only what it could not remove, and that is known to be lost.
LEMMA RemoveLeaves ==
  ASSUME NEW there \in SUBSET Scratch, NEW dirs \in SUBSET Scratch, Remove(there, dirs),
         lost \subseteq Scratch
  PROVE  /\ scratch' \subseteq Scratch /\ lost' \subseteq Scratch
         /\ lost \subseteq lost'
         /\ scratch' \subseteq (there \ dirs) \cup lost'
BY DEF Remove

-----------------------------------------------------------------------------
(* The invariant. *)

LEMMA InitIInv == Init => IInv
<1> SUFFICES ASSUME Init PROVE IInv
  OBVIOUS
<1> USE DEF Init
<1>1. TypeOK
  <2>1. buf \in [Stream -> [kept : 0 .. Limit, truncated : Nat]]
    <3>1. [kept |-> 0, truncated |-> 0] \in [kept : 0 .. Limit, truncated : Nat]
      BY InvocationAssumption
    <3> QED
      BY <3>1
  <2>2. Nothing \in Count /\ open \in [Stream -> SUBSET alive] /\ unborn \subseteq Others \ alive
    BY DEF Nothing, Count
  <2>3. stage \in Stage /\ scratch \subseteq Scratch /\ lost \subseteq Scratch
    BY DEF Stage, Scratch
  <2> QED
    BY <2>1, <2>2, <2>3 DEF TypeOK
<1>2. Listening
  BY DEF Listening
<1>3. Accounting
  BY InvocationAssumption DEF Accounting, Accounts, Nothing
<1>4. TreeOK
  BY NoneAssumption DEF TreeOK, Ended
<1>5. ResultOK /\ ScratchOK /\ StoredOK
  BY DEF ResultOK, ScratchOK, StoredOK, Returned
<1>6. VerdictOK
  BY NoneAssumption DEF VerdictOK, Verdict
<1> QED
  BY <1>1, <1>2, <1>3, <1>4, <1>5, <1>6 DEF IInv

\* A step that only lets processes come, go, or write keeps the invariant if
\* it keeps the tree in order and does not touch what has ended.
LEMMA TreeStep ==
  ASSUME IInv, TypeOK', TreeOK', UNCHANGED <<context, timers, harness>>,
         alive = {} => alive' = {} /\ ended' = ended,
         ended # None => ended' = ended,
         ended' \in {None, "enoent"} => ended' = ended,
         \A s \in Stream : open[s] = {} => open'[s] = {} /\ written'[s] = written[s]
  PROVE  IInv'
<1> USE DEF IInv, context, timers, harness
<1>1. Listening'
  BY DEF Listening
<1>2. Accounting'
  BY DEF Accounting
<1>3. ResultOK'
  <2>1. IsRefusal(result) => IsRefusal(result)'
    BY DEF IsRefusal
  <2>2. IsAccount(result) => IsAccount(result)'
    BY DEF IsAccount
  <2> QED
    BY <2>1, <2>2 DEF ResultOK
<1>4. ScratchOK' /\ StoredOK' /\ VerdictOK'
  BY DEF ScratchOK, StoredOK, VerdictOK, Returned
<1> QED
  BY <1>1, <1>2, <1>3, <1>4

LEMMA ProviderStep == IInv /\ Provider => IInv'
<1> SUFFICES ASSUME IInv, NEW p \in Tree,
                    \/ \E q \in Others : Fork(p, q)
                    \/ LeaveGroup(p)
                    \/ \E s \in Stream : Redirect(p, s) \/ Write(p, s)
                    \/ \E how \in Ended \ {"enoent"} : End(p, how)
             PROVE  IInv'
  BY DEF Provider
<1>1. ASSUME NEW q \in Others, Fork(p, q) PROVE IInv'
  <2>1. TypeOK'
    BY <1>1 DEF IInv, Fork, TypeOK, Tree, context, timers, harness
  <2>2. TreeOK'
    BY <1>1, InvocationAssumption DEF IInv, Fork, TreeOK, TypeOK, context, timers, harness
  <2> QED
    BY <1>1, <2>1, <2>2, TreeStep DEF IInv, Fork, TypeOK
<1>2. ASSUME LeaveGroup(p) PROVE IInv'
  <2>1. TypeOK' /\ TreeOK'
    BY <1>2 DEF IInv, LeaveGroup, TypeOK, TreeOK, context, timers, harness
  <2> QED
    BY <1>2, <2>1, TreeStep DEF LeaveGroup
<1>3. ASSUME NEW s \in Stream, Redirect(p, s) PROVE IInv'
  <2>1. TypeOK' /\ TreeOK'
    BY <1>3 DEF IInv, Redirect, TypeOK, TreeOK, context, timers, harness
  <2> QED
    BY <1>3, <2>1, TreeStep DEF IInv, Redirect, TypeOK
<1>4. ASSUME NEW s \in Stream, Write(p, s) PROVE IInv'
  <2>1. TypeOK'
    BY <1>4 DEF IInv, Write, TypeOK, Count, context, timers, harness
  <2>2. TreeOK'
    BY <1>4 DEF IInv, Write, TreeOK, context, timers, harness
  <2> QED
    BY <1>4, <2>1, <2>2, TreeStep DEF IInv, Write, TypeOK, Count
<1>5. ASSUME NEW how \in Ended \ {"enoent"}, End(p, how) PROVE IInv'
  <2>1. Die({p}) /\ {p} \in SUBSET alive
    BY <1>5 DEF End
  <2>2. /\ alive' \subseteq alive \ {p} /\ group' \subseteq group \cap alive'
        /\ open' \in [Stream -> SUBSET alive']
        /\ \A s \in Stream : open'[s] \subseteq open[s]
        /\ unborn' = unborn /\ written' = written
        /\ Leader \in alive \ {p} => Leader \in alive'
        /\ kind = "bwrap" /\ Leader \in {p} => alive' = {}
    BY <2>1, DieShrinks DEF IInv
  <2>3. TypeOK'
    BY <1>5, <2>2 DEF IInv, End, TypeOK, context, timers, harness
  <2>4. TreeOK'
    BY <1>5, <2>2 DEF IInv, End, TreeOK, context, timers, harness
  <2>5. \A s \in Stream : open[s] = {} => open'[s] = {} /\ written'[s] = written[s]
    BY <2>2
  <2>6. /\ ended # None => ended' = ended
        /\ ended' \in {None, "enoent"} => ended' = ended
        /\ alive = {} => alive' = {} /\ ended' = ended
    BY <1>5, <2>2, NoneAssumption DEF IInv, End, TreeOK
  <2> QED
    BY <1>5, <2>3, <2>4, <2>5, <2>6, TreeStep DEF End
<1> QED
  BY <1>1, <1>2, <1>3, <1>4, <1>5

\* A step of the harness that leaves the tree and what was read alone keeps
\* the invariant if it keeps what the harness knows in order.
LEMMA HarnessKeeps ==
  ASSUME IInv, UNCHANGED <<context, tree, read, buf, closed>>,
         TypeOK', Listening', ResultOK', ScratchOK', StoredOK', VerdictOK',
         kind = "none" => stage' \notin {"spawn", "wait", "unwrap"}
  PROVE  IInv'
<1>1. Accounting'
  BY DEF IInv, Accounting
<1>2. TreeOK'
  BY DEF IInv, TreeOK, context, tree
<1> QED
  BY <1>1, <1>2 DEF IInv

\* The steps that end with a result before the child has run.
LEMMA RefusalStep ==
  ASSUME IInv, NEW why \in {"prompt", "confinement", "spawn"},
         result' = Refusal(why), result = None, alive = {}, ended \in {None, "enoent"},
         UNCHANGED <<context, tree, timedOut, killTimer, read, buf, closed, stored,
                     verdict>>,
         scratch' \subseteq Scratch, lost' \subseteq Scratch, ScratchOK',
         timer' = "off",
         \/ stage = "prompt" /\ stage' = "judge"
         \/ stage = "wrap" /\ stage' = "unprompt"
         \/ stage \in {"spawn", "wait"} /\ stage' = "unwrap"
  PROVE  IInv'
<1>1. /\ Refusal(why) \in Result /\ Refusal(why) # None
      /\ Refusal(why).code = "null" /\ Refusal(why).infra = why
  BY RefusalTyped
<1>2. TypeOK'
  BY <1>1 DEF IInv, TypeOK, Stage, context, tree
<1>3. Listening'
  BY <1>1 DEF IInv, Listening
<1>4. ResultOK'
  <2>1. IsRefusal(result)'
    BY <1>1 DEF IsRefusal, tree
  <2> QED
    BY <2>1 DEF ResultOK
<1>5. StoredOK' /\ VerdictOK'
  BY DEF IInv, StoredOK, VerdictOK, TypeOK, Verdict
<1>6. kind = "none" => stage' \notin {"spawn", "wait", "unwrap"}
  BY DEF IInv, TreeOK
<1> QED
  BY <1>2, <1>3, <1>4, <1>5, <1>6, HarnessKeeps

LEMMA FailureStep == IInv /\ Failure => IInv'
<1> SUFFICES ASSUME IInv, Failure PROVE IInv'
  OBVIOUS
<1>1. stage \in {"prompt", "wrap", "spawn"} =>
        result = None /\ alive = {} /\ ended = None /\ timer = "off"
  BY DEF IInv, Listening, TypeOK
<1>a. /\ scratch \subseteq Scratch /\ lost \subseteq Scratch
      /\ {"prompt"} \subseteq Scratch /\ {"temp", "profile"} \subseteq Scratch
  BY DEF IInv, TypeOK, Scratch
<1>2. ASSUME NEW made \in SUBSET {"prompt"}, PromptFails(made) PROVE IInv'
  <2>1. Remove(scratch \cup made, {"prompt"}) /\ stage = "prompt" /\ stage' = "judge"
    BY <1>2 DEF PromptFails
  <2>2. /\ scratch' \subseteq Scratch /\ lost' \subseteq Scratch /\ lost \subseteq lost'
        /\ scratch' \subseteq ((scratch \cup made) \ {"prompt"}) \cup lost'
    BY <1>a, <2>1, RemoveLeaves
  <2>3. ScratchOK'
    BY <2>1, <2>2 DEF IInv, ScratchOK
  <2> QED
    BY <1>1, <1>2, <2>2, <2>3, RefusalStep DEF PromptFails, timers
<1>3. CASE WrapFails
  <2>1. Remove(scratch, {"temp", "profile"}) /\ stage = "wrap" /\ stage' = "unprompt"
    BY <1>3 DEF WrapFails
  <2>2. /\ scratch' \subseteq Scratch /\ lost' \subseteq Scratch
        /\ scratch' \subseteq (scratch \ {"temp", "profile"}) \cup lost'
    BY <1>a, <2>1, RemoveLeaves
  <2>3. ScratchOK'
    BY <1>a, <2>1, <2>2 DEF ScratchOK, Scratch, Returned
  <2> QED
    BY <1>1, <1>3, <2>2, <2>3, RefusalStep DEF WrapFails, timers
<1>b. CASE TempFails
  <2>1. /\ stage = "wrap" /\ stage' = "unprompt"
        /\ scratch' = scratch \cup {"temp"} /\ lost' = lost \cup {"temp"}
    BY <1>b DEF TempFails
  <2>2. scratch \subseteq {"prompt"}
    BY <1>b, <2>1 DEF IInv, ScratchOK, TempFails
  <2>3. ScratchOK'
    BY <2>1, <2>2 DEF ScratchOK, Returned
  <2> QED
    BY <1>1, <1>a, <1>b, <2>1, <2>3, RefusalStep DEF TempFails, timers
<1>4. CASE SpawnThrows
  <2>1. ScratchOK'
    BY <1>4 DEF ScratchOK, SpawnThrows, Returned
  <2> QED
    BY <1>1, <1>4, <1>a, <2>1, RefusalStep DEF SpawnThrows, timers
<1>5. CASE SpawnNotFound
  <2> USE <1>1, <1>5 DEF SpawnNotFound
  <2>1. TypeOK'
    BY DEF IInv, TypeOK, Ended, Stage, context
  <2>2. Listening'
    BY DEF IInv, Listening
  <2>3. Accounting' /\ ResultOK'
    BY DEF IInv, Accounting, ResultOK
  <2>4. TreeOK'
    BY NoneAssumption DEF IInv, TreeOK, context, Ended
  <2>5. ScratchOK' /\ StoredOK' /\ VerdictOK'
    BY DEF IInv, ScratchOK, StoredOK, VerdictOK, Returned, context
  <2> QED
    BY <2>1, <2>2, <2>3, <2>4, <2>5 DEF IInv
<1> QED
  BY <1>2, <1>3, <1>b, <1>4, <1>5 DEF Failure

\* The preparations, up to the spawn.
LEMMA PrepareStep ==
  IInv /\ (WritePrompt \/ MakeTemp \/ MakeProfile \/ Wrap \/ Spawn) => IInv'
<1> SUFFICES ASSUME IInv, WritePrompt \/ MakeTemp \/ MakeProfile \/ Wrap \/ Spawn
             PROVE  IInv'
  OBVIOUS
<1>1. CASE WritePrompt
  <2> USE <1>1 DEF WritePrompt, IInv, context, timers
  <2>1. TypeOK'
    BY DEF TypeOK, Scratch, Stage, tree
  <2>2. Listening' /\ ResultOK'
    BY DEF Listening, ResultOK, tree
  <2>3. ScratchOK' /\ StoredOK' /\ VerdictOK'
    BY DEF ScratchOK, StoredOK, VerdictOK, Returned
  <2> QED
    BY <2>1, <2>2, <2>3, HarnessKeeps
<1>a. CASE MakeTemp \/ MakeProfile
  <2> USE <1>a DEF MakeTemp, MakeProfile, IInv, context, timers
  <2>1. TypeOK'
    BY DEF TypeOK, Scratch, tree
  <2>2. Listening' /\ ResultOK'
    BY DEF Listening, ResultOK, tree
  <2>3. ScratchOK' /\ StoredOK' /\ VerdictOK'
    BY DEF ScratchOK, StoredOK, VerdictOK, Returned
  <2> QED
    BY <2>1, <2>2, <2>3, HarnessKeeps
<1>2. CASE Wrap
  <2>0. kind # "none"
    BY <1>2 DEF Wrap, IInv, ScratchOK
  <2> USE <1>2, <2>0 DEF Wrap, IInv, context, timers
  <2>1. TypeOK'
    BY DEF TypeOK, Scratch, Stage, tree
  <2>2. Listening' /\ ResultOK'
    BY DEF Listening, ResultOK, tree
  <2>3. ScratchOK' /\ StoredOK' /\ VerdictOK'
    BY DEF ScratchOK, StoredOK, VerdictOK, Returned
  <2> QED
    BY <2>1, <2>2, <2>3, HarnessKeeps
<1>3. CASE Spawn
  <2> USE <1>3 DEF Spawn, IInv, context
  <2>1. TypeOK'
    <3>1. alive = {} /\ ended = None /\ unborn \subseteq Others
      BY DEF Listening, TypeOK
    <3>2. alive' \subseteq Tree /\ group' \subseteq alive' /\ unborn' \subseteq Others \ alive'
      BY <3>1, InvocationAssumption DEF Tree
    <3>3. open' \in [Stream -> SUBSET alive']
      OBVIOUS
    <3> QED
      BY <3>2, <3>3 DEF TypeOK, Stage
  <2>2. Listening'
    BY DEF Listening
  <2>3. Accounting' /\ ResultOK'
    BY DEF Accounting, ResultOK, Listening
  <2>4. TreeOK'
    BY NoneAssumption DEF TreeOK, Ended, Listening
  <2>5. ScratchOK' /\ StoredOK' /\ VerdictOK'
    BY DEF ScratchOK, StoredOK, VerdictOK, Returned
  <2> QED
    BY <2>1, <2>2, <2>3, <2>4, <2>5
<1> QED
  BY <1>1, <1>a, <1>2, <1>3

LEMMA ChunkStep ==
  ASSUME IInv, NEW s \in Stream, NEW n \in 1 .. MaxBytes, Chunk(s, n)
  PROVE  IInv'
<1> USE DEF Chunk, IInv, context, tree, timers
<1>1. n \in Nat \ {0} /\ read[s] \in Nat
  BY InvocationAssumption DEF TypeOK, Count
<1>2. buf[s] \in [kept : 0 .. Limit, truncated : Nat]
  BY DEF TypeOK
<1>3. /\ AppendBounded(buf[s], n) \in [kept : 0 .. Limit, truncated : Nat]
      /\ Accounts(AppendBounded(buf[s], n).kept, AppendBounded(buf[s], n).truncated,
                  read[s] + n)
  BY <1>1, <1>2, AppendAccounts DEF Accounting
<1>4. /\ buf' = [buf EXCEPT ![s] = AppendBounded(buf[s], n)]
      /\ read' = [read EXCEPT ![s] = read[s] + n]
  OBVIOUS
<1>5. buf' \in [Stream -> [kept : 0 .. Limit, truncated : Nat]]
  BY <1>3, <1>4 DEF TypeOK
<1>6. read' \in Count
  BY <1>1, <1>4 DEF TypeOK, Count
<1>7. TypeOK'
  BY <1>5, <1>6 DEF TypeOK
<1>8. Accounting'
  <2> SUFFICES ASSUME NEW t \in Stream
               PROVE  Accounts(buf[t].kept, buf[t].truncated, read[t])'
    BY DEF Accounting
  <2>1. CASE t = s
    <3>1. buf'[t] = AppendBounded(buf[s], n) /\ read'[t] = read[s] + n
      BY <2>1, <1>4 DEF TypeOK, Count
    <3> QED
      BY <3>1, <1>3 DEF Accounts
  <2>2. CASE t # s
    <3>1. buf'[t] = buf[t] /\ read'[t] = read[t]
      BY <2>2, <1>4 DEF TypeOK, Count
    <3> QED
      BY <3>1 DEF Accounting, Accounts
  <2> QED
    BY <2>1, <2>2
<1>9. Listening' /\ TreeOK' /\ ResultOK'
  BY DEF Listening, TreeOK, ResultOK
<1>10. ScratchOK' /\ StoredOK' /\ VerdictOK'
  BY DEF ScratchOK, StoredOK, VerdictOK, Returned
<1> QED
  BY <1>7, <1>8, <1>9, <1>10

LEMMA SpawnErrorStep == IInv /\ SpawnError => IInv'
<1> SUFFICES ASSUME IInv, SpawnError PROVE IInv'
  OBVIOUS
<1>1. result' = Refusal("spawn") /\ timer' = "off" /\ stage' = "unwrap"
  BY DEF SpawnError, Finish, IInv
<1>2. alive = {} /\ ended = "enoent" /\ result = None /\ stage = "wait"
  BY DEF SpawnError, IInv, TreeOK
<1>3. /\ scratch' \subseteq Scratch /\ lost' \subseteq Scratch /\ ScratchOK'
  BY <1>1, <1>2 DEF SpawnError, IInv, TypeOK, ScratchOK, Returned
<1> QED
  BY <1>1, <1>2, <1>3, RefusalStep DEF SpawnError

\* Both pipes are read to their end: what was read is what was written.
LEMMA CloseStep ==
  ASSUME IInv, NEW noise \in BOOLEAN, Close(noise)
  PROVE  IInv'
<1> USE DEF Close, IInv, context, tree
<1>1. TreeOK'
  BY DEF TreeOK, Finish, Listening
<1>2. Accounting'
  BY DEF Accounting
<1>3. CASE result # None
  <2>1. UNCHANGED <<result, timer, stage>>
    BY <1>3 DEF Finish
  <2>2. TypeOK' /\ Listening'
    BY <2>1 DEF TypeOK, Listening
  <2>3. ResultOK'
    BY <2>1 DEF ResultOK, IsRefusal, IsAccount
  <2>4. ScratchOK' /\ StoredOK' /\ VerdictOK'
    BY <2>1 DEF ScratchOK, StoredOK, VerdictOK, Returned
  <2> QED
    BY <1>1, <1>2, <2>2, <2>3, <2>4
<1>4. CASE result = None
  <2>1. result' = CloseResult(noise) /\ timer' = "off" /\ stage' = "unwrap"
    BY <1>4 DEF Finish
  <2>2. ended \notin {None, "enoent"} /\ stage = "wait"
    BY <1>4 DEF Listening, TypeOK
  <2>3. /\ CloseResult(noise) \in Result /\ CloseResult(noise) # None
        /\ CloseResult(noise).timedOut = timedOut
        /\ CloseResult(noise).kept = [s \in Stream |-> buf[s].kept]
        /\ CloseResult(noise).truncated = [s \in Stream |-> buf[s].truncated]
    BY <2>2, CloseResultTyped
  <2>4. TypeOK'
    BY <2>1, <2>3 DEF TypeOK, Stage
  <2>5. Listening'
    BY <2>1, <2>3 DEF Listening
  <2>6. ResultOK'
    <3>1. \A s \in Stream :
            Accounts(CloseResult(noise).kept[s], CloseResult(noise).truncated[s], written[s])
      BY <2>3 DEF Accounting
    <3>2. IsAccount(result)'
      BY <2>1, <2>2, <2>3, <3>1 DEF IsAccount
    <3> QED
      BY <3>2 DEF ResultOK
  <2>7. ScratchOK' /\ StoredOK' /\ VerdictOK'
    BY <2>1, <2>2 DEF ScratchOK, StoredOK, VerdictOK, Returned, TypeOK, Verdict
  <2> QED
    BY <1>1, <1>2, <2>4, <2>5, <2>6, <2>7
<1> QED
  BY <1>3, <1>4

\* Both signals reach the group only, and the first one only while the harness
\* still listens.
LEMMA SignalStep ==
  ASSUME IInv, NEW survivors, KillTree(survivors), UNCHANGED <<context, harness>>,
         timedOut' \in BOOLEAN, timer' \in {"off", "armed"},
         killTimer' \in {"off", "armed", "gone"},
         timer' = "armed" => timer = "armed",
         timedOut' = timedOut \/ result = None
  PROVE  IInv'
<1> USE DEF IInv, context, harness
<1> DEFINE dying == Target \ survivors
<1>1. dying \in SUBSET alive /\ Die(dying)
  BY DEF KillTree, Target, TypeOK
<1>2. /\ alive' \subseteq alive \ dying /\ group' \subseteq group \cap alive'
      /\ open' \in [Stream -> SUBSET alive']
      /\ \A s \in Stream : open'[s] \subseteq open[s]
      /\ unborn' = unborn /\ written' = written
      /\ Leader \in alive \ dying => Leader \in alive'
      /\ kind = "bwrap" /\ Leader \in dying => alive' = {}
  BY <1>1, DieShrinks
<1>3. ended' = IF Leader \in dying THEN "signal" ELSE ended
  BY DEF KillTree
<1> HIDE DEF dying
<1>4. ended # None => ended' = ended
  BY <1>1, <1>3 DEF TreeOK
<1>5. ended' \in {None, "enoent"} => ended' = ended
  BY <1>3, NoneAssumption DEF Ended
<1>6. alive = {} => alive' = {} /\ ended' = ended
  BY <1>1, <1>2, <1>3
<1>7. TypeOK'
  BY <1>2, <1>3 DEF TypeOK, Ended
<1>8. TreeOK'
  BY <1>1, <1>2, <1>3, <1>4, <1>5, <1>6 DEF TreeOK
<1>9. Listening'
  BY <1>6 DEF Listening
<1>10. Accounting'
  BY DEF Accounting
<1>11. ResultOK'
  <2>1. IsRefusal(result) => IsRefusal(result)'
    BY <1>6 DEF IsRefusal
  <2>2. ASSUME result # None, IsAccount(result) PROVE IsAccount(result)'
    BY <2>2, <1>2, <1>4 DEF IsAccount
  <2> QED
    BY <2>1, <2>2 DEF ResultOK
<1>12. ScratchOK' /\ StoredOK' /\ VerdictOK'
  BY DEF ScratchOK, StoredOK, VerdictOK, Returned
<1> QED
  BY <1>7, <1>8, <1>9, <1>10, <1>11, <1>12

LEMMA TimersStep ==
  IInv /\ (Kill \/ \E survivors \in SUBSET Tree : Timeout(survivors)) => IInv'
<1> SUFFICES ASSUME IInv, Kill \/ \E survivors \in SUBSET Tree : Timeout(survivors)
             PROVE  IInv'
  OBVIOUS
<1>1. timer = "armed" => result = None
  BY DEF IInv, Listening
<1>2. CASE Kill
  <2>1. /\ KillTree({}) /\ killTimer' = "off"
        /\ UNCHANGED <<context, timedOut, timer, harness>>
    BY <1>2 DEF Kill
  <2>2. timedOut' \in BOOLEAN /\ timer' \in {"off", "armed"}
    BY <2>1 DEF IInv, TypeOK
  <2> QED
    BY <2>1, <2>2, SignalStep
<1>3. ASSUME NEW survivors \in SUBSET Tree, Timeout(survivors) PROVE IInv'
  BY <1>1, <1>3, SignalStep DEF Timeout
<1> QED
  BY <1>2, <1>3

\* That the campaign's process ends changes nothing else.
LEMMA ExitStep == IInv /\ Exit => IInv'
<1> SUFFICES ASSUME IInv, Exit PROVE IInv'
  OBVIOUS
<1> USE DEF Exit, IInv, context, tree, harness
<1>1. TypeOK' /\ Listening' /\ Accounting' /\ TreeOK'
  BY DEF TypeOK, Listening, Accounting, TreeOK
<1>2. ResultOK'
  BY DEF ResultOK, IsRefusal, IsAccount
<1>3. ScratchOK' /\ StoredOK' /\ VerdictOK'
  BY DEF ScratchOK, StoredOK, VerdictOK, Returned
<1> QED
  BY <1>1, <1>2, <1>3

\* What follows the result: under bwrap, and after a refusal, nobody is alive.
LEMMA SettledTree ==
  ASSUME IInv, result # None, kind # "sandbox-exec"
  PROVE  alive = {}
BY DEF IInv, ResultOK, IsRefusal, IsAccount, TreeOK, TypeOK, Kind

LEMMA AfterStep == IInv /\ (Unwrap \/ Unprompt \/ Judge) => IInv'
<1> SUFFICES ASSUME IInv, Unwrap \/ Unprompt \/ Judge PROVE IInv'
  OBVIOUS
<1> USE DEF IInv, context, timers
<1>1. stage \in {"unwrap", "unprompt", "judge"} => result # None
  BY DEF Listening
<1>2. CASE Unwrap
  <2> USE <1>2 DEF Unwrap
  <2>1. /\ scratch' \subseteq Scratch /\ lost' \subseteq Scratch
        /\ scratch' \subseteq (scratch \ {"temp", "profile"}) \cup lost'
    BY RemoveLeaves DEF TypeOK, Scratch
  <2>2. TypeOK'
    BY <2>1 DEF TypeOK, Stage, tree
  <2>3. Listening' /\ ResultOK'
    BY DEF Listening, ResultOK, IsRefusal, IsAccount, tree
  <2>4. ScratchOK'
    BY <2>1 DEF ScratchOK, Returned, TypeOK, Scratch
  <2>5. StoredOK' /\ VerdictOK'
    BY DEF StoredOK, VerdictOK, TypeOK, Verdict
  <2> QED
    BY <2>2, <2>3, <2>4, <2>5, HarnessKeeps
<1>3. CASE Unprompt
  <2> USE <1>3 DEF Unprompt
  <2>1. /\ scratch' \subseteq Scratch /\ lost' \subseteq Scratch
        /\ lost \subseteq lost'
        /\ scratch' \subseteq (scratch \ {"prompt"}) \cup lost'
    BY RemoveLeaves DEF TypeOK, Scratch
  <2>2. TypeOK'
    BY <2>1 DEF TypeOK, Stage, tree
  <2>3. Listening' /\ ResultOK'
    BY DEF Listening, ResultOK, IsRefusal, IsAccount, tree
  <2>4. ScratchOK'
    BY <2>1 DEF ScratchOK, Returned
  <2>5. StoredOK' /\ VerdictOK'
    BY DEF StoredOK, VerdictOK, TypeOK, Verdict
  <2> QED
    BY <2>2, <2>3, <2>4, <2>5, HarnessKeeps
<1>4. CASE Judge
  <2> USE <1>4 DEF Judge
  <2>1. result \in Result /\ result.kept \in Count
    BY <1>1 DEF TypeOK, Result
  <2>2. TypeOK'
    BY <2>1 DEF TypeOK, Stage, tree
  <2>3. Listening' /\ ResultOK'
    BY DEF Listening, ResultOK, IsRefusal, IsAccount, tree
  <2>4. StoredOK'
    BY DEF StoredOK
  <2>5. ScratchOK'
    BY DEF ScratchOK, Returned
  <2>6. VerdictOK'
    <3>1. verdict = None /\ verdict' = None
      BY DEF VerdictOK, tree
    <3>2. None \notin {"PASS", "FAIL", "NO_OP"}
      BY NoneAssumption DEF Verdict
    <3> QED
      BY <3>1, <3>2 DEF VerdictOK
  <2> QED
    BY <2>2, <2>3, <2>4, <2>5, <2>6, HarnessKeeps
<1> QED
  BY <1>2, <1>3, <1>4

\* A timeout outranks whatever could count, and nothing counts that is not stored.
LEMMA ClassifyStep ==
  ASSUME IInv, NEW gates, NEW unchanged, Classify(gates, unchanged)
  PROVE  IInv'
<1> USE DEF Classify, IInv, context, timers
<1> DEFINE signals == Signals(result, gates, unchanged)
<1>1. result # None /\ result \in Result
  BY DEF Listening, TypeOK
<1>2. signals \in SUBSET Verdict /\ Highest(signals) \in Verdict
  BY SignalsTyped, HighestOutranks
<1>3. verdict' \in Verdict
  BY <1>2 DEF Verdict
<1>4. TypeOK'
  BY <1>3 DEF TypeOK, Stage, tree
<1>5. Listening' /\ ResultOK'
  BY DEF Listening, ResultOK, IsRefusal, IsAccount, tree
<1>6. ScratchOK' /\ StoredOK'
  BY DEF ScratchOK, StoredOK, Returned
<1>7. VerdictOK'
  <2>1. CASE stored = None
    BY <2>1 DEF VerdictOK
  <2>2. CASE stored # None /\ ~result.timedOut
    BY <2>2 DEF VerdictOK
  <2>3. CASE stored # None /\ result.timedOut
    <3>1. "TIMEOUT" \in signals
      BY <2>3 DEF Signals
    <3>2. Highest(signals) = "TIMEOUT"
      BY <1>2, <3>1, TimeoutDoesNotCount
    <3> QED
      BY <2>3, <3>2 DEF VerdictOK
  <2> QED
    BY <1>1, <2>1, <2>2, <2>3 DEF Result
<1> QED
  BY <1>4, <1>5, <1>6, <1>7, HarnessKeeps

LEMMA NextIInv == IInv /\ [Next]_vars => IInv'
<1> SUFFICES ASSUME IInv, [Next]_vars PROVE IInv'
  OBVIOUS
<1>1. CASE Provider
  BY <1>1, ProviderStep
<1>2. CASE Failure
  BY <1>2, FailureStep
<1>3. CASE Harness
  BY <1>3, PrepareStep, ChunkStep, SpawnErrorStep, CloseStep, TimersStep, AfterStep,
     ClassifyStep
  DEF Harness
<1>4. CASE UNCHANGED vars
  <2> USE <1>4 DEF vars, context, tree, timers, harness, IInv
  <2>1. TypeOK' /\ Listening' /\ Accounting'
    BY DEF TypeOK, Listening, Accounting
  <2>2. TreeOK' /\ ResultOK'
    BY DEF TreeOK, ResultOK, IsRefusal, IsAccount
  <2>3. ScratchOK' /\ StoredOK' /\ VerdictOK'
    BY DEF ScratchOK, StoredOK, VerdictOK, Returned
  <2> QED
    BY <2>1, <2>2, <2>3
<1>5. CASE Exit
  BY <1>5, ExitStep
<1> QED
  BY <1>1, <1>2, <1>3, <1>4, <1>5 DEF Next, Rest

\* The invariant holds in every behaviour of an invocation.
THEOREM Invariant == Spec => []IInv
BY InitIInv, NextIInv, PTL DEF Spec

-----------------------------------------------------------------------------
(* What follows from it. *)

\* Type correctness of the invocation, for any tree and any limit.
THEOREM InvocationTypes == Spec => []TypeOK
<1>1. IInv => TypeOK
  BY DEF IInv
<1> QED
  BY <1>1, Invariant, PTL

\* What raw/ holds is everything that the processes of the provider ever wrote:
\* what is stored is an account of all of it that lost nothing
\* (spawn-controlled.js 264-296, run.js 485-560).
THEOREM StoredIsWhole == Spec => []RawIsWhole
<1>1. ASSUME IInv PROVE RawIsWhole
  <2> SUFFICES ASSUME stored # None PROVE stored = written
    BY DEF RawIsWhole
  <2>1. stored = result.kept /\ ~RawUnavailable(result) /\ result # None
    BY <1>1 DEF IInv, StoredOK, Listening
  <2>2. IsAccount(result) /\ result \in Result
    BY <1>1, <2>1, RefusalUnavailable DEF IInv, ResultOK, TypeOK
  <2>3. result.kept \in Count /\ result.truncated \in Count /\ written \in Count
    BY <1>1, <2>2 DEF Result, IInv, TypeOK
  <2>4. ASSUME NEW s \in Stream PROVE result.kept[s] = written[s]
    <3>1. result.kept[s] \in Nat /\ result.truncated[s] \in Nat /\ written[s] \in Nat
      BY <2>3 DEF Count
    <3>2. ~(result.truncated[s] > 0)
      BY <2>1 DEF RawUnavailable
    <3>3. result.kept[s] + result.truncated[s] = written[s]
      BY <2>2 DEF IsAccount, Accounts
    <3> QED
      BY <3>1, <3>2, <3>3
  <2> QED
    BY <2>1, <2>3, <2>4 DEF Count
<1> QED
  BY <1>1, Invariant, PTL

\* A trial that counts for or against the arm is one whose leader ended by
\* itself, with nobody of its group signalled and both streams let go: a timeout
\* and a refusal outrank everything it could count with (run.js 1253-1275,
\* classify.js).
THEOREM CountingTrialUndisturbed == Spec => []CountedIsUndisturbed
<1>1. ASSUME IInv PROVE CountedIsUndisturbed
  <2> SUFFICES ASSUME verdict \in {"PASS", "FAIL", "NO_OP"}
               PROVE  /\ ~timedOut /\ ended # None
                      /\ \A s \in Stream : open[s] = {}
    BY DEF CountedIsUndisturbed
  <2>1. stored # None /\ ~result.timedOut
    BY <1>1 DEF IInv, VerdictOK
  <2>2. ~RawUnavailable(result) /\ result # None
    BY <1>1, <2>1 DEF IInv, StoredOK, Listening
  <2>3. IsAccount(result)
    BY <1>1, <2>2, RefusalUnavailable DEF IInv, ResultOK
  <2> QED
    BY <2>1, <2>3 DEF IsAccount
<1> QED
  BY <1>1, Invariant, PTL

\* In whatever chunks the output comes, the capture is its first Limit bytes and
\* truncation is told exactly when there are more (appendBoundedBytes).
THEOREM CaptureIsExact == Spec => []CaptureExact
<1>1. ASSUME IInv PROVE CaptureExact
  <2> SUFFICES ASSUME result # None, closed, ended # "enoent", NEW s \in Stream
               PROVE  /\ result.kept[s] = IF written[s] <= Limit THEN written[s] ELSE Limit
                      /\ result.kept[s] + result.truncated[s] = written[s]
    BY DEF CaptureExact
  <2>1. IsAccount(result) /\ result \in Result
    BY <1>1 DEF IInv, ResultOK, IsRefusal, TreeOK, TypeOK
  <2>2. Accounts(result.kept[s], result.truncated[s], written[s])
    BY <2>1 DEF IsAccount
  <2>3. result.kept[s] \in Nat /\ result.truncated[s] \in Nat /\ written[s] \in Nat
    BY <1>1, <2>1 DEF Result, Count, IInv, TypeOK
  <2> QED
    BY <2>2, <2>3, InvocationAssumption DEF Accounts
<1> QED
  BY <1>1, Invariant, PTL

\* When run.js goes on, scratch is left only where its removal failed or a private
\* temp could not be made private; and after an invocation confined by bwrap, or
\* refused, no process of it runs any more (provider-confine.js 206-208, 286-290 and
\* 458-490, native-cli.js 225-245 and 325-330).
THEOREM NothingIsLeft == Spec => []NothingLeft
<1>1. ASSUME IInv PROVE NothingLeft
  <2> SUFFICES ASSUME Returned
               PROVE  scratch \subseteq lost /\ (kind # "sandbox-exec" => alive = {})
    BY DEF NothingLeft
  <2>1. result # None
    BY <1>1 DEF IInv, Listening, Returned
  <2> QED
    BY <1>1, <2>1, SettledTree DEF IInv, ScratchOK
<1> QED
  BY <1>1, Invariant, PTL

\* spawnControlled resolves once: no event that comes after the result changes
\* it (spawn-controlled.js 233-247).
THEOREM ResolvesOnce == Spec => SettlesOnce
<1>1. ASSUME IInv, [Next]_vars, result # None PROVE UNCHANGED result
  <2>1. stage \notin {"prompt", "wrap", "spawn", "wait"}
    BY <1>1 DEF IInv, Listening
  <2>2. CASE Provider
    BY <2>2 DEF Provider, Fork, LeaveGroup, Redirect, Write, End, harness
  <2>3. CASE Failure
    BY <2>1, <2>3 DEF Failure, PromptFails, WrapFails, TempFails, SpawnNotFound, SpawnThrows
  <2>4. CASE Harness
    BY <1>1, <2>1, <2>4
    DEF Harness, WritePrompt, MakeTemp, MakeProfile, Wrap, Spawn, Chunk, SpawnError, Close, Finish, Timeout, Kill,
        Unwrap, Unprompt, Judge, Classify, harness
  <2>5. CASE UNCHANGED vars
    BY <2>5 DEF vars, harness
  <2>6. CASE Exit
    BY <2>6 DEF Exit, harness
  <2> QED
    BY <1>1, <2>2, <2>3, <2>4, <2>5, <2>6 DEF Next, Rest
<1>2. IInv /\ [Next]_vars => [result # None => UNCHANGED result]_vars
  BY <1>1
<1> QED
  BY <1>2, Invariant, PTL DEF Spec, SettlesOnce

=============================================================================
