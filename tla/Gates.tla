-------------------------------- MODULE Gates --------------------------------
(***************************************************************************)
(* What the eligibility gates of a task say (src/harness/gates.js) and     *)
(* what classifyTrial makes of it (src/harness/classify.js): operators     *)
(* only.  TrialExecution runs them.                                        *)
(*                                                                         *)
(* A gate is a record of the task:                                         *)
(*   name, kind      "baseline-diff", "requirements", "oracle", "command"  *)
(*                   or "unknown": no command and no evaluator;            *)
(*   order           its place; gates of equal order keep theirs;          *)
(*   required        whether its failure fails the trial;                  *)
(*   allow           the paths that may change, or None: any but protected *)
(*   script          the oraclePath of an oracle gate without a command.   *)
(* A requirement (an item of mustHave) names its evidence:                 *)
(*   test            substantiation is "test";                             *)
(*   ref             it has an artifactRef;                                *)
(*   gate, script    evidenceGate and oraclePath, or None.                 *)
(***************************************************************************)
EXTENDS Integers, Sequences, FiniteSets, SequencesExt

CONSTANTS None, Protected, Bookkeeping

GateKind == {"baseline-diff", "requirements", "oracle", "command", "unknown"}

\* The gates a task may have.
TaskGate(paths) ==
  [name : STRING, kind : GateKind, order : Int, required : BOOLEAN,
   allow : {None} \cup SUBSET paths, command : BOOLEAN, script : {None} \cup STRING]

Signal == {"PASS", "FAIL", "INFRA_FAIL", "TIMEOUT"}
Verdict == Signal \cup {"NO_OP"}

\* A GateResult: its status follows from the signal, but for a timeout, whose
\* status is "failed".  script: the oraclePath the result is evidence for.
GateResult(gate, signal, script) ==
  [name |-> gate.name, required |-> gate.required, signal |-> signal,
   script |-> script]

Result ==
  [name : STRING, required : BOOLEAN, signal : Signal, script : {None} \cup STRING]

Passed(result) == result.signal = "PASS"
HasFailed(result) == result.signal \in {"FAIL", "TIMEOUT"}

-----------------------------------------------------------------------------
(* The order of the gates *)

\* runGates sorts by order; Array.prototype.sort is stable.
Ordered(gates) ==
  LET Before(i, j) == \/ gates[i].order < gates[j].order
                      \/ gates[i].order = gates[j].order /\ i < j
      Place(i) == Cardinality({j \in DOMAIN gates : Before(j, i)}) + 1
  IN [n \in DOMAIN gates |-> gates[CHOOSE i \in DOMAIN gates : Place(i) = n]]

-----------------------------------------------------------------------------
(* The structural gates *)

\* filterMeaningfulChangedPaths.
Meaningful(paths) == paths \ Bookkeeping

\* A list of allowed paths replaces the protection of the usual ones.
MayChange(path, gate) ==
  IF gate.allow = None THEN path \notin Protected ELSE path \in gate.allow

\* evaluateBaselineDiffPolicy.
PolicyOK(paths, gate) == \A p \in paths : MayChange(p, gate)

\* evaluateBaselineDiff of what collectBaselineChangedPaths returns.
BaselineDiff(collected, gate) ==
  GateResult(gate,
    IF collected.ok
    THEN IF PolicyOK(Meaningful(collected.paths), gate) THEN "PASS" ELSE "FAIL"
    ELSE IF collected.violation THEN "FAIL" ELSE "INFRA_FAIL",
    None)

\* The first of the results that is one of those (Array.prototype.find).
FirstOf(results, those) ==
  LET i == SelectInSeq(results, LAMBDA r : r \in those) IN IF i = 0 THEN None ELSE results[i]

\* The first result of a name.
FirstNamed(prior, name) == FirstOf(prior, {r \in ToSet(prior) : r.name = name})

\* The result a requirement is bound to.
Bound(item, prior) ==
  LET scripted == {r \in ToSet(prior) : r.script = item.script}
      byOracle == FirstOf(prior, {r \in scripted : r.name = "oracle"})
      byName == FirstNamed(prior, item.gate)
  IN IF item.test \/ item.script = None
     THEN IF item.test /\ item.gate = None THEN FirstNamed(prior, "tests") ELSE byName
     ELSE IF byOracle # None THEN byOracle
     ELSE IF item.gate = None THEN FirstOf(prior, scripted)
     ELSE IF byName \in scripted THEN byName ELSE None

\* Mutant of Substantiated: that the gate ran is enough.
SubstantiatedByName(item, prior) ==
  LET bound == Bound(item, prior)
  IN IF (item.test /\ ~item.ref) \/ bound = None THEN "unavailable" ELSE "ok"

\* One requirement: "ok", "unsatisfied" or "unavailable".
Substantiated(item, prior) ==
  LET bound == Bound(item, prior)
      declared == IF item.test THEN item.ref ELSE item.gate # None \/ item.script # None
  IN IF ~declared \/ bound = None THEN "unavailable"
     ELSE IF bound.required /\ Passed(bound) THEN "ok"
     ELSE IF HasFailed(bound) THEN "unsatisfied" ELSE "unavailable"

\* evaluateRequirements.
Requirements(gate, mustHave, prior) ==
  LET found == {Substantiated(item, prior) : item \in mustHave}
  IN GateResult(gate,
       IF "unsatisfied" \in found THEN "FAIL"
       ELSE IF mustHave = {} \/ "unavailable" \in found THEN "INFRA_FAIL" ELSE "PASS",
       None)

-----------------------------------------------------------------------------
(* The gates that run a command *)

\* evaluateOracleGate runs a command or a script, not both, and a script only
\* when it is found under the oracle root.
OracleRefused(gate, found) ==
  \/ gate.command /\ gate.script # None
  \/ ~gate.command /\ (gate.script = None \/ ~found)

\* The oraclePath an oracle gate that ran is evidence for.
Evidence(gate) == IF gate.kind = "oracle" /\ ~gate.command THEN gate.script ELSE None

\* Mutant of CommandSignal: the exit code is looked at first.
CommandSignalByExit(run) ==
  IF run.expected THEN "PASS"
  ELSE IF run.timedOut THEN "TIMEOUT" ELSE IF run.infra THEN "INFRA_FAIL" ELSE "FAIL"

\* What runGates and evaluateOracleGate make of a run of runConfinedCommand.
CommandSignal(run) ==
  IF run.timedOut THEN "TIMEOUT"
  ELSE IF run.infra THEN "INFRA_FAIL" ELSE IF run.expected THEN "PASS" ELSE "FAIL"

-----------------------------------------------------------------------------
(* classifyTrial *)

\* inv: what the invoker returned: timedOut, infra, nonzero.  count: the changed
\* files, or None when they could not be counted.
Signals(inv, results, count) ==
  LET some == ToSet(results)
  IN {s \in Verdict :
        \/ s = "TIMEOUT" /\ (inv.timedOut \/ \E r \in some : r.signal = "TIMEOUT")
        \* a gate that timed out carries an infraFailure as well
        \/ s = "INFRA_FAIL"
           /\ (inv.infra \/ \E r \in some : r.signal \in {"INFRA_FAIL", "TIMEOUT"})
        \/ s = "NO_OP" /\ count = 0
        \/ s = "FAIL" /\ \/ inv.nonzero /\ ~inv.infra /\ ~inv.timedOut
                         \/ \E r \in some : r.required /\ r.signal = "FAIL"}

Precedence == [PASS |-> 0, FAIL |-> 1, NO_OP |-> 2, INFRA_FAIL |-> 3, TIMEOUT |-> 4]

Highest(signals) ==
  CHOOSE s \in signals \cup {"PASS"} : \A t \in signals : Precedence[t] <= Precedence[s]

\* run.js forces INFRA_FAIL on a trial without raw evidence, as classifyTrial does.
ClassifyTrial(inv, unavailable, results, count) ==
  IF unavailable THEN "INFRA_FAIL" ELSE Highest(Signals(inv, results, count))

=============================================================================
