---------------------------- MODULE PoeticAdapter ----------------------------
(***************************************************************************)
(* What the harness makes of the files the poetic bridge leaves            *)
(* (src/harness/invokers/poetic-adapter.js): operators only.               *)
(* TrialExecution reads the files.                                         *)
(*                                                                         *)
(* output.json is absent, empty, a link or an artifact ("is"), and this is *)
(*   sound   it is a poetic.provider.invoke.result.v1;                     *)
(*   same    its requestId, provider and requested model are the request's;*)
(*   kind    its outcome;                                                  *)
(*   from    the execution whose bridge wrote it, which no field tells.    *)
(***************************************************************************)
EXTENDS Naturals

OutcomeKind ==
  {"success", "timeout", "provider_error", "refusal", "aborted", "internal_error"}

Other == [is : {"absent", "empty", "link"}]

Artifact(executions) ==
  [is : {"artifact"}, sound : BOOLEAN, same : BOOLEAN, kind : OutcomeKind,
   from : executions]

\* What a bridge may write, and the file of the execution it wrote it in.
Writing == [is : {"artifact"}, sound : BOOLEAN, same : BOOLEAN, kind : OutcomeKind]
WrittenBy(file, e) ==
  [is |-> "artifact", sound |-> file.sound, same |-> file.same, kind |-> file.kind,
   from |-> e]

\* mapOutcomeKind.
MapOutcomeKind(kind) ==
  [success |-> kind = "success", timedOut |-> kind = "timeout",
   infra |-> kind # "success"]

Parsed == [valid : BOOLEAN, success : BOOLEAN, timedOut : BOOLEAN, infra : BOOLEAN]

\* What is read when there is no valid artifact.
Invalid == [valid |-> FALSE, success |-> FALSE, timedOut |-> FALSE, infra |-> TRUE]

\* parseInvokeResult: every field is there and of its kind, or all is invalid.
ParseInvokeResult(file) ==
  LET outcome == MapOutcomeKind(file.kind)
  IN  IF file.sound
      THEN [valid |-> TRUE, success |-> outcome.success, timedOut |-> outcome.timedOut,
            infra |-> outcome.infra]
      ELSE Invalid

\* readAndParseOutput: no link is followed, and an empty file is no answer.
ReadAndParse(file) ==
  IF file.is = "artifact" THEN ParseInvokeResult(file) ELSE Invalid

\* bindInvokeResultToRequest: an answer to something else is no answer, but a
\* timeout it tells of is remembered.
Bind(parsed, file) ==
  IF parsed.valid /\ ~file.same
  THEN [valid |-> FALSE, success |-> FALSE, timedOut |-> parsed.timedOut, infra |-> TRUE]
  ELSE parsed

\* How the bridge ends: with exit code zero, by the timeout, or else.
SpawnOutcome == {"success", "timeout", "failure"}

\* The result of invokePoeticAdapter as run.js and classify.js read it; actual:
\* the raw output was ingested.  classify.js takes success: false for an
\* infrastructure failure, and the exit code does not count then.
AdapterResult(spawned, parsed, actual) ==
  [timedOut |-> spawned = "timeout" \/ parsed.timedOut,
   infra |-> ~(parsed.success /\ actual /\ spawned = "success" /\ ~parsed.infra),
   nonzero |-> FALSE,
   unavailable |-> ~(parsed.valid /\ actual)]

=============================================================================
