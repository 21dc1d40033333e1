-------------------------- MODULE MCTrialExecution --------------------------
(* Values for the constants of TrialExecution. *)
EXTENDS TrialExecution

MCProtected == {"test"}
MCBookkeeping == {"poetic"}

Command(name, order, required) ==
  [name |-> name, kind |-> "command", order |-> order, required |-> required,
   allow |-> None, command |-> TRUE, script |-> None]

Structure(name, order, allow) ==
  [name |-> name, kind |-> name, order |-> order, required |-> TRUE,
   allow |-> allow, command |-> FALSE, script |-> None]

Script(order, required) ==
  [name |-> "oracle", kind |-> "oracle", order |-> order, required |-> required,
   allow |-> None, command |-> FALSE, script |-> "script"]

\* A task like most of the corpus; one whose gates are listed out of order and
\* whose requirements cite an optional gate; one with a list of allowed paths,
\* the scratch among them, and two gates of one order; one without a fixture.
MCTasks ==
  {[fixture |-> TRUE,
    gates |-> <<Command("tests", 1, TRUE), Structure("baseline-diff", 2, None),
                Structure("requirements", 3, None)>>,
    mustHave |-> {[test |-> TRUE, ref |-> TRUE, gate |-> None, script |-> None]}],
   [fixture |-> TRUE,
    gates |-> <<Structure("requirements", 2, None), Script(1, FALSE)>>,
    mustHave |-> {[test |-> FALSE, ref |-> FALSE, gate |-> None, script |-> "script"]}],
   [fixture |-> TRUE,
    gates |-> <<Structure("baseline-diff", 1, {"source", "scratch"}), Script(2, TRUE),
                Structure("requirements", 2, None)>>,
    mustHave |-> {[test |-> FALSE, ref |-> FALSE, gate |-> "oracle", script |-> "script"]}],
   [fixture |-> FALSE, gates |-> <<Command("tests", 1, FALSE)>>, mustHave |-> {}]}

File(sound, same, outcomeKind) ==
  [is |-> "artifact", sound |-> sound, same |-> same, kind |-> outcomeKind]

Good == File(TRUE, TRUE, "success")

Work(changed, committed, git, file, raw) ==
  [changed |-> changed, hidden |-> {}, committed |-> committed, git |-> git,
   file |-> file, raw |-> raw]

\* What is done to the workspace: nothing; more than the source; tests committed;
\* tests added that an ignore rule names; a flag in the index; no repository.  The
\* answer with it is good, good, to another request, a link, none, or a refusal
\* with one of the raw files missing; a native provider leaves none.
MCWorks ==
  {Work({}, FALSE, "sealed", Good, Stream),
   Work({"source", "poetic"}, FALSE, "sealed", Good, Stream),
   Work({"source", "test"}, TRUE, "sealed", File(TRUE, FALSE, "success"), Stream),
   [Work({"source", "test"}, FALSE, "sealed", [is |-> "link"], Stream)
      EXCEPT !.hidden = {"test"}],
   Work({"source"}, FALSE, "flagged", [is |-> "kept"], Stream),
   Work({"source"}, FALSE, "lost", File(TRUE, TRUE, "refusal"), {"stdout"})}

\* A bridge left over answers late, and well.
MCLateWorks == {Work({}, FALSE, "sealed", Good, Stream)}

=============================================================================
