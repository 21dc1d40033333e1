--------------------------- MODULE CampaignLedger ---------------------------
(***************************************************************************)
(* What a campaign directory promises to the person who reads it: every    *)
(* trial is open or is closed with one outcome; a closed trial stays as it *)
(* is, whatever crashes and however often the campaign is resumed, until   *)
(* the whole campaign is started over; and a campaign is declared complete *)
(* only when every trial is closed with evidence that can be reported.     *)
(***************************************************************************)
CONSTANTS
  Trial,
  Outcome,      \* what a trial may be closed with
  Reportable,   \* the outcomes whose evidence can be verified
  Open          \* no outcome yet

VARIABLES
  entry,        \* the outcome of each trial, or Open
  complete      \* is the campaign declared complete?

ledger == <<entry, complete>>

Init ==
  /\ entry = [t \in Trial |-> Open]
  /\ complete = FALSE

Close(t) ==
  /\ entry[t] = Open
  /\ entry'[t] \in Outcome
  /\ entry' = [entry EXCEPT ![t] = entry'[t]]
  /\ UNCHANGED complete

Declare ==
  /\ \A t \in Trial : entry[t] \in Reportable
  /\ complete' = TRUE
  /\ UNCHANGED entry

StartOver ==
  /\ entry' = [t \in Trial |-> Open]
  /\ complete' = FALSE

Next ==
  \/ \E t \in Trial : Close(t)
  \/ Declare
  \/ StartOver

Spec == Init /\ [][Next]_ledger

=============================================================================
