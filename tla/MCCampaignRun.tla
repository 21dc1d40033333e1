--------------------------- MODULE MCCampaignRun ---------------------------
(* Values for the constants of CampaignRun. *)
EXTENDS CampaignRun

OneProvider == [t \in Trial |-> "provider"]

Call(resume, execute, maxTrials) ==
  [resume |-> resume, execute |-> execute, maxTrials |-> maxTrials]

\* aicb run: with --resume (the default) and without, with --no-execute, with
\* --max-trials 1 and with no limit.
AnyCall == {Call(TRUE, TRUE, NTrials), Call(TRUE, TRUE, 1),
            Call(FALSE, TRUE, NTrials), Call(TRUE, FALSE, NTrials)}

=============================================================================
