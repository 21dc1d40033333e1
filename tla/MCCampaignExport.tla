-------------------------- MODULE MCCampaignExport --------------------------
(* Values for the constants of CampaignExport. *)
EXTENDS CampaignExport

OneProvider == [t \in Trial |-> "provider"]

Call(resume) == [resume |-> resume, execute |-> TRUE, maxTrials |-> NTrials]

\* aicb run, with and without --resume.
AnyCall == {Call(TRUE), Call(FALSE)}

=============================================================================
