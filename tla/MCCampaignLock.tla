--------------------------- MODULE MCCampaignLock ---------------------------
(* Values for the constants of CampaignLock. *)
EXTENDS CampaignLock

CONSTANTS p1, p2, d1, d2

OneHost == [p \in Proc |-> "host"]

\* d2 died on another host that mounts the same directory.
ForeignLeftover == [p \in Proc |-> IF p = d2 THEN "other" ELSE "host"]

=============================================================================
