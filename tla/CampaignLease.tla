---------------------------- MODULE CampaignLease ----------------------------
(***************************************************************************)
(* What the campaign lock promises, whatever files implement it: a process *)
(* is granted the campaign when nobody has it, and has it until it gives   *)
(* it up or dies.  The promise ends once a file was unlinked behind the    *)
(* back of a process that relies on it.                                    *)
(***************************************************************************)
CONSTANT Proc

VARIABLES
  holders,    \* the processes that have the campaign
  broken      \* has the promise ended?

lease == <<holders, broken>>

Init ==
  /\ holders = {}
  /\ broken = FALSE

Grant(p) ==
  /\ holders = {} \/ broken
  /\ holders' = holders \cup {p}
  /\ UNCHANGED broken

Drop(p) ==
  /\ p \in holders
  /\ holders' = holders \ {p}
  /\ UNCHANGED broken

Break ==
  /\ broken' = TRUE
  /\ UNCHANGED holders

Next == Break \/ \E p \in Proc : Grant(p) \/ Drop(p)

Spec == Init /\ [][Next]_lease

=============================================================================
