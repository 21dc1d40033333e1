---------------------------- MODULE MCInvocation ----------------------------
(* Values for the constants of Invocation. *)
EXTENDS Invocation

=============================================================================
