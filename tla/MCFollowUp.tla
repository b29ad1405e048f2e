----------------------------- MODULE MCFollowUp ------------------------------
(***************************************************************************)
(* Instances of FollowUp for TLC; the .cfg file gives the constants.       *)
(***************************************************************************)
EXTENDS FollowUp

=============================================================================
