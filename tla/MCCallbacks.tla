---------------------------- MODULE MCCallbacks -----------------------------
(***************************************************************************)
(* Instances of Callbacks for TLC.                                         *)
(***************************************************************************)
EXTENDS Callbacks

=============================================================================
