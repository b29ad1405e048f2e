----------------------------- MODULE MCUserData -----------------------------
(***************************************************************************)
(* Instances of UserData for TLC.                                          *)
(***************************************************************************)
EXTENDS UserData, TLC

Symmetric == Permutations(Saver)

=============================================================================
