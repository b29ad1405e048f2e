---------------------------- MODULE MCBootIntent -----------------------------
(***************************************************************************)
(* Instances of BootIntent for TLC; the .cfg files give the constants.     *)
(***************************************************************************)
EXTENDS BootIntent, TLC

\* Slots are interchangeable, and so are boxes.
Symmetric == Permutations(Slot) \cup Permutations(MAC)

=============================================================================
