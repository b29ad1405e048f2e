------------------------------ MODULE MCTracker -------------------------------
(***************************************************************************)
(* Instances of Tracker for TLC; the .cfg files give the constants.        *)
(***************************************************************************)
EXTENDS Tracker, TLC

\* Slots are interchangeable, and so are boxes.
Symmetric == Permutations(Slot) \cup Permutations(MAC)

=============================================================================
