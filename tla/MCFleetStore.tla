---------------------------- MODULE MCFleetStore -----------------------------
(***************************************************************************)
(* Instances of FleetStore for TLC: every constant is a model value or a   *)
(* set of them, given in the .cfg files.                                   *)
(***************************************************************************)
EXTENDS FleetStore, TLC

\* Callers are interchangeable, and so are profile contents.
Symmetric == Permutations(Proc) \cup Permutations(Content)

=============================================================================
