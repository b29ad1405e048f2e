---------------------------- MODULE MCSightings -----------------------------
(***************************************************************************)
(* Instances of Sightings for TLC.                                         *)
(***************************************************************************)
EXTENDS Sightings, TLC

Symmetric == Permutations(MAC)

=============================================================================
