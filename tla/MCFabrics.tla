----------------------------- MODULE MCFabrics ------------------------------
(***************************************************************************)
(* Instance of Fabrics for TLC.                                            *)
(***************************************************************************)
EXTENDS Fabrics, TLC

Symmetry == Permutations(Slots) \cup Permutations(Fabric)

=============================================================================
