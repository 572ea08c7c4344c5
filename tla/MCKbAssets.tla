---------------------------- MODULE MCKbAssets ------------------------------
(* An instance of KbAssets for TLC: calls are interchangeable.             *)
EXTENDS KbAssets, TLC

Symmetry == Permutations(Calls)

=============================================================================
