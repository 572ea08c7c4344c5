------------------------------ MODULE MCGrants ------------------------------
(* An instance of Grants for TLC: ann may hold the one role there is, which*)
(* manages once it is seeded, everywhere or in a workspace.                *)
EXTENDS Grants, TLC

CONSTANTS admin, ann, ws

MCRoles    == {admin}
MCDefaults == {<<admin, Manage>>}
MCAsked    == {<<ann, admin, Global>>, <<ann, admin, ws>>}

Symmetry == Permutations(Requests) \cup Permutations(Instances)

=============================================================================
