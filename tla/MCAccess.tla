------------------------------ MODULE MCAccess ------------------------------
(* A founder's key and an operator's, and three requests among them.       *)
EXTENDS Access, TLC

CONSTANTS r1, r2, r3

MCRequests == {r1, r2, r3}
MCRootScopes == {{"worker:execute"}}
MCGrantSets == {{}, {"standard"}, {"extended"}}
MCFounding == <<Founder, {"admin"}>>

Symmetry == Permutations(MCRequests)

=============================================================================
