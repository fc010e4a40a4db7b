----------------------------- MODULE MCStanding -----------------------------
(***************************************************************************)
(* Standing on small instances.                                            *)
(***************************************************************************)
EXTENDS Standing

CONSTANTS g1, g2, a1, r1, r2

TwoGraders == {g1, g2}
OneAdmin == {a1}
TwoRecorders == {r1, r2}
=============================================================================
