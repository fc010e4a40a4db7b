----------------------------- MODULE MCEvidence -----------------------------
(***************************************************************************)
(* Evidence on small instances.                                            *)
(***************************************************************************)
EXTENDS Evidence

CONSTANTS x1, x2, v1, s1

TwoRuns == {x1, x2}
OneVerifier == {v1}
OneSweep == {s1}
=============================================================================
