------------------------------- MODULE MCSubmit -------------------------------
(***************************************************************************)
(* Submit on small instances.                                              *)
(***************************************************************************)
EXTENDS Submit

CONSTANTS r1, r2, o1, o2, k1, in1

TwoRequests == {r1, r2}
TwoOrgs == {o1, o2}
OneKey == {k1}
OneInput == {in1}
=============================================================================
