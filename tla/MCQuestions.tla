---------------------------- MODULE MCQuestions ----------------------------
(***************************************************************************)
(* Questions on small instances: two agents of one organization and one of *)
(* another, with one need between them.                                    *)
(***************************************************************************)
EXTENDS Questions, TLC

CONSTANTS mine, peer, stranger, ours, theirs, h1, h2, h3, r1, r2, e1, e2, need

AllAgents == {mine, peer, stranger}
Home == (mine :> ours) @@ (peer :> ours) @@ (stranger :> theirs)
OneNeed == {need}
ThreeHalts == {h1, h2, h3}
TwoReplies == {r1, r2}
TwoEdits == {e1, e2}

\* The two colleagues are interchangeable as well: they share their organization.
Interchangeable == UNION {Permutations(s) : s \in {{h1, h2, h3}, {r1, r2}, {e1, e2}, {mine, peer}}}
=============================================================================
