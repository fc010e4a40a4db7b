------------------------------ MODULE MCDemand ------------------------------
(***************************************************************************)
(* Demand on small instances: recalls from one address under a short       *)
(* window, keys minted from it under a long one.                           *)
(***************************************************************************)
EXTENDS Demand

TwoBuckets == {"recall", "mint"}
Ceilings == [b \in TwoBuckets |-> 1]
Lengths == [b \in TwoBuckets |-> IF b = "recall" THEN 2 ELSE 4]
RecallBucket == {"recall"}
OneNeed == {"need"}
=============================================================================
