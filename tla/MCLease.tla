------------------------------ MODULE MCLease ------------------------------
(* Instances of Lease: two workers that share an API key, and two that do  *)
(* not; workers whose id outlives their process, and workers whose does    *)
(* not.                                                                    *)
EXTENDS Lease

CONSTANTS w1, w2, k1, k2

TwoWorkers == {w1, w2}
FirstKey == {k1}
SharedKey == [w \in TwoWorkers |-> k1]
TwoKeys == {k1, k2}
DistinctKeys == [w \in TwoWorkers |-> IF w = w1 THEN k1 ELSE k2]
Nobody == {}
Succeeded == {"SUCCEEDED"}
=============================================================================
