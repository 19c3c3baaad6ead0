------------------------------ MODULE MCServer ------------------------------
(* Model-checking instances of Server. *)
EXTENDS Server, TLC

CONSTANTS j1, j2

TwoQueues == <<"low", "high">>
\* the weight of the first queue is not set
Weights == [q \in {"low", "high"} |-> IF q = "high" THEN 2 ELSE 0]
OneEach == [j \in Jobs |-> IF j = j1 THEN "low" ELSE "high"]
Symmetry == Permutations(Slots)
=============================================================================
