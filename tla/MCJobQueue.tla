---------------------------- MODULE MCJobQueue ----------------------------
(* Model-checking instances of JobQueue. *)
EXTENDS JobQueueLife, TLC

Symmetry == Permutations(Jobs) \cup Permutations(Workers) \cup Permutations(Keys)

\* fewer than one: the first failure kills
NoRetry == {-1}
=============================================================================
