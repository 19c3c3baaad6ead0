------------------------------- MODULE MCCron -------------------------------
(* Model-checking instances of Cron. *)
EXTENDS Cron, TLC

CONSTANT LastReading    \* the wall clocks show 0 .. LastReading

Readings == 0 .. LastReading
RunTimes == 0 .. LastReading + 2
\* entry 1 runs at every instant, entry 2 at the even ones
EveryOrEven == [e \in Entries |-> [t \in Readings |->
                    IF e = 1 THEN t + 1 ELSE 2 * (t \div 2) + 2]]
Symmetry == Permutations(Instances)
=============================================================================
