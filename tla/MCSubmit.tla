------------------------------ MODULE MCSubmit ------------------------------
(* Model-checking instance of Submit. *)
EXTENDS Submit

\* a task without options, one with a queue of its own, one that does not marshal
Plain   == [queue |-> Unset, valid |-> TRUE, result |-> TRUE]
Own     == [queue |-> "own", valid |-> TRUE, result |-> FALSE]
Invalid == [queue |-> Unset, valid |-> FALSE, result |-> FALSE]

\* a call without options, and with both a queue and a delay
WithoutOptions(p, ts, f) == [path |-> p, queue |-> Unset, delay |-> 0, tasks |-> ts, maxFaults |-> f]
WithOptions(p, ts, f) == [path |-> p, queue |-> "asked", delay |-> 1, tasks |-> ts, maxFaults |-> f]
Both(p, ts, f) == {WithoutOptions(p, ts, f), WithOptions(p, ts, f)}

\* every way; two faults where at most one result is in play, one otherwise
ManyCalls ==
    UNION {Both(p, <<t>>, 2) : p \in Single, t \in {Plain, Own, Invalid}}
    \cup UNION {Both(p, ts, 1) : p \in Paths \ Single,
                                 ts \in {<<Plain, Own, Plain>>, <<Own, Plain, Invalid>>}}
    \cup {WithoutOptions(p, <<Plain, Own, Own>>, 2) : p \in Paths \ Single}
=============================================================================
