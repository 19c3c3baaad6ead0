----------------------------- MODULE MCWorkflow -----------------------------
(* Model-checking instances of Workflow. *)
EXTENDS Workflow, TLC

AllKinds == [chain |-> 3, group |-> 2, chord |-> 2]
Group    == [group |-> 2]
Chord    == [chord |-> 2]
=============================================================================
