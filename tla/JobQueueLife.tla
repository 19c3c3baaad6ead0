---------------------------- MODULE JobQueueLife ----------------------------
(***************************************************************************)
(* JobQueue implements JobLifecycle: the refinement mapping.               *)
(***************************************************************************)
EXTENDS JobQueue

Status(j) ==
    CASE state[j] = "unborn" -> "unsubmitted"
      [] state[j] \in {"pending", "retry"} -> "waiting"
      [] state[j] = "active" -> "running"
      [] state[j] = "none" -> "gone"
      [] OTHER -> state[j]

lifeStatus == [j \in Jobs |-> Status(j)]
lifeBudget == [j \in Jobs |-> Budget(j)]
lifeOwners == [j \in Jobs |-> {w \in Workers : Running(w, j)}]

Life == INSTANCE JobLifecycle WITH
            status <- lifeStatus, fails <- attempt, budget <- lifeBudget,
            owners <- lifeOwners, disturbed <- reclaimed \cup replayed

\* What the scripts, their callers and the faults make of a job, seen from outside, is
\* what JobLifecycle promises: every step of the queue is a step of each job's life, or
\* none.
ImplementsLifecycle == Life!Spec
=============================================================================
