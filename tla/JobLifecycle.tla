---------------------------- MODULE JobLifecycle ----------------------------
(***************************************************************************)
(* What the job queue promises of a job, without sets, scripts and clocks: *)
(* it is submitted, waits, is run by one worker at a time, and ends; only  *)
(* its own worker decides how a run ends; a failed run counts against its  *)
(* budget, and the one that uses the budget up is the last.  The promise   *)
(* is void for a job that was disturbed: its lease was recovered, or a     *)
(* call for it was executed twice.                                         *)
(*                                                                         *)
(* Jobs are independent of each other: in one step each of them makes one  *)
(* of its own steps or none.                                               *)
(***************************************************************************)
EXTENDS Naturals

CONSTANTS Jobs, Workers

VARIABLES
    status,     \* "unsubmitted", "waiting", "running", "completed", "cancelled", "dead", "gone"
    fails,      \* failed runs so far
    budget,     \* how many a job is granted
    owners,     \* the workers that run it and have not reported yet
    disturbed   \* jobs the promise is void for

vars == <<status, fails, budget, owners, disturbed>>

Init ==
    /\ status = [j \in Jobs |-> "unsubmitted"]
    /\ fails = [j \in Jobs |-> 0]
    /\ budget \in [Jobs -> Nat \ {0}]
    /\ owners = [j \in Jobs |-> {}]
    /\ disturbed = {}

Move(j, a, b) == status[j] = a /\ status'[j] = b
SameFails(j) == fails'[j] = fails[j]

Stay(j) ==
    /\ status'[j] = status[j] /\ SameFails(j)
    /\ owners'[j] = owners[j]

Submit(j) ==
    /\ Move(j, "unsubmitted", "waiting")
    /\ fails'[j] = 0
    /\ owners'[j] = {}

\* A worker takes the job, or the job is lost on its way to one.
Take(j) ==
    /\ Move(j, "waiting", "running") /\ SameFails(j)
    /\ owners'[j] = {} \/ \E w \in Workers : owners'[j] = {w}

\* The worker is gone without a report.
Lose(j) ==
    /\ Move(j, "running", "running") /\ SameFails(j)
    /\ owners'[j] = {}

\* The one worker that runs the job reports, and has it no more.
Report(j) ==
    /\ \E w \in Workers : owners[j] = {w}
    /\ owners'[j] = {}
    /\ \/ /\ Move(j, "running", "completed") \/ Move(j, "running", "cancelled")
             \/ Move(j, "running", "waiting")
          /\ SameFails(j)
       \/ /\ Move(j, "running", "dead")
             \/ (Move(j, "running", "waiting") /\ fails'[j] < budget[j])
          /\ fails'[j] = fails[j] + 1

\* An operator revives a dead job, with its whole budget, or removes it.
Revive(j) ==
    /\ Move(j, "dead", "waiting")
    /\ fails'[j] = 0
    /\ owners'[j] = {}

Forget(j) ==
    /\ Move(j, "dead", "gone")
    /\ fails'[j] = 0
    /\ owners'[j] = {}

JobStep(j) ==
    \/ j \in disturbed' /\ status'[j] # "unsubmitted"
    \/ /\ j \notin disturbed'
       /\ \/ Stay(j) \/ Submit(j) \/ Take(j) \/ Lose(j) \/ Report(j) \/ Revive(j)
          \/ Forget(j)

Next ==
    /\ disturbed \subseteq disturbed'
    /\ budget' = budget
    /\ \A j \in Jobs : JobStep(j)

Spec == Init /\ [][Next]_vars
=============================================================================
