------------------------- MODULE JobQueueLifeProofs -------------------------
(***************************************************************************)
(* JobQueue implements JobLifecycle, for any sets of jobs, workers and     *)
(* keys: the refinement of JobQueueLife, proved.                           *)
(***************************************************************************)
EXTENDS JobQueueProofs, JobQueueLife

USE DEF Absent, NoCall, DefaultPriority, Live, Settled, States, Calls, Options,
        hashVars, setVars, workerVars, auxVars, FreshBudget

\* The promise is void only for jobs that exist.
TouchedAreBorn == \A j \in reclaimed \cup replayed : state[j] # "unborn"

\* What the mapping makes of one job, before and after a step.
LEMMA Mapped ==
  ASSUME NEW j \in Jobs
  PROVE  /\ lifeStatus[j] = Status(j) /\ lifeStatus'[j] = Status(j)'
         /\ lifeBudget[j] = Budget(j)
         /\ lifeOwners[j] = {w \in Workers : Running(w, j)}
         /\ lifeOwners'[j] = {w \in Workers : Running(w, j)'}
BY DEF lifeStatus, lifeBudget, lifeOwners

\* A call about a job finds it born, and so does a recovery: no id is disturbed before
\* its enqueue.
LEMMA TouchedStep ==
  TypeOK /\ FreshIds /\ TouchedAreBorn /\ [Next]_vars => TouchedAreBorn'
<1> SUFFICES ASSUME TypeOK, FreshIds, TouchedAreBorn, [Next]_vars, NEW j \in Jobs,
                    j \in reclaimed' \cup replayed', state'[j] = "unborn"
             PROVE  FALSE
  BY TypeStep DEF TouchedAreBorn, TypeOK
<1>1. ASSUME state'[j] = state[j], j \in reclaimed \cup replayed PROVE FALSE
  BY <1>1 DEF TouchedAreBorn
<1>2. ASSUME NEW i \in Jobs, Enqueue(i) \/ EnqueueAgain(i) PROVE FALSE
  BY <1>1, <1>2 DEF Enqueue, EnqueueAgain, EnqueueScript, TypeOK
<1>3. ASSUME NEW w \in Workers, NEW i \in Jobs, Dequeue(w, i) PROVE FALSE
  BY <1>1, <1>3 DEF Dequeue, TypeOK
<1>4. ASSUME NEW w \in Workers, FinishStep(w) PROVE FALSE
  <2>1. CASE NackBlank(w)
    BY <1>1, <2>1 DEF NackBlank
  <2>2. CASE ~NackBlank(w)
    <3>1. PICK c \in Calls : Send(w, c)
      BY <1>4, <2>2 DEF FinishStep, Ack, NackDead, NackRetry, NackError, RescheduleJob, CancelJob
    <3>2. state'[j] = state[j]
      BY <1>4, <2>2 DEF FinishStep, Ack, NackDead, NackRetry, NackError, RescheduleJob,
                        CancelJob, TypeOK
    <3>3. hold[w] # j
      BY <3>2 DEF FreshIds
    <3> QED
      BY <1>1, <3>1, <3>2, <3>3 DEF Send
  <2> QED
    BY <2>1, <2>2
<1>5. ASSUME NEW S \in SUBSET Jobs, Promote(S) PROVE FALSE
  BY <1>1, <1>5 DEF Promote, TypeOK
<1>6. ASSUME NEW S \in SUBSET Jobs, RecoverExpiredLeases(S) PROVE FALSE
  BY <1>1, <1>6 DEF RecoverExpiredLeases, TypeOK
<1>7. ASSUME NEW i \in Jobs, RetryDead(i) PROVE FALSE
  BY <1>1, <1>7 DEF RetryDead, TypeOK
<1>8. ASSUME PurgeDead PROVE FALSE
  BY <1>1, <1>8 DEF PurgeDead, TypeOK
<1>9. ASSUME \/ \E w \in Workers : ExtendLease(w) \/ Abandon(w) \/ Stop(w)
             \/ \E k \in Keys : ExpireKey(k)
             \/ Tick \/ Pause \/ Resume \/ UNCHANGED vars
      PROVE  FALSE
  BY <1>1, <1>9 DEF ExtendLease, Abandon, Stop, ExpireKey, Tick, Pause, Resume, vars
<1> QED
  BY <1>2, <1>3, <1>4, <1>5, <1>6, <1>7, <1>8, <1>9
     DEF Next, ClientStep, PollStep, PromoteStep, RecoveryStep

\* No worker runs j.
Quiet(j) == \A w \in Workers : ~Running(w, j)

\* The mapping of a job nobody runs.
LEMMA NobodyRuns ==
  ASSUME NEW j \in Jobs
  PROVE  /\ Quiet(j) => lifeOwners[j] = {}
         /\ (Quiet(j))' => lifeOwners'[j] = {}
BY Mapped DEF Quiet

\* A job whose status, failures and runners stay the same makes no step of its life.
LEMMA SameLife ==
  ASSUME NEW j \in Jobs, (Status(j))' = Status(j), attempt'[j] = attempt[j],
         \A w \in Workers : (Running(w, j))' <=> Running(w, j)
  PROVE  Life!Stay(j)
<1>1. lifeOwners'[j] = lifeOwners[j]
  BY Mapped
<1> QED
  BY <1>1, Mapped DEF Life!Stay, Life!SameFails

\* The end of a run is a report of the job's one runner.
LEMMA FinishLife ==
  ASSUME TypeOK, SoleOwner, NEW w \in Workers, FinishStep(w), ~NackBlank(w),
         NEW j \in Jobs, j = hold[w], Undisturbed(j)'
  PROVE  Life!Report(j)
<1>1. PICK c \in Calls : Send(w, c)
  BY DEF FinishStep, Ack, NackDead, NackRetry, NackError, RescheduleJob, CancelJob
<1>2. Running(w, j) /\ Undisturbed(j) /\ Placed(j) /\ Manned(j)
  BY <1>1, SendRuns, SendStops, SoleOwnerSplit DEF Sole
<1>3. state[j] = "active" /\ j \in whole
  BY <1>2 DEF Manned, Placed
<1>4. lifeOwners[j] = {w}
  BY <1>2, Mapped DEF Manned
<1>5. lifeOwners'[j] = {}
  <2>1. (Quiet(j))'
    BY <1>1, <1>2, SendStops DEF Manned, Quiet
  <2> QED
    BY <2>1, NobodyRuns
<1>6. Status(j) = "running"
  BY <1>3 DEF Status
<1>7. ASSUME attempt'[j] = attempt[j], (Status(j))' \in {"completed", "cancelled", "waiting"}
      PROVE  Life!Report(j)
  BY <1>4, <1>5, <1>6, <1>7, Mapped DEF Life!Report, Life!Move, Life!SameFails
<1>8. ASSUME attempt'[j] = attempt[j] + 1,
             \/ (Status(j))' = "dead"
             \/ (Status(j))' = "waiting" /\ attempt'[j] < Budget(j)
      PROVE  Life!Report(j)
  BY <1>4, <1>5, <1>6, <1>8, Mapped DEF Life!Report, Life!Move
<1>9. CASE Ack(w) \/ CancelJob(w) \/ \E d \in Delays : RescheduleJob(w, d)
  <2>1. attempt'[j] = attempt[j] /\ state'[j] \in {"completed", "cancelled", "pending"}
    BY <1>9 DEF Ack, CancelJob, RescheduleJob, TypeOK
  <2> QED
    BY <1>7, <2>1 DEF Status
<1>10. ASSUME NEW k \in Calls, NackDead(w, k) PROVE Life!Report(j)
  <2>1. attempt'[j] = attempt[j] + 1 /\ state'[j] = "dead"
    BY <1>10 DEF NackDead, TypeOK
  <2> QED
    BY <1>8, <2>1 DEF Status
<1>11. ASSUME NEW d \in Delays, NackRetry(w, d) PROVE Life!Report(j)
  <2>1. /\ attempt'[j] = attempt[j] + 1 /\ state'[j] = "retry"
        /\ ~(attempt[j] + 1 >= opts[j].maxRetries)
    BY <1>11 DEF NackRetry, Exhausted, TypeOK
  <2>2. /\ attempt[j] \in Nat /\ opts[j].maxRetries \in Int
        /\ Budget(j) \in Nat /\ opts[j].maxRetries <= Budget(j)
    BY BudgetBounds DEF TypeOK
  <2>3. attempt'[j] < Budget(j)
    BY <2>1, <2>2
  <2> QED
    BY <1>8, <2>1, <2>3 DEF Status
<1>12. ~NackError(w)
  BY <1>3 DEF NackError
<1> QED
  BY <1>9, <1>10, <1>11, <1>12 DEF FinishStep

\* Every step of the queue is a step of the life of each undisturbed job, or none.
LEMMA JobLife ==
  ASSUME TypeOK, SoleOwner, [Next]_vars, NEW j \in Jobs, Undisturbed(j)'
  PROVE  \/ Life!Stay(j) \/ Life!Submit(j) \/ Life!Take(j) \/ Life!Lose(j)
         \/ Life!Report(j) \/ Life!Revive(j) \/ Life!Forget(j)
<1> DEFINE Goal == \/ Life!Stay(j) \/ Life!Submit(j) \/ Life!Take(j) \/ Life!Lose(j)
                   \/ Life!Report(j) \/ Life!Revive(j) \/ Life!Forget(j)
<1>0. Sole(j)
  BY SoleOwnerSplit
<1>1. ASSUME UNCHANGED <<state[j], attempt[j], hold, resend>> PROVE Goal
  BY <1>1, SameLife DEF Status, Running
<1>2. ASSUME NEW i \in Jobs, Enqueue(i) PROVE Goal
  <2>1. hold' = hold /\ resend' = resend /\ Undisturbed(j)
    BY <1>2 DEF Enqueue, EnqueueScript, Undisturbed
  <2>2. CASE i # j
    BY <1>1, <1>2, <2>1, <2>2 DEF Enqueue, EnqueueScript, TypeOK
  <2>3. CASE i = j
    <3>1. state[j] = "unborn" /\ state'[j] = "pending" /\ attempt'[j] = 0
      BY <1>2, <2>3 DEF Enqueue, EnqueueScript, TypeOK
    <3>2. (Quiet(j))'
      BY <1>0, <2>1, <3>1 DEF Sole, Manned, Quiet, Running
    <3> QED
      BY <3>1, <3>2, Mapped, NobodyRuns DEF Life!Submit, Life!Move, Status
  <2> QED
    BY <2>2, <2>3
<1>3. ASSUME NEW i \in Jobs, EnqueueAgain(i) PROVE Goal
  BY <1>1, <1>3 DEF EnqueueAgain, EnqueueScript, Undisturbed, TypeOK
<1>4. ASSUME NEW w \in Workers, NEW i \in Jobs, Dequeue(w, i) PROVE Goal
  <2>1. attempt' = attempt /\ Undisturbed(j) /\ resend' = resend
    BY <1>4 DEF Dequeue, Undisturbed
  <2>2. CASE i # j
    <3>1. state'[j] = state[j]
      BY <1>4, <2>2 DEF Dequeue, TypeOK
    <3>2. \A v \in Workers : (Running(v, j))' <=> Running(v, j)
      BY <1>4, <2>1, <2>2, ConstantsAssumption DEF Dequeue, Running, TypeOK
    <3> QED
      BY <2>1, <3>1, <3>2, SameLife DEF Status
  <2>3. CASE i = j
    <3>1. state[j] = "pending" /\ state'[j] = "active"
      BY <1>0, <1>4, <2>1, <2>3 DEF Dequeue, Members, Sole, Placed, TypeOK
    <3>2. \A v \in Workers : ~Running(v, j)
      BY <1>0, <2>1, <3>1 DEF Sole, Manned
    <3>3. \A v \in Workers : (Running(v, j))' => v = w
      BY <1>4, <2>1, <3>2 DEF Dequeue, Running, TypeOK
    <3>4. lifeOwners'[j] = {} \/ lifeOwners'[j] = {w}
      BY <3>3, Mapped
    <3> QED
      BY <2>1, <3>1, <3>4, Mapped DEF Life!Take, Life!Move, Life!SameFails, Status
  <2> QED
    BY <2>2, <2>3
<1>5. ASSUME NEW w \in Workers, FinishStep(w) PROVE Goal
  <2>1. CASE NackBlank(w)
    <3>1. UNCHANGED <<state, attempt>> /\ \A v \in Workers : (Running(v, j))' <=> Running(v, j)
      BY <2>1, ConstantsAssumption DEF NackBlank, Running, TypeOK
    <3> QED
      BY <3>1, SameLife DEF Status
  <2>2. CASE ~NackBlank(w) /\ j = hold[w]
    BY <1>5, <2>2, FinishLife
  <2>3. CASE ~NackBlank(w) /\ j # hold[w]
    <3>1. PICK c \in Calls : Send(w, c)
      BY <1>5, <2>3 DEF FinishStep, Ack, NackDead, NackRetry, NackError, RescheduleJob, CancelJob
    <3>2. attempt'[j] = attempt[j] /\ state'[j] = state[j]
      BY <1>5, <2>3 DEF FinishStep, Ack, NackDead, NackRetry, NackError, RescheduleJob,
                        CancelJob, Send, TypeOK
    <3>3. \A v \in Workers : (Running(v, j))' <=> Running(v, j)
      BY <2>3, <3>1, SendStops, ConstantsAssumption DEF Send, Running, TypeOK
    <3> QED
      BY <3>2, <3>3, SameLife DEF Status
  <2> QED
    BY <2>1, <2>2, <2>3
<1>6. ASSUME NEW w \in Workers, Abandon(w) \/ Stop(w) PROVE Goal
  <2>1. UNCHANGED <<state, attempt>> /\ Undisturbed(j)
    BY <1>6 DEF Abandon, Stop, Undisturbed
  <2>2. \A v \in Workers : (Running(v, j))' => v # w /\ Running(v, j)
    BY <1>6, ConstantsAssumption DEF Abandon, Stop, Running, TypeOK
  <2>3. \A v \in Workers : v # w /\ Running(v, j) => (Running(v, j))'
    BY <1>6, ConstantsAssumption DEF Abandon, Stop, Running, TypeOK
  <2>4. CASE Running(w, j)
    <3>1. state[j] = "active" /\ (Quiet(j))'
      BY <1>0, <2>1, <2>2, <2>4 DEF Sole, Manned, Quiet
    <3> QED
      BY <2>1, <3>1, Mapped, NobodyRuns DEF Life!Lose, Life!Move, Life!SameFails, Status
  <2>5. CASE ~Running(w, j)
    <3>1. \A v \in Workers : (Running(v, j))' <=> Running(v, j)
      BY <2>2, <2>3, <2>5
    <3> QED
      BY <2>1, <3>1, SameLife DEF Status
  <2> QED
    BY <2>4, <2>5
<1>7. ASSUME NEW S \in SUBSET Jobs, Promote(S) PROVE Goal
  <2>1. UNCHANGED <<attempt, hold, resend>> /\ Undisturbed(j)
    BY <1>7 DEF Promote, Undisturbed
  <2>2. CASE j \notin S
    BY <1>1, <1>7, <2>1, <2>2 DEF Promote, TypeOK
  <2>3. CASE j \in S
    <3>1. delayed[j] = 0 /\ state'[j] = "pending"
      BY <1>7, <2>3, BatchDue DEF Promote
    <3>2. state[j] \in {"pending", "retry"}
      BY <1>0, <2>1, <3>1 DEF Sole, Placed
    <3>3. (Status(j))' = Status(j)
      BY <3>1, <3>2 DEF Status
    <3> QED
      BY <2>1, <3>3, SameLife DEF Running
  <2> QED
    BY <2>2, <2>3
<1>8. ASSUME NEW S \in SUBSET Jobs, RecoverExpiredLeases(S) PROVE Goal
  BY <1>1, <1>8 DEF RecoverExpiredLeases, Undisturbed, TypeOK
<1>9. ASSUME dead[j] > 0, Undisturbed(j), UNCHANGED <<hold, resend>>
      PROVE  Status(j) = "dead" /\ (Quiet(j))'
  <2>1. state[j] = "dead"
    BY <1>0, <1>9 DEF Sole, Placed
  <2> QED
    BY <1>0, <1>9, <2>1 DEF Sole, Manned, Quiet, Running, Status
<1>10. ASSUME NEW i \in Jobs, RetryDead(i) PROVE Goal
  <2>1. UNCHANGED <<hold, resend>> /\ Undisturbed(j)
    BY <1>10 DEF RetryDead, Undisturbed
  <2>2. CASE i # j
    BY <1>1, <1>10, <2>1, <2>2 DEF RetryDead, TypeOK
  <2>3. CASE i = j
    <3>1. dead[j] > 0 /\ state'[j] = "pending" /\ attempt'[j] = 0
      BY <1>10, <2>3 DEF RetryDead, TypeOK
    <3> QED
      BY <1>9, <2>1, <3>1, Mapped, NobodyRuns DEF Life!Revive, Life!Move, Status
  <2> QED
    BY <2>2, <2>3
<1>11. ASSUME PurgeDead PROVE Goal
  <2>1. UNCHANGED <<hold, resend>> /\ Undisturbed(j)
    BY <1>11 DEF PurgeDead, Undisturbed
  <2>2. CASE ~(dead[j] > 0)
    BY <1>1, <1>11, <2>1, <2>2 DEF PurgeDead, TypeOK
  <2>3. CASE dead[j] > 0
    <3>1. state'[j] = "none" /\ attempt'[j] = 0
      BY <1>11, <2>3 DEF PurgeDead
    <3> QED
      BY <1>9, <2>1, <2>3, <3>1, Mapped, NobodyRuns DEF Life!Forget, Life!Move, Status
  <2> QED
    BY <2>2, <2>3
<1>12. ASSUME \/ \E w \in Workers : ExtendLease(w)
              \/ \E k \in Keys : ExpireKey(k)
              \/ Tick \/ Pause \/ Resume \/ UNCHANGED vars
       PROVE  Goal
  BY <1>1, <1>12 DEF ExtendLease, ExpireKey, Tick, Pause, Resume, vars
<1> QED
  BY <1>2, <1>3, <1>4, <1>5, <1>6, <1>7, <1>8, <1>10, <1>11, <1>12
     DEF Next, ClientStep, PollStep, PromoteStep, RecoveryStep

\* What no step undoes: the arguments of a job, and that it was disturbed.
LEMMA Kept == [Next]_vars => /\ opts' = opts
                             /\ reclaimed \subseteq reclaimed' /\ replayed \subseteq replayed'
BY DEF Next, ClientStep, PollStep, FinishStep, PromoteStep, RecoveryStep, vars, Enqueue,
       EnqueueAgain, EnqueueScript, ExpireKey, Dequeue, Ack, NackDead, NackRetry, NackError,
       RescheduleJob, CancelJob, NackBlank, Send, Abandon, Stop, ExtendLease, Tick, Promote,
       RecoverExpiredLeases, RetryDead, PurgeDead, Pause, Resume

\* Every step of the queue is a step of JobLifecycle.
LEMMA LifeStep ==
  TypeOK /\ SoleOwner /\ FreshIds /\ TouchedAreBorn /\ [Next]_vars => Life!Next
<1> SUFFICES ASSUME TypeOK, SoleOwner, FreshIds, TouchedAreBorn, [Next]_vars
             PROVE  Life!Next
  OBVIOUS
<1>1. lifeBudget' = lifeBudget
  BY Kept DEF lifeBudget, Budget
<1>2. (reclaimed \cup replayed) \subseteq (reclaimed \cup replayed)'
  BY Kept
<1>3. ASSUME NEW j \in Jobs PROVE Life!JobStep(j)
  <2>1. CASE Undisturbed(j)'
    BY <2>1, JobLife DEF Life!JobStep, Undisturbed
  <2>2. CASE ~Undisturbed(j)'
    <3>1. state'[j] # "unborn"
      BY <2>2, TouchedStep DEF TouchedAreBorn, Undisturbed
    <3>2. state'[j] \in States
      BY TypeStep DEF TypeOK
    <3>3. lifeStatus'[j] # "unsubmitted"
      BY <3>1, <3>2, Mapped DEF Status
    <3> QED
      BY <2>2, <3>3 DEF Life!JobStep, Undisturbed
  <2> QED
    BY <2>1, <2>2
<1> QED
  BY <1>1, <1>2, <1>3 DEF Life!Next

\* The queue starts where JobLifecycle does.
LEMMA LifeInit == Init => Life!Init
<1> SUFFICES ASSUME Init PROVE Life!Init
  OBVIOUS
<1>1. lifeStatus = [j \in Jobs |-> "unsubmitted"]
  BY DEF Init, lifeStatus, Status
<1>2. lifeBudget \in [Jobs -> Nat \ {0}]
  BY BudgetBounds DEF Init, lifeBudget
<1>3. lifeOwners = [j \in Jobs |-> {}]
  BY ConstantsAssumption DEF Init, lifeOwners, Running
<1> QED
  BY <1>1, <1>2, <1>3 DEF Init, Life!Init

\* The queue, with every fault of the model, does to each job only what JobLifecycle
\* allows: for any number of jobs, workers and keys, and of disruptions.
THEOREM LifecycleImplemented == Spec => ImplementsLifecycle
<1>1. Init => FreshIds /\ TouchedAreBorn
  BY ConstantsAssumption DEF Init, FreshIds, TouchedAreBorn
<1>2. Spec => [](TypeOK /\ SoleOwner /\ FreshIds /\ TouchedAreBorn)
  BY <1>1, FreshIdsStep, TouchedStep, SoleOwnerHolds, TypeCorrect, PTL DEF Spec
<1>3. TypeOK /\ SoleOwner /\ FreshIds /\ TouchedAreBorn /\ [Next]_vars => [Life!Next]_(Life!vars)
  BY LifeStep
<1> QED
  BY <1>2, <1>3, LifeInit, PTL DEF Spec, ImplementsLifecycle, Life!Spec

=============================================================================
