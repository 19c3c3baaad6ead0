--------------------------- MODULE JobQueueProofs ---------------------------
(***************************************************************************)
(* Theorems about JobQueue, for any sets of jobs, workers and keys and any *)
(* values of the bounds.                                                   *)
(***************************************************************************)
EXTENDS JobQueue, TLAPS

USE DEF Absent, NoCall, DefaultPriority, Live, Settled, States, Calls, Options,
        hashVars, setVars, workerVars, auxVars, FreshBudget

\* The priority a job re-enters the ready set with is a proper score, so the
\* id really becomes a member.
LEMMA ScoreIsNat == ASSUME TypeOK, NEW j \in Jobs PROVE Score(j) \in Nat
BY ConstantsAssumption DEF TypeOK, Score

\* A batch is a set of due members of the sorted set.
LEMMA BatchDue == ASSUME NEW z, NEW S \in Batch(z) PROVE S \subseteq {j \in Jobs : z[j] = 0}
BY DEF Batch, Due

\* What the bookkeeping of a worker's call does to the types.
LEMMA SendType ==
  ASSUME TypeOK, NEW w \in Workers, NEW c \in Calls, Send(w, c)
  PROVE  /\ hold[w] \in Jobs
         /\ hold' \in [Workers -> Jobs \cup {Idle, Blank}]
         /\ resend' \in [Workers -> Calls \cup {NoCall}]
         /\ replayed' \in SUBSET Jobs
         /\ disruptions' \in Nat
         /\ UNCHANGED <<opts, whole, ready, paused, unsure, reclaimed>>
<1>1. hold[w] \in Jobs /\ UNCHANGED <<opts, whole, ready, paused, unsure, reclaimed>>
  BY DEF Send
<1>2. replayed' \in SUBSET Jobs
  BY <1>1 DEF Send, TypeOK
<1>3. /\ hold' \in [Workers -> Jobs \cup {Idle, Blank}]
      /\ resend' \in [Workers -> Calls \cup {NoCall}]
  BY DEF Send, TypeOK
<1>4. disruptions' \in Nat
  BY DEF Send, Disrupt, TypeOK
<1> QED
  BY <1>1, <1>2, <1>3, <1>4

\* Removing an id from active, lease and worker set keeps their types.
LEMMA DropType ==
  ASSUME TypeOK, NEW w \in Workers, NEW j \in Jobs, Drop(w, j)
  PROVE  /\ active' \in SUBSET Jobs
         /\ lease' \in [Jobs -> Nat \cup {Absent}]
         /\ workerJobs' \in [Workers -> SUBSET Jobs]
BY DEF Drop, TypeOK

\* Releasing a unique key leaves it free or as it was.
LEMMA ReleaseKeyType ==
  ASSUME TypeOK, NEW j \in Jobs, ReleaseKey(j)
  PROVE  unique' \in [Keys -> Jobs \cup {NoJob}]
BY DEF ReleaseKey, TypeOK

\* What the enqueue script does to the types.
LEMMA EnqueueType ==
  ASSUME TypeOK, NEW j \in Jobs, NEW d \in Delays \cup {Absent}, EnqueueScript(j, d)
  PROVE  /\ unique' \in [Keys -> Jobs \cup {NoJob}]
         /\ state' \in [Jobs -> States]
         /\ attempt' \in [Jobs -> Nat]
         /\ whole' \in SUBSET Jobs
         /\ ready' \in [Jobs -> Nat \cup {Absent}]
         /\ delayed' \in [Jobs -> Nat \cup {Absent}]
         /\ UNCHANGED <<opts, active, lease, dead, paused, workerJobs, hold, resend, reclaimed>>
<1>1. opts[j].priority \in Nat /\ d \in Nat \cup {Absent}
  BY ConstantsAssumption DEF TypeOK
<1>2. /\ ready' \in [Jobs -> Nat \cup {Absent}]
      /\ delayed' \in [Jobs -> Nat \cup {Absent}]
  <2>1. CASE d = Absent
    <3>1. ready' = [ready EXCEPT ![j] = opts[j].priority] /\ delayed' = delayed
      BY <2>1 DEF EnqueueScript
    <3> QED
      BY <1>1, <3>1 DEF TypeOK
  <2>2. CASE d # Absent
    <3>1. delayed' = [delayed EXCEPT ![j] = d] /\ ready' = ready
      BY <2>2 DEF EnqueueScript
    <3> QED
      BY <1>1, <3>1 DEF TypeOK
  <2> QED
    BY <2>1, <2>2
<1>3. /\ unique' \in [Keys -> Jobs \cup {NoJob}]
      /\ state' \in [Jobs -> States]
      /\ attempt' \in [Jobs -> Nat]
      /\ whole' \in SUBSET Jobs
  BY DEF EnqueueScript, TypeOK
<1>4. UNCHANGED <<opts, active, lease, dead, paused, workerJobs, hold, resend, reclaimed>>
  BY DEF EnqueueScript
<1> QED
  BY <1>2, <1>3, <1>4

\* Each operation keeps every variable within its type.
LEMMA TypeStep == TypeOK /\ [Next]_vars => TypeOK'
<1> SUFFICES ASSUME TypeOK, [Next]_vars PROVE TypeOK'
  OBVIOUS
<1> USE ConstantsAssumption DEF TypeOK
<1>1. ASSUME NEW j \in Jobs, Enqueue(j) PROVE TypeOK'
  <2>1. opts[j].delay \in Delays \cup {Absent}
    OBVIOUS
  <2>2. unsure' \in SUBSET Jobs /\ disruptions' \in Nat /\ replayed' \in SUBSET Jobs
    BY <1>1 DEF Enqueue, EnqueueReply, Disrupt
  <2> QED
    BY <1>1, <2>1, <2>2, EnqueueType DEF Enqueue
<1>2. ASSUME NEW j \in Jobs, EnqueueAgain(j) PROVE TypeOK'
  <2>1. unsure' \in SUBSET Jobs /\ disruptions' \in Nat /\ replayed' \in SUBSET Jobs
    BY <1>2 DEF EnqueueAgain, EnqueueReply, Disrupt
  <2>2. CASE ~KeyFree(j)
    BY <1>2, <2>1, <2>2 DEF EnqueueAgain
  <2>3. CASE KeyFree(j)
    <3>1. PICK d \in Delays \cup {Absent} : EnqueueScript(j, d)
      BY <1>2, <2>3 DEF EnqueueAgain
    <3> QED
      BY <2>1, <3>1, EnqueueType
  <2> QED
    BY <2>2, <2>3
<1>3. ASSUME NEW k \in Keys, ExpireKey(k) PROVE TypeOK'
  BY <1>3 DEF ExpireKey
<1>4. ASSUME NEW w \in Workers, NEW j \in Jobs, Dequeue(w, j) PROVE TypeOK'
  BY <1>4 DEF Dequeue, GrantLease, Disrupt
<1>5. ASSUME NEW w \in Workers, Ack(w) PROVE TypeOK'
  BY <1>5, SendType, DropType, ReleaseKeyType DEF Ack
<1>6. ASSUME NEW w \in Workers, NEW c \in {"nack", "skip"}, NackDead(w, c) PROVE TypeOK'
  BY <1>6, SendType, DropType, ReleaseKeyType DEF NackDead
<1>7. ASSUME NEW w \in Workers, NEW d \in Delays, NackRetry(w, d) PROVE TypeOK'
  BY <1>7, SendType, DropType DEF NackRetry
<1>8. ASSUME NEW w \in Workers, NackError(w) PROVE TypeOK'
  BY <1>8, SendType, DropType DEF NackError
<1>9. ASSUME NEW w \in Workers, NEW d \in Delays, RescheduleJob(w, d) PROVE TypeOK'
  BY <1>9, SendType, DropType DEF RescheduleJob
<1>10. ASSUME NEW w \in Workers, CancelJob(w) PROVE TypeOK'
  BY <1>10, SendType, DropType, ReleaseKeyType DEF CancelJob
<1>11. ASSUME NEW w \in Workers, NackBlank(w) PROVE TypeOK'
  BY <1>11 DEF NackBlank
<1>12. ASSUME NEW w \in Workers, Abandon(w) PROVE TypeOK'
  BY <1>12 DEF Abandon, Disrupt
<1>13. ASSUME NEW w \in Workers, Stop(w) PROVE TypeOK'
  BY <1>13 DEF Stop, Disrupt
<1>14. ASSUME NEW w \in Workers, ExtendLease(w) PROVE TypeOK'
  BY <1>14 DEF ExtendLease, Members
<1>15. ASSUME Tick PROVE TypeOK'
  BY <1>15 DEF Tick, OneTickLess
<1>16. ASSUME NEW S \in SUBSET Jobs, Promote(S) PROVE TypeOK'
  BY <1>16, ScoreIsNat DEF Promote, Undelay, MakeReady
<1>17. ASSUME NEW S \in SUBSET Jobs, RecoverExpiredLeases(S) PROVE TypeOK'
  BY <1>17, ScoreIsNat DEF RecoverExpiredLeases, MakeReady, Disrupt
<1>18. ASSUME NEW j \in Jobs, RetryDead(j) PROVE TypeOK'
  BY <1>18, ScoreIsNat DEF RetryDead, RemoveDead, MakeReady
<1>19. ASSUME PurgeDead PROVE TypeOK'
  BY <1>19 DEF PurgeDead
<1>20. ASSUME Pause \/ Resume PROVE TypeOK'
  <2>1. paused' \in BOOLEAN
    BY <1>20 DEF Pause, Resume
  <2>2. disruptions' \in Nat
    BY <1>20 DEF Pause, Resume, Disrupt
  <2> QED
    BY <1>20, <2>1, <2>2 DEF Pause, Resume
<1>21. ASSUME UNCHANGED vars PROVE TypeOK'
  BY <1>21 DEF vars
<1> QED
  BY <1>1, <1>2, <1>3, <1>4, <1>5, <1>6, <1>7, <1>8, <1>9, <1>10, <1>11, <1>12, <1>13,
     <1>14, <1>15, <1>16, <1>17, <1>18, <1>19, <1>20, <1>21
     DEF Next, ClientStep, PollStep, FinishStep, PromoteStep, RecoveryStep

\* The initial state is well typed.
LEMMA TypeInit == Init => TypeOK
<1> SUFFICES ASSUME Init PROVE TypeOK
  OBVIOUS
<1>1. paused \in BOOLEAN
  BY DEF Init
<1>2. /\ state \in [Jobs -> States] /\ attempt \in [Jobs -> Nat] /\ dead \in [Jobs -> Nat]
      /\ ready \in [Jobs -> Nat \cup {Absent}] /\ delayed \in [Jobs -> Nat \cup {Absent}]
      /\ lease \in [Jobs -> Nat \cup {Absent}]
  BY DEF Init
<1>3. /\ unique \in [Keys -> Jobs \cup {NoJob}] /\ workerJobs \in [Workers -> SUBSET Jobs]
      /\ hold \in [Workers -> Jobs \cup {Idle, Blank}]
      /\ resend \in [Workers -> Calls \cup {NoCall}]
  BY DEF Init
<1> QED
  BY <1>1, <1>2, <1>3 DEF Init, TypeOK

\* Every reachable state is well typed: in particular a score in a sorted set
\* is a proper one, never the marker for "not a member".
THEOREM TypeCorrect == Spec => []TypeOK
BY TypeInit, TypeStep, PTL DEF Spec

-----------------------------------------------------------------------------
\* Each operation adds an id to active and lease together and removes it from
\* both together; recovery, which removes a batch from each, relies on the two
\* being equal before.
LEMMA LeaseStep == TypeOK /\ LeaseCoversActive /\ [Next]_vars => LeaseCoversActive'
<1> SUFFICES ASSUME TypeOK, LeaseCoversActive, [Next]_vars PROVE LeaseCoversActive'
  OBVIOUS
<1> USE DEF LeaseCoversActive, Members
<1>1. ASSUME UNCHANGED <<active, lease>> PROVE LeaseCoversActive'
  BY <1>1
<1>2. ASSUME NEW w \in Workers, NEW j \in Jobs, Drop(w, j) PROVE LeaseCoversActive'
  BY <1>2 DEF Drop, TypeOK
<1>3. ASSUME NEW j \in Jobs, Enqueue(j) \/ EnqueueAgain(j) PROVE LeaseCoversActive'
  BY <1>1, <1>3 DEF Enqueue, EnqueueAgain, EnqueueScript
<1>4. ASSUME NEW w \in Workers, NEW j \in Jobs, Dequeue(w, j) PROVE LeaseCoversActive'
  BY <1>4, ConstantsAssumption DEF Dequeue, GrantLease, TypeOK
<1>5. ASSUME NEW w \in Workers, FinishStep(w) PROVE LeaseCoversActive'
  <2>1. CASE NackBlank(w)
    BY <1>1, <2>1 DEF NackBlank
  <2>2. CASE ~NackBlank(w)
    <3>1. hold[w] \in Jobs /\ Drop(w, hold[w])
      BY <1>5, <2>2 DEF FinishStep, Ack, NackDead, NackRetry, NackError, RescheduleJob,
                        CancelJob, Send
    <3> QED
      BY <1>2, <3>1
  <2> QED
    BY <2>1, <2>2
<1>6. ASSUME NEW w \in Workers, ExtendLease(w) PROVE LeaseCoversActive'
  BY <1>6, ConstantsAssumption DEF ExtendLease, TypeOK
<1>7. ASSUME Tick PROVE LeaseCoversActive'
  BY <1>7 DEF Tick, OneTickLess, TypeOK
<1>8. ASSUME NEW S \in SUBSET Jobs, RecoverExpiredLeases(S) PROVE LeaseCoversActive'
  BY <1>8 DEF RecoverExpiredLeases, TypeOK
<1>9. ASSUME NEW S \in SUBSET Jobs, Promote(S) PROVE LeaseCoversActive'
  BY <1>1, <1>9 DEF Promote
<1>10. ASSUME NEW w \in Workers, Abandon(w) \/ Stop(w) PROVE LeaseCoversActive'
  BY <1>1, <1>10 DEF Abandon, Stop
<1>11. ASSUME \/ \E k \in Keys : ExpireKey(k)
              \/ \E j \in Jobs : RetryDead(j)
              \/ PurgeDead \/ Pause \/ Resume \/ UNCHANGED vars
       PROVE LeaseCoversActive'
  BY <1>1, <1>11 DEF ExpireKey, RetryDead, PurgeDead, Pause, Resume, vars
<1> QED
  BY <1>3, <1>4, <1>5, <1>6, <1>7, <1>8, <1>9, <1>10, <1>11
     DEF Next, ClientStep, PollStep, PromoteStep, RecoveryStep

\* Active jobs and leased jobs are the same jobs, in every reachable state of
\* any number of workers, clients and operators.
THEOREM LeaseCoversActiveHolds == Spec => []LeaseCoversActive
<1>1. Init => LeaseCoversActive
  BY DEF Init, LeaseCoversActive, Members
<1> QED
  BY <1>1, LeaseStep, TypeInit, TypeStep, PTL DEF Spec

-----------------------------------------------------------------------------
\* The conjuncts of NoLostJob for one job.
NotLost(j) ==
    /\ state[j] = "pending" => ready[j] # Absent \/ delayed[j] # Absent
    /\ state[j] = "retry"   => delayed[j] # Absent
    /\ state[j] = "active"  => j \in active
    /\ state[j] = "dead"    => dead[j] > 0

\* A worker's call moves the job it is about to where the new state says, and
\* leaves the place of every other job alone.
LEMMA NoLostJobFinish ==
  ASSUME TypeOK, NEW w \in Workers, FinishStep(w), NEW j \in Jobs, j \in whole, NotLost(j)
  PROVE  NotLost(j)'
<1> USE DEF NotLost
<1>1. CASE NackBlank(w)
  BY <1>1 DEF NackBlank
<1>2. CASE Ack(w)
  BY <1>2 DEF Ack, Send, Drop, TypeOK
<1>3. ASSUME NEW c \in Calls, NackDead(w, c) PROVE NotLost(j)'
  <2>1. CASE j = hold[w]
    BY <1>3, <2>1 DEF NackDead, TypeOK
  <2>2. CASE j # hold[w]
    BY <1>3, <2>2 DEF NackDead, Send, Drop, TypeOK
  <2> QED
    BY <2>1, <2>2
<1>4. ASSUME NEW d \in Delays, NackRetry(w, d) PROVE NotLost(j)'
  BY <1>4, ConstantsAssumption DEF NackRetry, Send, Drop, TypeOK
<1>5. CASE NackError(w)
  BY <1>5 DEF NackError, Send, Drop, TypeOK
<1>6. ASSUME NEW d \in Delays, RescheduleJob(w, d) PROVE NotLost(j)'
  BY <1>6, ConstantsAssumption DEF RescheduleJob, Send, Drop, TypeOK
<1>7. CASE CancelJob(w)
  BY <1>7 DEF CancelJob, Send, Drop, TypeOK
<1> QED
  BY <1>1, <1>2, <1>3, <1>4, <1>5, <1>6, <1>7 DEF FinishStep

\* Enqueue puts the job it writes into ready or delayed.
LEMMA NoLostJobEnqueue ==
  ASSUME TypeOK, NEW i \in Jobs, NEW d \in Delays \cup {Absent}, EnqueueScript(i, d),
         NEW j \in Jobs, j \in whole => NotLost(j), j \in whole'
  PROVE  NotLost(j)'
<1> USE DEF NotLost
<1>1. opts[i].priority \in Nat /\ d \in Nat \cup {Absent}
  BY ConstantsAssumption DEF TypeOK
<1>2. CASE d = Absent
  <2>1. ready' = [ready EXCEPT ![i] = opts[i].priority] /\ UNCHANGED delayed
    BY <1>2 DEF EnqueueScript
  <2> QED
    BY <1>1, <2>1 DEF EnqueueScript, TypeOK
<1>3. CASE d # Absent
  <2>1. delayed' = [delayed EXCEPT ![i] = d] /\ UNCHANGED ready
    BY <1>3 DEF EnqueueScript
  <2> QED
    BY <1>1, <1>3, <2>1 DEF EnqueueScript, TypeOK
<1> QED
  BY <1>2, <1>3

\* No step loses a job.
LEMMA NoLostJobStep == TypeOK /\ NoLostJob /\ [Next]_vars => NoLostJob'
<1> SUFFICES ASSUME TypeOK, [Next]_vars, NEW j \in Jobs, j \in whole => NotLost(j),
                    j \in whole'
             PROVE  NotLost(j)'
  BY TypeStep DEF NoLostJob, NotLost, Members, TypeOK
<1>1. ASSUME NEW i \in Jobs, Enqueue(i) PROVE NotLost(j)'
  <2>1. opts[i].delay \in Delays \cup {Absent}
    BY DEF TypeOK
  <2> QED
    BY <1>1, <2>1, NoLostJobEnqueue DEF Enqueue
<1>2. ASSUME NEW i \in Jobs, EnqueueAgain(i) PROVE NotLost(j)'
  <2>1. CASE KeyFree(i)
    <3>1. PICK d \in Delays \cup {Absent} : EnqueueScript(i, d)
      BY <1>2, <2>1 DEF EnqueueAgain
    <3> QED
      BY <3>1, NoLostJobEnqueue
  <2>2. CASE ~KeyFree(i)
    BY <1>2, <2>2 DEF EnqueueAgain, NotLost
  <2> QED
    BY <2>1, <2>2
<1> USE DEF NotLost
<1>3. ASSUME NEW w \in Workers, NEW i \in Jobs, Dequeue(w, i) PROVE NotLost(j)'
  BY <1>3 DEF Dequeue, TypeOK
<1>4. ASSUME NEW w \in Workers, FinishStep(w) PROVE NotLost(j)'
  <2>1. whole' = whole
    BY <1>4 DEF FinishStep, Ack, NackDead, NackRetry, NackError, RescheduleJob, CancelJob,
                NackBlank, Send
  <2> QED
    BY <1>4, <2>1, NoLostJobFinish
<1>5. ASSUME NEW w \in Workers, ExtendLease(w) \/ Abandon(w) \/ Stop(w) PROVE NotLost(j)'
  BY <1>5 DEF ExtendLease, Abandon, Stop
<1>6. ASSUME Tick PROVE NotLost(j)'
  BY <1>6 DEF Tick, OneTickLess, TypeOK
<1>7. ASSUME NEW S \in SUBSET Jobs, Promote(S) PROVE NotLost(j)'
  BY <1>7, ScoreIsNat DEF Promote, Undelay, MakeReady, TypeOK
<1>8. ASSUME NEW S \in SUBSET Jobs, RecoverExpiredLeases(S) PROVE NotLost(j)'
  BY <1>8, ScoreIsNat DEF RecoverExpiredLeases, MakeReady, TypeOK
<1>9. ASSUME NEW i \in Jobs, RetryDead(i) PROVE NotLost(j)'
  BY <1>9, ScoreIsNat DEF RetryDead, RemoveDead, MakeReady, TypeOK
<1>10. ASSUME PurgeDead PROVE NotLost(j)'
  BY <1>10 DEF PurgeDead, TypeOK
<1>11. ASSUME (\E k \in Keys : ExpireKey(k)) \/ Pause \/ Resume \/ UNCHANGED vars
       PROVE  NotLost(j)'
  BY <1>11 DEF ExpireKey, Pause, Resume, vars
<1> QED
  BY <1>1, <1>2, <1>3, <1>4, <1>5, <1>6, <1>7, <1>8, <1>9, <1>10, <1>11
     DEF Next, ClientStep, PollStep, PromoteStep, RecoveryStep

\* At-least-once: whatever stale calls, lost replies, crashes, repeated calls
\* and operator commands occur, an accepted job whose hash has not been purged
\* is always where its state says, so a loop that looks there will find it.
THEOREM NoLostJobHolds == Spec => []NoLostJob
<1>1. Init => NoLostJob
  BY DEF Init, NoLostJob
<1> QED
  BY <1>1, NoLostJobStep, TypeInit, TypeStep, PTL DEF Spec

-----------------------------------------------------------------------------
\* SoleOwner for one job: its place, and the workers that run it.
Placed(j) ==
    /\ ready[j] # Absent => state[j] = "pending" /\ delayed[j] = Absent
    /\ delayed[j] # Absent => state[j] \in {"pending", "retry"}
    /\ j \in active <=> state[j] = "active"
    /\ dead[j] = IF state[j] = "dead" THEN 1 ELSE 0
    /\ state[j] \in Live \cup Settled => j \in whole

Manned(j) ==
    /\ \A v, w \in Workers : Running(v, j) /\ Running(w, j) => v = w
    /\ \A w \in Workers : Running(w, j) => state[j] = "active" /\ j \in workerJobs[w]

Sole(j) == Undisturbed(j) => Placed(j) /\ Manned(j)

\* SoleOwner is Sole for every job.
LEMMA SoleOwnerSplit == ASSUME TypeOK PROVE SoleOwner <=> \A j \in Jobs : Sole(j)
BY DEF SoleOwner, Sole, Placed, Manned, Members, TypeOK

\* A call about job hold[w] that leaves it undisturbed is sent for the first
\* time, so w was running the job.
LEMMA SendRuns ==
  ASSUME TypeOK, NEW w \in Workers, NEW c \in Calls, Send(w, c),
         NEW j \in Jobs, j = hold[w], Undisturbed(j)'
  PROVE  Running(w, j)
BY DEF Send, Undisturbed, Running, TypeOK

\* A call never starts a new run of any job.
LEMMA SendStops ==
  ASSUME TypeOK, NEW w \in Workers, NEW c \in Calls, Send(w, c)
  PROVE  /\ \A v \in Workers, j \in Jobs : Running(v, j)' => v # w /\ Running(v, j)
         /\ \A j \in Jobs : Undisturbed(j)' => Undisturbed(j)
<1>1. ASSUME NEW v \in Workers, NEW j \in Jobs, Running(v, j)' PROVE v # w /\ Running(v, j)
  <2>1. hold[w] \in Jobs /\ hold[w] # Idle
    BY ConstantsAssumption DEF Send
  <2>2. CASE hold' = [hold EXCEPT ![w] = Idle] /\ resend' = [resend EXCEPT ![w] = NoCall]
    BY <1>1, <2>1, <2>2, ConstantsAssumption DEF Running, TypeOK
  <2>3. CASE hold' = hold /\ resend' = [resend EXCEPT ![w] = c]
    BY <1>1, <2>1, <2>3 DEF Running, TypeOK
  <2> QED
    BY <2>2, <2>3 DEF Send
<1>2. ASSUME NEW j \in Jobs, Undisturbed(j)' PROVE Undisturbed(j)
  BY <1>2 DEF Send, Undisturbed
<1> QED
  BY <1>1, <1>2

\* The calls that end a run: the job moves to the one place its new state
\* names, and nobody runs it any more.
LEMMA SoleFinish ==
  ASSUME TypeOK, NEW w \in Workers, FinishStep(w), \A i \in Jobs : Sole(i), NEW j \in Jobs
  PROVE  Sole(j)'
<1> SUFFICES ASSUME Undisturbed(j)' PROVE Placed(j)' /\ Manned(j)'
  BY DEF Sole
<1>1. CASE NackBlank(w)
  <2>1. Undisturbed(j) /\ Placed(j) /\ Manned(j)
    BY <1>1 DEF NackBlank, Undisturbed, Sole
  <2>2. Placed(j)'
    BY <1>1, <2>1 DEF NackBlank, Placed
  <2>3. \A v \in Workers : Running(v, j)' => Running(v, j)
    BY <1>1, ConstantsAssumption DEF NackBlank, Running, TypeOK
  <2> QED
    BY <1>1, <2>1, <2>2, <2>3 DEF NackBlank, Manned
<1>2. CASE ~NackBlank(w)
  <2>1. PICK c \in Calls : Send(w, c)
    BY <1>2 DEF FinishStep, Ack, NackDead, NackRetry, NackError, RescheduleJob, CancelJob
  <2>2. hold[w] \in Jobs /\ Drop(w, hold[w])
    BY <1>2 DEF FinishStep, Ack, NackDead, NackRetry, NackError, RescheduleJob, CancelJob,
                Send
  <2>3. Undisturbed(j) /\ Placed(j) /\ Manned(j)
    BY <2>1, SendStops DEF Sole
  <2>4. CASE j # hold[w]
    <3>1. UNCHANGED <<state[j], ready[j], delayed[j], dead[j], whole>>
      BY <1>2, <2>2, <2>4 DEF FinishStep, Ack, NackDead, NackRetry, NackError, RescheduleJob,
                              CancelJob, Send, TypeOK
    <3>2. j \in active' <=> j \in active
      BY <2>2, <2>4 DEF Drop
    <3>3. Placed(j)'
      BY <2>3, <3>1, <3>2 DEF Placed
    <3>4. \A v \in Workers : j \in workerJobs[v] => j \in workerJobs'[v]
      BY <2>2, <2>4 DEF Drop, TypeOK
    <3> QED
      BY <2>1, <2>3, <3>1, <3>3, <3>4, SendStops DEF Manned
  <2>5. CASE j = hold[w]
    <3>1. Running(w, j) /\ state[j] = "active" /\ j \in whole
      BY <2>1, <2>3, <2>5, SendRuns DEF Manned, Placed
    <3>2. ready[j] = Absent /\ delayed[j] = Absent /\ dead[j] = 0
      BY <2>3, <3>1 DEF Placed
    <3>3. \A v \in Workers : ~Running(v, j)'
      BY <2>1, <2>3, <3>1, SendStops DEF Manned
    <3>4. ready'[j] = Absent /\ j \in whole' /\ j \notin active'
      BY <2>1, <2>2, <2>5, <3>1, <3>2 DEF Send, Drop
    <3>5. CASE Ack(w) \/ CancelJob(w)
      <4>1. state'[j] \in {"completed", "cancelled"} /\ delayed' = delayed /\ dead' = dead
        BY <2>5, <3>5 DEF Ack, CancelJob, TypeOK
      <4> QED
        BY <3>2, <3>3, <3>4, <4>1 DEF Placed, Manned
    <3>6. ASSUME NEW k \in Calls, NackDead(w, k) PROVE Placed(j)' /\ Manned(j)'
      <4>1. state'[j] = "dead" /\ delayed' = delayed /\ dead'[j] = dead[j] + 1
        BY <2>5, <3>6 DEF NackDead, TypeOK
      <4> QED
        BY <3>2, <3>3, <3>4, <4>1 DEF Placed, Manned
    <3>7. ASSUME NEW d \in Delays, NackRetry(w, d) \/ RescheduleJob(w, d)
          PROVE  Placed(j)' /\ Manned(j)'
      <4>1. state'[j] \in {"pending", "retry"} /\ dead' = dead
        BY <2>5, <3>7 DEF NackRetry, RescheduleJob, TypeOK
      <4> QED
        BY <3>2, <3>3, <3>4, <4>1 DEF Placed, Manned
    <3>8. ~NackError(w)
      BY <2>5, <3>1 DEF NackError
    <3> QED
      BY <1>2, <3>5, <3>6, <3>7, <3>8 DEF FinishStep
  <2> QED
    BY <2>4, <2>5
<1> QED
  BY <1>1, <1>2

\* A fresh id is nowhere before its enqueue, and in one place after it.
LEMMA SoleEnqueue ==
  ASSUME TypeOK, NEW i \in Jobs, NEW j \in Jobs, Enqueue(i), Sole(j), Undisturbed(j)'
  PROVE  Placed(j)' /\ Manned(j)'
<1>1. Undisturbed(j) /\ Placed(j) /\ Manned(j)
  BY DEF Enqueue, EnqueueScript, Undisturbed, Sole
<1>2. UNCHANGED <<active, dead, workerJobs, hold, resend>>
  BY DEF Enqueue, EnqueueScript
<1>3. CASE j # i
  <2>1. UNCHANGED <<state[j], ready[j], delayed[j]>> /\ (j \in whole' <=> j \in whole)
    BY <1>3 DEF Enqueue, EnqueueScript, TypeOK
  <2> QED
    BY <1>1, <1>2, <2>1 DEF Placed, Manned, Running
<1>4. CASE j = i
  <2>1. state[j] = "unborn" /\ state'[j] = "pending" /\ j \in whole'
    BY <1>4 DEF Enqueue, EnqueueScript, TypeOK
  <2>2. ready'[j] = Absent \/ delayed'[j] = Absent
    BY <1>1, <1>4, <2>1 DEF Enqueue, EnqueueScript, Placed, TypeOK
  <2>3. \A w \in Workers : ~Running(w, j)'
    BY <1>1, <1>2, <2>1 DEF Manned, Running
  <2> QED
    BY <1>1, <1>2, <2>1, <2>2, <2>3 DEF Placed, Manned
<1> QED
  BY <1>3, <1>4

\* A dequeued job leaves ready, is active, and has one runner at most.
LEMMA SoleDequeue ==
  ASSUME TypeOK, NEW w \in Workers, NEW i \in Jobs, NEW j \in Jobs, Dequeue(w, i), Sole(j),
         Undisturbed(j)'
  PROVE  Placed(j)' /\ Manned(j)'
<1>1. Undisturbed(j) /\ Placed(j) /\ Manned(j)
  BY DEF Dequeue, Undisturbed, Sole
<1>2. CASE j # i
  <2>1. /\ UNCHANGED <<state[j], ready[j], delayed[j], dead[j], whole>>
        /\ j \in active' <=> j \in active
    BY <1>2 DEF Dequeue, TypeOK
  <2>2. \A v \in Workers : Running(v, j)' => Running(v, j)
    BY <1>2, ConstantsAssumption DEF Dequeue, Running, TypeOK
  <2>3. \A v \in Workers : j \in workerJobs[v] => j \in workerJobs'[v]
    BY DEF Dequeue, TypeOK
  <2> QED
    BY <1>1, <2>1, <2>2, <2>3 DEF Placed, Manned
<1>3. CASE j = i
  <2>1. state[j] = "pending" /\ delayed[j] = Absent /\ dead[j] = 0 /\ j \in whole
    BY <1>1, <1>3 DEF Dequeue, Members, Placed
  <2>2. /\ state'[j] = "active" /\ ready'[j] = Absent /\ j \in active' /\ j \in workerJobs'[w]
        /\ UNCHANGED <<delayed, dead, whole>>
    BY <1>3 DEF Dequeue, TypeOK
  <2>3. \A v \in Workers : ~Running(v, j)
    BY <1>1, <2>1 DEF Manned
  <2>4. \A v \in Workers : Running(v, j)' => v = w
    BY <1>3, <2>3 DEF Dequeue, Running, TypeOK
  <2> QED
    BY <2>1, <2>2, <2>4 DEF Placed, Manned
<1> QED
  BY <1>2, <1>3

\* Steps that change neither hold, resend nor worker sets, and change the place
\* of jobs only.
LEMMA SolePlace ==
  ASSUME TypeOK, NEW j \in Jobs, Sole(j), Undisturbed(j)',
         \/ \E S \in SUBSET Jobs : Promote(S) \/ RecoverExpiredLeases(S)
         \/ \E i \in Jobs : RetryDead(i)
         \/ PurgeDead
  PROVE  Placed(j)' /\ Manned(j)'
<1>1. UNCHANGED <<workerJobs, hold, resend>>
  BY DEF Promote, RecoverExpiredLeases, RetryDead, PurgeDead
<1>2. Undisturbed(j) /\ Placed(j) /\ Manned(j)
  BY DEF Promote, RecoverExpiredLeases, RetryDead, PurgeDead, Undisturbed, Sole
<1>3. ASSUME NEW S \in SUBSET Jobs, Promote(S)
      PROVE  Placed(j)' /\ (state[j] = "active" => state'[j] = "active")
  <2>1. j \in S => delayed[j] = 0
    BY <1>3, BatchDue DEF Promote
  <2> QED
    BY <1>2, <1>3, <2>1, ScoreIsNat DEF Promote, Undelay, MakeReady, Placed, TypeOK
<1>4. ASSUME NEW S \in SUBSET Jobs, RecoverExpiredLeases(S)
      PROVE  Placed(j)' /\ (state[j] = "active" => state'[j] = "active")
  <2>1. j \notin S \cap active
    BY <1>4 DEF RecoverExpiredLeases, Undisturbed
  <2> QED
    BY <1>2, <1>4, <2>1 DEF RecoverExpiredLeases, MakeReady, Placed, TypeOK
<1>5. ASSUME NEW i \in Jobs, RetryDead(i)
      PROVE  Placed(j)' /\ (state[j] = "active" => state'[j] = "active")
  BY <1>2, <1>5, ScoreIsNat DEF RetryDead, RemoveDead, MakeReady, Placed, TypeOK
<1>6. ASSUME PurgeDead
      PROVE  Placed(j)' /\ (state[j] = "active" => state'[j] = "active")
  BY <1>2, <1>6 DEF PurgeDead, Placed, TypeOK
<1>7. Placed(j)' /\ (state[j] = "active" => state'[j] = "active")
  BY <1>3, <1>4, <1>5, <1>6
<1> QED
  BY <1>1, <1>2, <1>7 DEF Manned, Running

\* Every step keeps undisturbed jobs in one place and with one owner.
LEMMA SoleOwnerStep == TypeOK /\ SoleOwner /\ [Next]_vars => SoleOwner'
<1> SUFFICES ASSUME TypeOK, \A i \in Jobs : Sole(i), [Next]_vars, NEW j \in Jobs
             PROVE  Sole(j)'
  <2>1. ASSUME \A j \in Jobs : Sole(j)' PROVE SoleOwner'
    BY <2>1 DEF SoleOwner, Sole, Placed, Manned, Members
  <2> QED
    BY <2>1, SoleOwnerSplit
<1> SUFFICES ASSUME Undisturbed(j)' PROVE Placed(j)' /\ Manned(j)'
  BY DEF Sole
<1>1. ASSUME NEW i \in Jobs, Enqueue(i) PROVE Placed(j)' /\ Manned(j)'
  BY <1>1, SoleEnqueue
<1>2. ASSUME NEW i \in Jobs, EnqueueAgain(i) PROVE Placed(j)' /\ Manned(j)'
  <2>1. Undisturbed(j) /\ Placed(j) /\ Manned(j)
    BY <1>2 DEF EnqueueAgain, EnqueueScript, Undisturbed, Sole
  <2>2. /\ UNCHANGED <<state[j], ready[j], delayed[j], dead, active, workerJobs, hold, resend>>
        /\ j \in whole' <=> j \in whole
    BY <1>2 DEF EnqueueAgain, EnqueueScript, Undisturbed, TypeOK
  <2> QED
    BY <2>1, <2>2 DEF Placed, Manned, Running
<1>3. ASSUME NEW w \in Workers, NEW i \in Jobs, Dequeue(w, i) PROVE Placed(j)' /\ Manned(j)'
  BY <1>3, SoleDequeue
<1>4. ASSUME NEW w \in Workers, FinishStep(w) PROVE Placed(j)' /\ Manned(j)'
  BY <1>4, SoleFinish DEF Sole
<1>5. ASSUME NEW w \in Workers, Abandon(w) \/ Stop(w) PROVE Placed(j)' /\ Manned(j)'
  <2>1. UNCHANGED <<hashVars, setVars>> /\ Undisturbed(j)
    BY <1>5 DEF Abandon, Stop, Undisturbed
  <2>2. \A v \in Workers : Running(v, j)' => v # w /\ Running(v, j)
    BY <1>5, ConstantsAssumption DEF Abandon, Stop, Running, TypeOK
  <2>3. \A v \in Workers : v # w /\ j \in workerJobs[v] => j \in workerJobs'[v]
    BY <1>5 DEF Abandon, Stop, TypeOK
  <2> QED
    BY <2>1, <2>2, <2>3 DEF Sole, Placed, Manned
<1>6. ASSUME (\E w \in Workers : ExtendLease(w)) \/ (\E k \in Keys : ExpireKey(k))
             \/ Pause \/ Resume \/ UNCHANGED vars
      PROVE  Placed(j)' /\ Manned(j)'
  <2>1. UNCHANGED <<hashVars, ready, delayed, active, dead, workerVars, reclaimed, replayed>>
    BY <1>6 DEF ExtendLease, ExpireKey, Pause, Resume, vars
  <2> QED
    BY <2>1 DEF Sole, Undisturbed, Placed, Manned, Running
<1>7. ASSUME Tick PROVE Placed(j)' /\ Manned(j)'
  <2>1. UNCHANGED <<hashVars, ready, active, dead, workerVars, reclaimed, replayed>>
    BY <1>7 DEF Tick
  <2>2. delayed'[j] # Absent <=> delayed[j] # Absent
    BY <1>7 DEF Tick, OneTickLess, TypeOK
  <2>3. delayed'[j] = Absent <=> delayed[j] = Absent
    BY <2>2
  <2> QED
    BY <2>1, <2>2, <2>3 DEF Sole, Undisturbed, Placed, Manned, Running
<1>8. ASSUME \/ \E S \in SUBSET Jobs : Promote(S) \/ RecoverExpiredLeases(S)
             \/ \E i \in Jobs : RetryDead(i)
             \/ PurgeDead
      PROVE  Placed(j)' /\ Manned(j)'
  BY <1>8, SolePlace
<1> QED
  BY <1>1, <1>2, <1>3, <1>4, <1>5, <1>6, <1>7, <1>8
     DEF Next, ClientStep, PollStep, PromoteStep, RecoveryStep

\* Exactly one place and at most one runner for every job that was neither
\* recovered nor the object of a repeated call, for any number of workers.
THEOREM SoleOwnerHolds == Spec => []SoleOwner
<1>1. Init => SoleOwner
  BY ConstantsAssumption DEF Init, SoleOwner, Members, Running
<1> QED
  BY <1>1, SoleOwnerStep, TypeInit, TypeStep, PTL DEF Spec

-----------------------------------------------------------------------------
\* A budget is at least 1 and at least what the job asked for.
LEMMA BudgetBounds ==
  ASSUME NEW j \in Jobs, opts \in [Jobs -> Options]
  PROVE  /\ opts[j].maxRetries \in Int
         /\ Budget(j) \in Nat \ {0} /\ opts[j].maxRetries <= Budget(j)
<1>1. opts[j].maxRetries \in Int
  <2>1. opts[j] \in Options
    OBVIOUS
  <2>2. opts[j].maxRetries \in Retries
    BY <2>1
  <2> QED
    BY <2>2, ConstantsAssumption
<1> QED
  BY <1>1 DEF Budget

\* RetryBudget for one job.
InBudget(j) == j \in whole /\ Undisturbed(j) =>
    /\ attempt[j] <= Budget(j)
    /\ attempt[j] = Budget(j) => state[j] = "dead"

\* No step takes an undisturbed job over its budget: only its runner counts an
\* attempt, and a job that is out of attempts is dead, hence has no runner.
LEMMA RetryBudgetStep == TypeOK /\ SoleOwner /\ RetryBudget /\ [Next]_vars => RetryBudget'
<1> SUFFICES ASSUME TypeOK, SoleOwner, [Next]_vars, NEW j \in Jobs, InBudget(j),
                    j \in whole', Undisturbed(j)'
             PROVE  /\ attempt'[j] <= Budget(j)'
                    /\ attempt'[j] = Budget(j)' => state'[j] = "dead"
  BY TypeStep DEF RetryBudget, InBudget, TypeOK
<1> DEFINE Goal == /\ attempt'[j] <= Budget(j)'
                   /\ attempt'[j] = Budget(j)' => state'[j] = "dead"
<1>0. Sole(j)
  BY SoleOwnerSplit
<1>1. /\ opts[j].maxRetries \in Int /\ attempt[j] \in Nat
      /\ Budget(j) \in Nat \ {0} /\ Budget(j) >= opts[j].maxRetries
  BY BudgetBounds DEF TypeOK
<1>2. opts' = opts /\ Budget(j)' = Budget(j) /\ Undisturbed(j)
  BY DEF Next, ClientStep, PollStep, FinishStep, PromoteStep, RecoveryStep, vars, Enqueue,
         EnqueueAgain, EnqueueScript, ExpireKey, Dequeue, Ack, NackDead, NackRetry, NackError,
         RescheduleJob, CancelJob, NackBlank, Send, Abandon, Stop, ExtendLease, Tick, Promote,
         RecoverExpiredLeases, RetryDead, PurgeDead, Pause, Resume, Undisturbed, Budget
<1>3. ASSUME attempt'[j] = 0 PROVE Goal
  BY <1>1, <1>2, <1>3
<1>4. ASSUME attempt'[j] = attempt[j], state'[j] = state[j], j \in whole PROVE Goal
  BY <1>1, <1>2, <1>4 DEF InBudget
<1>5. ASSUME attempt'[j] = attempt[j], state[j] # "dead", j \in whole PROVE Goal
  BY <1>1, <1>2, <1>5 DEF InBudget
<1>6. ASSUME NEW i \in Jobs, Enqueue(i) PROVE Goal
  <2>1. CASE i = j
    BY <1>3, <1>6, <2>1 DEF Enqueue, EnqueueScript, TypeOK
  <2>2. CASE i # j
    BY <1>4, <1>6, <2>2 DEF Enqueue, EnqueueScript, TypeOK
  <2> QED
    BY <2>1, <2>2
<1>7. ASSUME NEW i \in Jobs, EnqueueAgain(i) PROVE Goal
  BY <1>4, <1>7 DEF EnqueueAgain, EnqueueScript, Undisturbed, TypeOK
<1>8. ASSUME NEW w \in Workers, NEW i \in Jobs, Dequeue(w, i) PROVE Goal
  <2>1. attempt' = attempt /\ whole' = whole
    BY <1>8 DEF Dequeue
  <2>2. CASE i = j
    <3>1. state[j] = "pending"
      BY <1>0, <1>2, <1>8, <2>2 DEF Dequeue, Members, Sole, Placed
    <3> QED
      BY <1>5, <2>1, <3>1
  <2>3. CASE i # j
    BY <1>4, <1>8, <2>1, <2>3 DEF Dequeue, TypeOK
  <2> QED
    BY <2>2, <2>3
<1>9. ASSUME NEW w \in Workers, FinishStep(w) PROVE Goal
  <2>1. CASE NackBlank(w)
    BY <1>4, <2>1 DEF NackBlank
  <2>2. CASE ~NackBlank(w)
    <3>1. PICK c \in Calls : Send(w, c)
      BY <1>9, <2>2 DEF FinishStep, Ack, NackDead, NackRetry, NackError, RescheduleJob, CancelJob
    <3>2. hold[w] \in Jobs /\ whole' = whole
      BY <3>1 DEF Send
    <3>3. CASE j # hold[w]
      <4>1. attempt'[j] = attempt[j] /\ state'[j] = state[j]
        BY <1>9, <2>2, <3>2, <3>3 DEF FinishStep, Ack, NackDead, NackRetry, NackError,
                                      RescheduleJob, CancelJob, TypeOK
      <4> QED
        BY <1>4, <3>2, <4>1
    <3>4. CASE j = hold[w]
      <4>1. state[j] = "active" /\ j \in whole
        BY <1>0, <1>2, <3>1, <3>4, SendRuns DEF Sole, Manned, Placed
      <4>2. CASE Ack(w) \/ CancelJob(w) \/ \E d \in Delays : RescheduleJob(w, d)
        BY <1>5, <4>1, <4>2 DEF Ack, CancelJob, RescheduleJob
      <4>3. ASSUME NEW k \in Calls, NackDead(w, k) PROVE Goal
        <5>1. attempt'[j] = attempt[j] + 1 /\ state'[j] = "dead"
          BY <3>4, <4>3 DEF NackDead, TypeOK
        <5> QED
          BY <1>1, <1>2, <4>1, <5>1 DEF InBudget
      <4>4. ASSUME NEW d \in Delays, NackRetry(w, d) PROVE Goal
        <5>1. attempt'[j] = attempt[j] + 1 /\ ~(attempt[j] + 1 >= opts[j].maxRetries)
          BY <3>4, <4>4 DEF NackRetry, Exhausted, TypeOK
        <5> QED
          BY <1>1, <1>2, <5>1
      <4>5. ~NackError(w)
        BY <3>4, <4>1 DEF NackError
      <4> QED
        BY <1>9, <2>2, <4>2, <4>3, <4>4, <4>5 DEF FinishStep
    <3> QED
      BY <3>3, <3>4
  <2> QED
    BY <2>1, <2>2
<1>10. ASSUME NEW S \in SUBSET Jobs, Promote(S) PROVE Goal
  <2>1. attempt' = attempt /\ whole' = whole
    BY <1>10 DEF Promote
  <2>2. CASE j \in S
    <3>1. delayed[j] = 0
      BY <1>10, <2>2, BatchDue DEF Promote
    <3>2. state[j] # "dead"
      BY <1>0, <1>2, <3>1 DEF Sole, Placed
    <3> QED
      BY <1>5, <2>1, <3>2
  <2>3. CASE j \notin S
    BY <1>4, <1>10, <2>1, <2>3 DEF Promote, TypeOK
  <2> QED
    BY <2>2, <2>3
<1>11. ASSUME NEW S \in SUBSET Jobs, RecoverExpiredLeases(S) PROVE Goal
  BY <1>4, <1>11 DEF RecoverExpiredLeases, Undisturbed, TypeOK
<1>12. ASSUME NEW i \in Jobs, RetryDead(i) PROVE Goal
  BY <1>3, <1>4, <1>12 DEF RetryDead, TypeOK
<1>13. ASSUME PurgeDead PROVE Goal
  BY <1>4, <1>13 DEF PurgeDead, TypeOK
<1>14. ASSUME \/ \E w \in Workers : ExtendLease(w) \/ Abandon(w) \/ Stop(w)
              \/ \E k \in Keys : ExpireKey(k)
              \/ Tick \/ Pause \/ Resume \/ UNCHANGED vars
       PROVE  Goal
  BY <1>4, <1>14 DEF ExtendLease, Abandon, Stop, ExpireKey, Tick, Pause, Resume, vars
<1> QED
  BY <1>6, <1>7, <1>8, <1>9, <1>10, <1>11, <1>12, <1>13, <1>14
     DEF Next, ClientStep, PollStep, PromoteStep, RecoveryStep

\* An undisturbed job never fails more often than max_retries allows, and dies
\* with the last failure.
THEOREM RetryBudgetHolds == Spec => []RetryBudget
<1>1. Init => RetryBudget
  BY DEF Init, RetryBudget
<1> QED
  BY <1>1, RetryBudgetStep, SoleOwnerHolds, TypeCorrect, PTL DEF Spec

-----------------------------------------------------------------------------
\* An id that was never enqueued is nowhere: no structure, no worker names it.
FreshIds == \A j \in Jobs : state[j] = "unborn" =>
    /\ ready[j] = Absent
    /\ delayed[j] = Absent
    /\ dead[j] = 0
    /\ j \notin active \cup unsure
    /\ \A w \in Workers : hold[w] # j

\* KeyOwnerLive for one owner and key.
OwnerLive(j, k) ==
    /\ opts[j].key = k
    /\ j \in whole
    /\ state[j] \in Live
    /\ dead[j] = 0

\* No script names an id that was not enqueued.
LEMMA FreshIdsStep == TypeOK /\ FreshIds /\ [Next]_vars => FreshIds'
<1> SUFFICES ASSUME TypeOK, FreshIds, [Next]_vars, NEW j \in Jobs, state'[j] = "unborn"
             PROVE  (/\ ready[j] = Absent
                     /\ delayed[j] = Absent
                     /\ dead[j] = 0
                     /\ j \notin active \cup unsure
                     /\ \A w \in Workers : hold[w] # j)'
  BY DEF FreshIds
<1> DEFINE Nowhere == /\ ready[j] = Absent
                      /\ delayed[j] = Absent
                      /\ dead[j] = 0
                      /\ j \notin active \cup unsure
                      /\ \A w \in Workers : hold[w] # j
<1>1. state[j] = "unborn" => Nowhere
  BY DEF FreshIds
<1>2. ASSUME NEW i \in Jobs, Enqueue(i) \/ EnqueueAgain(i) PROVE Nowhere'
  <2>1. j # i /\ state[j] = "unborn"
    BY <1>1, <1>2 DEF Enqueue, EnqueueAgain, EnqueueScript, TypeOK
  <2>2. UNCHANGED <<ready[j], delayed[j], dead, active, hold>>
    BY <1>2, <2>1 DEF Enqueue, EnqueueAgain, EnqueueScript, TypeOK
  <2>3. j \notin unsure'
    BY <1>1, <1>2, <2>1 DEF Enqueue, EnqueueAgain, EnqueueReply
  <2> QED
    BY <1>1, <2>1, <2>2, <2>3
<1>3. ASSUME NEW w \in Workers, NEW i \in Jobs, Dequeue(w, i) PROVE Nowhere'
  <2>1. j # i /\ state[j] = "unborn"
    BY <1>3 DEF Dequeue, TypeOK
  <2>2. UNCHANGED <<ready[j], delayed, dead, unsure>> /\ j \notin active'
    BY <1>1, <1>3, <2>1 DEF Dequeue, TypeOK
  <2>3. \A v \in Workers : hold'[v] # j
    BY <1>1, <1>3, <2>1, ConstantsAssumption DEF Dequeue, TypeOK
  <2> QED
    BY <1>1, <2>1, <2>2, <2>3
<1>4. ASSUME NEW w \in Workers, FinishStep(w) PROVE Nowhere'
  <2>1. CASE NackBlank(w)
    BY <1>1, <2>1, ConstantsAssumption DEF NackBlank, TypeOK
  <2>2. CASE ~NackBlank(w)
    <3>1. PICK c \in Calls : Send(w, c)
      BY <1>4, <2>2 DEF FinishStep, Ack, NackDead, NackRetry, NackError, RescheduleJob, CancelJob
    <3>2. state[j] = "unborn"
      BY <1>4, <2>2, <3>1 DEF FinishStep, Ack, NackDead, NackRetry, NackError, RescheduleJob,
                              CancelJob, Send, TypeOK
    <3>3. j # hold[w] /\ hold[w] \in Jobs
      BY <1>1, <3>1, <3>2 DEF Send
    <3>4. UNCHANGED <<delayed[j], dead[j]>> /\ j \notin active'
      BY <1>1, <1>4, <2>2, <3>2, <3>3 DEF FinishStep, Ack, NackDead, NackRetry, NackError,
                      RescheduleJob, CancelJob, Drop, TypeOK
    <3>5. UNCHANGED <<ready, unsure>> /\ \A v \in Workers : hold'[v] # j
      BY <1>1, <3>1, <3>2, ConstantsAssumption DEF Send, TypeOK
    <3> QED
      BY <1>1, <3>2, <3>4, <3>5
  <2> QED
    BY <2>1, <2>2
<1>5. ASSUME NEW S \in SUBSET Jobs, Promote(S) PROVE Nowhere'
  BY <1>1, <1>5 DEF Promote, Undelay, MakeReady, TypeOK
<1>6. ASSUME NEW S \in SUBSET Jobs, RecoverExpiredLeases(S) PROVE Nowhere'
  BY <1>1, <1>6 DEF RecoverExpiredLeases, MakeReady, TypeOK
<1>7. ASSUME NEW i \in Jobs, RetryDead(i) PROVE Nowhere'
  BY <1>1, <1>7 DEF RetryDead, RemoveDead, MakeReady, TypeOK
<1>8. ASSUME PurgeDead PROVE Nowhere'
  BY <1>1, <1>8 DEF PurgeDead, TypeOK
<1>9. ASSUME NEW w \in Workers, Abandon(w) \/ Stop(w) PROVE Nowhere'
  BY <1>1, <1>9, ConstantsAssumption DEF Abandon, Stop, TypeOK
<1>10. ASSUME Tick PROVE Nowhere'
  BY <1>1, <1>10 DEF Tick, OneTickLess, TypeOK
<1>11. ASSUME (\E w \in Workers : ExtendLease(w)) \/ (\E k \in Keys : ExpireKey(k))
              \/ Pause \/ Resume \/ UNCHANGED vars
       PROVE  Nowhere'
  BY <1>1, <1>11 DEF ExtendLease, ExpireKey, Pause, Resume, vars
<1> QED
  BY <1>2, <1>3, <1>4, <1>5, <1>6, <1>7, <1>8, <1>9, <1>10, <1>11
     DEF Next, ClientStep, PollStep, PromoteStep, RecoveryStep

\* A call that settles the owner of a key frees the key.
LEMMA KeyFinish ==
  ASSUME TypeOK, NEW w \in Workers, FinishStep(w), NEW k \in Keys, NEW j \in Jobs,
         OwnerLive(j, k), unique[k] = j, unique'[k] = j
  PROVE  OwnerLive(j, k)'
<1> USE DEF OwnerLive
<1>1. CASE NackBlank(w)
  BY <1>1 DEF NackBlank
<1>2. CASE ~NackBlank(w)
  <2>1. hold[w] \in Jobs /\ UNCHANGED <<opts, whole>>
    BY <1>2 DEF FinishStep, Ack, NackDead, NackRetry, NackError, RescheduleJob, CancelJob, Send
  <2>2. CASE j # hold[w]
    BY <1>2, <2>1, <2>2 DEF FinishStep, Ack, NackDead, NackRetry, NackError, RescheduleJob,
                            CancelJob, TypeOK
  <2>3. CASE j = hold[w]
    <3>1. ~ReleaseKey(j)
      BY ConstantsAssumption DEF ReleaseKey
    <3>2. (\E d \in Delays : NackRetry(w, d) \/ RescheduleJob(w, d))
      BY <1>2, <2>3, <3>1 DEF FinishStep, Ack, NackDead, NackError, CancelJob
    <3> QED
      BY <2>1, <2>3, <3>2 DEF NackRetry, RescheduleJob, TypeOK
  <2> QED
    BY <2>2, <2>3
<1> QED
  BY <1>1, <1>2

\* Every step that ends a job's life frees its key.
LEMMA KeyOwnerStep == TypeOK /\ FreshIds /\ KeyOwnerLive /\ [Next]_vars => KeyOwnerLive'
<1> SUFFICES ASSUME TypeOK, FreshIds, KeyOwnerLive, [Next]_vars, NEW k \in Keys,
                    NEW j \in Jobs, unique'[k] = j, j \notin replayed'
             PROVE  OwnerLive(j, k)'
  BY DEF KeyOwnerLive, OwnerLive
<1>1. unique[k] = j /\ j \notin replayed => OwnerLive(j, k)
  BY DEF KeyOwnerLive, OwnerLive
<1>2. ASSUME NEW i \in Jobs, Enqueue(i) PROVE OwnerLive(j, k)'
  <2>1. state[i] = "unborn" /\ dead[i] = 0
    BY <1>2 DEF Enqueue, FreshIds
  <2>2. /\ state' = [state EXCEPT ![i] = "pending"] /\ whole' = whole \cup {i}
        /\ UNCHANGED <<opts, dead, replayed>>
        /\ unique'[k] = IF k = opts[i].key THEN i ELSE unique[k]
    BY <1>2 DEF Enqueue, EnqueueScript
  <2>3. CASE k = opts[i].key
    BY <2>1, <2>2, <2>3 DEF OwnerLive, TypeOK
  <2>4. CASE k # opts[i].key
    BY <1>1, <2>1, <2>2, <2>4 DEF OwnerLive, TypeOK
  <2> QED
    BY <2>3, <2>4
<1>3. ASSUME NEW i \in Jobs, EnqueueAgain(i) PROVE OwnerLive(j, k)'
  <2>1. CASE KeyFree(i)
    <3>1. PICK d \in Delays \cup {Absent} : EnqueueScript(i, d)
      BY <1>3, <2>1 DEF EnqueueAgain
    <3>2. replayed' = replayed \cup {i}
      BY <1>3, <2>1 DEF EnqueueAgain
    <3>3. j # i /\ unique[k] = j /\ j \notin replayed
      BY <3>1, <3>2 DEF EnqueueScript
    <3> QED
      BY <1>1, <3>1, <3>3 DEF EnqueueScript, OwnerLive, TypeOK
  <2>2. CASE ~KeyFree(i)
    BY <1>1, <1>3, <2>2 DEF EnqueueAgain, OwnerLive
  <2> QED
    BY <2>1, <2>2
<1>4. ASSUME NEW w \in Workers, FinishStep(w) PROVE OwnerLive(j, k)'
  <2>1. j \notin replayed
    BY <1>4 DEF FinishStep, Ack, NackDead, NackRetry, NackError, RescheduleJob, CancelJob,
                NackBlank, Send
  <2>2. unique[k] = j
    BY <1>4, ConstantsAssumption DEF FinishStep, Ack, NackDead, NackRetry, NackError,
                RescheduleJob, CancelJob, NackBlank, ReleaseKey, TypeOK
  <2> QED
    BY <1>1, <1>4, <2>1, <2>2, KeyFinish
<1> USE DEF OwnerLive
<1>5. ASSUME NEW w \in Workers, NEW i \in Jobs, Dequeue(w, i) PROVE OwnerLive(j, k)'
  BY <1>1, <1>5 DEF Dequeue, TypeOK
<1>6. ASSUME NEW S \in SUBSET Jobs, Promote(S) \/ RecoverExpiredLeases(S)
      PROVE  OwnerLive(j, k)'
  BY <1>1, <1>6 DEF Promote, RecoverExpiredLeases, TypeOK
<1>7. ASSUME NEW i \in Jobs, RetryDead(i) PROVE OwnerLive(j, k)'
  BY <1>1, <1>7 DEF RetryDead, RemoveDead, TypeOK
<1>8. ASSUME PurgeDead PROVE OwnerLive(j, k)'
  BY <1>1, <1>8 DEF PurgeDead, TypeOK
<1>9. ASSUME NEW l \in Keys, ExpireKey(l) PROVE OwnerLive(j, k)'
  BY <1>1, <1>9, ConstantsAssumption DEF ExpireKey, TypeOK
<1>10. ASSUME \/ \E w \in Workers : ExtendLease(w) \/ Abandon(w) \/ Stop(w)
              \/ Tick \/ Pause \/ Resume \/ UNCHANGED vars
       PROVE  OwnerLive(j, k)'
  BY <1>1, <1>10 DEF ExtendLease, Abandon, Stop, Tick, Pause, Resume, vars
<1> QED
  BY <1>2, <1>3, <1>4, <1>5, <1>6, <1>7, <1>8, <1>9, <1>10
     DEF Next, ClientStep, PollStep, PromoteStep, RecoveryStep

\* A unique key is never left with a job that has ended, whoever ended it: the
\* next job with the same key is not refused because of a finished one.
THEOREM KeyOwnerLiveHolds == Spec => []KeyOwnerLive
<1>1. Init => FreshIds /\ KeyOwnerLive
  BY ConstantsAssumption DEF Init, FreshIds, KeyOwnerLive
<1> QED
  BY <1>1, FreshIdsStep, KeyOwnerStep, TypeInit, TypeStep, PTL DEF Spec

\* The step behind KeyFreedByOwner: an enqueue takes a key only when it is free, and what
\* ends a job frees no key but the one this job still owns.
LEMMA KeyFreedStep ==
    ASSUME TypeOK, [Next]_vars, NEW k \in Keys, unique[k] # NoJob, unique'[k] # unique[k]
    PROVE  ExpireKey(k) \/ state'[unique[k]] \in Settled
<1>1. unique[k] \in Jobs BY DEF TypeOK
<1>2. ASSUME NEW j \in Jobs, Enqueue(j) \/ EnqueueAgain(j) PROVE FALSE
  <2>1. unique' # unique OBVIOUS
  <2>2. KeyFree(j) /\ \E d : EnqueueScript(j, d) BY <1>2, <2>1 DEF Enqueue, EnqueueAgain
  <2>3. k = opts[j].key BY <2>2 DEF EnqueueScript
  <2>4. k # NoKey BY ConstantsAssumption
  <2> QED BY <2>2, <2>3, <2>4 DEF KeyFree
<1>3. ASSUME NEW i \in Keys, ExpireKey(i) PROVE ExpireKey(k)
  <2>1. i = k BY <1>3 DEF ExpireKey, TypeOK
  <2> QED BY <1>3, <2>1
<1>4. ASSUME NEW w \in Workers, FinishStep(w) PROVE state'[unique[k]] \in Settled
  <2>1. unique' # unique OBVIOUS
  <2>2. Ack(w) \/ NackDead(w, "nack") \/ NackDead(w, "skip") \/ CancelJob(w)
    BY <1>4, <2>1 DEF FinishStep, NackRetry, NackError, RescheduleJob, NackBlank
  <2>3. /\ ReleaseKey(hold[w])
        /\ \E t \in Settled : state' = [state EXCEPT ![hold[w]] = t]
    BY <2>2 DEF Ack, NackDead, CancelJob, Settled
  <2>4. unique[k] = hold[w] BY <2>3 DEF ReleaseKey
  <2> QED BY <1>1, <2>3, <2>4 DEF TypeOK
<1>5. ASSUME \/ \E w \in Workers : PollStep(w) \/ Abandon(w) \/ Stop(w) \/ ExtendLease(w)
             \/ Tick \/ PromoteStep \/ RecoveryStep \/ \E j \in Jobs : RetryDead(j)
             \/ PurgeDead \/ Pause \/ Resume \/ UNCHANGED vars
      PROVE  unique' = unique
  BY <1>5
     DEF PollStep, Dequeue, Abandon, Stop, ExtendLease, Tick, PromoteStep, Promote,
         RecoveryStep, RecoverExpiredLeases, RetryDead, PurgeDead, Pause, Resume, vars
<1> QED BY <1>2, <1>3, <1>4, <1>5 DEF Next, ClientStep

\* Nothing but its TTL or the end of its owner frees a unique key, for any number of jobs
\* that ask for the same one: a late ack of an older owner leaves it alone.
THEOREM KeyFreedByOwnerHolds == Spec => KeyFreedByOwner
<1>1. TypeOK /\ [Next]_vars =>
          [\A k \in Keys : unique[k] # NoJob /\ unique'[k] # unique[k] =>
              ExpireKey(k) \/ state'[unique[k]] \in Settled]_vars
  BY KeyFreedStep
<1> QED BY <1>1, TypeCorrect, PTL DEF Spec, KeyFreedByOwner
=============================================================================
