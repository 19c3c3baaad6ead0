------------------------------ MODULE JobQueue ------------------------------
(***************************************************************************)
(* One queue of winter: the Redis keys the Lua scripts of                  *)
(* internal/queue/scripts.go maintain, and the clients, workers, sweeps    *)
(* and operators that call those scripts.  Every script is one atomic      *)
(* step; everything between two calls of a process is interleaved.         *)
(*                                                                         *)
(* Time is relative.  A score that is a point in time (the lease and the   *)
(* delayed sorted sets) is kept as the number of ticks until it is         *)
(* reached: 0 is "at or before now".  Tick lets one unit pass.             *)
(*                                                                         *)
(* The network may lose a reply after the script ran.  go-redis then sends *)
(* the same command again, so a script may run twice for one call          *)
(* (resend, unsure).                                                       *)
(***************************************************************************)
EXTENDS Integers, FiniteSets

CONSTANTS
    Jobs,            \* job ids (uuids: each is handed out once)
    Workers,         \* execution slots, each with its own worker id
    Keys,            \* unique keys
    Priorities,      \* priorities clients ask for
    Retries,         \* max_retries values clients ask for, negative ones too
    Delays,          \* delays, in ticks, of scheduled, retried, rescheduled jobs
    LeaseTicks,      \* DefaultLeaseDuration, in ticks
    BatchLimit,      \* LIMIT of the promote and recover scripts
    MaxDisruptions,  \* bound on the disruptions counted by Disrupt
    NoJob, Idle, Blank, NoKey   \* none of them a job or a key

ASSUME ConstantsAssumption ==
    /\ Priorities \subseteq Nat
    /\ Retries \subseteq Int
    /\ Delays \subseteq Nat
    /\ LeaseTicks \in Nat \ {0}
    /\ BatchLimit \in Nat \ {0}
    /\ MaxDisruptions \in Nat
    /\ NoJob \notin Jobs
    /\ NoKey \notin Keys
    /\ Idle \notin Jobs
    /\ Blank \notin Jobs
    /\ Idle # Blank

VARIABLES
    \* winter:job:<id>, the job hash
    state,      \* the "state" field; "unborn": id not used yet, "none": no such field
    attempt,    \* the "attempt" field, 0 when missing (HINCRBY starts from 0)
    opts,       \* the arguments the job was enqueued with
    whole,      \* ids whose hash still has the fields written by enqueue
    \* winter:<queue>:...
    ready,      \* sorted set by priority
    delayed,    \* sorted set by due time (ticks to go)
    active,     \* set
    lease,      \* sorted set by expiry (ticks to go)
    dead,       \* list, as the number of entries of each id
    paused,     \* whether the pause flag exists
    \* winter:unique:<key> and winter:worker:<id>:jobs
    unique,
    workerJobs,
    \* processes
    hold,       \* the job a worker runs, Idle, or Blank (a record without an id)
    resend,     \* the call whose reply the worker lost and will send again
    unsure,     \* ids whose enqueue reply was lost; the client will send it again
    \* auxiliary: history that tells apart the jobs nothing went wrong with
    reclaimed,  \* ids some lease recovery took back
    replayed,   \* ids some script ran twice for
    disruptions

hashVars    == <<state, attempt, opts, whole>>
setVars     == <<ready, delayed, active, lease, dead>>
workerVars  == <<workerJobs, hold, resend>>
auxVars     == <<reclaimed, replayed, disruptions>>
vars == <<hashVars, setVars, paused, unique, workerVars, unsure, auxVars>>

Absent == -1        \* an id that is no member of a sorted set
NoCall == "nothing"
DefaultPriority == 5

Live      == {"pending", "active", "retry"}
Settled   == {"completed", "dead", "cancelled"}
States    == Live \cup Settled \cup {"none", "unborn"}
Calls     == {"ack", "nack", "skip", "reschedule", "cancel"}

Options == [maxRetries : Retries, priority : Priorities,
            key : Keys \cup {NoKey}, delay : Delays \cup {Absent}]

TypeOK ==
    /\ state \in [Jobs -> States]
    /\ attempt \in [Jobs -> Nat]
    /\ opts \in [Jobs -> Options]
    /\ whole \in SUBSET Jobs
    /\ ready \in [Jobs -> Nat \cup {Absent}]
    /\ delayed \in [Jobs -> Nat \cup {Absent}]
    /\ active \in SUBSET Jobs
    /\ lease \in [Jobs -> Nat \cup {Absent}]
    /\ dead \in [Jobs -> Nat]
    /\ paused \in BOOLEAN
    /\ unique \in [Keys -> Jobs \cup {NoJob}]
    /\ workerJobs \in [Workers -> SUBSET Jobs]
    /\ hold \in [Workers -> Jobs \cup {Idle, Blank}]
    /\ resend \in [Workers -> Calls \cup {NoCall}]
    /\ unsure \in SUBSET Jobs
    /\ reclaimed \in SUBSET Jobs
    /\ replayed \in SUBSET Jobs
    /\ disruptions \in Nat

(***************************************************************************)
(* Plausible mistakes in the scripts, one per property below: each stands  *)
(* in for the definition it is paired with in PROJECT.json and is used     *)
(* nowhere else.                                                           *)
(***************************************************************************)
NoGrant(j) == UNCHANGED lease                        \* dequeue forgets the lease
NoReady(S) == UNCHANGED ready                        \* recovery forgets ZADD ready
KeepDelayed(S) == UNCHANGED delayed                  \* promote forgets ZREM delayed
KeepAttempt(j) == UNCHANGED attempt                  \* retry forgets attempt 0
KeepKey(j) == UNCHANGED unique                       \* ack, nack forget DEL
DelKey(j) ==                                         \* ... or skip the owner check
    unique' = [k \in Keys |-> IF j \in whole /\ opts[j].key = k THEN NoJob ELSE unique[k]]
ExhaustedLate(j) == attempt[j] >= opts[j].maxRetries \* attempt read before HINCRBY
BudgetBack(j) ==                                     \* HINCRBY -max_retries, not HSET 0
    attempt' = [attempt EXCEPT ![j] = @ - opts[j].maxRetries]

(***************************************************************************)
(* Helpers: the Redis commands the scripts are built from.                 *)
(***************************************************************************)
Members(zset) == {j \in Jobs : zset[j] # Absent}

\* ZRANGEBYSCORE key -inf now
Due(zset) == {j \in Jobs : zset[j] = 0}

\* ... LIMIT 0 limit.  Which of the due ids come first is left open.
Batch(zset) == {S \in SUBSET Due(zset) : S # {} /\
                    IF Cardinality(Due(zset)) <= BatchLimit
                    THEN S = Due(zset) ELSE Cardinality(S) = BatchLimit}

\* tonumber(HGET job priority) or 5
Score(j) == IF j \in whole THEN opts[j].priority ELSE DefaultPriority

Disrupt ==
    /\ disruptions < MaxDisruptions
    /\ disruptions' = disruptions + 1

\* SREM active, SREM worker jobs, ZREM lease: how ack, nack, reschedule and cancel begin
Drop(w, j) ==
    /\ active' = active \ {j}
    /\ lease' = [lease EXCEPT ![j] = Absent]
    /\ workerJobs' = [workerJobs EXCEPT ![w] = @ \ {j}]

\* DEL the unique key of j, if the hash names one and j still owns it
ReleaseKey(j) ==
    unique' = [k \in Keys |-> IF j \in whole /\ opts[j].key = k /\ unique[k] = j
                              THEN NoJob ELSE unique[k]]

Init ==
    /\ state = [j \in Jobs |-> "unborn"]
    /\ attempt = [j \in Jobs |-> 0]
    /\ opts \in [Jobs -> Options]   \* what each client is going to ask for
    /\ whole = {}
    /\ ready = [j \in Jobs |-> Absent]
    /\ delayed = [j \in Jobs |-> Absent]
    /\ active = {}
    /\ lease = [j \in Jobs |-> Absent]
    /\ dead = [j \in Jobs |-> 0]
    /\ paused = FALSE
    /\ unique = [k \in Keys |-> NoJob]
    /\ workerJobs = [w \in Workers |-> {}]
    /\ hold = [w \in Workers |-> Idle]
    /\ resend = [w \in Workers |-> NoCall]
    /\ unsure = {}
    /\ reclaimed = {}
    /\ replayed = {}
    /\ disruptions = 0

(***************************************************************************)
(* Clients.                                                                *)
(***************************************************************************)
\* SET uniqueKey id NX: free, or the job asks for no uniqueness
KeyFree(j) == opts[j].key # NoKey => unique[opts[j].key] = NoJob

\* enqueueScript after the duplicate check; d is the time to scheduled_at
EnqueueScript(j, d) ==
    /\ unique' = [k \in Keys |-> IF k = opts[j].key THEN j ELSE unique[k]]
    /\ state' = [state EXCEPT ![j] = "pending"]
    /\ attempt' = [attempt EXCEPT ![j] = 0]
    /\ whole' = whole \cup {j}
    /\ \/ /\ d # Absent
          /\ delayed' = [delayed EXCEPT ![j] = d]
          /\ UNCHANGED ready
       \/ /\ d = Absent
          /\ ready' = [ready EXCEPT ![j] = opts[j].priority]
          /\ UNCHANGED delayed
    /\ UNCHANGED <<opts, active, lease, dead, paused, workerVars, reclaimed>>

EnqueueReply(j) ==
    \/ unsure' = unsure \ {j} /\ UNCHANGED disruptions
    \/ unsure' = unsure \cup {j} /\ Disrupt

\* Client.Enqueue with a fresh id; a DUPLICATE reply changes nothing
Enqueue(j) ==
    /\ state[j] = "unborn"
    /\ KeyFree(j)
    /\ EnqueueScript(j, opts[j].delay)
    /\ EnqueueReply(j)
    /\ UNCHANGED replayed

\* The reply was lost: the same script call runs again, now closer to
\* scheduled_at, or finds its key taken.
EnqueueAgain(j) ==
    /\ j \in unsure
    /\ \/ /\ KeyFree(j)
          /\ \E d \in Delays \cup {Absent} :
                /\ IF opts[j].delay = Absent THEN d = Absent ELSE d \in 0 .. opts[j].delay
                /\ EnqueueScript(j, d)
          /\ replayed' = replayed \cup {j}
       \/ /\ ~KeyFree(j)
          /\ UNCHANGED <<hashVars, setVars, paused, unique, workerVars, reclaimed, replayed>>
    /\ EnqueueReply(j)

\* Redis expires the key (SET ... EX)
ExpireKey(k) ==
    /\ unique[k] # NoJob
    /\ unique' = [unique EXCEPT ![k] = NoJob]
    /\ UNCHANGED <<hashVars, setVars, paused, workerVars, unsure, auxVars>>

(***************************************************************************)
(* Workers.                                                                *)
(***************************************************************************)
\* ZADD lease now+leaseDuration
GrantLease(j) == lease' = [lease EXCEPT ![j] = LeaseTicks]

\* dequeueScript: ZPOPMIN, then the job moves to active under a lease
Dequeue(w, j) ==
    /\ hold[w] = Idle
    /\ ~paused
    /\ j \in Members(ready)
    /\ \A i \in Members(ready) : ready[j] <= ready[i]
    /\ ready' = [ready EXCEPT ![j] = Absent]
    /\ active' = active \cup {j}
    /\ state' = [state EXCEPT ![j] = "active"]
    /\ workerJobs' = [workerJobs EXCEPT ![w] = @ \cup {j}]
    /\ GrantLease(j)
    /\ \/ /\ hold' = [hold EXCEPT ![w] = IF j \in whole THEN j ELSE Blank]
          /\ UNCHANGED disruptions
       \/ Disrupt /\ UNCHANGED hold      \* the reply never arrives
    /\ UNCHANGED <<attempt, opts, whole, delayed, dead, paused, unique, resend,
                   unsure, reclaimed, replayed>>

\* The worker sends call c for the job it holds: for the first time, or again
\* because the reply was lost.  The reply arrives, or is lost this time.
Send(w, c) ==
    /\ hold[w] \in Jobs
    /\ resend[w] \in {NoCall, c}
    /\ replayed' = IF resend[w] = c THEN replayed \cup {hold[w]} ELSE replayed
    /\ \/ /\ hold' = [hold EXCEPT ![w] = Idle]
          /\ resend' = [resend EXCEPT ![w] = NoCall]
          /\ UNCHANGED disruptions
       \/ /\ Disrupt
          /\ resend' = [resend EXCEPT ![w] = c]
          /\ UNCHANGED hold
    /\ UNCHANGED <<opts, whole, ready, paused, unsure, reclaimed>>

Ack(w) == LET j == hold[w] IN
    /\ Send(w, "ack")
    /\ Drop(w, j)
    /\ state' = [state EXCEPT ![j] = "completed"]
    /\ ReleaseKey(j)
    /\ UNCHANGED <<attempt, delayed, dead>>

\* attempt >= maxRetries, with attempt already incremented
Exhausted(j) == attempt[j] + 1 >= opts[j].maxRetries

\* nackScript, "dead": handler asked to skip retries, or none are left
NackDead(w, c) == LET j == hold[w] IN
    /\ Send(w, c)
    /\ c = "skip" \/ (c = "nack" /\ j \in whole /\ Exhausted(j))
    /\ Drop(w, j)
    /\ attempt' = [attempt EXCEPT ![j] = @ + 1]
    /\ dead' = [dead EXCEPT ![j] = @ + 1]
    /\ state' = [state EXCEPT ![j] = "dead"]
    /\ ReleaseKey(j)
    /\ UNCHANGED delayed

\* nackScript, "retry" after backoff d
NackRetry(w, d) == LET j == hold[w] IN
    /\ Send(w, "nack")
    /\ j \in whole /\ ~Exhausted(j)
    /\ Drop(w, j)
    /\ attempt' = [attempt EXCEPT ![j] = @ + 1]
    /\ delayed' = [delayed EXCEPT ![j] = d]
    /\ state' = [state EXCEPT ![j] = "retry"]
    /\ UNCHANGED <<dead, unique>>

\* nackScript on a hash that was purged: max_retries is nil, the comparison
\* raises an error and the writes made before it stay
NackError(w) == LET j == hold[w] IN
    /\ Send(w, "nack")
    /\ j \notin whole
    /\ Drop(w, j)
    /\ attempt' = [attempt EXCEPT ![j] = @ + 1]
    /\ UNCHANGED <<state, delayed, dead, unique>>

\* rescheduleScript, for a rate-limited job or a handler that asks for it
RescheduleJob(w, d) == LET j == hold[w] IN
    /\ Send(w, "reschedule")
    /\ Drop(w, j)
    /\ delayed' = [delayed EXCEPT ![j] = d]
    /\ state' = [state EXCEPT ![j] = "pending"]
    /\ UNCHANGED <<attempt, dead, unique>>

CancelJob(w) == LET j == hold[w] IN
    /\ Send(w, "cancel")
    /\ Drop(w, j)
    /\ state' = [state EXCEPT ![j] = "cancelled"]
    /\ ReleaseKey(j)
    /\ UNCHANGED <<attempt, delayed, dead>>

\* The record has no kind, so no handler is found; the nack goes to the job
\* with the empty id of the queue with the empty name, not to this one.
NackBlank(w) ==
    /\ hold[w] = Blank
    /\ hold' = [hold EXCEPT ![w] = Idle]
    /\ UNCHANGED <<hashVars, setVars, paused, unique, workerJobs, resend, unsure, auxVars>>

\* The call failed without running, or its last resend did: processJob logs
\* the error and returns.
Abandon(w) ==
    /\ hold[w] \in Jobs
    /\ Disrupt
    /\ hold' = [hold EXCEPT ![w] = Idle]
    /\ resend' = [resend EXCEPT ![w] = NoCall]
    /\ UNCHANGED <<hashVars, setVars, paused, unique, workerJobs, unsure, reclaimed, replayed>>

\* The process crashes, or shuts down and deregisters.  Its successor has a
\* new worker id, hence an empty job set.
Stop(w) ==
    /\ hold[w] # Idle \/ workerJobs[w] # {}
    /\ IF hold[w] = Idle THEN UNCHANGED disruptions ELSE Disrupt
    /\ hold' = [hold EXCEPT ![w] = Idle]
    /\ resend' = [resend EXCEPT ![w] = NoCall]
    /\ workerJobs' = [workerJobs EXCEPT ![w] = {}]
    /\ UNCHANGED <<hashVars, setVars, paused, unique, unsure, reclaimed, replayed>>

\* the heartbeat: ZADD XX, for the jobs the process runs
ExtendLease(w) ==
    /\ hold[w] \in Members(lease)
    /\ lease' = [lease EXCEPT ![hold[w]] = LeaseTicks]
    /\ UNCHANGED <<hashVars, ready, delayed, active, dead, paused, unique, workerVars,
                   unsure, auxVars>>

(***************************************************************************)
(* Time, and the loops that watch it.                                      *)
(***************************************************************************)
OneTickLess(zset) == [j \in Jobs |-> IF zset[j] > 0 THEN zset[j] - 1 ELSE zset[j]]

Tick ==
    /\ delayed' = OneTickLess(delayed)
    /\ lease' = OneTickLess(lease)
    /\ UNCHANGED <<hashVars, ready, active, dead, paused, unique, workerVars, unsure, auxVars>>

\* ZADD ready priority id, for the ids of a batch
MakeReady(S) == ready' = [j \in Jobs |-> IF j \in S THEN Score(j) ELSE ready[j]]

\* ZREM delayed id
Undelay(S) == delayed' = [j \in Jobs |-> IF j \in S THEN Absent ELSE delayed[j]]

Promote(S) ==
    /\ S \in Batch(delayed)
    /\ Undelay(S)
    /\ MakeReady(S)
    /\ state' = [j \in Jobs |-> IF j \in S THEN "pending" ELSE state[j]]
    /\ UNCHANGED <<attempt, opts, whole, active, lease, dead, paused, unique, workerVars,
                   unsure, auxVars>>

Held(j) == \E w \in Workers : hold[w] = j

\* recoverLeasesScript: expired leases go; those of active ids (SREM = 1)
\* return to ready.  Taking a job from a worker that still runs it means the
\* worker's heartbeat was late, which is a disruption.
RecoverExpiredLeases(S) == LET back == S \cap active IN
    /\ S \in Batch(lease)
    /\ lease' = [j \in Jobs |-> IF j \in S THEN Absent ELSE lease[j]]
    /\ active' = active \ S
    /\ MakeReady(back)
    /\ state' = [j \in Jobs |-> IF j \in back THEN "pending" ELSE state[j]]
    /\ reclaimed' = reclaimed \cup back
    /\ IF \E j \in back : Held(j) THEN Disrupt ELSE UNCHANGED disruptions
    /\ UNCHANGED <<attempt, opts, whole, delayed, dead, paused, unique, workerVars,
                   unsure, replayed>>

(***************************************************************************)
(* Operators: the inspector and the winter command.                        *)
(***************************************************************************)
\* LREM dead 1 id
RemoveDead(j) == dead' = [dead EXCEPT ![j] = @ - 1]

\* HSET attempt 0
FreshBudget(j) == attempt' = [attempt EXCEPT ![j] = 0]

\* retryDeadScript: LREM 1, then back to ready with a fresh retry budget
RetryDead(j) ==
    /\ dead[j] > 0
    /\ RemoveDead(j)
    /\ state' = [state EXCEPT ![j] = "pending"]
    /\ FreshBudget(j)
    /\ MakeReady({j})
    /\ UNCHANGED <<opts, whole, delayed, active, lease, paused, unique, workerVars,
                   unsure, auxVars>>

\* purgeDeadScript: DEL the hash of every listed id, then the list
PurgeDead == LET gone == {j \in Jobs : dead[j] > 0} IN
    /\ gone # {}
    /\ state' = [j \in Jobs |-> IF j \in gone THEN "none" ELSE state[j]]
    /\ attempt' = [j \in Jobs |-> IF j \in gone THEN 0 ELSE attempt[j]]
    /\ whole' = whole \ gone
    /\ dead' = [j \in Jobs |-> 0]
    /\ UNCHANGED <<opts, ready, delayed, active, lease, paused, unique, workerVars,
                   unsure, auxVars>>

Pause ==
    /\ ~paused
    /\ Disrupt
    /\ paused' = TRUE
    /\ UNCHANGED <<hashVars, setVars, unique, workerVars, unsure, reclaimed, replayed>>

Resume ==
    /\ paused
    /\ paused' = FALSE
    /\ UNCHANGED <<hashVars, setVars, unique, workerVars, unsure, auxVars>>

-----------------------------------------------------------------------------
ClientStep   == \E j \in Jobs : Enqueue(j) \/ EnqueueAgain(j)
PollStep(w)  == \E j \in Jobs : Dequeue(w, j)
\* what processJob does once the handler has returned
FinishStep(w) ==
    \/ Ack(w)
    \/ NackDead(w, "nack")
    \/ NackDead(w, "skip")
    \/ \E d \in Delays : NackRetry(w, d)
    \/ NackError(w)
    \/ \E d \in Delays : RescheduleJob(w, d)
    \/ CancelJob(w)
    \/ NackBlank(w)
PromoteStep  == \E S \in SUBSET Jobs : Promote(S)
RecoveryStep == \E S \in SUBSET Jobs : RecoverExpiredLeases(S)

Next ==
    \/ ClientStep
    \/ \E k \in Keys : ExpireKey(k)
    \/ \E w \in Workers :
          PollStep(w) \/ FinishStep(w) \/ Abandon(w) \/ Stop(w) \/ ExtendLease(w)
    \/ Tick
    \/ PromoteStep
    \/ RecoveryStep
    \/ \E j \in Jobs : RetryDead(j)
    \/ PurgeDead
    \/ Pause
    \/ Resume

Spec == Init /\ [][Next]_vars

-----------------------------------------------------------------------------
(***************************************************************************)
(* Properties.                                                             *)
(***************************************************************************)
\* Jobs no lease recovery and no repeated script call ever touched.
Undisturbed(j) == j \notin reclaimed \cup replayed

\* w runs j and has not yet reported its outcome.
Running(w, j) == hold[w] = j /\ resend[w] = NoCall

\* The active set and the lease set always have the same members, whatever
\* stale worker, lost reply or purge happened before: a job that is active is
\* always within reach of the recovery sweep, and no lease outlives its entry.
LeaseCoversActive == active = Members(lease)

\* No accepted job is ever forgotten: as long as its hash exists, its state
\* names the structure that will bring it back.  Every script that changes the
\* state must move the id as well, also for a job some other script has
\* meanwhile moved.
NoLostJob == \A j \in whole :
    /\ state[j] = "pending" => j \in Members(ready) \cup Members(delayed)
    /\ state[j] = "retry"   => j \in Members(delayed)
    /\ state[j] = "active"  => j \in active
    /\ state[j] = "dead"    => dead[j] > 0

\* As long as no lease of a job was recovered and no script ran twice for it,
\* it is in exactly one place, the one its state names, at most one worker
\* runs it, and it is never purged while it can still run.  The scripts check
\* neither owner nor state, so this rests on the order of all of them.
SoleOwner == \A j \in Jobs : Undisturbed(j) =>
    /\ j \in Members(ready) => state[j] = "pending" /\ j \notin Members(delayed)
    /\ j \in Members(delayed) => state[j] \in {"pending", "retry"}
    /\ j \in active <=> state[j] = "active"
    /\ dead[j] = IF state[j] = "dead" THEN 1 ELSE 0
    /\ state[j] \in Live \cup Settled => j \in whole
    /\ \A v, w \in Workers : Running(v, j) /\ Running(w, j) => v = w
    /\ \A w \in Workers : Running(w, j) => state[j] = "active" /\ j \in workerJobs[w]

\* Failures a job may have before it is dead; one that asks for none has the first.
Budget(j) == IF opts[j].maxRetries < 1 THEN 1 ELSE opts[j].maxRetries

\* An undisturbed job fails at most max_retries times, once if it asks for fewer than
\* one, and the failure that uses up the budget is the one that kills it.
RetryBudget == \A j \in whole : Undisturbed(j) =>
    /\ attempt[j] <= Budget(j)
    /\ attempt[j] = Budget(j) => state[j] = "dead"

\* A unique key never belongs to a job that has finished, died, or been purged:
\* a finished job never blocks the next one until the TTL.  (A repeated enqueue
\* can take the key again for a job that is in the dead list, and is excluded.)
KeyOwnerLive == \A k \in Keys : LET j == unique[k] IN
    j \in Jobs /\ j \notin replayed =>
        /\ opts[j].key = k
        /\ j \in whole
        /\ state[j] \in Live
        /\ dead[j] = 0

\* Only its TTL, or the end of the very job that owns it, frees a unique key:
\* the late end of an older job with the same key does not.
KeyFreedByOwner == [][\A k \in Keys :
    unique[k] # NoJob /\ unique'[k] # unique[k] =>
        ExpireKey(k) \/ state'[unique[k]] \in Settled]_vars

-----------------------------------------------------------------------------
(***************************************************************************)
(* Liveness.  Servers keep polling, promoting and sweeping (their loops    *)
(* run until shutdown), time passes, handlers return, and a paused queue   *)
(* is resumed.  Nothing is assumed of how a handler returns.               *)
(***************************************************************************)
Fairness ==
    /\ WF_vars(Tick)
    /\ WF_vars(PromoteStep)
    /\ WF_vars(RecoveryStep)
    /\ WF_vars(Resume)
    /\ \A w \in Workers : WF_vars(PollStep(w)) /\ WF_vars(FinishStep(w))

FairSpec == Spec /\ Fairness

\* A job that waits, for its due time or for a worker, is eventually taken up.
EventuallyTaken == \A j \in Jobs :
    (state[j] \in {"pending", "retry"}) ~> (state[j] \notin {"pending", "retry"})

\* A job whose worker is gone (crash, shutdown, lost dequeue reply, failed ack)
\* does not stay active for ever.
OrphanRecovered == \A j \in Jobs :
    (j \in active /\ ~Held(j)) ~> (j \notin active \/ Held(j))

=============================================================================
