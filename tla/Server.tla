------------------------------- MODULE Server -------------------------------
(***************************************************************************)
(* One winter server process: the poll loop and its semaphore, the         *)
(* goroutine of each job it took, the heartbeat that keeps their leases,   *)
(* and the shutdown that drains them, beside Redis and the other servers.  *)
(*                                                                         *)
(* Redis is reduced to the ready, delayed and lease sets; module JobQueue  *)
(* has the scripts in full, and shows that a job is active exactly when it *)
(* has a lease.  The tickers of the process keep their pace: no tick       *)
(* passes while a heartbeat is due or one of its calls is under way, and   *)
(* Start does not outwait ShutdownTimeout.  Nothing is assumed of how long *)
(* hooks, handlers and the calls of the poll loop take.                    *)
(***************************************************************************)
EXTENDS Integers, Sequences, FiniteSets, SequencesExt

CONSTANTS
    Jobs,             \* job ids; one is used again when its job is gone
    QueueOf,          \* the queue of each job
    Queues,           \* ServerConfig.Queues: the names, in the configured order
    CfgWeight,        \* the configured weight of each name
    Shared,           \* the queues other servers poll, too
    Concurrency,      \* ServerConfig.Concurrency, the capacity of the semaphore channel
    Slots,            \* goroutines there is memory for: more than Concurrency
    LeaseTicks,       \* DefaultLeaseDuration
    HeartbeatEvery,   \* the heartbeat's period
    HookTicks,        \* what the properties grant the OnStart hooks
    ShutdownTicks,    \* ShutdownTimeout
    MaxFaults,        \* bound on calls that fail while the context is not done
    Idle

QueueNames == {Queues[i] : i \in 1 .. Len(Queues)}

ASSUME ServerAssumption ==
    /\ Queues \in Seq(QueueNames) /\ Queues # << >>
    /\ \A i, k \in 1 .. Len(Queues) : Queues[i] = Queues[k] => i = k
    /\ CfgWeight \in [QueueNames -> Int]
    /\ Shared \subseteq QueueNames
    /\ QueueOf \in [Jobs -> QueueNames]
    /\ LeaseTicks \in Nat /\ HeartbeatEvery \in Nat \ {0} /\ HookTicks \in Nat
    /\ HookTicks + HeartbeatEvery < LeaseTicks
    /\ ShutdownTicks \in Nat \ {0}
    /\ IsFiniteSet(Slots)
    /\ Concurrency \in Nat \ {0} /\ Concurrency < Cardinality(Slots)
    /\ MaxFaults \in Nat
    /\ Idle \notin Jobs

VARIABLES
    \* Redis and the other servers
    ready,      \* ids in the ready set
    delayed,    \* ids in the delayed set (or among the dead, for an operator to retry)
    lease,      \* ticks an active job's lease has left, or Absent
    rival,      \* jobs other servers run
    \* the poll loop
    strict,     \* ServerConfig.StrictPriority
    rotation,   \* the list of queues the loop goes through
    pc,         \* "head", "acquire", "call" or "done"
    pos,        \* index into rotation
    sem,        \* tokens in the semaphore channel
    \* the goroutines of jobs
    slot,       \* the job a goroutine processes, or Idle
    stage,      \* "start": not yet tracked, "work": the handler, "end": reported
    inflight,   \* ids in the map the heartbeat goes through
    \* heartbeat and shutdown
    beat,       \* ticks since the heartbeat ticker fired
    visiting,   \* ids this heartbeat round has still to extend
    phase,      \* "up", "stopping", "drained", "forced" or "exited"
    drain,      \* ticks since the shutdown began
    \* auxiliary
    over,       \* per queue: jobs it was passed over for since a call for it was answered
    failed,     \* per queue: calls for it that failed since then
    clean,      \* jobs whose handler was started in time and alone (see Track)
    faults

redisVars == <<ready, delayed, lease, rival>>
pollVars  == <<strict, rotation, pc, pos, over, failed>>
jobVars   == <<slot, stage, inflight>>
beatVars  == <<beat, visiting>>
stopVars  == <<phase, drain>>
vars == <<redisVars, pollVars, sem, jobVars, beatVars, stopVars, clean, faults>>

Absent == -1

(***************************************************************************)
(* The poll order.                                                         *)
(***************************************************************************)
\* newServer: a weight below 1 counts as 1
Weight(q) == IF CfgWeight[q] < 1 THEN 1 ELSE CfgWeight[q]

\* buildWeightedQueues
WeightedQueues ==
    FlattenSeq([i \in 1 .. Len(Queues) |-> [k \in 1 .. Weight(Queues[i]) |-> Queues[i]]])

\* buildStrictQueues: by descending weight; the sort leaves equals in any order
StrictQueues ==
    {s \in [1 .. Len(Queues) -> QueueNames] :
        /\ \A i, k \in 1 .. Len(Queues) : i < k => Weight(s[i]) >= Weight(s[k])
        /\ \A q \in QueueNames : \E i \in 1 .. Len(Queues) : s[i] = q}

TypeOK ==
    /\ ready \in SUBSET Jobs
    /\ delayed \in SUBSET Jobs
    /\ lease \in [Jobs -> 0 .. LeaseTicks \cup {Absent}]
    /\ rival \in SUBSET Jobs
    /\ strict \in BOOLEAN
    /\ rotation \in Seq(QueueNames)
    /\ pc \in {"head", "acquire", "call", "done"}
    /\ pos \in 1 .. Len(rotation)
    /\ sem \in Nat
    /\ slot \in [Slots -> Jobs \cup {Idle}]
    /\ stage \in [Slots -> {"idle", "start", "work", "end"}]
    /\ inflight \in SUBSET Jobs
    /\ beat \in 0 .. HeartbeatEvery
    /\ visiting \in SUBSET Jobs
    /\ phase \in {"up", "stopping", "drained", "forced", "exited"}
    /\ drain \in 0 .. ShutdownTicks
    /\ over \in [QueueNames -> Nat] /\ failed \in [QueueNames -> Nat]
    /\ clean \in SUBSET Jobs
    /\ faults \in 0 .. MaxFaults

Init ==
    /\ ready = {} /\ delayed = {} /\ rival = {}
    /\ lease = [j \in Jobs |-> Absent]
    /\ \/ strict = FALSE /\ rotation = WeightedQueues
       \/ strict = TRUE /\ rotation \in StrictQueues
    /\ pc = "head" /\ pos = 1
    /\ sem = 0
    /\ slot = [s \in Slots |-> Idle]
    /\ stage = [s \in Slots |-> "idle"]
    /\ inflight = {}
    /\ beat = 0 /\ visiting = {}
    /\ phase = "up" /\ drain = 0
    /\ over = [q \in QueueNames |-> 0] /\ failed = [q \in QueueNames |-> 0]
    /\ clean = {} /\ faults = 0

(***************************************************************************)
(* Plausible mistakes, one per property: each stands in for the definition *)
(* it is paired with in PROJECT.json and is used nowhere else.             *)
(***************************************************************************)
NotExtended(j) == lease                        \* the heartbeat tells Redis it is alive, no more
PastTheEnd ==                                  \* <= for <: one place too many
    IF pos <= Len(rotation)
    THEN pc' = "acquire" /\ pos' = pos + 1
    ELSE pc' = "head" /\ pos' = 1
StayOnQueue == pc' = "acquire" /\ UNCHANGED pos   \* a queue is emptied before the next one
KeepToken == UNCHANGED sem                     \* an early return without <-sem
ReportUnlessDone(j, again) ==                  \* the outcome is sent under ctx, not finCtx
    /\ lease' = [lease EXCEPT ![j] = IF phase = "up" THEN Absent ELSE @]
    /\ delayed' = IF again /\ phase = "up" THEN delayed \cup {j} ELSE delayed

Busy == {s \in Slots : stage[s] # "idle"}
Alive == phase # "exited"       \* the process; it may live on after Start returned
Fault == faults < MaxFaults /\ faults' = faults + 1

(***************************************************************************)
(* Redis and the other servers.                                            *)
(***************************************************************************)
\* A client enqueues a new job.
Arrive(j) ==
    /\ j \notin ready \cup delayed \cup rival /\ lease[j] = Absent
    /\ \A s \in Slots : slot[s] # j
    /\ ready' = ready \cup {j}
    /\ UNCHANGED <<delayed, lease, rival, pollVars, sem, jobVars, beatVars, stopVars,
                   clean, faults>>

\* promoteLoop, of this or of another server; an operator who retries a dead job
\* has the same effect
Promote(j) ==
    /\ j \in delayed
    /\ delayed' = delayed \ {j}
    /\ ready' = ready \cup {j}
    /\ UNCHANGED <<lease, rival, pollVars, sem, jobVars, beatVars, stopVars, clean, faults>>

\* the recovery sweep, of this or of another server
Sweep(j) ==
    /\ lease[j] = 0
    /\ ready' = ready \cup {j}
    /\ lease' = [lease EXCEPT ![j] = Absent]
    /\ clean' = clean \ {j}
    /\ UNCHANGED <<delayed, rival, pollVars, sem, jobVars, beatVars, stopVars, faults>>

\* dequeueScript
Grant(j) ==
    /\ j \in ready
    /\ ready' = ready \ {j}
    /\ lease' = [lease EXCEPT ![j] = LeaseTicks]

\* ackScript, nackScript, rescheduleScript, cancelScript, whoever calls them: the
\* job loses its lease and is gone, or waits to run again
Report(j, again) ==
    /\ lease' = [lease EXCEPT ![j] = Absent]
    /\ delayed' = IF again THEN delayed \cup {j} ELSE delayed

\* Another server takes the job, keeps its lease, and ends it.
RivalTake(j) ==
    /\ QueueOf[j] \in Shared
    /\ Grant(j)
    /\ j \notin rival
    /\ rival' = rival \cup {j}
    /\ UNCHANGED <<delayed, pollVars, sem, jobVars, beatVars, stopVars, clean, faults>>

RivalEnd(j, again) ==
    /\ j \in rival
    /\ Report(j, again)
    /\ rival' = rival \ {j}
    /\ UNCHANGED <<ready, pollVars, sem, jobVars, beatVars, stopVars, clean, faults>>

(***************************************************************************)
(* pollWeighted and pollStrict.  How long the loop sleeps after a round    *)
(* that fetched nothing does not matter here.                              *)
(***************************************************************************)
\* The top of the outer loop: the context is not done
PollHead ==
    /\ phase = "up"
    /\ pc = "head"
    /\ pc' = "acquire"
    /\ UNCHANGED <<redisVars, strict, rotation, pos, over, failed, sem, jobVars, beatVars,
                   stopVars, clean, faults>>

\* ctx.Done, at the top, while waiting for the semaphore, or asleep
PollQuit ==
    /\ phase # "up" /\ Alive
    /\ pc \in {"head", "acquire"}
    /\ pc' = "done" /\ pos' = 1
    /\ over' = [q \in QueueNames |-> 0] /\ failed' = [q \in QueueNames |-> 0]
    /\ UNCHANGED <<redisVars, strict, rotation, sem, jobVars, beatVars,
                   stopVars, clean, faults>>

\* room in the channel
TokenFree == sem < Concurrency

\* sem <- struct{}{}, then Dequeue is called
Acquire ==
    /\ phase = "up"
    /\ pc = "acquire"
    /\ TokenFree
    /\ sem' = sem + 1
    /\ pc' = "call"
    /\ UNCHANGED <<redisVars, strict, rotation, pos, over, failed, jobVars, beatVars,
                   stopVars, clean, faults>>

\* the queue after this one in the round, or a new round
Advance ==
    IF pos < Len(rotation)
    THEN pc' = "acquire" /\ pos' = pos + 1
    ELSE pc' = "head" /\ pos' = 1

\* select may choose the semaphore although the context is done: the call then
\* fails without reaching Redis, and the token is returned
AcquireCancelled ==
    /\ phase # "up" /\ Alive
    /\ pc = "acquire"
    /\ TokenFree
    /\ Advance
    /\ UNCHANGED <<redisVars, strict, rotation, over, failed, sem, jobVars, beatVars,
                   stopVars, clean, faults>>

ReleaseToken == sem' = sem - 1

\* what the queues are owed once a call for q was answered, with a job or without
PassOver(q, taken) ==
    /\ over' = [p \in QueueNames |->
          IF p = q THEN 0
          ELSE IF taken /\ (strict => \E i \in 1 .. pos : rotation[i] = p)
          THEN over[p] + 1 ELSE over[p]]
    /\ failed' = [failed EXCEPT ![q] = 0]

\* strict: break, so that the next round starts from the best queue
AfterTake == IF strict THEN pc' = "head" /\ pos' = 1 ELSE Advance

\* rec # nil: a goroutine gets the job and the token
Take(j, s) ==
    /\ Alive /\ pc = "call"
    /\ QueueOf[j] = rotation[pos]
    /\ stage[s] = "idle"
    /\ Grant(j)
    /\ slot' = [slot EXCEPT ![s] = j]
    /\ stage' = [stage EXCEPT ![s] = "start"]
    /\ PassOver(rotation[pos], TRUE)
    /\ AfterTake
    /\ UNCHANGED <<delayed, rival, strict, rotation, sem, inflight, beatVars, stopVars,
                   clean, faults>>

\* rec == nil: nothing is ready, or the queue is paused.  Operators pause and resume
\* at any time and nothing else reads the flag, so it is not kept: every call may find
\* it set.
Miss ==
    /\ Alive /\ pc = "call"
    /\ PassOver(rotation[pos], FALSE)
    /\ ReleaseToken
    /\ Advance
    /\ UNCHANGED <<redisVars, strict, rotation, jobVars, beatVars, stopVars, clean, faults>>

\* err # nil: logged, and on to the next queue, not knowing what this one holds
CallFailed ==
    /\ failed' = [failed EXCEPT ![rotation[pos]] = @ + 1]
    /\ ReleaseToken
    /\ Advance

\* The call does not reach Redis, or no longer, because the context is done.
DequeueFails ==
    /\ Alive /\ pc = "call"
    /\ Fault \/ (phase # "up" /\ UNCHANGED faults)
    /\ CallFailed
    /\ UNCHANGED <<redisVars, strict, rotation, over, jobVars, beatVars, stopVars, clean>>

\* The script ran, but its reply was lost.
LoseReply(j) ==
    /\ Alive /\ pc = "call"
    /\ QueueOf[j] = rotation[pos]
    /\ Fault
    /\ Grant(j)
    /\ CallFailed
    /\ UNCHANGED <<delayed, rival, strict, rotation, over, jobVars, beatVars, stopVars, clean>>

(***************************************************************************)
(* processJob, in the goroutine of slot s.                                 *)
(***************************************************************************)
\* the deferred calls: s is idle, its token is back
Return(s) ==
    /\ slot' = [slot EXCEPT ![s] = Idle]
    /\ stage' = [stage EXCEPT ![s] = "idle"]
    /\ ReleaseToken

\* no handler for the kind (nack, straight to the dead letters), or rate limited
\* (rescheduled); an error of the call is ignored
Refuse(s, again) ==
    /\ Alive /\ stage[s] = "start"
    /\ \/ Report(slot[s], again) /\ UNCHANGED faults
       \/ Fault /\ UNCHANGED <<lease, delayed>>
    /\ Return(s)
    /\ UNCHANGED <<ready, rival, pollVars, inflight, beatVars, stopVars, clean>>

\* The handler is about to run in time, and nobody else has the job or will get it
\* from a leftover entry of another set.
InTime(s) == LET j == slot[s] IN
    /\ lease[j] >= LeaseTicks - HookTicks
    /\ j \notin ready \cup delayed \cup rival
    /\ \A t \in Slots : slot[t] = j => t = s

\* OnStart hooks have run: inflight.Store, then the handler is called
Track(s) == LET j == slot[s] IN
    /\ Alive /\ stage[s] = "start"
    /\ stage' = [stage EXCEPT ![s] = "work"]
    /\ inflight' = inflight \cup {j}
    /\ clean' = IF InTime(s) THEN clean \cup {j} ELSE clean \ {j}
    /\ UNCHANGED <<redisVars, pollVars, sem, slot, beatVars, stopVars, faults>>

\* The handler returns and its outcome reaches Redis, under finCtx; hooks and the
\* workflow come next.
Finish(s, again) ==
    /\ Alive /\ stage[s] = "work"
    /\ Report(slot[s], again)
    /\ stage' = [stage EXCEPT ![s] = "end"]
    /\ clean' = clean \ {slot[s]}
    /\ UNCHANGED <<ready, rival, pollVars, sem, slot, inflight, beatVars, stopVars, faults>>

\* The call that reports the outcome fails: processJob returns at once.
FinishFails(s) ==
    /\ Alive /\ stage[s] = "work"
    /\ Fault
    /\ stage' = [stage EXCEPT ![s] = "end"]
    /\ clean' = clean \ {slot[s]}
    /\ UNCHANGED <<redisVars, pollVars, sem, slot, inflight, beatVars, stopVars>>

\* processJob returns: inflight.Delete, wg.Done, and the token
Release(s) ==
    /\ Alive /\ stage[s] = "end"
    /\ inflight' = inflight \ {slot[s]}
    /\ Return(s)
    /\ UNCHANGED <<redisVars, pollVars, beatVars, stopVars, clean, faults>>

(***************************************************************************)
(* heartbeatLoop.                                                          *)
(***************************************************************************)
BeatStart ==
    /\ phase = "up"
    /\ beat = HeartbeatEvery
    /\ beat' = 0
    /\ visiting' = inflight
    /\ UNCHANGED <<redisVars, pollVars, sem, jobVars, stopVars, clean, faults>>

\* extendLeaseScript: ZADD XX
Extended(j) == [lease EXCEPT ![j] = IF @ = Absent THEN Absent ELSE LeaseTicks]

Extend(j) ==
    /\ Alive /\ j \in visiting
    /\ lease' = Extended(j)
    /\ visiting' = visiting \ {j}
    /\ UNCHANGED <<ready, delayed, rival, pollVars, sem, jobVars, beat, stopVars, clean,
                   faults>>

\* The call fails; the job must do with its old lease until the next round.
ExtendFails(j) ==
    /\ Alive /\ j \in visiting
    /\ Fault
    /\ visiting' = visiting \ {j}
    /\ clean' = clean \ {j}
    /\ UNCHANGED <<redisVars, pollVars, sem, jobVars, beat, stopVars>>

(***************************************************************************)
(* Time and shutdown.                                                      *)
(***************************************************************************)
\* The other servers keep the leases of their jobs.
Aged == [j \in Jobs |-> IF lease[j] > 0 /\ j \notin rival THEN lease[j] - 1 ELSE lease[j]]

Tick ==
    /\ phase = "up" => beat < HeartbeatEvery
    /\ visiting = {}
    /\ phase = "stopping" => drain < ShutdownTicks
    /\ lease' = Aged
    /\ beat' = IF phase = "up" THEN beat + 1 ELSE beat
    /\ drain' = IF phase = "stopping" THEN drain + 1 ELSE drain
    /\ UNCHANGED <<ready, delayed, rival, pollVars, sem, jobVars, visiting, phase, clean,
                   faults>>

\* A signal, or Stop: the context is cancelled.  A heartbeat call that was sent may
\* still take effect, the others of the round fail.
Stop ==
    /\ phase = "up"
    /\ phase' = "stopping"
    /\ beat' = 0
    /\ visiting' \in {{}} \cup {{j} : j \in visiting}
    /\ over' = [q \in QueueNames |-> 0] /\ failed' = [q \in QueueNames |-> 0]
    /\ UNCHANGED <<redisVars, strict, rotation, pc, pos, sem, jobVars, drain, clean, faults>>

\* wg.Wait has returned: the loops and all jobs are done
Drained ==
    /\ phase = "stopping"
    /\ pc = "done" /\ Busy = {} /\ visiting = {}
    /\ phase' = "drained"
    /\ UNCHANGED <<redisVars, pollVars, sem, jobVars, beatVars, drain, clean, faults>>

\* ShutdownTimeout has passed; the goroutines run on until the process ends
Timeout ==
    /\ phase = "stopping"
    /\ drain = ShutdownTicks
    /\ phase' = "forced"
    /\ UNCHANGED <<redisVars, pollVars, sem, jobVars, beatVars, drain, clean, faults>>

\* The process ends, after Start has returned or in a crash.
Exit ==
    /\ Alive
    /\ phase' = "exited"
    /\ pc' = "done" /\ pos' = 1 /\ sem' = 0
    /\ over' = [q \in QueueNames |-> 0] /\ failed' = [q \in QueueNames |-> 0]
    /\ slot' = [s \in Slots |-> Idle]
    /\ stage' = [s \in Slots |-> "idle"]
    /\ inflight' = {} /\ clean' = {}
    /\ beat' = 0 /\ visiting' = {} /\ drain' = 0
    /\ UNCHANGED <<redisVars, strict, rotation, faults>>

-----------------------------------------------------------------------------
PollStep == \/ PollHead \/ PollQuit \/ Acquire \/ AcquireCancelled \/ Miss
            \/ DequeueFails
            \/ \E j \in Jobs : LoseReply(j) \/ \E s \in Slots : Take(j, s)

JobStep(s) == \/ \E again \in BOOLEAN : Refuse(s, again) \/ Finish(s, again)
              \/ Track(s) \/ FinishFails(s) \/ Release(s)

Next ==
    \/ \E j \in Jobs : \/ Arrive(j) \/ Promote(j) \/ Sweep(j) \/ RivalTake(j)
                       \/ \E again \in BOOLEAN : RivalEnd(j, again)
                       \/ Extend(j) \/ ExtendFails(j)
    \/ PollStep
    \/ \E s \in Slots : JobStep(s)
    \/ BeatStart \/ Tick \/ Stop \/ Drained \/ Timeout \/ Exit

Spec == Init /\ [][Next]_vars

-----------------------------------------------------------------------------
(***************************************************************************)
(* Properties.                                                             *)
(***************************************************************************)
\* A job whose handler was started in time and alone keeps its lease, so that no
\* recovery gives it to anybody else: for as long as the server runs and however
\* long the handler takes, and while it drains, without a heartbeat, for as long as
\* the last lease is sure to last.
LeaseHeld == \A j \in clean :
    (phase = "up" \/ (phase = "stopping" /\ drain < LeaseTicks - HookTicks - HeartbeatEvery))
        => lease[j] > 0

\* How many jobs of other queues are taken between two calls for q: one for each other
\* place of a weighted rotation; in strict mode one, which ends the round.
Others(q) == IF strict THEN 1 ELSE Len(rotation) - Weight(q)

\* A queue waits for a bounded number of jobs: Others(q) until a call for it is
\* answered, and as many again for each call that failed before that.  (In strict mode
\* only jobs of worse queues are counted.)
BoundedOvertaking == \A q \in QueueNames : over[q] <= (1 + failed[q]) * Others(q)

\* What the comment on StrictPriority says, "lower-priority queues are only checked when
\* all higher ones are empty", with a job that arrives after the better queue said it was
\* empty forgiven: no queue is checked in a round in which the call for a better one
\* failed and that one has a job.
LowerOnlyWhenHigherEmpty == strict /\ phase = "up" /\ pc = "call" =>
    \A i \in 1 .. pos - 1 : failed[rotation[i]] > 0 => \A j \in ready : QueueOf[j] # rotation[i]

\* The semaphore holds one token per job goroutine and one for the call of the poll
\* loop, on every way a call or a job can end: none leaks, none is returned twice,
\* and there are never more goroutines than Concurrency.
TokensMatch == sem = Cardinality(Busy) + (IF pc = "call" THEN 1 ELSE 0)
               /\ sem <= Concurrency

\* When Start logs that all jobs are drained and no call has failed, the server has
\* left no job behind for recovery to run again: what it took, up to the last call of
\* the poll loop, has been reported, although the context was cancelled meanwhile.
DrainLeavesNothing == phase = "drained" /\ faults = 0 =>
    /\ inflight = {}
    /\ \A j \in Jobs : lease[j] # Absent => j \in rival
=============================================================================
