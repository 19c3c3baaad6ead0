# Verification of winter

TLA+ models of [winter](../src), a distributed task queue on Redis, with TLC
runs that check them on small instances and TLAPS proofs that hold for every
size.  A definition's source lines are listed in `PROJECT.json` under `map`.

## The system

| Component | Source | State | Operations |
|---|---|---|---|
| Job queue | `internal/queue/scripts.go`, `queue.go` | Redis: a hash per job; per queue the sorted sets *ready* (by priority), *delayed* (by due time), *lease* (by expiry), the set *active*, the list *dead*, a pause flag; unique keys; a job set per worker | one Lua script each for enqueue, dequeue, ack, nack, reschedule, cancel, extend lease, recover, promote, retry dead, purge dead |
| Client | `client.go`, `winter.go` | none of its own (Redis: a result per job) | Enqueue, EnqueueMany, WaitForResult |
| Server | `server.go` | the semaphore, the in-flight map, the wait group, the shutdown context | poll (weighted or strict), process a job, heartbeat, promote loop, shutdown drain |
| Lease recovery | `internal/worker/recovery.go` | none | a sweep every 30 s |
| Cron | `internal/scheduler/cron.go` | Redis hash: next run per entry | seed, tick: read, compare-and-swap, enqueue |
| Workflows | `internal/workflow/*.go` | Redis: a JSON record, a counter (chain, group), a set of open headers (chord) | create, OnJobCompleted, OnJobFailed |
| Rate limiter | `internal/ratelimit/limiter.go` | Redis: token bucket per kind | Allow |
| gRPC service | `internal/server/grpc.go`, `cmd/server` | none | the queue operations for remote workers, plus recovery and cron |
| Inspector, CLI | `inspector.go`, `cmd/winter` | none | retry, purge, pause, resume, listings |

All shared state is in Redis.  A script is atomic; everything a process does
between two Redis calls interleaves with every other process.  Processes crash;
replies get lost, and the go-redis client (whose default retries are kept) then
sends the same command again.  The scripts that end a job check neither who
calls them nor what state the job is in.  The hard behaviours follow from that:
stale workers, repeated scripts, records that are loaded, changed and stored in
separate calls, clocks that disagree.  `hazards` in `PROJECT.json` lists them by
line.

What correctness means, per component:

* queue: no accepted job is forgotten; an undisturbed job is in one place, with
  one owner, and keeps to its retry budget; a unique key belongs to live work;
  waiting and orphaned jobs are eventually taken up;
* cron: a window is enqueued by one instance, once, but for resends; missed windows are skipped; the
  stored run never moves back;
* workflows: tasks in order and once; "completed" and the callback only after
  the last task; completion and callback are not missed;
* server: leases outlive handlers, the semaphore loses no token, the drain leaves no
  job behind, no queue waits for more than a bounded number of jobs;
* gRPC service: one owner within the lease, the graceful stop ends, a job whose
  worker or reply is lost is handed out again;
* rate limiter: never more than the bucket allows, an exact retry time, every job
  admitted in the end;
* submission: success means stored, failure means a known part was stored; a stored
  task is taken, never early and never without a reason.

## Modules

### JobQueue

One queue and everyone who calls its scripts.  The variables are the Redis keys
(`state`, `attempt`, `opts`, `whole` are the job hash; `whole` says whether it
still has the fields enqueue wrote, which `PurgeDead` removes even from a job that
is active or ready) and what the processes remember: `hold` (the job a worker
runs), `resend` (a call whose reply it lost) and `unsure` (an enqueue whose reply
the client lost).

* *Time* is relative: a due time or a lease expiry is stored as the ticks left,
  0 meaning "now or earlier", and `Tick` lets one pass.  Scripts only compare
  such scores with now, so nothing else is lost.
* *A worker* is one execution slot with its own worker id.  The slots of a real
  server share an id; the id is used only for the set of its jobs.
* *One queue*: the scripts touch the keys of one queue and the unique keys,
  which jobs of this queue already contend for.
* *Left out*: statistics counters, timestamps, error texts, payloads, results.
* *Bounds*: `MaxDisruptions` caps lost replies, crashes of a busy worker, early
  recoveries and pauses.  Retrying the dead, purging and expiry of keys are not
  capped.  `reclaimed`, `replayed` and `disruptions` are history: they name the
  jobs a lease recovery took back or a script ran twice for, since no property of
  a single owner can hold for those.
* A dequeued record without a kind (its hash was purged) is `Blank`: no handler
  is found and the nack goes to the job with the empty id, so the real one stays
  active until its lease ends.  `NackError` is a nack on such a hash, which fails
  half way and keeps the writes made so far.

### Cron

Any number of scheduler instances over one hash.  Seeding, reading, swapping and
enqueuing are separate steps; an instance may crash between any two, any call may
fail.  `now` is whatever the instance's clock shows: the clocks of two instances,
or of one instance at two ticks, are unrelated.  A schedule is a function `SchedNext`
of which only `SchedNext[e][t] > t` is assumed, as robfig/cron documents.
`ReadSkip` covers a read that fails, a missing field and a run that is not due.  A
lost reply of the swap makes the client repeat it and learn "no"; the window is
lost, which `Swap`'s second disjunct models.  A lost reply of the enqueue makes the
client enqueue the window again (`EnqueueLost`, counted in `lost`, at most `MaxResends`
times per window).

### Workflow

One workflow, of a kind chosen initially (`Size` gives the number of tasks per
kind): the client that creates it, call by call, the slots that run its jobs and
then run `OnJobCompleted` or `OnJobFailed`: load, advance (INCR, or SREM and
SCARD), save, enqueue.  `mine` is the copy of the record a slot loaded.  The queue
is reduced to what a workflow sees of it: a job waits, is active, and ends;
`Redeliver` gives it out again although somebody has it or acked it, which JobQueue
shows to be possible.  `Abort` is a crash or a failed call, `ExpireRecord` the
record's TTL.  History: `acked`, `repeated` (something was counted or delivered
twice), `retried` (an operator revived a dead job), `raced` (a chord was advanced
before its creation had finished).  `MaxIds` caps the jobs made: 3, one for each task;
a slot that finds no id left waits for ever, which no safety property depends on, and
a callback that is sought for the first time finds one.

### JobLifecycle and JobQueueLife

`JobLifecycle` is the promise to a user, without sets, scripts and clocks: a job is
submitted, waits, is run by one worker at a time, and ends as that worker reports;
a failed run counts against a budget and the one that uses it up is the last; an
operator may revive or remove a dead job.  The promise is void for a job whose lease
was recovered or for which a script ran twice.  `JobQueueLife` maps the queue's keys
to it (`lifeStatus` from the state field, `lifeOwners` from the workers that hold the
job and have not lost a reply) and states `ImplementsLifecycle`, which is both
model-checked and proved.

### Server

One process of `server.go`: the poll loop (weighted or strict, chosen initially)
with its rotation and semaphore, a goroutine per job, the in-flight map, the
heartbeat, and the shutdown.  Each blocking point of the code is a step of its own:
taking a token, the answer of Dequeue, the end of the OnStart hooks, the report of
the outcome, the return of the goroutine, every single ExtendLease of a heartbeat
round.  Redis is reduced to *ready*, *delayed* and *lease* (JobQueue proves that
*active* and *lease* have the same members), the other servers to `RivalTake` and
`RivalEnd`, and promotion to a move that may happen at any time (`delayed` also stands
for the dead an operator may retry).

* *Time* are ticks; `Tick` waits for a heartbeat that is due and for the end of
  ShutdownTimeout, and for nothing else: hooks, handlers and calls take any time.
* `clean` holds the jobs `LeaseHeld` is about: the handler was started within
  `HookTicks` of the dequeue, nobody else had the job then, and no call to extend its
  lease failed since.
* `over` counts, per queue, the jobs of other places taken since a call for it was last
  answered, `failed` the calls for it that failed since then: a queue whose call failed has
  not been looked at (`CallFailed`), one that is empty or paused has (`Miss`).
* The semaphore `sem` is what limits the goroutines; `Slots` only names them, and the run
  has one more than `Concurrency`.
* `Shared` are the queues other servers poll too.

### Remote

Remote workers and the gRPC process of `cmd/server`: Enqueue, the long poll of
Dequeue (call, sleep, deadline, a client that gives up at any moment), Ack and Nack
that arrive late or twice, recovery, GracefulStop, crashes and restarts.  The process
has no promote loop and its Heartbeat extends no lease, so neither is here; whether
a winter server runs beside it is chosen initially (`promoter`).  `age` is how long
ago the job was popped, `late` the jobs somebody reported after his lease had run
out.  The reply of an enqueue may be lost (`unsure`); the client then sends it again, and
the second run of the script makes ready a job that a worker may already have
(`replayed`).  While the queue is paused a poll finds nothing, whatever is ready.

### Limiter

The token bucket of one kind and the servers that ask it in `processJob`.  A token is
`Interval` units, so that the refill of `max / intervalMs` per millisecond is exactly
`Max` units; the rounding of doubles is left out.  Each server's clock is ahead of
true time by up to `Skew`, fixed; the key expires.  `debt` is history: the units
admitted less what the steady rate has paid back, that is the most by which any
window ending now exceeds the rate.

### Submit

One call that submits tasks, by each of seven ways (Enqueue, EnqueueMany, Chain, Group,
Chord, gRPC, command line): the record each makes of options, task and defaults
(`ByEnqueue`, `ByMany`, `BySpec`, `ByRpc`, `ByCommand`), then the commands, one by one, which
workers see at once.  A command may be answered with an error, a connection may break
before, within or after a pipeline and the pipeline be sent again.  Workers take the
jobs and report "ack", "again" (nack with a retry left, reschedule) or "end" (nack
without one, no handler, cancel); they may crash, their lease may expire early, and the
reply to a report may be lost, so that it runs twice, by when the job may be with somebody
else.  `held` counts the workers that have a copy, since a resent job can be with two.
Which of the reports the budget allows is in JobQueue; here each is possible.  `resent`
and `again` count, per task, the reasons it may be taken once more.  A completed task's
result is stored after the ack; it may be lost, and one caller waits for the result of
some task (WaitForResult).  A chain's later tasks and a chord's callback are valid or
not and otherwise absent: storing them is Workflow's business, and it may fail.

### MC modules

The `MC...` modules only define values for constants and symmetry sets (workers, jobs
and keys; instances; slots).  Runs with liveness properties use no symmetry.

## Runs

| Run | Instance | Shows |
|---|---|---|
| `queue_one_job` | 1 job, 2 workers, 3 disruptions, fair | `LeaseCoversActive`, `NoLostJob`, `SoleOwner`, `RetryBudget`, `ImplementsLifecycle`, `EventuallyTaken`, `OrphanRecovered` |
| `queue_unique` | 2 jobs of max_retries -1, 2 workers, 1 key, 2 disruptions | `KeyOwnerLive`, `KeyFreedByOwner`, `RetryBudget` |
| `cron` | 2 instances, 2 entries, 3 clock readings, 1 resend per window | `AtMostOncePerWindow`, `NoCatchUpBurst`, `NextRunAdvances` |
| `workflow` | chain of 3, group of 2, chord of 2, 2 slots, 1 disruption, fair | `CompletedMeansAllAcked`, `ChainInOrder`, `ChainMonotone`, `CallbackAfterHeaders`, `ChainSettles`, `CallbackFires` |
| `server` | 2 jobs in 2 queues of weights 2 and unset, concurrency 2, lease 2 ticks, heartbeat every tick, 1 failed call | `LeaseHeld`, `BoundedOvertaking`, `TokensMatch`, `DrainLeavesNothing` |
| `remote` | 1 job, 2 workers, lease 2 ticks, poll 1 tick, 1 fault, fair | `FreshOwner`, `StopEnds`, `JobsHandedOut` |
| `limiter` | 4 jobs, 2 servers, 2 tokens per 5 ticks, clocks up to 2 apart, 1 failed check, fair | `RateBound`, `RetryExact`, `EventuallyAdmitted` |
| `submit` | 7 ways, with and without options, 1 or 3 tasks of 3 sorts, pipelines of 2, 1 or 2 faults, fair | `AcceptedIsStored`, `PartialIsPrefix`, `OnceAndInTime`, `AcceptedRuns` |

The bounds are small but reach the interesting cases: two workers are enough for a
stale owner beside a new one; three disruptions for "recovered, then its late nack
repeated"; a lease of one tick for expiry at any moment; two retries for
the last and the last but one attempt, and the -1 that the gRPC Enqueue does not replace
for a budget below one; `BatchLimit` 1 with two jobs for ids left over by a sweep (but
liveness is checked with one job, so that leftovers being found is not); a chain of three
for a first, a middle and a last task.  In `server` a job
id is used again when its job is gone, so two of them give any number of jobs one
after the other, also a retry that arrives while the first goroutine is about to
return; the lease is longer than a heartbeat period by as little as the assumption
allows, and `HookTicks` is 0: hooks that take time are left to the theorem.  In `limiter` four jobs empty the bucket twice over and 5 is no multiple of 2,
so retry times are rounded; `MinDelay` 2 is more than the shortest of them.  In `submit` three tasks make a full and a partial
pipeline, and a call is given two faults where at most one task sets a result.  The theorems do away with the bounds where they exist.

Deadlock is checked for all but workflows and submissions, which end.

### Disagreements found

Four runs are expected to fail; each checks a sentence of the code's own
documentation (quoted under `findings`).

* `cron_exactly_once`: the package promises exactly-once; the swap precedes the
  enqueue, so a crash or a failed enqueue loses the window.  (A resent enqueue also
  doubles one: `AtMostOncePerWindow` counts those.)
* `group_completes`: of two servers that finish the last two tasks, the slower one
  stores its stale *running* record over *completed*.
* `callback_early`: a chord's header that finishes before the client has
  enqueued the next one fires the callback.  The same race can also do the
  opposite: a header whose SREM precedes its own SADD stays open for ever, and the
  callback never comes; this is why `CallbackFires` excludes raced chords.
* `server_strict`: in strict mode "lower-priority queues are only checked when all
  higher ones are empty"; after a Dequeue that failed the round goes on to the lower
  queues although the higher one has a job.

Observed while modelling, without a run of their own:

* `validTransitions` in `winter.go:60-69` says which changes of state are legal, and
  `winter_test.go:35` asserts that *active to pending* is not.  The code does otherwise:
  `rescheduleScript` and `recoverLeasesScript` take a job from *active* to *pending*, and
  `nackScript` from *active* to *dead* without passing *failed*, a state no script
  ever stores.  Nothing consults the table (`ValidTransition` is called by its test only).
  What a job's states really do is `JobLifecycle`;
* workflows: after a stale save a chord's callback finds, when it completes, a
  running chord with no open header and is enqueued again; INCR counts a repeated
  completion twice, so a chain may skip a task (`ChainInOrder` excludes `repeated`); a
  crash between ack and OnJobCompleted strands the workflow (`ChainSettles` excepts
  disruptions), and so does an ack over gRPC, which never calls OnJobCompleted;
* the heartbeat stops when the shutdown begins, before the handlers do, so
  `LeaseHeld` ends when the last lease may have run out; with the code's 30 s lease,
  15 s heartbeat and 30 s shutdown a handler is sure of its lease for 15 s only;
* the in-flight map is keyed by job id.  A job that is retried and taken by the
  same server before the goroutine of the first run has returned (its hooks and
  the workflow's calls come after the report) is taken out of the map by the first
  one's deferred Delete, and its lease is no longer extended.  `InTime` excludes it;
* a failed Allow lets the job run unchecked, hence `Interval * faults` in `RateBound`;
* handlers get the context that the shutdown cancels at once, so one that obeys it
  fails, and the failure counts as an attempt;
* EnqueueMany and workflows let a task's own queue override the option, Enqueue the
  other way round; EnqueueMany and workflows ignore Unique, workflows also In and At
  (`OnceAndInTime` excepts them);
  a chord's callback and a gRPC job get priority 0, better than any default job;
* the gRPC Enqueue replaces a max_retries of 0 but not a negative one; such a job dies with
  its first failure, like one of max_retries 1 (`Budget`);
* a resent enqueue of a gRPC job makes it ready again while a worker has it, so two workers
  run it within their leases (`FreshOwner` excepts `replayed`);
* a result whose SetResult fails after the ack is never stored, and its waiter is not told.

### Fairness

* `queue_one_job`: the promote, recovery and poll loops run until shutdown
  (`server.go`, `recovery.go`), so weak fairness of each; time passes; a handler
  returns (nothing is assumed of how); a paused queue is resumed.  One job only:
  with two the queue promises nothing, since ZPOPMIN prefers better priorities and,
  among equals, smaller ids.
* `workflow`: the client finishes its calls, servers poll, a started OnJob...
  call runs to its end; strong fairness of finishing a job, because `max_retries` bounds the failures and a handler is expected
  to stop rescheduling itself.  `ChainSettles` and `CallbackFires` claim nothing once there
  was a disruption, so nothing is assumed of recovery.
* `remote`: handlers of the process loop on, time passes, recovery and (where there
  is one) the promote loop go on, a worker asks for work and ends its tasks.  No
  fairness for a restart or for a resume: `JobsHandedOut` claims a ready job only while
  the process is up and the queue is not paused, a delayed one only beside a promoter.
* `limiter`: time passes, due jobs are promoted, a ready job is taken by some server.
  Nothing is assumed of which server asks first.
* `submit`: the call goes on; workers, the promote and the recovery loop work, and no
  handler runs for ever; results are stored, a waiter polls, time passes.  All that goes
  wrong is bounded, so a handler stops failing and rescheduling in the end.

## Proofs

`JobQueueProofs` (for any sets of jobs, workers, keys and any constants satisfying
`ConstantsAssumption`), `CronProofs` (any instances, entries, clocks, and
schedules satisfying `ScheduleAssumption`), `JobQueueLifeProofs` (as JobQueueProofs),
`SubmitProofs` (any number of tasks, chunk size and faults; `SubmitAssumption`),
`LimiterProofs` (any bucket, servers and jobs; `LimiterAssumption`, which bounds the
skew of the clocks by an interval), `ServerProofs` (any jobs, queues, weights,
concurrency and timing; `ServerAssumption`: the hooks and one heartbeat period fit into
a lease, and no queue is configured twice), `RemoteProofs` (any jobs, workers, lease and
faults; `RemoteAssumption`) and `WorkflowProofs` (chains, groups and chords of any size,
any slots and disruptions; `WorkflowAssumption`).  Every invariant and every action
property of the passing runs is proved.

* `TypeCorrect`, `LeaseCoversActiveHolds` and `NoLostJobHolds` rest on the
  type invariant and on each other: every script removes an id from *active* and
  from *lease* together, and sets the state together with the structure.  `NoLostJob`
  needs that a state is overwritten only by a script that also places the job,
  whoever calls it.
* `SoleOwnerHolds` is the central one.  Its inductive form adds what is known of the
  calls still to come: a worker that holds an undisturbed job without having lost
  a reply holds an active one, an enqueue whose reply was lost concerns a job that
  any further run would mark as replayed.  `RetryBudgetHolds` follows from it,
  `KeyOwnerLiveHolds` with a statement about the job a key names.  `KeyFreedByOwnerHolds` needs the types only: an enqueue
  takes a key when it is free, and `ReleaseKey` compares the owner before it deletes.
* `AtMostOnce`: `SwapReady` (who is about to swap read a due run, and the stored run has
  not moved back since), `FiredIsPast` (a fired window lies before the stored run)
  and `SoleClaimant` (who is about to enqueue is alone with its window, which is not
  fired more often than it was resent) are inductive together.  The stored run strictly increases with every
  swap, whatever the clocks show: that is `RunsAdvance`, and it is what makes the
  compare-and-swap safe against a value that returns.  `NoBurst` needs
  `UnseededUnclaimed`: an entry without a stored run was never swapped.

* `LifecycleImplemented`: every initial state of JobQueue maps to one of JobLifecycle
  and every step to a step.  Per action there is one job, or a set of jobs, whose
  life moves; the lemma `SameLife` gives the others.  What makes a step legal there is
  JobQueue's inductive invariant: `SoleOwner`'s strengthening says that the reporting
  worker is the only owner, `RetryBudget` that the failure fits into the budget.  A
  recovered or repeated job is in `disturbed'` at once, so that its step is free.

* `AcceptedStored` and `FailedPrefix` rest on `PipeInv`: all chunks before the current
  one are stored, within it everything executed without an error is, behind it nothing.
  `InvalidInv` adds that a task that does not marshal ends the call before the first
  chunk.  `TakenForAReason` adds `OnceInv`: the times a task was taken and the sets it can still
  be taken from are together at most the reasons counted for it, where a command still
  to be sent has its reason yet to come; and `TimeInv`: what is ready, or active and may
  be recovered, is due.  `SubmitTypes` adds `HistoryInv`: what
  is said of a task is said of one that was stored.
* `RateBounded`: `RateBound` alone is not inductive.  `DebtInv` says that what was
  admitted of late and what the bucket still grants, seen with the right time and
  capped, are at most a full bucket together; and that the debt is at most
  `Max * ttl`, so it is paid when the key expires and the next caller finds the bucket
  full.  The second needs the skew to be at most one interval, because the key
  lives for two.
* `RetryIsExact` rests on `RetryInv`: as long as nobody else has called, the wait that
  is left covers what the denied server lacks, one tick less does not, and the key
  outlives it.  That the rounded-up quotient fits into the life of the key needs `Bounds`:
  the bucket is overdrawn by no more than the skew allows.  `LimiterTypes` is part of it.
* `LeaseHeldAlways`: `AloneInv` says that a clean job has one goroutine, is known to the
  heartbeat and in no set from which anybody could take it; `FloorInv` gives what its
  lease has left at least, as a function of the ticks since the last heartbeat, whether
  this round has still to visit it, and the ticks since the shutdown began.
* `TokensMatchAlways` adds to the count that there is a free slot while the poll loop
  calls Dequeue.  `DrainedClean` rests on `DrainInv`: as long as no call failed, what is
  leased is in the hands of a goroutine that has not reported yet, or of another server.
* `OvertakingIsBounded`: `WeightedBlocks` says what `buildWeightedQueues` returns: each
  queue has its places in one block, as many as its weight, and nowhere else.
  `FlattenSeq` is a recursive function, so this is an induction over the queues;
  `UpTo` does it for a *set* of numbers, from the fact that < is well-founded on
  the naturals, where the library's own induction theorems cannot be used.  `PlaceInv`
  then bounds, for every place the loop can be at, how often a queue was passed over: by
  the places behind its block and those before `pos`.  It holds while the server is up or
  a call is under way; a loop that only notices the cancelled context moves on without
  polling.  In strict mode the queues before `pos` were found empty in this round, or the
  call for them failed and is counted.
  `ServerTypes` puts `Basic`, `TokenInv` and `PollInv` together.
* `FreshOwnerHolds`: a job nobody reported late and whose enqueue ran once is in one of the ready, delayed and
  lease sets at most (`PlaceInv`), so that it is popped only when no fresh worker has
  it; `CallInv` ties the job a worker has to the stage of its call.

* `ChainKeepsOrder`, `CompletedIsAcked`, `CallbackIsLast` and `ChainIsMonotone` come from
  one inductive invariant, because a slot that is between two calls to Redis acts on a copy
  of the record, and what that copy is worth depends on all the others:
  * `SlotInv`, `JobInv`, `CreateInv`: what a slot has in its hands at each step, and how
    far the client is;
  * `OnceInv`: unless a job was delivered twice one slot at most deals with it, and an
    acked job stays completed;
  * `CountInv` and `DoneInv`: the counter is at most the number of acked jobs no slot has
    still to count, and nobody takes a chain or group for complete before it is N;
  * `IdInv` and `ChainInv`: of a chain the id of a job is the number of its task, all
    jobs but the newest are acked, and who deals with a completion deals with the newest;
  * `RecordInv` and `FailInv`: the stored record, and the copies about to replace it, do
    not run ahead of the counter; only a dead job makes a chain fail, and one slot says so;
  * `HeaderInv` and `ChordInv`: a chord nobody advanced during its creation has every
    header among its open dependencies, acked, or not yet added by the client, so that a
    slot which finds no dependency left has seen them all.

Only model-checked is liveness: `EventuallyTaken`, `OrphanRecovered`, `ChainSettles`,
`CallbackFires`, `StopEnds`, `JobsHandedOut`, `EventuallyAdmitted` and `AcceptedRuns`.
Fairness and ENABLED are beyond TLAPS.

## Not modelled

* The arithmetic of the backoff strategies: a retry may wait for any time in JobQueue.
  (`Exponential` overflows beyond some 33 attempts and then retries at once.)
* The conversion of a unique period to seconds: one below a second becomes 0, and the
  job is enqueued as one without a key.
* Configuration, generated code, the test helper and examples have no state of
  interest.  Listings and statistics only read.  The gRPC interceptors log and turn a
  panic into an error.

## Plan

Every component with state of its own is modelled, and every safety property of the
passing runs is proved.  What could follow:

* what the proofs need of Redis across modules: Server, Remote and Workflow each have a
  reduced queue, and only Server's has a counterpart that is proved (`LeaseCoversActive`);
* the safety half of the liveness arguments, as bounds that decrease with each step.
