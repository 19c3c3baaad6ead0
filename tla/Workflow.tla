------------------------------ MODULE Workflow ------------------------------
(***************************************************************************)
(* One workflow of internal/workflow: a chain, a group or a chord, from    *)
(* its creation by a client to the last completion some server reports.    *)
(* The record is a JSON string that servers load, change and store in      *)
(* separate Redis calls; only the counter (chain, group) and the set of    *)
(* open headers (chord) are updated atomically.  Every call is a step, so  *)
(* two servers interleave between load, advance, save and enqueue.         *)
(*                                                                         *)
(* The queue below (module JobQueue) is reduced to what the workflow sees  *)
(* of it: a job waits, is active, and ends; it may be delivered again      *)
(* after a lease recovery or a repeated script call.                       *)
(***************************************************************************)
EXTENDS Integers, FiniteSets

CONSTANTS
    Size,            \* number of tasks (headers) of each kind of workflow considered
    MaxIds,          \* bound on the jobs made; an id is a number
    Slots,           \* goroutines of servers that process a job
    MaxDisruptions   \* bound on crashes, failed calls and repeated deliveries

ASSUME WorkflowAssumption ==
    /\ DOMAIN Size \subseteq {"chain", "group", "chord"}
    /\ \A k \in DOMAIN Size : Size[k] \in Nat \ {0}
    /\ MaxIds \in Nat
    /\ MaxDisruptions \in Nat

Ids  == 1 .. MaxIds
NoId == 0

VARIABLES
    kind,        \* "chain", "group" or "chord": the record's Type
    rec,         \* winter:workflow:<id>: State, and Current (chain) or Done
    counter,     \* winter:workflow:<id>:counter
    deps,        \* winter:workflow:<id>:deps
    create,      \* what the creating client does next
    made,        \* how many tasks it has enqueued
    task,        \* the task a job was made for; NoTask: id not used yet
    status,      \* the queue's view of a job
    at,          \* what a slot does next
    job,         \* the job it processes
    mine,        \* the copy of the record it loaded
    \* auxiliary
    acked,       \* the jobs some slot acked
    repeated,    \* some job was delivered, or some INCR sent, twice
    retried,     \* an operator retried a dead job
    raced,       \* a chord was advanced before its creation had finished
    disruptions

queueVars  == <<task, status>>
redisVars  == <<rec, counter, deps>>
clientVars == <<kind, create, made>>
slotVars   == <<at, job, mine>>
auxVars    == <<acked, repeated, retried, raced, disruptions>>
vars == <<redisVars, clientVars, queueVars, slotVars, auxVars>>

N        == Size[kind]      \* the record's Total
Tasks    == 1 .. N
Callback == 0
NoTask   == -1

Records == [state : {"running", "completed", "failed", "missing"}, progress : Nat]
Missing == [state |-> "missing", progress |-> 0]

TypeOK ==
    /\ kind \in DOMAIN Size
    /\ rec \in Records
    /\ counter \in Nat
    /\ deps \in SUBSET Ids
    /\ create \in {"save", "enqueue", "dep", "done", "failed"}
    /\ made \in 0 .. N
    /\ task \in [Ids -> Tasks \cup {Callback, NoTask}]
    /\ status \in [Ids -> {"none", "waiting", "active", "completed", "dead", "cancelled"}]
    /\ at \in [Slots -> {"idle", "run", "load", "advance", "save", "enqueue", "loadFailed",
                         "saveFailed"}]
    /\ job \in [Slots -> Ids \cup {NoId}]
    /\ mine \in [Slots -> Records]
    /\ acked \in SUBSET Ids
    /\ repeated \in BOOLEAN /\ retried \in BOOLEAN /\ raced \in BOOLEAN
    /\ disruptions \in Nat

Init ==
    /\ kind \in DOMAIN Size
    /\ rec = Missing
    /\ counter = 0
    /\ deps = {}
    /\ create = "save"
    /\ made = 0
    /\ task = [j \in Ids |-> NoTask]
    /\ status = [j \in Ids |-> "none"]
    /\ at = [s \in Slots |-> "idle"]
    /\ job = [s \in Slots |-> NoId]
    /\ mine = [s \in Slots |-> Missing]
    /\ acked = {}
    /\ repeated = FALSE
    /\ retried = FALSE
    /\ raced = FALSE
    /\ disruptions = 0

(***************************************************************************)
(* Plausible mistakes, used only in place of the definitions they are      *)
(* paired with in PROJECT.json.                                            *)
(***************************************************************************)
AllAtOnce == N                                      \* a chain enqueues every task
LateComplete(p) == p > N                            \* Tasks[Current] out of range
OneShort(p) == p >= N - 1                           \* complete before the last task
OneEarly(s) == Cardinality(deps) <= 1               \* SCARD - 1 = 0 without looking at SREM
ScardFirst(s) == deps = {}                          \* SCARD before SREM
NoSuccessor(s) ==                                   \* advanceChain forgets enqueueTask
    IF kind = "chord" /\ mine[s].state = "completed" THEN {Callback} ELSE {}

Disrupt ==
    /\ disruptions < MaxDisruptions
    /\ disruptions' = disruptions + 1

\* enqueueTask: a job for task t.  The uuid is a number, the least not used.
NewJob(j, t) ==
    /\ task[j] = NoTask
    /\ \A i \in Ids : i < j => task[i] # NoTask
    /\ task' = [task EXCEPT ![j] = t]
    /\ status' = [status EXCEPT ![j] = "waiting"]

(***************************************************************************)
(* The client: CreateChain, CreateGroup, CreateChord.                      *)
(***************************************************************************)
CreateRecord ==
    /\ create = "save"
    /\ rec' = [state |-> "running", progress |-> 0]
    /\ create' = "enqueue"
    /\ UNCHANGED <<kind, counter, deps, made, queueVars, slotVars, auxVars>>

\* the tasks the client enqueues itself
Initial == IF kind = "chain" THEN 1 ELSE N

CreateEnqueue(j) ==
    /\ create = "enqueue"
    /\ NewJob(j, made + 1)
    /\ made' = made + 1
    /\ create' = IF kind = "chord" THEN "dep" ELSE IF made' = Initial THEN "done" ELSE "enqueue"
    /\ UNCHANGED <<kind, redisVars, slotVars, auxVars>>

\* SADD deps id
Track(j) == deps' = deps \cup {j}

CreateDep ==
    /\ create = "dep"
    /\ \E j \in Ids : task[j] = made /\ Track(j)
    /\ create' = IF made = Initial THEN "done" ELSE "enqueue"
    /\ UNCHANGED <<kind, rec, counter, made, queueVars, slotVars, auxVars>>

\* A call fails or the client dies: the client gets an error, what it stored stays.
CreateFails ==
    /\ create \notin {"done", "failed"}
    /\ Disrupt
    /\ create' = "failed"
    /\ UNCHANGED <<kind, redisVars, made, queueVars, slotVars, acked, repeated, retried, raced>>

(***************************************************************************)
(* The queue and the handler, up to the call of OnJobCompleted/Failed.     *)
(***************************************************************************)
\* The slot goes on with record r in its hands, or is done with its job.
Goto(s, step, r) ==
    /\ at' = [at EXCEPT ![s] = step]
    /\ job' = IF step = "idle" THEN [job EXCEPT ![s] = NoId] ELSE job
    /\ mine' = [mine EXCEPT ![s] = IF step = "idle" THEN Missing ELSE r]

Take(s, j) ==
    /\ at[s] = "idle"
    /\ status[j] = "waiting"
    /\ status' = [status EXCEPT ![j] = "active"]
    /\ job' = [job EXCEPT ![s] = j]
    /\ at' = [at EXCEPT ![s] = "run"]
    /\ UNCHANGED <<redisVars, clientVars, task, mine, auxVars>>

\* the slot reports an outcome, the queue records it
Report(s, outcome, step) ==
    /\ at[s] = "run"
    /\ status' = [status EXCEPT ![job[s]] = outcome]
    /\ Goto(s, step, Missing)
    /\ UNCHANGED <<redisVars, clientVars, task, repeated, retried, raced, disruptions>>

Ack(s) == Report(s, "completed", "load") /\ acked' = acked \cup {job[s]}

\* a mistake in place of Requeue: OnJobFailed after every failed attempt
RequeueReports(s) == Report(s, "waiting", "loadFailed") /\ UNCHANGED acked

\* retried after a backoff, or rescheduled
Requeue(s) == Report(s, "waiting", "idle") /\ UNCHANGED acked

\* no retries left, or the handler skips them
Die(s) == Report(s, "dead", "loadFailed") /\ UNCHANGED acked

\* no handler: dead, but processJob returns at once
DieUnhandled(s) == Report(s, "dead", "idle") /\ UNCHANGED acked

\* cancelled: the workflow is not told
CancelJob(s) == Report(s, "cancelled", "idle") /\ UNCHANGED acked

Holders(j) == {s \in Slots : at[s] = "run" /\ job[s] = j}

\* The recovery sweep returns a job whose worker is gone.
Recover(j) ==
    /\ status[j] = "active"
    /\ Holders(j) = {}
    /\ status' = [status EXCEPT ![j] = "waiting"]
    /\ UNCHANGED <<redisVars, clientVars, task, slotVars, auxVars>>

\* The queue delivers a job again although a worker has it or acked it: its
\* lease ran out too early, or the enqueue script ran twice.
Redeliver(j) ==
    /\ status[j] = "completed" \/ (status[j] = "active" /\ Holders(j) # {})
    /\ Disrupt
    /\ status' = [status EXCEPT ![j] = "waiting"]
    /\ repeated' = TRUE
    /\ UNCHANGED <<redisVars, clientVars, task, slotVars, acked, retried, raced>>

RetryDead(j) ==
    /\ status[j] = "dead"
    /\ status' = [status EXCEPT ![j] = "waiting"]
    /\ retried' = TRUE
    /\ UNCHANGED <<redisVars, clientVars, task, slotVars, acked, repeated, raced, disruptions>>

(***************************************************************************)
(* The servers: OnJobCompleted and OnJobFailed.                            *)
(***************************************************************************)
\* "completed" and "failed" are terminal
Advances(r) == r.state = "running"

\* loadRecord; missing or terminal: nothing to do
Load(s) ==
    /\ at[s] = "load"
    /\ Goto(s, IF Advances(rec) THEN "advance" ELSE "idle", rec)
    /\ UNCHANGED <<redisVars, clientVars, queueVars, auxVars>>

\* the value INCR returns
Count(s) == counter + 1

\* Current (or Done) >= Total
Complete(p) == p >= N

\* the slot goes on to store the progress it learnt
Learn(s, p, complete) ==
    Goto(s, "save", [state |-> IF complete THEN "completed" ELSE mine[s].state,
                     progress |-> p])

\* advanceChain, advanceGroup: INCR.  A lost reply makes the client repeat it.
AdvanceCounter(s) ==
    /\ kind \in {"chain", "group"}
    /\ at[s] = "advance"
    /\ \/ counter' = Count(s) /\ UNCHANGED <<repeated, disruptions>>
       \/ counter' = Count(s) + 1 /\ repeated' = TRUE /\ Disrupt
    /\ Learn(s, counter', Complete(counter'))
    /\ UNCHANGED <<rec, deps, clientVars, queueVars, acked, retried, raced>>

\* SCARD after SREM is 0
LastHeader(s) == deps \ {job[s]} = {}

\* advanceChord: SREM, SCARD; repeating it makes no difference
AdvanceChord(s) ==
    /\ kind = "chord"
    /\ at[s] = "advance"
    /\ deps' = deps \ {job[s]}
    /\ Learn(s, N - Cardinality(deps'), LastHeader(s))
    /\ raced' = (raced \/ create # "done")
    /\ UNCHANGED <<rec, counter, clientVars, queueVars, acked, repeated, retried, disruptions>>

\* what is still to be enqueued after the save: the chain's next task, the callback
Following(s) ==
    IF kind = "chain" /\ mine[s].state # "completed" THEN {mine[s].progress + 1}
    ELSE IF kind = "chord" /\ mine[s].state = "completed" THEN {Callback} ELSE {}

\* saveRecord: the whole record, as loaded and changed
Save(s) ==
    /\ at[s] = "save"
    /\ rec' = mine[s]
    /\ Goto(s, IF Following(s) = {} THEN "idle" ELSE "enqueue", mine[s])
    /\ UNCHANGED <<counter, deps, clientVars, queueVars, auxVars>>

EnqueueNext(s, j) ==
    /\ at[s] = "enqueue"
    /\ \E t \in Following(s) : NewJob(j, t)
    /\ Goto(s, "idle", Missing)
    /\ UNCHANGED <<redisVars, clientVars, auxVars>>

\* OnJobFailed does not look at the state it overwrites
LoadFailed(s) ==
    /\ at[s] = "loadFailed"
    /\ Goto(s, IF rec.state = "missing" THEN "idle" ELSE "saveFailed",
               [rec EXCEPT !.state = "failed"])
    /\ UNCHANGED <<redisVars, clientVars, queueVars, auxVars>>

SaveFailed(s) ==
    /\ at[s] = "saveFailed"
    /\ rec' = mine[s]
    /\ Goto(s, "idle", Missing)
    /\ UNCHANGED <<counter, deps, clientVars, queueVars, auxVars>>

\* The server crashes, or a call fails: the error is logged and the slot is
\* free.  Nothing comes back to a job that was acked.
Abort(s) ==
    /\ at[s] # "idle"
    /\ Disrupt
    /\ Goto(s, "idle", Missing)
    /\ UNCHANGED <<redisVars, clientVars, queueVars, acked, repeated, retried, raced>>

\* The record's seven days are over.
ExpireRecord ==
    /\ rec # Missing
    /\ Disrupt
    /\ rec' = Missing
    /\ UNCHANGED <<counter, deps, clientVars, queueVars, slotVars, acked, repeated, retried, raced>>

-----------------------------------------------------------------------------
ClientStep == CreateRecord \/ (\E j \in Ids : CreateEnqueue(j)) \/ CreateDep
TakeStep   == \E s \in Slots, j \in Ids : Take(s, j)
\* an outcome that ends the job
Finish(s)  == Ack(s) \/ Die(s) \/ DieUnhandled(s) \/ CancelJob(s)
\* OnJobCompleted, OnJobFailed
Advance(s) ==
    \/ Load(s) \/ AdvanceCounter(s) \/ AdvanceChord(s) \/ Save(s)
    \/ \E j \in Ids : EnqueueNext(s, j)
    \/ LoadFailed(s) \/ SaveFailed(s)

Next ==
    \/ ClientStep
    \/ CreateFails
    \/ TakeStep
    \/ \E s \in Slots : Finish(s) \/ Requeue(s) \/ Advance(s) \/ Abort(s)
    \/ \E j \in Ids : Recover(j) \/ Redeliver(j) \/ RetryDead(j)
    \/ ExpireRecord

Spec == Init /\ [][Next]_vars

-----------------------------------------------------------------------------
JobsOf(t) == {j \in Ids : task[j] = t}
AllAcked  == \A t \in Tasks : JobsOf(t) \cap acked # {}

\* A group or chain is stored as completed only after every task was acked,
\* as long as no completion was reported twice.  Crashes may lose counts, the
\* stale record a slow server stores must not add any.
CompletedMeansAllAcked ==
    kind \in {"chain", "group"} /\ ~repeated /\ rec.state = "completed" => AllAcked

\* "Each subsequent task is enqueued only when the previous one completes",
\* and once: holds for a chain as long as no completion was reported twice.
ChainInOrder == kind = "chain" /\ ~repeated => \A t \in Tasks :
    /\ Cardinality(JobsOf(t)) <= 1
    /\ t > 1 /\ JobsOf(t) # {} => JobsOf(t - 1) \cap acked # {}

\* A chain's stored step never goes back and its failure is final, as long as
\* nothing is delivered twice and no dead job is retried.
ChainMonotone == [][
    kind = "chain" /\ ~repeated' /\ ~retried' /\ rec # Missing /\ rec' # Missing =>
        /\ rec'.progress >= rec.progress
        /\ rec.state # "running" => rec'.state = rec.state]_vars

\* The callback of a chord that no server advanced before its creation was
\* finished is enqueued only after every header was acked, whatever crashes,
\* repeats, deaths and retries happened.
CallbackAfterHeaders == kind = "chord" /\ ~raced /\ JobsOf(Callback) # {} => AllAcked

-----------------------------------------------------------------------------
\* Nothing is under way any more: no job can run, no server has work left.
Quiet ==
    /\ create = "done"
    /\ \A s \in Slots : at[s] = "idle"
    /\ \A j \in Ids : status[j] \notin {"waiting", "active"}

\* "The group is complete when all tasks have been acked."
GroupCompletes == kind = "group" /\ Quiet /\ AllAcked => rec.state = "completed"

\* The callback is "enqueued only after every header task completes".
CallbackOnlyAfterHeaders == kind = "chord" /\ JobsOf(Callback) # {} => AllAcked

-----------------------------------------------------------------------------
(***************************************************************************)
(* Liveness.  The client finishes, servers poll, and an OnJob... call that *)
(* was started runs to its end.  A handler may be retried again and again, *)
(* but not for ever: max_retries bounds the failures, and a handler that   *)
(* reschedules itself eventually stops to do so.                           *)
(***************************************************************************)
Fairness ==
    /\ WF_vars(ClientStep)
    /\ WF_vars(TakeStep)
    /\ \A s \in Slots : WF_vars(Advance(s)) /\ SF_vars(Finish(s))

FairSpec == Spec /\ Fairness

\* When all headers of a chord were acked, none of them having died before,
\* the callback is enqueued, whichever of two concurrent servers finds the
\* last header gone; provided no server raced the creation, and as long as
\* nothing is disrupted.
CallbackFires ==
    (kind = "chord" /\ AllAcked) ~>
        (JobsOf(Callback) # {} \/ retried \/ raced \/ disruptions > 0)

\* A chain ends: completed, failed, or with a job that was cancelled or died
\* without the workflow being told, as long as nothing is disrupted: a job whose
\* workflow call was lost is over, and nobody advances the chain (see the README).
ChainSettles ==
    (kind = "chain" /\ create = "done") ~>
        \/ rec.state \in {"completed", "failed"}
        \/ \E j \in Ids : status[j] \in {"cancelled", "dead"}
        \/ disruptions > 0

=============================================================================
