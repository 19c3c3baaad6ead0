------------------------------- MODULE Remote -------------------------------
(***************************************************************************)
(* Remote workers and the standalone gRPC process that serves them         *)
(* (internal/server/grpc.go, cmd/server/main.go): the long poll of         *)
(* Dequeue, clients that give up on it, Ack and Nack, the recovery sweep   *)
(* of the process, and its graceful stop.                                  *)
(*                                                                         *)
(* The process has no promote loop and its Heartbeat extends no lease, so  *)
(* neither is here.  Whether some winter server beside it promotes (and    *)
(* sweeps) is chosen initially.                                            *)
(***************************************************************************)
EXTENDS Integers, FiniteSets

CONSTANTS
    Jobs,
    Workers,      \* remote workers, one Dequeue call at a time each
    LeaseTicks,   \* DefaultLeaseDuration
    PollTicks,    \* timeout_ms of the Dequeue requests
    MaxRetries,
    MaxFaults,    \* bound on failed calls, lost replies, crashes and pauses
    None

ASSUME RemoteAssumption ==
    /\ LeaseTicks \in Nat \ {0}
    /\ PollTicks \in Nat
    /\ MaxRetries \in Nat \ {0}
    /\ MaxFaults \in Nat
    /\ None \notin Jobs

VARIABLES
    \* Redis
    born,       \* jobs that were enqueued
    ready,      \* ids in the ready set
    delayed,    \* ids in the delayed set
    lease,      \* ticks an active job's lease has left, or Absent
    fails,      \* the attempt field, counted up to MaxRetries
    \* the process
    proc,       \* "up", "stopping" (GracefulStop) or "down"
    rpc,        \* a worker's Dequeue handler: "none", "call", "sleep" or "reply"
    got,        \* the job its reply carries
    left,       \* ticks to the handler's deadline
    \* the workers
    client,     \* "idle", "waiting" (for the reply) or "running"
    job,        \* the job a worker runs
    age,        \* ticks since that job was popped, up to LeaseTicks
    \* environment and history
    promoter,   \* a winter server runs beside the process
    paused,     \* whether the queue's pause flag exists
    unsure,     \* where an enqueue whose reply was lost puts its job, when sent again
    replayed,   \* jobs the enqueue script ran twice for
    late,       \* jobs reported after their lease had run out, or reported twice
    faults

queueVars  == <<born, ready, delayed, lease, fails>>
procVars   == <<proc, rpc, got, left>>
workerVars == <<client, job, age>>
envVars    == <<promoter, paused, unsure, replayed>>
vars == <<queueVars, procVars, workerVars, envVars, late, faults>>

Absent == -1

TypeOK ==
    /\ born \in SUBSET Jobs
    /\ ready \in SUBSET born
    /\ delayed \in SUBSET born
    /\ lease \in [Jobs -> 0 .. LeaseTicks \cup {Absent}]
    /\ fails \in [Jobs -> 0 .. MaxRetries]
    /\ proc \in {"up", "stopping", "down"}
    /\ rpc \in [Workers -> {"none", "call", "sleep", "reply"}]
    /\ got \in [Workers -> Jobs \cup {None}]
    /\ left \in [Workers -> 0 .. PollTicks]
    /\ client \in [Workers -> {"idle", "waiting", "running"}]
    /\ job \in [Workers -> Jobs \cup {None}]
    /\ age \in [Workers -> 0 .. LeaseTicks]
    /\ promoter \in BOOLEAN /\ paused \in BOOLEAN
    /\ unsure \in [Jobs -> {"ready", "delayed", "none"}]
    /\ replayed \in SUBSET born
    /\ late \in SUBSET Jobs
    /\ faults \in 0 .. MaxFaults

Init ==
    /\ born = {} /\ ready = {} /\ delayed = {}
    /\ lease = [j \in Jobs |-> Absent]
    /\ fails = [j \in Jobs |-> 0]
    /\ proc = "up"
    /\ rpc = [w \in Workers |-> "none"]
    /\ got = [w \in Workers |-> None]
    /\ left = [w \in Workers |-> 0]
    /\ client = [w \in Workers |-> "idle"]
    /\ job = [w \in Workers |-> None]
    /\ age = [w \in Workers |-> 0]
    /\ promoter \in BOOLEAN /\ paused = FALSE
    /\ unsure = [j \in Jobs |-> "none"] /\ replayed = {}
    /\ late = {} /\ faults = 0

Fault == faults < MaxFaults /\ faults' = faults + 1

(***************************************************************************)
(* Plausible mistakes, one per property: each stands in for the definition *)
(* it is paired with in PROJECT.json and is used nowhere else.             *)
(***************************************************************************)
NoDeadline(w) == FALSE                  \* the poll ends with a job, or never
SoonExpired(j) == lease[j] \in {0, 1}   \* the sweep compares with the wrong instant
NeverExpired(j) == FALSE                \* seconds compared with milliseconds
StoreId(j, set) ==                      \* the id goes to its set, the hash is not written
    /\ ready' = IF set = "ready" THEN ready \cup {j} ELSE ready
    /\ delayed' = IF set = "delayed" THEN delayed \cup {j} ELSE delayed
    /\ UNCHANGED <<born, fails>>

(***************************************************************************)
(* Enqueue, and the loops that move jobs.                                  *)
(***************************************************************************)
\* enqueueScript: the hash with attempt 0, and the set scheduled_at decides on
Store(j, set) ==
    /\ born' = born \cup {j}
    /\ fails' = [fails EXCEPT ![j] = 0]
    /\ ready' = IF set = "ready" THEN ready \cup {j} ELSE ready
    /\ delayed' = IF set = "delayed" THEN delayed \cup {j} ELSE delayed

\* the handler learns of it, or the reply is lost and go-redis sends the script again
EnqueueReply(j, set) ==
    \/ unsure' = [unsure EXCEPT ![j] = "none"] /\ UNCHANGED faults
    \/ unsure' = [unsure EXCEPT ![j] = set] /\ Fault

Enqueue(j, set) ==
    /\ proc = "up"
    /\ j \notin born
    /\ Store(j, set)
    /\ EnqueueReply(j, set)
    /\ UNCHANGED <<lease, procVars, workerVars, promoter, paused, replayed, late>>

\* The script runs again, wherever the job is by now.
EnqueueAgain(j) ==
    /\ unsure[j] # "none"
    /\ Store(j, unsure[j])
    /\ replayed' = replayed \cup {j}
    /\ EnqueueReply(j, unsure[j])
    /\ UNCHANGED <<lease, procVars, workerVars, promoter, paused, late>>

\* The resend fails, or finds the unique key the job itself took: an error either way.
EnqueueEnds(j) ==
    /\ unsure[j] # "none"
    /\ unsure' = [unsure EXCEPT ![j] = "none"]
    /\ UNCHANGED <<queueVars, procVars, workerVars, promoter, paused, replayed, late, faults>>

\* an operator, through the inspector or the command line
Pause ==
    /\ ~paused
    /\ Fault
    /\ paused' = TRUE
    /\ UNCHANGED <<queueVars, procVars, workerVars, promoter, unsure, replayed,
                   late>>

Resume ==
    /\ paused
    /\ paused' = FALSE
    /\ UNCHANGED <<queueVars, procVars, workerVars, promoter, unsure, replayed,
                   late, faults>>

PushReady(j) == ready' = ready \cup {j}

\* The promote loop of a winter server
Promote(j) ==
    /\ promoter
    /\ j \in delayed
    /\ delayed' = delayed \ {j}
    /\ PushReady(j)
    /\ UNCHANGED <<born, lease, fails, procVars, workerVars, envVars, late, faults>>

Expired(j) == lease[j] = 0

\* recovery.Run, until the process is down, or a winter server's
Sweep(j) ==
    /\ proc # "down" \/ promoter
    /\ Expired(j)
    /\ PushReady(j)
    /\ lease' = [lease EXCEPT ![j] = Absent]
    /\ UNCHANGED <<born, delayed, fails, procVars, workerVars, envVars, late, faults>>

OneLess(n) == IF n > 0 THEN n - 1 ELSE n

Tick ==
    /\ lease' = [j \in Jobs |-> OneLess(lease[j])]
    /\ left' = [w \in Workers |-> OneLess(left[w])]
    /\ age' = [w \in Workers |->
                  IF got[w] # None \/ job[w] # None
                  THEN IF age[w] < LeaseTicks THEN age[w] + 1 ELSE age[w]
                  ELSE 0]
    /\ UNCHANGED <<born, ready, delayed, fails, proc, rpc, got, client, job, envVars,
                   late, faults>>

(***************************************************************************)
(* The Dequeue call.                                                       *)
(***************************************************************************)
CallDequeue(w) ==
    /\ proc = "up"
    /\ client[w] = "idle" /\ rpc[w] = "none"
    /\ client' = [client EXCEPT ![w] = "waiting"]
    /\ rpc' = [rpc EXCEPT ![w] = "call"]
    /\ left' = [left EXCEPT ![w] = PollTicks]
    /\ UNCHANGED <<queueVars, proc, got, job, age, envVars, late, faults>>

\* The client's own deadline, a cancellation, a lost connection: the handler's
\* context is cancelled, which it notices only when it sleeps.
GiveUp(w) ==
    /\ client[w] = "waiting"
    /\ client' = [client EXCEPT ![w] = "idle"]
    /\ UNCHANGED <<queueVars, procVars, job, age, envVars, late, faults>>

GrantLease(j) == lease' = [lease EXCEPT ![j] = LeaseTicks]

\* rec # nil; the client may be gone by now
Pop(w, j) ==
    /\ rpc[w] = "call"
    /\ ~paused
    /\ j \in ready
    /\ ready' = ready \ {j}
    /\ GrantLease(j)
    /\ rpc' = [rpc EXCEPT ![w] = "reply"]
    /\ got' = [got EXCEPT ![w] = j]
    /\ age' = [age EXCEPT ![w] = 0]
    /\ UNCHANGED <<born, delayed, fails, proc, left, client, job, envVars, late, faults>>

\* the handler ends without a job: an empty response or an error
EndPoll(w) ==
    /\ rpc' = [rpc EXCEPT ![w] = "none"]
    /\ client' = [client EXCEPT ![w] = IF @ = "waiting" THEN "idle" ELSE @]

\* time.Now().After(deadline)
DeadlinePassed(w) == left[w] = 0

\* rec == nil: no job is ready, or the queue is paused
PopNothing(w) ==
    /\ rpc[w] = "call"
    /\ ready = {} \/ paused
    /\ IF DeadlinePassed(w) THEN EndPoll(w)
       ELSE rpc' = [rpc EXCEPT ![w] = "sleep"] /\ UNCHANGED client
    /\ UNCHANGED <<queueVars, proc, got, left, job, age, envVars, late, faults>>

\* err # nil: the script did not run, or it did and its reply was lost; go-redis sends
\* it again, or has no resend left
PopError(w) ==
    /\ rpc[w] = "call"
    /\ Fault
    /\ \/ UNCHANGED <<ready, lease>>
       \/ ~paused /\ \E j \in ready : ready' = ready \ {j} /\ GrantLease(j)
    /\ EndPoll(w) \/ UNCHANGED <<rpc, client>>
    /\ UNCHANGED <<born, delayed, fails, proc, got, left, job, age, envVars, late>>

\* The sleep is over, or ctx.Done ends it
Wake(w) ==
    /\ rpc[w] = "sleep"
    /\ IF client[w] = "waiting"
       THEN rpc' = [rpc EXCEPT ![w] = "call"] /\ UNCHANGED client
       ELSE EndPoll(w)
    /\ UNCHANGED <<queueVars, proc, got, left, job, age, envVars, late, faults>>

\* The response reaches a client that still waits, or nobody.
Deliver(w) ==
    /\ rpc[w] = "reply"
    /\ rpc' = [rpc EXCEPT ![w] = "none"]
    /\ got' = [got EXCEPT ![w] = None]
    /\ \/ /\ client[w] = "waiting"
          /\ client' = [client EXCEPT ![w] = "running"]
          /\ job' = [job EXCEPT ![w] = got[w]]
          /\ UNCHANGED age
       \/ /\ client[w] # "waiting"
          /\ age' = [age EXCEPT ![w] = 0]
          /\ UNCHANGED <<client, job>>
    /\ UNCHANGED <<queueVars, proc, left, envVars, late, faults>>

(***************************************************************************)
(* Ack and Nack.                                                           *)
(***************************************************************************)
Outcomes == {"ack", "nack", "skip"}    \* skip: a nack with skip_retry

\* ackScript or nackScript, whoever calls it
Settle(j, outcome) ==
    /\ lease' = [lease EXCEPT ![j] = Absent]
    /\ fails' = [fails EXCEPT ![j] = IF outcome = "ack" \/ @ = MaxRetries THEN @ ELSE @ + 1]
    /\ delayed' = IF outcome = "nack" /\ fails[j] + 1 < MaxRetries
                  THEN delayed \cup {j} ELSE delayed

Report(w, outcome) ==
    /\ proc = "up"
    /\ client[w] = "running"
    /\ Settle(job[w], outcome)
    /\ late' = IF age[w] = LeaseTicks THEN late \cup {job[w]} ELSE late
    /\ \/ /\ client' = [client EXCEPT ![w] = "idle"]
          /\ job' = [job EXCEPT ![w] = None]
          /\ age' = [age EXCEPT ![w] = 0]
          /\ UNCHANGED faults
       \/ /\ Fault     \* the response is lost, and the worker reports again, late
          /\ age' = [age EXCEPT ![w] = LeaseTicks]
          /\ UNCHANGED <<client, job>>
    /\ UNCHANGED <<born, ready, procVars, envVars>>

\* The worker dies, or its report fails and it moves on.
Abandon(w) ==
    /\ client[w] = "running"
    /\ Fault
    /\ client' = [client EXCEPT ![w] = "idle"]
    /\ job' = [job EXCEPT ![w] = None]
    /\ age' = [age EXCEPT ![w] = 0]
    /\ UNCHANGED <<queueVars, procVars, envVars, late>>

(***************************************************************************)
(* The process.                                                            *)
(***************************************************************************)
\* SIGTERM: GracefulStop accepts no call any more and waits for the handlers
Signal ==
    /\ proc = "up"
    /\ proc' = "stopping"
    /\ UNCHANGED <<queueVars, rpc, got, left, workerVars, envVars, late, faults>>

Stopped ==
    /\ proc = "stopping"
    /\ \A w \in Workers : rpc[w] = "none"
    /\ \A j \in Jobs : unsure[j] = "none"
    /\ proc' = "down"
    /\ UNCHANGED <<queueVars, rpc, got, left, workerVars, envVars, late, faults>>

Crash ==
    /\ proc # "down"
    /\ Fault
    /\ proc' = "down"
    /\ rpc' = [w \in Workers |-> "none"]
    /\ got' = [w \in Workers |-> None]
    /\ client' = [w \in Workers |-> IF client[w] = "waiting" THEN "idle" ELSE client[w]]
    /\ unsure' = [j \in Jobs |-> "none"]
    /\ UNCHANGED <<queueVars, left, job, age, promoter, paused, replayed, late>>

Start ==
    /\ proc = "down"
    /\ proc' = "up"
    /\ UNCHANGED <<queueVars, rpc, got, left, workerVars, envVars, late, faults>>

-----------------------------------------------------------------------------
HandlerStep(w) == (\E j \in Jobs : Pop(w, j)) \/ PopNothing(w) \/ Wake(w) \/ Deliver(w)
ReportStep(w)  == \E outcome \in Outcomes : Report(w, outcome)
SweepStep      == \E j \in Jobs : Sweep(j)
PromoteStep    == \E j \in Jobs : Promote(j)
ResendStep     == \E j \in Jobs : EnqueueAgain(j) \/ EnqueueEnds(j)

Next ==
    \/ \E j \in Jobs, set \in {"ready", "delayed"} : Enqueue(j, set)
    \/ ResendStep \/ PromoteStep \/ SweepStep \/ Tick
    \/ \E w \in Workers : \/ CallDequeue(w) \/ GiveUp(w) \/ HandlerStep(w) \/ PopError(w)
                          \/ ReportStep(w) \/ Abandon(w)
    \/ Signal \/ Stopped \/ Crash \/ Start
    \/ Pause \/ Resume

Spec == Init /\ [][Next]_vars

(***************************************************************************)
(* The handlers' loops run, time passes, the sweeps and the promote loop   *)
(* (where there is one) go on, go-redis sends a call again, some worker    *)
(* asks for work, and some worker's task ends.  No fairness for GiveUp,    *)
(* for faults, for Resume or for a restart of the process.                 *)
(***************************************************************************)
Fairness ==
    /\ WF_vars(Tick)
    /\ WF_vars(SweepStep)
    /\ WF_vars(PromoteStep)
    /\ WF_vars(Stopped)
    /\ WF_vars(ResendStep)
    /\ WF_vars(\E w \in Workers : CallDequeue(w))
    /\ WF_vars(\E w \in Workers : ReportStep(w))
    /\ \A w \in Workers : WF_vars(HandlerStep(w))

FairSpec == Spec /\ Fairness

-----------------------------------------------------------------------------
(***************************************************************************)
(* Properties.                                                             *)
(***************************************************************************)
\* The worker has j, or the reply that brings it, and its lease should still run.
Fresh(w, j) == (got[w] = j \/ job[w] = j) /\ age[w] < LeaseTicks

\* Remote workers never extend a lease, and the scripts do not check who reports.
\* Even so a job is with at most one worker within its lease, and that lease stands,
\* as long as nobody reported the job late and its enqueue was not sent twice (the second
\* makes a job ready that a worker may have): popping, the sweep and the clocks agree.
FreshOwner == \A j \in Jobs \ (late \cup replayed) : \A w \in Workers : Fresh(w, j) =>
    /\ \A v \in Workers : Fresh(v, j) => v = w
    /\ lease[j] = LeaseTicks - age[w]
    /\ j \notin ready \cup delayed

\* GracefulStop ends: a long poll without a job does not hold the process up beyond
\* its deadline, also when its client is gone.
StopEnds == proc = "stopping" ~> proc # "stopping"

\* While the process is up and the queue is not paused, a ready job is handed out in the
\* end; a job whose worker or whose reply got lost (the client gave up while the handler
\* popped it) does not stay active as long as the process, stopping or not, still sweeps.
\* With a winter server beside the process a retried or scheduled job is not left delayed
\* either, although the process itself never promotes.
JobsHandedOut == \A j \in Jobs :
    /\ j \in ready ~> (j \notin ready \/ proc # "up" \/ paused)
    /\ (lease[j] # Absent /\ \A w \in Workers : got[w] # j /\ job[w] # j) ~>
          (lease[j] = Absent \/ proc = "down")
    /\ promoter /\ j \in delayed ~> j \in ready
=============================================================================
