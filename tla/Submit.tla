------------------------------- MODULE Submit -------------------------------
(***************************************************************************)
(* One call that submits tasks, by each of the ways winter offers: Enqueue *)
(* and EnqueueMany of the client, Chain, Group and Chord, the gRPC Enqueue *)
(* and the enqueue command.  The call builds the job records, then stores  *)
(* them command by command: EnqueueMany in pipelines of ChunkSize, which   *)
(* other clients and the workers see half executed and go-redis sends      *)
(* again when the connection breaks.                                       *)
(*                                                                         *)
(* Workers take the jobs and report on them: done, to be tried again, or   *)
(* at an end without success.  They crash, their leases expire and their   *)
(* reports are repeated, as far as that decides how often a task is taken. *)
(* The caller may wait for the result of a task (WaitForResult), which the *)
(* server that completed it stores after the ack.                          *)
(*                                                                         *)
(* Unique keys, the retry budget and dead jobs retried by hand are in      *)
(* module JobQueue; the tasks a workflow stores once it advances, in       *)
(* module Workflow.                                                        *)
(***************************************************************************)
EXTENDS Integers, Sequences, FiniteSets

CONSTANTS
    Calls,       \* the calls: path, queue (or Unset) and delay asked for, the tasks in
                 \* order, and a bound on all that goes wrong around it: failed commands,
                 \* broken connections, handlers that fail or ask for another time, crashes
    Served,      \* the queues some server polls
    N,           \* bound on the tasks of a call
    ChunkSize,
    Unset

Single   == {"enqueue", "rpc", "cli"}
Workflow == {"chain", "group", "chord"}
Paths    == Single \cup Workflow \cup {"many"}

\* a task: its own queue (or Unset), whether it is valid, whether its handler sets a result
Tasks == [queue : Served \cup {Unset}, valid : BOOLEAN, result : BOOLEAN]

ASSUME SubmitAssumption ==
    /\ \A c \in Calls :
          /\ c.path \in Paths /\ c.queue \in Served \cup {Unset}
          /\ c.delay \in Nat /\ c.maxFaults \in Nat
          /\ c.tasks \in Seq(Tasks) /\ Len(c.tasks) \in 1 .. N
          /\ c.path \in Single => Len(c.tasks) = 1
          /\ c.path = "chord" => Len(c.tasks) > 1
    /\ "default" \in Served
    /\ N \in Nat \ {0} /\ ChunkSize \in Nat \ {0}

VARIABLES
    call,
    phase,       \* "build", "load", "exec", "ok" or "error"
    from,        \* first task of the current pipeline
    next,        \* the next command of it
    failed,      \* whether a command of it was answered with an error
    ready,       \* tasks whose job is in a ready set
    delayed,     \* tasks whose job is in a delayed set
    stored,      \* tasks whose job was ever written
    active,      \* tasks whose job is in an active set, under a lease
    held,        \* how many workers hold a copy of each task's job
    unheard,     \* <<task, report>>: executed, its reply lost, about to be sent again
    elapsed,     \* ticks since the call began
    owed,        \* tasks acked whose result is not stored yet
    result,      \* tasks whose result is stored
    waiter,      \* WaitForResult: "idle", "polling", "got" or "error"
    target,      \* the task it waits for
    \* history
    takes,       \* how often each task's job was taken by a worker
    early,       \* tasks taken before the time the call asked for
    resent,      \* how often the enqueue of each task was sent again after it was executed
    again,       \* how often each task went back to a queue: retry, reschedule, recovery
    ended,       \* tasks that ended without success
    lost,        \* tasks of which a result was lost
    faults

pipeVars  == <<phase, from, next, failed>>
queueVars == <<ready, delayed, stored>>
workVars  == <<active, held, unheard>>
resultVars == <<owed, result, waiter, target>>
histVars  == <<takes, early, resent, again, ended, lost>>
vars == <<call, pipeVars, queueVars, workVars, elapsed, resultVars, histVars, faults>>

Count == Len(call.tasks)

\* the tasks the call itself stores; a workflow stores the others as it advances
Batch == CASE call.path = "chain" -> 1
           [] call.path = "chord" -> Count - 1    \* the last task is the callback
           [] OTHER -> Count

\* how a worker ends with a job: ack; nack with a retry left, or reschedule; nack
\* without one, or cancel
Reports == {"ack", "again", "end"}

TypeOK ==
    /\ call \in Calls
    /\ phase \in {"build", "load", "exec", "ok", "error"}
    /\ from \in 1 .. Count
    /\ next \in from .. Count + 1
    /\ failed \in BOOLEAN
    /\ ready \in SUBSET stored
    /\ delayed \in SUBSET stored
    /\ stored \in SUBSET (1 .. Count)
    /\ elapsed \in 0 .. call.delay
    /\ active \in SUBSET stored
    /\ held \in [1 .. Count -> Nat]
    /\ unheard \in SUBSET (stored \X Reports)
    /\ takes \in [1 .. Count -> Nat]
    /\ resent \in [1 .. Count -> Nat]
    /\ again \in [1 .. Count -> Nat]
    /\ early \in SUBSET stored
    /\ ended \in SUBSET stored
    /\ owed \in SUBSET stored
    /\ result \in SUBSET stored
    /\ waiter \in {"idle", "polling", "got", "error"}
    /\ target \in 1 .. Count
    /\ lost \in SUBSET stored
    /\ faults \in 0 .. call.maxFaults

Init ==
    /\ call \in Calls
    /\ phase = "build" /\ from = 1 /\ next = 1 /\ failed = FALSE
    /\ ready = {} /\ delayed = {} /\ stored = {}
    /\ elapsed = 0
    /\ active = {} /\ unheard = {}
    /\ held = [i \in 1 .. Count |-> 0] /\ takes = [i \in 1 .. Count |-> 0]
    /\ resent = [i \in 1 .. Count |-> 0] /\ again = [i \in 1 .. Count |-> 0]
    /\ early = {} /\ ended = {}
    /\ owed = {} /\ result = {} /\ lost = {}
    /\ waiter = "idle" /\ target = 1
    /\ faults = 0

Fault == faults < call.maxFaults /\ faults' = faults + 1
First(a, b) == IF a # Unset THEN a ELSE b
Lower(a, b) == IF a < b THEN a ELSE b

(***************************************************************************)
(* Plausible mistakes, one per property: each stands in for the definition *)
(* it is paired with in PROJECT.json and is used nowhere else.             *)
(***************************************************************************)
ErrorsIgnored(f) == TRUE             \* the errors of single commands are not looked at
NoDefault(i) == IF call.queue = Unset THEN "" ELSE call.queue  \* an empty name is kept
PutBoth(i) ==                        \* an immediate job is added to both sets
    /\ stored' = stored \cup {i}
    /\ ready' = IF call.delay > 0 THEN ready ELSE ready \cup {i}
    /\ delayed' = delayed \cup {i}
PutIdOnly(i) ==                      \* the id is added, the hash is not written
    UNCHANGED <<stored, delayed>> /\ ready' = ready \cup {i}
RestAnyway(end) ==                   \* the other chunks are still sent after an error
    IF end <= Count /\ call.path = "many"
    THEN phase' = "load" /\ from' = end /\ UNCHANGED <<next, failed>>
    ELSE phase' = "error" /\ UNCHANGED <<from, next, failed>>

(***************************************************************************)
(* The job record of task i, as far as it matters here: what each way      *)
(* makes of the call's options and of the task's own.  Priority and retry  *)
(* limit are set in the same places and left out.                          *)
(***************************************************************************)
\* Enqueue: an option wins over the task
ByEnqueue(t) == [queue |-> First(call.queue, First(t.queue, "default")), due |-> call.delay]
\* EnqueueMany: the task wins over an option
ByMany(t) == [queue |-> First(t.queue, First(call.queue, "default")), due |-> call.delay]
\* tasksToSpecs and enqueueTask: the task wins, and the time asked for is ignored
BySpec(t) == [queue |-> First(t.queue, First(call.queue, "default")), due |-> 0]
\* the gRPC Enqueue and the enqueue command have no options of a task to look at
ByRpc == [queue |-> First(call.queue, "default"), due |-> call.delay]
ByCommand == [queue |-> First(call.queue, "default"), due |-> call.delay]

\* the record of task i: its queue, and scheduled_at as ticks from the beginning of the call
Job(i) == CASE call.path = "enqueue" -> ByEnqueue(call.tasks[i])
            [] call.path = "many" -> ByMany(call.tasks[i])
            [] call.path = "rpc" -> ByRpc
            [] call.path = "cli" -> ByCommand
            [] OTHER -> BySpec(call.tasks[i])

QueueOf(i) == Job(i).queue
DueOf(i) == Job(i).due

(***************************************************************************)
(* The call.                                                               *)
(***************************************************************************)
\* json.Marshal of every task, or the check that a kind is given
AllValid == \A i \in 1 .. Count : call.tasks[i].valid

Begin == IF call.path = "many" THEN "load" ELSE "exec"

Build ==
    /\ phase = "build"
    /\ phase' = IF AllValid THEN Begin ELSE "error"
    /\ UNCHANGED <<call, from, next, failed, queueVars, workVars, elapsed, resultVars, histVars,
                   faults>>

\* enqueueBatch: SCRIPT LOAD
Load ==
    /\ phase = "load"
    /\ \/ phase' = "exec" /\ UNCHANGED faults
       \/ phase' = "error" /\ Fault
    /\ UNCHANGED <<call, from, next, failed, queueVars, workVars, elapsed, resultVars, histVars>>

\* the task after the last one of the current pipeline
ChunkEnd == IF call.path = "many" THEN Lower(from + ChunkSize, Batch + 1) ELSE from + 1

Scheduled(i) == DueOf(i) > 0

\* enqueueScript for task i
Put(i) ==
    /\ stored' = stored \cup {i}
    /\ IF Scheduled(i)
       THEN delayed' = delayed \cup {i} /\ UNCHANGED ready
       ELSE ready' = ready \cup {i} /\ UNCHANGED delayed

\* Redis executes the next command of the pipeline.
Exec ==
    /\ phase = "exec" /\ next < ChunkEnd
    /\ Put(next)
    /\ next' = next + 1
    /\ UNCHANGED <<call, phase, from, failed, workVars, elapsed, resultVars, histVars,
                   faults>>

\* ... or answers it with an error (the script was flushed, memory is full); the
\* commands after it are executed all the same.
ExecError ==
    /\ phase = "exec" /\ next < ChunkEnd
    /\ Fault
    /\ failed' = TRUE
    /\ next' = next + 1
    /\ UNCHANGED <<call, phase, from, queueVars, workVars, elapsed, resultVars, histVars>>

\* The connection breaks; go-redis sends the whole pipeline again, or gives up.
Broken ==
    /\ phase = "exec"
    /\ Fault
    /\ \/ /\ next' = from /\ failed' = FALSE
          /\ resent' = [i \in 1 .. Count |->
                IF i \in from .. next - 1 /\ i \in stored THEN resent[i] + 1 ELSE resent[i]]
          /\ UNCHANGED phase
       \/ /\ phase' = "error"
          /\ UNCHANGED <<next, failed, resent>>
    /\ UNCHANGED <<call, from, queueVars, workVars, elapsed, resultVars, takes, early,
                   again, ended, lost>>

\* the first error among the commands is the call's
Clean(f) == ~f

\* EnqueueMany and the Create functions return at the first error
GiveUp(end) == phase' = "error" /\ UNCHANGED <<from, next, failed>>

\* All replies are in.
Reply ==
    /\ phase = "exec" /\ next = ChunkEnd
    /\ IF ~Clean(failed) THEN GiveUp(next)
       ELSE IF next > Batch THEN phase' = "ok" /\ UNCHANGED <<from, next, failed>>
       ELSE phase' = Begin /\ from' = next /\ failed' = FALSE /\ UNCHANGED next
    /\ UNCHANGED <<call, queueVars, workVars, elapsed, resultVars, histVars, faults>>

(***************************************************************************)
(* The others.                                                             *)
(***************************************************************************)
\* promoteLoop, promoteScript.  A task that went back with a delay waits for longer than
\* its first time, which is over: how much longer does not matter.
Promote(i) ==
    /\ i \in delayed
    /\ elapsed >= DueOf(i)
    /\ delayed' = delayed \ {i}
    /\ ready' = ready \cup {i}
    /\ UNCHANGED <<call, pipeVars, stored, workVars, elapsed, resultVars, histVars, faults>>

\* dequeueScript
Take(i) ==
    /\ i \in ready /\ QueueOf(i) \in Served
    /\ ready' = ready \ {i}
    /\ active' = active \cup {i}
    /\ held' = [held EXCEPT ![i] = @ + 1]
    /\ takes' = [takes EXCEPT ![i] = @ + 1]
    /\ early' = IF elapsed < call.delay THEN early \cup {i} ELSE early
    /\ UNCHANGED <<call, pipeVars, delayed, stored, unheard, elapsed, resultVars, resent,
                   again, ended, lost, faults>>

\* ackScript; nackScript with a retry left and rescheduleScript; nackScript without one
\* and cancelScript.  None of them looks whether the job is still this worker's.
Executed(i, r) ==
    /\ active' = active \ {i}
    /\ delayed' = IF r = "again" THEN delayed \cup {i} ELSE delayed
    /\ again' = IF r = "again" THEN [again EXCEPT ![i] = @ + 1] ELSE again
    /\ ended' = IF r = "end" THEN ended \cup {i} ELSE ended

\* the worker is told so; after an ack it has a result to store, if the handler set one
Told(i, r) == owed' = IF r = "ack" /\ call.tasks[i].result THEN owed \cup {i} ELSE owed

\* processJob: the handler has returned, its worker reports.
Report(i, r) ==
    /\ held[i] > 0
    /\ held' = [held EXCEPT ![i] = @ - 1]
    /\ Executed(i, r) /\ Told(i, r)
    /\ IF r = "ack" THEN UNCHANGED faults ELSE Fault
    /\ UNCHANGED <<call, pipeVars, ready, stored, unheard, elapsed, result, waiter, target,
                   takes, early, resent, lost>>

\* ... and the reply is lost
ReportUnheard(i, r) ==
    /\ held[i] > 0
    /\ Fault
    /\ held' = [held EXCEPT ![i] = @ - 1]
    /\ Executed(i, r)
    /\ unheard' = unheard \cup {<<i, r>>}
    /\ UNCHANGED <<call, pipeVars, ready, stored, elapsed, resultVars, takes, early, resent,
                   lost>>

\* go-redis sends the report again.
ReportAgain(i, r) ==
    /\ <<i, r>> \in unheard
    /\ unheard' = unheard \ {<<i, r>>}
    /\ Executed(i, r) /\ Told(i, r)
    /\ UNCHANGED <<call, pipeVars, ready, stored, held, elapsed, result, waiter, target,
                   takes, early, resent, lost, faults>>

\* The worker crashes, the reply to its dequeue is lost, or its report never arrives.
Drop(i) ==
    /\ held[i] > 0
    /\ Fault
    /\ held' = [held EXCEPT ![i] = @ - 1]
    /\ UNCHANGED <<call, pipeVars, queueVars, active, unheard, elapsed, resultVars, histVars>>

\* recoverLeasesScript: the lease of a job nobody works on expires, and, when
\* heartbeats fail, that of one somebody does.
Recover(i) ==
    /\ i \in active
    /\ IF held[i] = 0 THEN UNCHANGED faults ELSE Fault
    /\ active' = active \ {i}
    /\ ready' = ready \cup {i}
    /\ again' = [again EXCEPT ![i] = @ + 1]
    /\ UNCHANGED <<call, pipeVars, delayed, stored, held, unheard, elapsed, resultVars,
                   takes, early, resent, ended, lost>>

\* SetResult, after the ack
SetResult(i) ==
    /\ i \in owed
    /\ owed' = owed \ {i}
    /\ result' = result \cup {i}
    /\ UNCHANGED <<call, pipeVars, queueVars, workVars, elapsed, waiter, target, histVars, faults>>

\* SetResult fails, or the result is older than its TTL: nobody stores it again.
LoseResult(i) ==
    /\ i \in owed \cup result
    /\ Fault
    /\ owed' = owed \ {i}
    /\ result' = IF i \in owed THEN result ELSE result \ {i}
    /\ lost' = lost \cup {i}
    /\ UNCHANGED <<call, pipeVars, queueVars, workVars, elapsed, waiter, target, takes, early,
                   resent, again, ended>>

\* WaitForResult, for a task that sets one and whose id the call has returned
Wait(i) ==
    /\ phase = "ok" /\ call.path \notin Workflow
    /\ call.tasks[i].result
    /\ waiter = "idle"
    /\ waiter' = "polling" /\ target' = i
    /\ UNCHANGED <<call, pipeVars, queueVars, workVars, elapsed, owed, result, histVars, faults>>

\* GetResult at a tick of the waiter: nil keeps it waiting
Stored(i) == i \in result

GetResult ==
    /\ waiter = "polling"
    /\ \/ Stored(target) /\ waiter' = "got" /\ UNCHANGED faults
       \/ waiter' = "error" /\ Fault
    /\ UNCHANGED <<call, pipeVars, queueVars, workVars, elapsed, owed, result, target, histVars>>

\* Time matters until the delay asked for is over.
Tick ==
    /\ elapsed < call.delay
    /\ elapsed' = elapsed + 1
    /\ UNCHANGED <<call, pipeVars, queueVars, workVars, resultVars, histVars, faults>>

-----------------------------------------------------------------------------
Next ==
    \/ Build \/ Load \/ Exec \/ ExecError \/ Broken \/ Reply
    \/ \E i \in 1 .. Count : \/ Promote(i) \/ Take(i) \/ Drop(i) \/ Recover(i)
                            \/ SetResult(i) \/ LoseResult(i) \/ Wait(i)
    \/ \E i \in 1 .. Count, r \in Reports : Report(i, r) \/ ReportUnheard(i, r) \/ ReportAgain(i, r)
    \/ GetResult \/ Tick

Spec == Init /\ [][Next]_vars

\* The call goes on; the promote and recovery loops and the workers work and no handler
\* runs forever; a waiter polls; time passes.
Fairness ==
    /\ WF_vars(Build \/ Load \/ Exec \/ Reply)
    /\ \A i \in 1 .. N : WF_vars(i <= Count /\ (\/ Promote(i) \/ Take(i) \/ Recover(i) \/ SetResult(i)
                                               \/ \E r \in Reports : Report(i, r) \/ ReportAgain(i, r)))
    /\ WF_vars(GetResult)
    /\ WF_vars(Tick)

FairSpec == Spec /\ Fairness

-----------------------------------------------------------------------------
(***************************************************************************)
(* Properties.                                                             *)
(***************************************************************************)
\* A call that succeeds has stored every task it was to store, in whatever chunks,
\* whichever command failed or was repeated on the way.
AcceptedIsStored == phase = "ok" => 1 .. Batch \subseteq stored

\* A call that fails has stored all of the chunks before the one that failed, part of
\* that one, and nothing behind it: the caller knows from where on to look.  When a task
\* cannot be encoded, be it late in a batch or the callback of a chord, nothing at all.
PartialIsPrefix == phase = "error" =>
    /\ 1 .. from - 1 \subseteq stored
    /\ stored \cap 1 .. Batch \subseteq 1 .. ChunkEnd - 1
    /\ (\E i \in 1 .. Count : ~call.tasks[i].valid) => stored = {}

\* Every time a worker takes a task has a reason: it was stored, or stored again because
\* its pipeline was sent again after the store; a handler asked for another run; a lease
\* expired; or a report of one of these was repeated.  And it is not taken before the
\* time the call asked for, except by way of a workflow, whose tasks start at once:
\* tasksToSpecs drops the time.
OnceAndInTime ==
    /\ \A i \in 1 .. Count : takes[i] <= 1 + resent[i] + again[i]
    /\ early # {} => call.path \in Workflow

\* Every task an accepted call stored is taken by a worker, also after crashes and
\* repeated pipelines: the queue its record names is one that was asked for or the
\* default.  And who waits for a task's result gets it, unless the job ended without
\* success or the result was lost after the ack; then he waits until his own context
\* ends.
AcceptedRuns ==
    /\ phase = "ok" ~> \A i \in 1 .. Batch : takes[i] > 0
    /\ waiter = "polling" ~> waiter # "polling" \/ target \in ended \cup lost
=============================================================================
