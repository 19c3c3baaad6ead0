--------------------------- MODULE WorkflowProofs ---------------------------
(***************************************************************************)
(* Workflows keep their order for any number of tasks, jobs, servers and   *)
(* disruptions: ChainInOrder, CompletedMeansAllAcked, ChainMonotone and    *)
(* CallbackAfterHeaders.                                                   *)
(***************************************************************************)
EXTENDS Workflow, FiniteSetTheorems, TLAPS

Used(j)   == task[j] # NoTask
Completing == {"load", "advance", "save", "enqueue"}   \* in OnJobCompleted
Failing    == {"loadFailed", "saveFailed"}             \* in OnJobFailed
Pending    == {s \in Slots : at[s] \in {"load", "advance"}}
Counting   == kind \in {"chain", "group"}

\* acked jobs that were counted, or never will be
Told == acked \ {job[s] : s \in Pending}

\* What a slot has in its hands at each step.
SlotInv == \A s \in Slots :
    /\ at[s] = "idle" <=> job[s] = NoId
    /\ at[s] # "idle" => Used(job[s])
    /\ at[s] \in Completing => job[s] \in acked
    /\ at[s] \in {"idle", "run", "load", "loadFailed"} => mine[s] = Missing
    /\ at[s] = "advance" => mine[s].state = "running"
    /\ at[s] \in {"save", "enqueue"} => mine[s].state \in {"running", "completed"}
    /\ at[s] \in {"save", "enqueue"} /\ Counting =>
          (mine[s].state = "completed" <=> mine[s].progress >= N)
    /\ at[s] = "saveFailed" => mine[s].state = "failed"

\* An id the queue knows is one that was made for a task.
JobInv == \A j \in Ids :
    /\ status[j] = "none" <=> ~Used(j)
    /\ j \in acked => Used(j)

\* How far the client is.
CreateInv ==
    /\ create = "save" => rec = Missing /\ made = 0
    /\ create \in {"save", "enqueue"} => made < Initial
    /\ create = "dep" => kind = "chord" /\ made >= 1
    /\ create = "done" => made = Initial
    /\ made = 0 => \A j \in Ids : ~Used(j)
    /\ rec.state = "missing" => rec = Missing
    /\ Cardinality(deps) <= IF create = "dep" THEN made - 1 ELSE made

Base == TypeOK /\ SlotInv /\ JobInv /\ CreateInv

\* Unless a job was delivered twice one slot at most has it, from the moment it is taken
\* until its completion has been dealt with, and it is acked once.
Held(s)   == at[s] \in Completing \cup {"run"}
OneHolder == \A s, t \in Slots : Held(s) /\ Held(t) /\ job[s] = job[t] => s = t

OnceInv == ~repeated =>
    /\ \A j \in acked : status[j] = "completed"
    /\ \A s \in Slots : at[s] = "run" => status[job[s]] = "active"
    /\ OneHolder

\* The counter does not run ahead of the completions that were counted.
CountInv == Counting /\ ~repeated => counter <= Cardinality(Told)

\* Nobody takes a chain or group for complete before the counter has reached N.
DoneInv == Counting =>
    /\ rec.state = "completed" => counter >= N
    /\ \A s \in Slots : mine[s].state = "completed" => counter >= N

\* The id of a job is the number of its task.
IdInv ==
    /\ kind = "group" => \A j \in Ids : task[j] = IF j <= made THEN j ELSE NoTask
    /\ kind = "chain" /\ ~repeated => \A j \in Ids : task[j] \in {NoTask, j}

\* A chain moves one step at a time: all jobs but the newest are acked, and whoever deals
\* with a completion deals with the newest one.
AtEnd(s) ==
    /\ job[s] + 1 \in Ids => ~Used(job[s] + 1)
    /\ counter = IF s \in Pending THEN job[s] - 1 ELSE job[s]

ChainInv == kind = "chain" /\ ~repeated =>
    /\ \A i, j \in Ids : Used(j) /\ i < j => Used(i) /\ i \in acked
    /\ \A j \in Ids : Used(j) /\ j \notin acked => counter = j - 1
    /\ \A s \in Slots : at[s] \in Completing => AtEnd(s)
    /\ \A s \in Slots : at[s] \in {"save", "enqueue"} => mine[s].progress = counter
    /\ made = 0 => counter = 0

\* The record of a chain, and the copies that are about to replace it, follow the counter.
RecordInv == kind = "chain" /\ ~repeated =>
    /\ rec.progress <= counter
    /\ \A s \in Slots : at[s] = "saveFailed" => mine[s].progress <= counter

\* Only a dead job makes a chain fail, one slot reports it, and a completed chain is left
\* alone, as long as no dead job is retried.
FailInv == kind = "chain" /\ ~repeated /\ ~retried =>
    /\ rec.state = "failed" => \E j \in Ids : status[j] = "dead"
    /\ \A s \in Slots : at[s] \in Failing => status[job[s]] = "dead"
    /\ \A s, t \in Slots : at[s] \in Failing /\ at[t] \in Failing /\ job[s] = job[t] => s = t
    /\ \A s \in Slots : at[s] = "saveFailed" => rec.progress <= mine[s].progress
    /\ rec.state = "completed" => \A s \in Slots : at[s] \notin {"load", "advance", "save"}

\* Every header of a chord made so far has one job.
HeaderInv == kind = "chord" =>
    /\ \A j \in Ids : task[j] \in Tasks => task[j] <= made
    /\ \A i, j \in Ids : task[i] \in Tasks /\ task[i] = task[j] => i = j
    /\ \A t \in 1 .. made : JobsOf(t) # {}

\* A chord that was not raced has every header either among its open ones or acked, and
\* is taken for complete only when all are acked.
ChordInv == kind = "chord" /\ ~raced =>
    /\ create # "done" => /\ JobsOf(Callback) = {}
                          /\ \A s \in Slots : at[s] \notin {"save", "enqueue"}
    /\ create # "failed" => \A j \in Ids : task[j] \in Tasks =>
          j \in deps \/ j \in acked \/ (create = "dep" /\ task[j] = made)
    /\ \A s \in Slots : mine[s].state = "completed" => AllAcked
    /\ JobsOf(Callback) # {} => AllAcked

IInv ==
    /\ Base /\ OnceInv /\ CountInv /\ DoneInv /\ IdInv
    /\ ChainInv /\ RecordInv /\ FailInv
    /\ HeaderInv /\ ChordInv

-----------------------------------------------------------------------------
\* The size of the workflow, and what the client enqueues of it, as numbers.
LEMMA Sizes ==
    ASSUME kind \in DOMAIN Size
    PROVE  /\ N \in Nat /\ N >= 1 /\ Initial \in 1 .. N /\ MaxIds \in Nat
           /\ kind \in {"chain", "group", "chord"}
           /\ IsFiniteSet(Ids)
<1>1. N \in Nat /\ N >= 1 /\ kind \in {"chain", "group", "chord"} BY WorkflowAssumption DEF N
<1>2. MaxIds \in Nat BY WorkflowAssumption
<1>3. IsFiniteSet(Ids) BY <1>2, FS_Interval DEF Ids
<1> QED BY <1>1, <1>2, <1>3 DEF Initial

States == {"running", "completed", "failed", "missing"}

\* A record has a state and a number.
LEMMA RecordFields ==
    /\ \A r \in Records : r.state \in States /\ r.progress \in Nat
    /\ \A st \in States, p \in Nat :
          LET r == [state |-> st, progress |-> p]
          IN  r \in Records /\ r.state = st /\ r.progress = p
    /\ Missing \in Records /\ Missing.state = "missing" /\ Missing.progress = 0
BY DEF Records, States, Missing

\* Nothing has happened yet.
LEMMA InitIInv == Init => IInv
<1> SUFFICES ASSUME Init PROVE IInv OBVIOUS
<1>1. kind \in DOMAIN Size BY DEF Init
<1>2. Cardinality(deps) = 0 BY FS_EmptySet DEF Init
<1>3. Base
  <2>1. TypeOK
    <3>1. rec \in Records /\ mine \in [Slots -> Records] BY RecordFields DEF Init
    <3>2. task \in [Ids -> Tasks \cup {Callback, NoTask}] /\ made \in 0 .. N /\ counter \in Nat
      BY <1>1, Sizes DEF Init
    <3> QED BY <1>1, <3>1, <3>2 DEF Init, TypeOK
  <2>2. SlotInv /\ JobInv
    BY DEF Init, SlotInv, JobInv, Completing, Used
  <2>3. CreateInv BY <1>1, <1>2, Sizes DEF Init, CreateInv, Used
  <2> QED BY <2>1, <2>2, <2>3 DEF Base
<1>4. Told = {} BY DEF Init, Told
<1>5. CountInv /\ DoneInv BY <1>1, <1>4, Sizes, FS_EmptySet DEF Init, CountInv, DoneInv, Missing
<1>6. OnceInv /\ IdInv BY <1>1, Sizes DEF Init, OnceInv, OneHolder, Held, IdInv, Completing, Ids
<1>7. ChainInv /\ RecordInv /\ FailInv
  BY <1>1, Sizes DEF Init, ChainInv, RecordInv, FailInv, Used, Completing, Failing, Missing
<1>8. HeaderInv /\ ChordInv
  BY <1>1, Sizes DEF Init, HeaderInv, ChordInv, JobsOf, Missing, Tasks, NoTask, Callback
<1> QED BY <1>3, <1>5, <1>6, <1>7, <1>8 DEF IInv

\* The kind of the workflow does not change.
LEMMA SameKind == Base /\ [Next]_vars => kind' = kind
<1> SUFFICES ASSUME Base, [Next]_vars PROVE kind' = kind OBVIOUS
<1> USE DEF redisVars, clientVars, queueVars, slotVars, auxVars
<1>1. CASE CreateRecord BY <1>1 DEF CreateRecord
<1>2. ASSUME NEW j \in Ids, CreateEnqueue(j) PROVE kind' = kind
  BY <1>2 DEF CreateEnqueue, NewJob
<1>3. CASE CreateDep BY <1>3 DEF CreateDep, Track
<1>4. CASE CreateFails BY <1>4 DEF CreateFails, Disrupt
<1>5. ASSUME NEW s \in Slots, NEW j \in Ids, Take(s, j) PROVE kind' = kind
  BY <1>5 DEF Take
<1>6. ASSUME NEW s \in Slots, Ack(s) PROVE kind' = kind BY <1>6 DEF Ack, Report, Goto
<1>7. ASSUME NEW s \in Slots, Die(s) \/ DieUnhandled(s) \/ CancelJob(s) \/ Requeue(s)
      PROVE kind' = kind BY <1>7 DEF Die, DieUnhandled, CancelJob, Requeue, Report, Goto
<1>8. ASSUME NEW s \in Slots, Load(s) PROVE kind' = kind
  BY <1>8 DEF Load, Goto, Advances
<1>9. ASSUME NEW s \in Slots, AdvanceCounter(s) PROVE kind' = kind
  BY <1>9 DEF AdvanceCounter, Learn, Goto, Count, Complete, Disrupt
<1>10. ASSUME NEW s \in Slots, AdvanceChord(s) PROVE kind' = kind
  BY <1>10 DEF AdvanceChord, Learn, Goto, LastHeader
<1>11. ASSUME NEW s \in Slots, Save(s) PROVE kind' = kind BY <1>11 DEF Save, Goto
<1>12. ASSUME NEW s \in Slots, NEW j \in Ids, EnqueueNext(s, j) PROVE kind' = kind
  BY <1>12 DEF EnqueueNext, NewJob, Goto, Following
<1>13. ASSUME NEW s \in Slots, LoadFailed(s) PROVE kind' = kind
  BY <1>13 DEF LoadFailed, Goto
<1>14. ASSUME NEW s \in Slots, SaveFailed(s) PROVE kind' = kind
  BY <1>14 DEF SaveFailed, Goto
<1>15. ASSUME NEW s \in Slots, Abort(s) PROVE kind' = kind
  BY <1>15 DEF Abort, Goto, Disrupt
<1>16. ASSUME NEW j \in Ids, Recover(j) PROVE kind' = kind BY <1>16 DEF Recover
<1>17. ASSUME NEW j \in Ids, Redeliver(j) PROVE kind' = kind
  BY <1>17 DEF Redeliver, Disrupt
<1>18. ASSUME NEW j \in Ids, RetryDead(j) PROVE kind' = kind BY <1>18 DEF RetryDead
<1>19. CASE ExpireRecord BY <1>19 DEF ExpireRecord, Disrupt
<1>20. CASE UNCHANGED vars BY <1>20 DEF vars
<1> QED
  BY <1>1, <1>2, <1>3, <1>4, <1>5, <1>6, <1>7, <1>8, <1>9, <1>10, <1>11,
     <1>12, <1>13, <1>14, <1>15, <1>16, <1>17, <1>18, <1>19, <1>20
     DEF Next, ClientStep, TakeStep, Finish, Advance

\* Nor do the sizes that depend on it.
LEMMA Frame ==
    ASSUME Base, [Next]_vars
    PROVE  /\ kind' = kind /\ N' = N /\ Tasks' = Tasks /\ Initial' = Initial
           /\ (Counting' <=> Counting)
BY SameKind DEF N, Tasks, Initial, Counting

(***************************************************************************)
(* What the actions do, slot by slot and id by id.                         *)
(***************************************************************************)
Steps  == {"idle", "run", "load", "advance", "save", "enqueue", "loadFailed", "saveFailed"}
Statuses == {"none", "waiting", "active", "completed", "dead", "cancelled"}

\* Slot s goes to another step; the other slots stay where they are.
Moved(s, step) ==
    /\ at' \in [Slots -> Steps] /\ job' \in [Slots -> Ids \cup {NoId}] /\ mine' \in [Slots -> Records]
    /\ at'[s] = step /\ job'[s] = IF step = "idle" THEN NoId ELSE job[s]
    /\ step = "idle" => mine'[s] = Missing
    /\ \A t \in Slots : t # s => at'[t] = at[t] /\ job'[t] = job[t] /\ mine'[t] = mine[t]

\* The queue changes its mind about job j.
Restated(j, new) ==
    /\ status' \in [Ids -> Statuses]
    /\ status'[j] = new /\ \A i \in Ids : i # j => status'[i] = status[i]

\* Id j, the least free one, becomes a job for task t.
Added(j, t) ==
    /\ task' \in [Ids -> Tasks \cup {Callback, NoTask}]
    /\ ~Used(j) /\ \A i \in Ids : i < j => Used(i)
    /\ task'[j] = t /\ \A i \in Ids : i # j => task'[i] = task[i]
    /\ Restated(j, "waiting")

LEMMA Went ==
    ASSUME TypeOK, NEW s \in Slots, NEW step \in Steps, NEW r \in Records, Goto(s, step, r)
    PROVE  Moved(s, step) /\ (step # "idle" => mine'[s] = r)
<1>1. at' = [at EXCEPT ![s] = step] BY DEF Goto
<1>2. job' = [job EXCEPT ![s] = IF step = "idle" THEN NoId ELSE job[s]]
  BY DEF Goto, TypeOK
<1>3. mine' = [mine EXCEPT ![s] = IF step = "idle" THEN Missing ELSE r] BY DEF Goto
<1>4. at' \in [Slots -> Steps] BY <1>1 DEF TypeOK, Steps
<1>5. job' \in [Slots -> Ids \cup {NoId}] BY <1>2 DEF TypeOK
<1>6. mine' \in [Slots -> Records] BY <1>3, RecordFields DEF TypeOK
<1>7. at'[s] = step /\ \A t \in Slots : t # s => at'[t] = at[t] BY <1>1 DEF TypeOK
<1>8. /\ job'[s] = IF step = "idle" THEN NoId ELSE job[s]
      /\ \A t \in Slots : t # s => job'[t] = job[t]
  BY <1>2 DEF TypeOK
<1>9. /\ mine'[s] = IF step = "idle" THEN Missing ELSE r
      /\ \A t \in Slots : t # s => mine'[t] = mine[t]
  BY <1>3 DEF TypeOK
<1> QED BY <1>4, <1>5, <1>6, <1>7, <1>8, <1>9 DEF Moved

LEMMA SetStatus ==
    ASSUME TypeOK, NEW j \in Ids, NEW new \in Statuses, status' = [status EXCEPT ![j] = new]
    PROVE  Restated(j, new)
BY DEF TypeOK, Restated, Statuses

LEMMA AddedJob ==
    ASSUME Base, NEW j \in Ids, NEW t \in Tasks \cup {Callback}, NewJob(j, t)
    PROVE  Added(j, t)
<1>1. Restated(j, "waiting") BY SetStatus DEF NewJob, Base, Statuses
<1> QED BY <1>1 DEF NewJob, Added, Base, TypeOK, Used

\* The client makes the next task.
Enqueued(j) ==
    /\ Added(j, made + 1) /\ made' = made + 1 /\ made < Initial /\ made + 1 \in Tasks
    /\ create = "enqueue"
    /\ create' = IF kind = "chord" THEN "dep" ELSE IF made' = Initial THEN "done" ELSE "enqueue"
    /\ UNCHANGED <<kind, rec, counter, deps, at, job, mine, acked, repeated, retried, raced,
                   disruptions>>

LEMMA DoCreateEnqueue ==
    ASSUME Base, NEW j \in Ids, CreateEnqueue(j)
    PROVE  Enqueued(j)
<1>1. made \in Nat /\ made < Initial /\ Initial \in 1 .. N /\ N \in Nat
  BY Sizes DEF CreateEnqueue, Base, CreateInv, TypeOK
<1>2. made + 1 \in Tasks BY <1>1 DEF Tasks
<1>3. Added(j, made + 1) BY <1>2, AddedJob DEF CreateEnqueue
<1> QED BY <1>1, <1>2, <1>3 DEF CreateEnqueue, redisVars, slotVars, auxVars, Enqueued

\* A slot takes a waiting job.
Taken(s, j) ==
    /\ at[s] = "idle" /\ status[j] = "waiting" /\ Restated(j, "active")
    /\ at' \in [Slots -> Steps] /\ job' \in [Slots -> Ids \cup {NoId}]
    /\ at'[s] = "run" /\ job'[s] = j
    /\ \A t \in Slots : t # s => at'[t] = at[t] /\ job'[t] = job[t]
    /\ UNCHANGED <<rec, counter, deps, kind, create, made, task, mine, acked, repeated,
                   retried, raced, disruptions>>

LEMMA DoTake ==
    ASSUME Base, NEW s \in Slots, NEW j \in Ids, Take(s, j)
    PROVE  Taken(s, j)
<1>1. Restated(j, "active") BY SetStatus DEF Take, Base, Statuses
<1>2. at' = [at EXCEPT ![s] = "run"] /\ job' = [job EXCEPT ![s] = j] BY DEF Take
<1>3. /\ at' \in [Slots -> Steps] /\ job' \in [Slots -> Ids \cup {NoId}]
      /\ at'[s] = "run" /\ job'[s] = j
      /\ \A t \in Slots : t # s => at'[t] = at[t] /\ job'[t] = job[t]
  BY <1>2 DEF Base, TypeOK, Steps
<1> QED BY <1>1, <1>3 DEF Take, redisVars, clientVars, auxVars, Taken

\* A slot at work has an id.
LEMMA Holding ==
    ASSUME Base, NEW s \in Slots, at[s] # "idle"
    PROVE  job[s] \in Ids
BY DEF Base, TypeOK, SlotInv

\* A slot reports the end of its job.
Acked(s) ==
    /\ at[s] = "run" /\ job[s] \in Ids /\ Restated(job[s], "completed")
    /\ Moved(s, "load") /\ mine'[s] = Missing
    /\ acked' = acked \cup {job[s]}
    /\ UNCHANGED <<rec, counter, deps, kind, create, made, task, repeated, retried, raced,
                   disruptions>>

LEMMA DoAck ==
    ASSUME Base, NEW s \in Slots, Ack(s)
    PROVE  Acked(s)
<1>1. at[s] = "run" /\ Report(s, "completed", "load") BY DEF Ack, Report
<1>2. job[s] \in Ids BY <1>1, Holding
<1>3. Restated(job[s], "completed") BY <1>1, <1>2, SetStatus DEF Report, Base, Statuses
<1>4. Moved(s, "load") /\ mine'[s] = Missing
  BY <1>1, Went, RecordFields DEF Report, Base, Steps
<1> QED BY <1>1, <1>2, <1>3, <1>4 DEF Ack, Report, redisVars, clientVars, Acked

Ended(s) ==
    /\ at[s] = "run" /\ job[s] \in Ids
    /\ \E outcome \in {"waiting", "dead", "cancelled"} : Restated(job[s], outcome)
    /\ \/ Moved(s, "idle")
       \/ Moved(s, "loadFailed") /\ mine'[s] = Missing /\ Restated(job[s], "dead")
    /\ UNCHANGED <<rec, counter, deps, kind, create, made, task, acked, repeated, retried,
                   raced, disruptions>>

LEMMA DoEnd ==
    ASSUME Base, NEW s \in Slots, Die(s) \/ DieUnhandled(s) \/ CancelJob(s) \/ Requeue(s)
    PROVE  Ended(s)
<1>1. ASSUME NEW outcome \in {"waiting", "dead", "cancelled"}, NEW step \in {"idle", "loadFailed"},
             Report(s, outcome, step)
      PROVE  /\ at[s] = "run" /\ job[s] \in Ids /\ Restated(job[s], outcome)
             /\ Moved(s, step) /\ (step # "idle" => mine'[s] = Missing)
             /\ UNCHANGED <<rec, counter, deps, kind, create, made, task, repeated, retried, raced,
                            disruptions>>
  <2>1. at[s] = "run" BY <1>1 DEF Report
  <2>2. job[s] \in Ids BY <2>1, Holding
  <2>3. Restated(job[s], outcome) BY <1>1, <2>2, SetStatus DEF Report, Base, Statuses
  <2>4. Moved(s, step) /\ (step # "idle" => mine'[s] = Missing)
    BY <1>1, Went, RecordFields DEF Report, Base, Steps
  <2> QED BY <1>1, <2>1, <2>2, <2>3, <2>4 DEF Report, redisVars, clientVars, Ended
<1>2. CASE Die(s) BY <1>1, <1>2 DEF Die, Ended
<1>3. CASE DieUnhandled(s) BY <1>1, <1>3 DEF DieUnhandled, Ended
<1>4. CASE CancelJob(s) BY <1>1, <1>4 DEF CancelJob, Ended
<1>5. CASE Requeue(s) BY <1>1, <1>5 DEF Requeue, Ended
<1> QED BY <1>2, <1>3, <1>4, <1>5 DEF Ended

\* OnJobCompleted looks at the record.
Loaded(s) ==
    /\ at[s] = "load"
    /\ \/ rec.state = "running" /\ Moved(s, "advance") /\ mine'[s] = rec
       \/ rec.state # "running" /\ Moved(s, "idle")
    /\ UNCHANGED <<rec, counter, deps, kind, create, made, task, status, acked, repeated,
                   retried, raced, disruptions>>

LEMMA DoLoad ==
    ASSUME Base, NEW s \in Slots, Load(s)
    PROVE  Loaded(s)
<1>1. at[s] = "load" /\ Goto(s, IF rec.state = "running" THEN "advance" ELSE "idle", rec)
  BY DEF Load, Advances
<1>2. rec \in Records /\ TypeOK BY DEF Base, TypeOK
<1>3. UNCHANGED <<rec, counter, deps, kind, create, made, task, status, acked, repeated, retried,
                  raced, disruptions>>
  BY DEF Load, redisVars, clientVars, queueVars, auxVars
<1>4. CASE rec.state = "running"
  <2>1. Goto(s, "advance", rec) BY <1>1, <1>4
  <2>2. Moved(s, "advance") /\ mine'[s] = rec BY <1>2, <2>1, Went DEF Steps
  <2> QED BY <1>1, <1>3, <1>4, <2>2 DEF Loaded
<1>5. CASE rec.state # "running"
  <2>1. Goto(s, "idle", rec) BY <1>1, <1>5
  <2>2. Moved(s, "idle") BY <1>2, <2>1, Went DEF Steps
  <2> QED BY <1>1, <1>3, <1>5, <2>2 DEF Loaded
<1> QED BY <1>4, <1>5

\* INCR, and what the slot makes of the value it returns.
Counted(s) ==
    /\ Counting /\ at[s] = "advance" /\ Moved(s, "save")
    /\ counter' \in Nat /\ counter' > counter
    /\ (counter' = counter + 1 /\ repeated' = repeated) \/ repeated' = TRUE
    /\ mine'[s].progress = counter'
    /\ mine'[s].state = IF counter' >= N THEN "completed" ELSE "running"
    /\ disruptions' \in Nat
    /\ UNCHANGED <<rec, deps, kind, create, made, task, status, acked, retried, raced>>

LEMMA DoCounter ==
    ASSUME Base, NEW s \in Slots, AdvanceCounter(s)
    PROVE  Counted(s)
<1>1. /\ Counting /\ at[s] = "advance"
      /\ UNCHANGED <<rec, deps, kind, create, made, task, status, acked, retried, raced>>
  BY DEF AdvanceCounter, Counting, clientVars, queueVars
<1>2. counter \in Nat /\ disruptions \in Nat /\ TypeOK /\ mine[s].state = "running"
  BY <1>1 DEF Base, TypeOK, SlotInv
<1>3. /\ counter' \in Nat /\ counter' > counter /\ disruptions' \in Nat
      /\ (counter' = counter + 1 /\ repeated' = repeated) \/ repeated' = TRUE
  BY <1>2 DEF AdvanceCounter, Count, Disrupt
<1> DEFINE st == IF counter' >= N THEN "completed" ELSE "running"
           r == [state |-> st, progress |-> counter']
<1>4. st \in States BY DEF States
<1>5. r \in Records /\ r.state = st /\ r.progress = counter' BY <1>3, <1>4, RecordFields
<1>6. Goto(s, "save", r) BY <1>2 DEF AdvanceCounter, Learn, Complete
<1>7. Moved(s, "save") /\ mine'[s] = r BY <1>2, <1>5, <1>6, Went DEF Steps
<1> QED BY <1>1, <1>3, <1>5, <1>7 DEF Counted

\* SREM and SCARD.
HeaderGone(s) ==
    /\ kind = "chord" /\ at[s] = "advance" /\ Moved(s, "save")
    /\ deps' = deps \ {job[s]} /\ Cardinality(deps') <= Cardinality(deps)
    /\ Cardinality(deps) \in Nat /\ Cardinality(deps') \in Nat
    /\ mine'[s].state = IF deps' = {} THEN "completed" ELSE "running"
    /\ raced' = (raced \/ create # "done")
    /\ UNCHANGED <<rec, counter, kind, create, made, task, status, acked, repeated, retried,
                   disruptions>>

LEMMA DoChord ==
    ASSUME Base, NEW s \in Slots, AdvanceChord(s)
    PROVE  HeaderGone(s)
<1>1. /\ kind = "chord" /\ at[s] = "advance" /\ deps' = deps \ {job[s]}
      /\ raced' = (raced \/ create # "done")
      /\ UNCHANGED <<rec, counter, kind, create, made, task, status, acked, repeated, retried,
                     disruptions>>
  BY DEF AdvanceChord, clientVars, queueVars
<1>2. deps \subseteq Ids /\ TypeOK /\ mine[s].state = "running" /\ made \in 0 .. N
  BY <1>1 DEF Base, TypeOK, SlotInv
<1>3. IsFiniteSet(Ids) /\ N \in Nat BY <1>2, Sizes DEF TypeOK
<1>4. IsFiniteSet(deps) /\ IsFiniteSet(deps') /\ Cardinality(deps') <= Cardinality(deps)
  <2>1. IsFiniteSet(deps) BY <1>2, <1>3, FS_Subset
  <2>2. deps' \in SUBSET deps BY <1>1
  <2> QED BY <2>1, <2>2, FS_Subset DEF HeaderGone
<1>5. Cardinality(deps) \in Nat /\ Cardinality(deps') \in Nat BY <1>4, FS_CardinalityType
<1>6. Cardinality(deps) <= made BY <1>2, <1>3, <1>5 DEF Base, CreateInv
<1> DEFINE st == IF deps' = {} THEN "completed" ELSE "running"
           p == N - Cardinality(deps')
           r == [state |-> st, progress |-> p]
<1>7. st \in States /\ p \in Nat BY <1>2, <1>3, <1>4, <1>5, <1>6 DEF States
<1>8. r \in Records /\ r.state = st BY <1>7, RecordFields
<1>9. Goto(s, "save", r) BY <1>1, <1>2 DEF AdvanceChord, Learn, LastHeader
<1>10. Moved(s, "save") /\ mine'[s] = r BY <1>2, <1>8, <1>9, Went DEF Steps
<1> QED BY <1>1, <1>4, <1>5, <1>8, <1>10 DEF HeaderGone

\* The slot stores its copy of the record.
Saved(s) ==
    /\ at[s] = "save" /\ rec' = mine[s]
    /\ \/ Following(s) = {} /\ Moved(s, "idle")
       \/ Following(s) # {} /\ Moved(s, "enqueue") /\ mine'[s] = mine[s]
    /\ UNCHANGED <<counter, deps, kind, create, made, task, status, acked, repeated, retried,
                   raced, disruptions>>

LEMMA DoSave ==
    ASSUME Base, NEW s \in Slots, Save(s)
    PROVE  Saved(s)
<1>1. mine[s] \in Records /\ TypeOK BY DEF Base, TypeOK
<1>2. /\ at[s] = "save" /\ rec' = mine[s]
      /\ Goto(s, IF Following(s) = {} THEN "idle" ELSE "enqueue", mine[s])
      /\ UNCHANGED <<counter, deps, kind, create, made, task, status, acked, repeated, retried,
                     raced, disruptions>>
  BY DEF Save, clientVars, queueVars, auxVars
<1>3. CASE Following(s) = {}
  <2>1. Goto(s, "idle", mine[s]) BY <1>2, <1>3
  <2>2. Moved(s, "idle") BY <1>1, <2>1, Went DEF Steps
  <2> QED BY <1>2, <1>3, <2>2 DEF Saved
<1>4. CASE Following(s) # {}
  <2>1. Goto(s, "enqueue", mine[s]) BY <1>2, <1>4
  <2>2. Moved(s, "enqueue") /\ mine'[s] = mine[s] BY <1>1, <2>1, Went DEF Steps
  <2> QED BY <1>2, <1>4, <2>2 DEF Saved
<1> QED BY <1>3, <1>4

\* The next task of a chain, or the callback.
Followed(s, j) ==
    /\ at[s] = "enqueue" /\ Moved(s, "idle")
    /\ \/ /\ kind = "chain" /\ mine[s].state # "completed" /\ mine[s].progress + 1 \in Tasks
          /\ Added(j, mine[s].progress + 1)
       \/ kind = "chord" /\ mine[s].state = "completed" /\ Added(j, Callback)
    /\ UNCHANGED <<rec, counter, deps, kind, create, made, acked, repeated, retried, raced,
                   disruptions>>

LEMMA DoEnqueueNext ==
    ASSUME Base, NEW s \in Slots, NEW j \in Ids, EnqueueNext(s, j)
    PROVE  Followed(s, j)
<1>1. /\ at[s] = "enqueue" /\ Goto(s, "idle", Missing)
      /\ UNCHANGED <<rec, counter, deps, kind, create, made, acked, repeated, retried, raced,
                     disruptions>>
  BY DEF EnqueueNext, redisVars, clientVars, auxVars
<1>2. Moved(s, "idle") BY <1>1, RecordFields, Went DEF Base, Steps
<1>3. mine[s] \in Records /\ N \in Nat BY Sizes DEF Base, TypeOK
<1>4. mine[s].progress \in Nat BY <1>3, RecordFields
<1>5. PICK t \in Following(s) : NewJob(j, t) BY DEF EnqueueNext
<1>6. CASE kind = "chain"
  <2>1. t = mine[s].progress + 1 /\ mine[s].state # "completed" BY <1>5, <1>6 DEF Following
  <2>2. mine[s].progress < N BY <1>1, <1>3, <1>4, <1>6, <2>1 DEF Base, SlotInv, Counting
  <2>3. t \in Tasks BY <1>3, <1>4, <2>1, <2>2 DEF Tasks
  <2>4. Added(j, t) BY <1>5, <2>3, AddedJob
  <2> QED BY <1>1, <1>2, <1>6, <2>1, <2>3, <2>4 DEF Followed
<1>7. CASE kind # "chain"
  <2>1. kind = "chord" /\ mine[s].state = "completed" /\ t = Callback
    BY <1>5, <1>7 DEF Following
  <2>2. Added(j, Callback) BY <1>5, <2>1, AddedJob
  <2> QED BY <1>1, <1>2, <2>1, <2>2 DEF Followed
<1> QED BY <1>6, <1>7

\* OnJobFailed.
FailLoaded(s) ==
    /\ at[s] = "loadFailed"
    /\ \/ Moved(s, "idle")
       \/ /\ rec.state # "missing" /\ Moved(s, "saveFailed")
          /\ mine'[s].state = "failed" /\ mine'[s].progress = rec.progress
    /\ UNCHANGED <<rec, counter, deps, kind, create, made, task, status, acked, repeated,
                   retried, raced, disruptions>>

LEMMA DoLoadFailed ==
    ASSUME Base, NEW s \in Slots, LoadFailed(s)
    PROVE  FailLoaded(s)
<1> DEFINE r == [rec EXCEPT !.state = "failed"]
<1>1. rec \in Records /\ TypeOK BY DEF Base, TypeOK
<1>2. r \in Records /\ r.state = "failed" /\ r.progress = rec.progress BY <1>1 DEF Records
<1>3. /\ at[s] = "loadFailed"
      /\ Goto(s, IF rec.state = "missing" THEN "idle" ELSE "saveFailed", r)
      /\ UNCHANGED <<rec, counter, deps, kind, create, made, task, status, acked, repeated, retried,
                     raced, disruptions>>
  BY DEF LoadFailed, redisVars, clientVars, queueVars, auxVars
<1> HIDE DEF r
<1>4. CASE rec.state = "missing"
  <2>1. Goto(s, "idle", r) BY <1>3, <1>4
  <2>2. Moved(s, "idle") BY <1>1, <1>2, <2>1, Went DEF Steps
  <2> QED BY <1>3, <2>2 DEF FailLoaded
<1>5. CASE rec.state # "missing"
  <2>1. Goto(s, "saveFailed", r) BY <1>3, <1>5
  <2>2. Moved(s, "saveFailed") /\ mine'[s] = r BY <1>1, <1>2, <2>1, Went DEF Steps
  <2> QED BY <1>2, <1>3, <1>5, <2>2 DEF FailLoaded
<1> QED BY <1>4, <1>5

FailSaved(s) ==
    /\ at[s] = "saveFailed" /\ rec' = mine[s] /\ Moved(s, "idle")
    /\ UNCHANGED <<counter, deps, kind, create, made, task, status, acked, repeated, retried,
                   raced, disruptions>>

LEMMA DoSaveFailed ==
    ASSUME Base, NEW s \in Slots, SaveFailed(s)
    PROVE  FailSaved(s)
<1>1. Moved(s, "idle") BY RecordFields, Went DEF SaveFailed, Base, Steps
<1> QED BY <1>1 DEF SaveFailed, clientVars, queueVars, auxVars, FailSaved

\* A slot is freed in the middle.
Aborted(s) ==
    /\ at[s] # "idle" /\ Moved(s, "idle") /\ disruptions' \in Nat
    /\ UNCHANGED <<rec, counter, deps, kind, create, made, task, status, acked, repeated,
                   retried, raced>>

LEMMA DoAbort ==
    ASSUME Base, NEW s \in Slots, Abort(s)
    PROVE  Aborted(s)
<1>1. Moved(s, "idle") BY RecordFields, Went DEF Abort, Base, Steps
<1> QED BY <1>1 DEF Abort, Disrupt, Base, TypeOK, redisVars, clientVars, queueVars, Aborted

\* The queue returns a job: lawfully, once more, or on an operator's demand.
Returned(j) ==
    /\ Restated(j, "waiting") /\ disruptions' \in Nat
    /\ UNCHANGED <<rec, counter, deps, kind, create, made, task, at, job, mine, acked, raced>>
    /\ \/ status[j] = "active" /\ Holders(j) = {} /\ UNCHANGED <<repeated, retried>>
       \/ status[j] = "dead" /\ retried' = TRUE /\ UNCHANGED repeated
       \/ repeated' = TRUE /\ UNCHANGED retried /\ status[j] \in {"active", "completed"}

LEMMA DoReturn ==
    ASSUME Base, NEW j \in Ids, Recover(j) \/ Redeliver(j) \/ RetryDead(j)
    PROVE  Returned(j)
<1>1. status' = [status EXCEPT ![j] = "waiting"] BY DEF Recover, Redeliver, RetryDead
<1>2. Restated(j, "waiting") BY <1>1, SetStatus DEF Base, Statuses
<1>3. disruptions \in Nat BY DEF Base, TypeOK
<1> QED
  BY <1>2, <1>3
    
       DEF Recover, Redeliver, RetryDead, Disrupt, redisVars, clientVars, slotVars, auxVars,
           Returned

(***************************************************************************)
(* Every step is one of these.                                             *)
(***************************************************************************)
Effect ==
    \/ CreateRecord \/ CreateDep \/ CreateFails \/ ExpireRecord \/ UNCHANGED vars
    \/ \E j \in Ids : Enqueued(j) \/ Returned(j)
    \/ \E s \in Slots : \/ Acked(s) \/ Ended(s) \/ Loaded(s) \/ Counted(s) \/ HeaderGone(s)
                        \/ Saved(s) \/ FailLoaded(s) \/ FailSaved(s) \/ Aborted(s)
                        \/ \E j \in Ids : Taken(s, j) \/ Followed(s, j)

LEMMA Effects ==
    ASSUME Base, [Next]_vars
    PROVE  Effect
BY DoCreateEnqueue, DoTake, DoAck, DoEnd, DoLoad, DoCounter, DoChord, DoSave, DoEnqueueNext,
   DoLoadFailed, DoSaveFailed, DoAbort, DoReturn
   DEF Effect, Next, ClientStep, TakeStep, Finish, Advance

\* Numbers and records, as every step needs them.
Facts ==
    /\ N \in Nat /\ N >= 1 /\ Initial \in 1 .. N /\ MaxIds \in Nat
    /\ kind \in {"chain", "group", "chord"}
    /\ kind' = kind /\ N' = N /\ Tasks' = Tasks /\ Initial' = Initial
    /\ (Counting' <=> Counting)
    /\ rec \in Records /\ \A s \in Slots : mine[s] \in Records
    /\ \A r \in Records : r.state \in States /\ r.progress \in Nat
    /\ Missing \in Records /\ Missing.state = "missing" /\ Missing.progress = 0
    /\ IsFiniteSet(deps) /\ Cardinality(deps) \in Nat

LEMMA FactsHold ==
    ASSUME Base, [Next]_vars
    PROVE  Facts
<1>1. kind \in DOMAIN Size /\ rec \in Records /\ \A s \in Slots : mine[s] \in Records
  BY DEF Base, TypeOK
<1>2. IsFiniteSet(deps) /\ Cardinality(deps) \in Nat
  <2>1. deps \in SUBSET Ids /\ IsFiniteSet(Ids) BY <1>1, Sizes DEF Base, TypeOK
  <2> QED BY <2>1, FS_Subset, FS_CardinalityType
<1> QED BY <1>1, <1>2, Sizes, Frame, RecordFields DEF Facts

\* Every action keeps the types: what is counted and stored stays a number, what is
\* enqueued is a task.
LEMMA StepType == Base /\ [Next]_vars => TypeOK'
<1> SUFFICES ASSUME Base, Effect, Facts PROVE TypeOK'
  BY Effects, FactsHold
<1> USE DEF Base, TypeOK, Steps, Statuses, Facts
<1>1. CASE CreateRecord
  <2>1. rec' = [state |-> "running", progress |-> 0] BY <1>1 DEF CreateRecord
  <2>2. rec' \in Records BY <2>1, RecordFields DEF States
  <2> QED BY <1>1, <2>2 DEF CreateRecord, queueVars, slotVars, auxVars
<1>2. ASSUME NEW j \in Ids, Enqueued(j) PROVE TypeOK'
  BY <1>2 DEF Enqueued, Added, Restated
<1>3. CASE CreateDep BY <1>3 DEF CreateDep, Track, queueVars, slotVars, auxVars
<1>4. CASE CreateFails BY <1>4 DEF CreateFails, Disrupt, redisVars, queueVars, slotVars
<1>5. ASSUME NEW s \in Slots, NEW j \in Ids, Taken(s, j) PROVE TypeOK'
  BY <1>5 DEF Taken, Restated
<1>6. ASSUME NEW s \in Slots, Acked(s) PROVE TypeOK' BY <1>6 DEF Acked, Moved, Restated
<1>7. ASSUME NEW s \in Slots, Ended(s) PROVE TypeOK' BY <1>7 DEF Ended, Moved, Restated
<1>8. ASSUME NEW s \in Slots, Loaded(s) PROVE TypeOK' BY <1>8 DEF Loaded, Moved
<1>9. ASSUME NEW s \in Slots, Counted(s) PROVE TypeOK' BY <1>9 DEF Counted, Moved
<1>10. ASSUME NEW s \in Slots, HeaderGone(s) PROVE TypeOK'
  BY <1>10 DEF HeaderGone, Moved
<1>11. ASSUME NEW s \in Slots, Saved(s) PROVE TypeOK' BY <1>11 DEF Saved, Moved
<1>12. ASSUME NEW s \in Slots, NEW j \in Ids, Followed(s, j) PROVE TypeOK'
  BY <1>12 DEF Followed, Moved, Added, Restated
<1>13. ASSUME NEW s \in Slots, FailLoaded(s) PROVE TypeOK'
  BY <1>13 DEF FailLoaded, Moved
<1>14. ASSUME NEW s \in Slots, FailSaved(s) PROVE TypeOK' BY <1>14 DEF FailSaved, Moved
<1>15. ASSUME NEW s \in Slots, Aborted(s) PROVE TypeOK' BY <1>15 DEF Aborted, Moved
<1>16. ASSUME NEW j \in Ids, Returned(j) PROVE TypeOK' BY <1>16 DEF Returned, Restated
<1>17. CASE ExpireRecord
  BY <1>17 DEF ExpireRecord, Disrupt, clientVars, queueVars, slotVars
<1>18. CASE UNCHANGED vars
  BY <1>18 DEF vars, redisVars, clientVars, queueVars, slotVars, auxVars
<1> QED
  BY <1>1, <1>2, <1>3, <1>4, <1>5, <1>6, <1>7, <1>8, <1>9, <1>10, <1>11,
     <1>12, <1>13, <1>14, <1>15, <1>16, <1>17, <1>18
     DEF Effect

\* A slot has what its step needs.
LEMMA StepSlot == Base /\ [Next]_vars => SlotInv'
<1> SUFFICES ASSUME Base, Effect, Facts PROVE SlotInv'
  BY Effects, FactsHold
<1> USE
   DEF Base, TypeOK, SlotInv, Used, Completing, Facts, NoId, Ids, NoTask, Tasks,
       Callback
<1>1. CASE CreateRecord BY <1>1 DEF CreateRecord, queueVars, slotVars, auxVars
<1>2. ASSUME NEW j \in Ids, Enqueued(j) PROVE SlotInv'
  BY <1>2 DEF Enqueued, Added, Restated
<1>3. CASE CreateDep BY <1>3 DEF CreateDep, Track, queueVars, slotVars, auxVars
<1>4. CASE CreateFails BY <1>4 DEF CreateFails, Disrupt, redisVars, queueVars, slotVars
<1>5. ASSUME NEW s \in Slots, NEW j \in Ids, Taken(s, j) PROVE SlotInv'
  BY <1>5 DEF Taken, Restated, JobInv
<1>6. ASSUME NEW s \in Slots, Acked(s) PROVE SlotInv' BY <1>6 DEF Acked, Moved, Restated
<1>7. ASSUME NEW s \in Slots, Ended(s) PROVE SlotInv' BY <1>7 DEF Ended, Moved, Restated
<1>8. ASSUME NEW s \in Slots, Loaded(s) PROVE SlotInv' BY <1>8 DEF Loaded, Moved
<1>9. ASSUME NEW s \in Slots, Counted(s) PROVE SlotInv' BY <1>9 DEF Counted, Moved
<1>10. ASSUME NEW s \in Slots, HeaderGone(s) PROVE SlotInv'
  BY <1>10 DEF HeaderGone, Moved, Counting
<1>11. ASSUME NEW s \in Slots, Saved(s) PROVE SlotInv' BY <1>11 DEF Saved, Moved
<1>12. ASSUME NEW s \in Slots, NEW j \in Ids, Followed(s, j) PROVE SlotInv'
  BY <1>12 DEF Followed, Moved, Added, Restated
<1>13. ASSUME NEW s \in Slots, FailLoaded(s) PROVE SlotInv'
  BY <1>13 DEF FailLoaded, Moved
<1>14. ASSUME NEW s \in Slots, FailSaved(s) PROVE SlotInv' BY <1>14 DEF FailSaved, Moved
<1>15. ASSUME NEW s \in Slots, Aborted(s) PROVE SlotInv' BY <1>15 DEF Aborted, Moved
<1>16. ASSUME NEW j \in Ids, Returned(j) PROVE SlotInv' BY <1>16 DEF Returned, Restated
<1>17. CASE ExpireRecord
  BY <1>17 DEF ExpireRecord, Disrupt, clientVars, queueVars, slotVars
<1>18. CASE UNCHANGED vars
  BY <1>18 DEF vars, redisVars, clientVars, queueVars, slotVars, auxVars
<1> QED
  BY <1>1, <1>2, <1>3, <1>4, <1>5, <1>6, <1>7, <1>8, <1>9, <1>10, <1>11,
     <1>12, <1>13, <1>14, <1>15, <1>16, <1>17, <1>18
     DEF Effect

\* Ids are used once.
LEMMA StepJob == Base /\ [Next]_vars => JobInv'
<1> SUFFICES ASSUME Base, Effect, Facts PROVE JobInv'
  BY Effects, FactsHold
<1> USE DEF Base, TypeOK, SlotInv, JobInv, Used, NoTask, Tasks, Callback, Facts
<1>1. CASE CreateRecord BY <1>1 DEF CreateRecord, queueVars, slotVars, auxVars
<1>2. ASSUME NEW j \in Ids, Enqueued(j) PROVE JobInv'
  BY <1>2 DEF Enqueued, Added, Restated
<1>3. CASE CreateDep BY <1>3 DEF CreateDep, Track, queueVars, slotVars, auxVars
<1>4. CASE CreateFails BY <1>4 DEF CreateFails, Disrupt, redisVars, queueVars, slotVars
<1>5. ASSUME NEW s \in Slots, NEW j \in Ids, Taken(s, j) PROVE JobInv'
  BY <1>5 DEF Taken, Restated
<1>6. ASSUME NEW s \in Slots, Acked(s) PROVE JobInv' BY <1>6 DEF Acked, Moved, Restated
<1>7. ASSUME NEW s \in Slots, Ended(s) PROVE JobInv' BY <1>7 DEF Ended, Moved, Restated
<1>8. ASSUME NEW s \in Slots, Loaded(s) PROVE JobInv' BY <1>8 DEF Loaded, Moved
<1>9. ASSUME NEW s \in Slots, Counted(s) PROVE JobInv' BY <1>9 DEF Counted, Moved
<1>10. ASSUME NEW s \in Slots, HeaderGone(s) PROVE JobInv'
  BY <1>10 DEF HeaderGone, Moved
<1>11. ASSUME NEW s \in Slots, Saved(s) PROVE JobInv' BY <1>11 DEF Saved, Moved
<1>12. ASSUME NEW s \in Slots, NEW j \in Ids, Followed(s, j) PROVE JobInv'
  BY <1>12 DEF Followed, Moved, Added, Restated
<1>13. ASSUME NEW s \in Slots, FailLoaded(s) PROVE JobInv'
  BY <1>13 DEF FailLoaded, Moved
<1>14. ASSUME NEW s \in Slots, FailSaved(s) PROVE JobInv' BY <1>14 DEF FailSaved, Moved
<1>15. ASSUME NEW s \in Slots, Aborted(s) PROVE JobInv' BY <1>15 DEF Aborted, Moved
<1>16. ASSUME NEW j \in Ids, Returned(j) PROVE JobInv' BY <1>16 DEF Returned, Restated
<1>17. CASE ExpireRecord
  BY <1>17 DEF ExpireRecord, Disrupt, clientVars, queueVars, slotVars
<1>18. CASE UNCHANGED vars
  BY <1>18 DEF vars, redisVars, clientVars, queueVars, slotVars, auxVars
<1> QED
  BY <1>1, <1>2, <1>3, <1>4, <1>5, <1>6, <1>7, <1>8, <1>9, <1>10, <1>11,
     <1>12, <1>13, <1>14, <1>15, <1>16, <1>17, <1>18
     DEF Effect

\* The client goes on, or stops.
LEMMA StepCreate == Base /\ [Next]_vars => CreateInv'
<1> SUFFICES ASSUME Base, Effect, Facts PROVE CreateInv'
  BY Effects, FactsHold
<1> USE DEF Base, TypeOK, SlotInv, CreateInv, Used, Facts
<1>1. CASE CreateRecord BY <1>1 DEF CreateRecord, queueVars, slotVars, auxVars
<1>2. ASSUME NEW j \in Ids, Enqueued(j) PROVE CreateInv'
  BY <1>2 DEF Enqueued, Added, Restated
<1>3. CASE CreateDep
  <2>1. PICK j \in Ids : deps' = deps \cup {j} BY <1>3 DEF CreateDep, Track
  <2>2. Cardinality(deps') \in Nat /\ Cardinality(deps') <= Cardinality(deps) + 1
    <3>1. IsFiniteSet(deps) /\ Cardinality(deps) \in Nat OBVIOUS
    <3>2. Cardinality(deps \cup {j}) = IF j \in deps THEN Cardinality(deps) ELSE Cardinality(deps) + 1
      BY <3>1, FS_AddElement
    <3> QED BY <2>1, <3>1, <3>2
  <2>3. made <= Initial BY <1>3 DEF CreateDep, Initial
  <2> QED BY <1>3, <2>2, <2>3 DEF CreateDep, queueVars, slotVars, auxVars
<1>4. CASE CreateFails BY <1>4 DEF CreateFails, Disrupt, redisVars, queueVars, slotVars
<1>5. ASSUME NEW s \in Slots, NEW j \in Ids, Taken(s, j) PROVE CreateInv'
  BY <1>5 DEF Taken, Restated
<1>6. ASSUME NEW s \in Slots, Acked(s) PROVE CreateInv'
  BY <1>6 DEF Acked, Moved, Restated
<1>7. ASSUME NEW s \in Slots, Ended(s) PROVE CreateInv'
  BY <1>7 DEF Ended, Moved, Restated
<1>8. ASSUME NEW s \in Slots, Loaded(s) PROVE CreateInv' BY <1>8 DEF Loaded, Moved
<1>9. ASSUME NEW s \in Slots, Counted(s) PROVE CreateInv' BY <1>9 DEF Counted, Moved
<1>10. ASSUME NEW s \in Slots, HeaderGone(s) PROVE CreateInv'
  BY <1>10 DEF HeaderGone, Moved
<1>11. ASSUME NEW s \in Slots, Saved(s) PROVE CreateInv' BY <1>11 DEF Saved, Moved
<1>12. ASSUME NEW s \in Slots, NEW j \in Ids, Followed(s, j) PROVE CreateInv'
  BY <1>12 DEF Followed, Moved, Added, Restated
<1>13. ASSUME NEW s \in Slots, FailLoaded(s) PROVE CreateInv'
  BY <1>13 DEF FailLoaded, Moved
<1>14. ASSUME NEW s \in Slots, FailSaved(s) PROVE CreateInv'
  BY <1>14 DEF FailSaved, Moved
<1>15. ASSUME NEW s \in Slots, Aborted(s) PROVE CreateInv' BY <1>15 DEF Aborted, Moved
<1>16. ASSUME NEW j \in Ids, Returned(j) PROVE CreateInv'
  BY <1>16 DEF Returned, Restated
<1>17. CASE ExpireRecord
  BY <1>17 DEF ExpireRecord, Disrupt, clientVars, queueVars, slotVars
<1>18. CASE UNCHANGED vars
  BY <1>18 DEF vars, redisVars, clientVars, queueVars, slotVars, auxVars
<1> QED
  BY <1>1, <1>2, <1>3, <1>4, <1>5, <1>6, <1>7, <1>8, <1>9, <1>10, <1>11,
     <1>12, <1>13, <1>14, <1>15, <1>16, <1>17, <1>18
     DEF Effect

\* The facts about slots, ids and the client support each other.
LEMMA StepBase == Base /\ [Next]_vars => Base'
BY StepType, StepSlot, StepJob, StepCreate DEF Base

\* A slot that goes on, or drops its job, does not become a second holder.
LEMMA OneHolderKept ==
    ASSUME OneHolder, NEW s \in Slots, NEW step, Moved(s, step), step # "run",
           step \in Completing => Held(s)
    PROVE  OneHolder'
<1> SUFFICES ASSUME NEW u \in Slots, NEW v \in Slots, Held(u)', Held(v)', job'[u] = job'[v]
             PROVE  u = v
  BY DEF OneHolder
<1>1. ASSUME NEW w \in Slots, Held(w)' PROVE Held(w) /\ job'[w] = job[w]
  BY <1>1 DEF Moved, Held, Completing
<1> QED BY <1>1 DEF OneHolder

\* So a step of a slot that leaves the queue alone keeps all of it.
LEMMA OnceKept ==
    ASSUME OnceInv, NEW s \in Slots, NEW step, Moved(s, step), step # "run",
           step \in Completing => Held(s), UNCHANGED <<acked, status>>, repeated' \/ ~repeated
    PROVE  OnceInv'
<1> SUFFICES ASSUME ~repeated' PROVE OnceInv' BY DEF OnceInv
<1>1. OneHolder' BY OneHolderKept DEF OnceInv
<1>2. \A t \in Slots : at'[t] = "run" => at[t] = "run" /\ job'[t] = job[t] BY DEF Moved
<1> QED BY <1>1, <1>2 DEF OnceInv

\* A job that is not delivered twice stays with its slot.
LEMMA StepOnce == Base /\ OnceInv /\ [Next]_vars => OnceInv'
<1> SUFFICES ASSUME Base /\ OnceInv, Effect, Facts PROVE OnceInv'
  BY Effects, FactsHold
<1>1. CASE CreateRecord
  BY <1>1 DEF CreateRecord, queueVars, slotVars, auxVars, OnceInv, OneHolder, Held
<1>2. ASSUME NEW j \in Ids, Enqueued(j) PROVE OnceInv'
  <2>1. OneHolder' <=> OneHolder BY <1>2 DEF Enqueued, OneHolder, Held
  <2>2. j \notin acked /\ \A s \in Slots : at[s] = "run" => job[s] # j /\ job[s] \in Ids
    BY <1>2, Holding DEF Enqueued, Added, Base, TypeOK, JobInv, SlotInv
  <2> QED BY <1>2, <2>1, <2>2 DEF Enqueued, Added, Restated, OnceInv, Base, TypeOK
<1>3. CASE CreateDep
  BY <1>3 DEF CreateDep, queueVars, slotVars, auxVars, OnceInv, OneHolder, Held
<1>4. CASE CreateFails
  BY <1>4 DEF CreateFails, queueVars, slotVars, OnceInv, OneHolder, Held
<1>5. ASSUME NEW s \in Slots, NEW j \in Ids, Taken(s, j) PROVE OnceInv'
  <2> SUFFICES ASSUME ~repeated PROVE OnceInv' BY <1>5 DEF Taken, OnceInv
  <2>1. /\ j \notin acked
        /\ \A t \in Slots : Held(t) => job[t] # j /\ job[t] \in Ids /\ t # s
    <3>1. j \notin acked BY <1>5 DEF Taken, OnceInv
    <3>2. ASSUME NEW t \in Slots, Held(t) PROVE job[t] # j /\ job[t] \in Ids /\ t # s
      <4>1. at[t] # "idle" /\ t # s BY <1>5, <3>2 DEF Held, Completing, Taken
      <4>2. job[t] \in Ids BY <4>1, Holding
      <4>3. CASE at[t] = "run" BY <1>5, <4>1, <4>2, <4>3 DEF Taken, OnceInv
      <4>4. CASE at[t] \in Completing BY <1>5, <4>1, <4>2, <4>4, <3>1 DEF Base, SlotInv
      <4> QED BY <3>2, <4>3, <4>4 DEF Held
    <3> QED BY <3>1, <3>2
  <2>2. ASSUME NEW t \in Slots, Held(t)' PROVE (t = s /\ job'[t] = j) \/ (Held(t) /\ job'[t] = job[t])
    BY <1>5, <2>2 DEF Taken, Held, Completing
  <2>3. OneHolder' BY <2>1, <2>2 DEF OneHolder, OnceInv
  <2>4. \A t \in Slots : at'[t] = "run" => status'[job'[t]] = "active"
    BY <1>5, <2>1 DEF Taken, Restated, OnceInv, Held
  <2> QED BY <1>5, <2>1, <2>3, <2>4 DEF Taken, Restated, OnceInv, Base, TypeOK
<1>6. ASSUME NEW s \in Slots, Acked(s) PROVE OnceInv'
  <2> SUFFICES ASSUME ~repeated PROVE OnceInv' BY <1>6 DEF Acked, OnceInv
  <2>1. OneHolder' BY <1>6, OneHolderKept DEF Acked, Held, Completing, OnceInv
  <2>2. \A t \in Slots : at'[t] = "run" =>
          t # s /\ at[t] = "run" /\ job'[t] = job[t] /\ job[t] # job[s] /\ job[t] \in Ids
    BY <1>6, Holding DEF Acked, Moved, OnceInv, OneHolder, Held
  <2>3. \A t \in Slots : at'[t] = "run" => status'[job'[t]] = "active"
    BY <1>6, <2>2 DEF Acked, Restated, OnceInv
  <2>4. \A i \in acked' : status'[i] = "completed"
    BY <1>6 DEF Acked, Restated, OnceInv, Base, TypeOK
  <2> QED BY <2>1, <2>3, <2>4 DEF OnceInv
<1>7. ASSUME NEW s \in Slots, Ended(s) PROVE OnceInv'
  <2> SUFFICES ASSUME ~repeated PROVE OnceInv' BY <1>7 DEF Ended, OnceInv
  <2>1. OneHolder' BY <1>7, OneHolderKept DEF Ended, Completing, OnceInv
  <2>2. \A t \in Slots : at'[t] = "run" =>
          t # s /\ at[t] = "run" /\ job'[t] = job[t] /\ job[t] # job[s] /\ job[t] \in Ids
    BY <1>7, Holding DEF Ended, Moved, OnceInv, OneHolder, Held
  <2>3. \A t \in Slots : at'[t] = "run" => status'[job'[t]] = "active"
    BY <1>7, <2>2 DEF Ended, Restated, OnceInv
  <2>4. job[s] \notin acked BY <1>7 DEF Ended, OnceInv
  <2>5. \A i \in acked' : status'[i] = "completed"
    BY <1>7, <2>4 DEF Ended, Restated, OnceInv, Base, TypeOK
  <2> QED BY <2>1, <2>3, <2>5 DEF OnceInv
<1>8. ASSUME NEW s \in Slots, Loaded(s) PROVE OnceInv'
  BY <1>8, OnceKept DEF Loaded, Held, Completing, Base, TypeOK
<1>9. ASSUME NEW s \in Slots, Counted(s) PROVE OnceInv'
  BY <1>9, OnceKept DEF Counted, Held, Completing, Base, TypeOK
<1>10. ASSUME NEW s \in Slots, HeaderGone(s) PROVE OnceInv'
  BY <1>10, OnceKept DEF HeaderGone, Held, Completing, Base, TypeOK
<1>11. ASSUME NEW s \in Slots, Saved(s) PROVE OnceInv'
  BY <1>11, OnceKept DEF Saved, Held, Completing, Base, TypeOK
<1>12. ASSUME NEW s \in Slots, NEW j \in Ids, Followed(s, j) PROVE OnceInv'
  <2> SUFFICES ASSUME ~repeated PROVE OnceInv' BY <1>12 DEF Followed, OnceInv
  <2>1. Added(j, task'[j]) /\ Moved(s, "idle") /\ UNCHANGED acked BY <1>12 DEF Followed, Added
  <2>2. OneHolder' BY <2>1, OneHolderKept DEF Completing, OnceInv
  <2>3. j \notin acked /\ \A t \in Slots : at'[t] = "run" =>
          at[t] = "run" /\ job'[t] = job[t] /\ job[t] # j /\ job[t] \in Ids
    BY <2>1, Holding DEF Moved, Added, Base, JobInv, SlotInv
  <2> QED BY <2>1, <2>2, <2>3 DEF Added, Restated, OnceInv, Base, TypeOK
<1>13. ASSUME NEW s \in Slots, FailLoaded(s) PROVE OnceInv'
  BY <1>13, OnceKept DEF FailLoaded, Completing, Base, TypeOK
<1>14. ASSUME NEW s \in Slots, FailSaved(s) PROVE OnceInv'
  BY <1>14, OnceKept DEF FailSaved, Completing, Base, TypeOK
<1>15. ASSUME NEW s \in Slots, Aborted(s) PROVE OnceInv'
  BY <1>15, OnceKept DEF Aborted, Completing, Base, TypeOK
<1>16. ASSUME NEW j \in Ids, Returned(j) PROVE OnceInv'
  <2> SUFFICES ASSUME ~repeated' PROVE OnceInv' BY DEF OnceInv
  <2>1. ~repeated BY <1>16 DEF Returned
  <2>2. OneHolder' <=> OneHolder BY <1>16 DEF Returned, OneHolder, Held
  <2>3. j \notin acked BY <1>16, <2>1 DEF Returned, OnceInv
  <2>4. \A t \in Slots : at[t] = "run" => job[t] # j /\ job[t] \in Ids
    BY <1>16, <2>1, Holding DEF Returned, OnceInv, Holders
  <2> QED BY <1>16, <2>1, <2>2, <2>3, <2>4 DEF Returned, Restated, OnceInv, Base, TypeOK
<1>17. CASE ExpireRecord
  BY <1>17 DEF ExpireRecord, queueVars, slotVars, OnceInv, OneHolder, Held
<1>18. CASE UNCHANGED vars
  BY <1>18
     DEF vars, redisVars, clientVars, queueVars, slotVars, auxVars, OnceInv, OneHolder, Held
<1> QED
  BY <1>1, <1>2, <1>3, <1>4, <1>5, <1>6, <1>7, <1>8, <1>9, <1>10, <1>11,
     <1>12, <1>13, <1>14, <1>15, <1>16, <1>17, <1>18
     DEF Effect

\* Finitely many completions have been told.
LEMMA ToldFinite ==
    ASSUME TypeOK
    PROVE  IsFiniteSet(Told) /\ Cardinality(Told) \in Nat
<1>1. Told \in SUBSET Ids /\ IsFiniteSet(Ids) BY Sizes DEF Told, TypeOK
<1> QED BY <1>1, FS_Subset, FS_CardinalityType

\* What was told stays told.
LEMMA ToldGrows ==
    ASSUME TypeOK, TypeOK', Told \subseteq Told'
    PROVE  /\ Cardinality(Told) <= Cardinality(Told')
           /\ \A j \in Told' : j \notin Told => Cardinality(Told) + 1 <= Cardinality(Told')
           /\ Cardinality(Told) \in Nat /\ Cardinality(Told') \in Nat
<1>1. IsFiniteSet(Told) /\ Cardinality(Told) \in Nat BY ToldFinite
<1>2. IsFiniteSet(Told') /\ Cardinality(Told') \in Nat
  <2>1. Told' \in SUBSET Ids /\ IsFiniteSet(Ids) BY Sizes DEF Told, TypeOK
  <2> QED BY <2>1, FS_Subset, FS_CardinalityType
<1>3. Cardinality(Told) <= Cardinality(Told') BY <1>2, FS_Subset
<1>4. ASSUME NEW j \in Told', j \notin Told PROVE Cardinality(Told) + 1 <= Cardinality(Told')
  <2>1. Cardinality(Told \cup {j}) = Cardinality(Told) + 1 BY <1>1, <1>4, FS_AddElement
  <2>2. Told \cup {j} \in SUBSET Told' BY <1>4
  <2> QED BY <1>2, <2>1, <2>2, FS_Subset
<1> QED BY <1>1, <1>2, <1>3, <1>4

\* No step takes a completion back that was told.
LEMMA StepTold == Base /\ OnceInv /\ [Next]_vars => (~repeated' => Told \subseteq Told')
<1> SUFFICES ASSUME Base /\ OnceInv, Effect, Facts PROVE (~repeated' => Told \subseteq Told')
  BY Effects, FactsHold
<1> USE
   DEF OnceInv, OneHolder, Held, Base, TypeOK, SlotInv, JobInv, Told, Pending, Used,
       Completing, NoId, Ids, Facts
<1>1. CASE CreateRecord BY <1>1 DEF CreateRecord, queueVars, slotVars, auxVars
<1>2. ASSUME NEW j \in Ids, Enqueued(j) PROVE (~repeated' => Told \subseteq Told')
  BY <1>2 DEF Enqueued, Added, Restated
<1>3. CASE CreateDep BY <1>3 DEF CreateDep, Track, queueVars, slotVars, auxVars
<1>4. CASE CreateFails BY <1>4 DEF CreateFails, Disrupt, redisVars, queueVars, slotVars
<1>5. ASSUME NEW s \in Slots, NEW j \in Ids, Taken(s, j) PROVE (~repeated' => Told \subseteq Told')
  BY <1>5 DEF Taken, Restated
<1>6. ASSUME NEW s \in Slots, Acked(s) PROVE (~repeated' => Told \subseteq Told')
  BY <1>6 DEF Acked, Moved, Restated
<1>7. ASSUME NEW s \in Slots, Ended(s) PROVE (~repeated' => Told \subseteq Told')
  BY <1>7 DEF Ended, Moved, Restated
<1>8. ASSUME NEW s \in Slots, Loaded(s) PROVE (~repeated' => Told \subseteq Told')
  BY <1>8 DEF Loaded, Moved
<1>9. ASSUME NEW s \in Slots, Counted(s) PROVE (~repeated' => Told \subseteq Told')
  BY <1>9 DEF Counted, Moved
<1>10. ASSUME NEW s \in Slots, HeaderGone(s) PROVE (~repeated' => Told \subseteq Told')
  BY <1>10 DEF HeaderGone, Moved
<1>11. ASSUME NEW s \in Slots, Saved(s) PROVE (~repeated' => Told \subseteq Told')
  BY <1>11 DEF Saved, Moved
<1>12. ASSUME NEW s \in Slots, NEW j \in Ids, Followed(s, j) PROVE (~repeated' => Told \subseteq Told')
  BY <1>12 DEF Followed, Moved, Added, Restated
<1>13. ASSUME NEW s \in Slots, FailLoaded(s) PROVE (~repeated' => Told \subseteq Told')
  BY <1>13 DEF FailLoaded, Moved
<1>14. ASSUME NEW s \in Slots, FailSaved(s) PROVE (~repeated' => Told \subseteq Told')
  BY <1>14 DEF FailSaved, Moved
<1>15. ASSUME NEW s \in Slots, Aborted(s) PROVE (~repeated' => Told \subseteq Told')
  BY <1>15 DEF Aborted, Moved
<1>16. ASSUME NEW j \in Ids, Returned(j) PROVE (~repeated' => Told \subseteq Told')
  BY <1>16 DEF Returned, Restated, Holders
<1>17. CASE ExpireRecord
  BY <1>17 DEF ExpireRecord, Disrupt, clientVars, queueVars, slotVars
<1>18. CASE UNCHANGED vars
  BY <1>18 DEF vars, redisVars, clientVars, queueVars, slotVars, auxVars
<1> QED
  BY <1>1, <1>2, <1>3, <1>4, <1>5, <1>6, <1>7, <1>8, <1>9, <1>10, <1>11,
     <1>12, <1>13, <1>14, <1>15, <1>16, <1>17, <1>18
     DEF Effect

\* Only an advance sees the counter reach N, and the counter does not go back.
LEMMA StepDone == Base /\ DoneInv /\ [Next]_vars => DoneInv'
<1> SUFFICES ASSUME Base /\ DoneInv, Effect, Facts PROVE DoneInv'
  BY Effects, FactsHold
<1> USE DEF DoneInv, Base, TypeOK, Facts
<1>1. CASE CreateRecord BY <1>1 DEF CreateRecord, queueVars, slotVars, auxVars
<1>2. ASSUME NEW j \in Ids, Enqueued(j) PROVE DoneInv'
  BY <1>2 DEF Enqueued, Added, Restated
<1>3. CASE CreateDep BY <1>3 DEF CreateDep, Track, queueVars, slotVars, auxVars
<1>4. CASE CreateFails BY <1>4 DEF CreateFails, Disrupt, redisVars, queueVars, slotVars
<1>5. ASSUME NEW s \in Slots, NEW j \in Ids, Taken(s, j) PROVE DoneInv'
  BY <1>5 DEF Taken, Restated
<1>6. ASSUME NEW s \in Slots, Acked(s) PROVE DoneInv' BY <1>6 DEF Acked, Moved, Restated
<1>7. ASSUME NEW s \in Slots, Ended(s) PROVE DoneInv' BY <1>7 DEF Ended, Moved, Restated
<1>8. ASSUME NEW s \in Slots, Loaded(s) PROVE DoneInv' BY <1>8 DEF Loaded, Moved
<1>9. ASSUME NEW s \in Slots, Counted(s) PROVE DoneInv' BY <1>9 DEF Counted, Moved
<1>10. ASSUME NEW s \in Slots, HeaderGone(s) PROVE DoneInv'
  BY <1>10 DEF HeaderGone, Moved, Counting
<1>11. ASSUME NEW s \in Slots, Saved(s) PROVE DoneInv' BY <1>11 DEF Saved, Moved
<1>12. ASSUME NEW s \in Slots, NEW j \in Ids, Followed(s, j) PROVE DoneInv'
  BY <1>12 DEF Followed, Moved, Added, Restated
<1>13. ASSUME NEW s \in Slots, FailLoaded(s) PROVE DoneInv'
  BY <1>13 DEF FailLoaded, Moved
<1>14. ASSUME NEW s \in Slots, FailSaved(s) PROVE DoneInv' BY <1>14 DEF FailSaved, Moved
<1>15. ASSUME NEW s \in Slots, Aborted(s) PROVE DoneInv' BY <1>15 DEF Aborted, Moved
<1>16. ASSUME NEW j \in Ids, Returned(j) PROVE DoneInv' BY <1>16 DEF Returned, Restated
<1>17. CASE ExpireRecord
  BY <1>17 DEF ExpireRecord, Disrupt, clientVars, queueVars, slotVars
<1>18. CASE UNCHANGED vars
  BY <1>18 DEF vars, redisVars, clientVars, queueVars, slotVars, auxVars
<1> QED
  BY <1>1, <1>2, <1>3, <1>4, <1>5, <1>6, <1>7, <1>8, <1>9, <1>10, <1>11,
     <1>12, <1>13, <1>14, <1>15, <1>16, <1>17, <1>18
     DEF Effect

\* Only INCR changes the counter, and a repetition is never forgotten.
LEMMA CounterSteps ==
    ASSUME Base, [Next]_vars
    PROVE  /\ counter' = counter \/ \E s \in Slots : Counted(s)
           /\ repeated => repeated'
<1>1. Effect BY Effects
<1>2. repeated \in BOOLEAN BY DEF Base, TypeOK
<1> QED
  BY <1>1, <1>2
    
       DEF Effect, Enqueued, Returned, Taken, Followed, Acked, Ended, Loaded, Counted,
           HeaderGone, Saved,
         FailLoaded, FailSaved, Aborted, CreateRecord, CreateDep, CreateFails, ExpireRecord, vars,
         redisVars, clientVars, slotVars, auxVars

\* The counter goes up by one, and the completion that was counted is told.
LEMMA StepCount == Base /\ Base' /\ OnceInv /\ CountInv /\ [Next]_vars => CountInv'
<1> SUFFICES ASSUME Base, Base', OnceInv, CountInv, [Next]_vars, Counting', ~repeated'
             PROVE  counter' <= Cardinality(Told')
  BY DEF CountInv
<1>1. Counting /\ ~repeated BY Frame, CounterSteps
<1>2. Told \subseteq Told' BY StepTold
<1>3. counter <= Cardinality(Told) /\ counter \in Nat BY <1>1 DEF CountInv, Base, TypeOK
<1>4. /\ Cardinality(Told) <= Cardinality(Told') /\ Cardinality(Told') \in Nat
      /\ \A j \in Told' : j \notin Told => Cardinality(Told) + 1 <= Cardinality(Told')
      /\ Cardinality(Told) \in Nat
  BY <1>2, ToldGrows DEF Base
<1>5. CASE counter' = counter BY <1>3, <1>4, <1>5
<1>6. ASSUME NEW s \in Slots, Counted(s) PROVE counter' <= Cardinality(Told')
  <2>1. counter' = counter + 1 BY <1>6 DEF Counted
  <2>2. job[s] \in acked /\ s \in Pending /\ acked' = acked
    BY <1>6 DEF Counted, Base, SlotInv, Completing, Pending
  <2>3. job[s] \notin Told BY <2>2 DEF Told
  <2>4. ASSUME NEW t \in Pending', job'[t] = job[s] PROVE FALSE
    <3>1. t # s /\ t \in Slots /\ Held(t) /\ Held(s) /\ job[t] = job[s]
      BY <1>6, <2>4 DEF Counted, Moved, Pending, Held, Completing
    <3> QED BY <1>1, <3>1 DEF OnceInv, OneHolder
  <2>5. job[s] \in Told' BY <2>2, <2>4 DEF Told
  <2> QED BY <1>3, <1>4, <2>1, <2>3, <2>5
<1> QED BY <1>5, <1>6, CounterSteps

\* The least free id, when the ids up to some number are the used ones.
LEMMA NextId ==
    ASSUME MaxIds \in Nat, NEW j \in Ids, NEW n \in Nat, Added(j, task'[j]),
           n + 1 \in Ids => ~Used(n + 1), \A i \in Ids : i <= n => Used(i)
    PROVE  j = n + 1
BY DEF Added, Ids

\* In a chain one slot at most deals with a completion.
LEMMA OneCompleting ==
    ASSUME Base, OnceInv, ChainInv, kind = "chain", ~repeated, MaxIds \in Nat,
           NEW s \in Slots, NEW t \in Slots, at[s] \in Completing, at[t] \in Completing
    PROVE  s = t
<1>1. ASSUME NEW u \in Slots, at[u] \in Completing
      PROVE  /\ job[u] \in Ids /\ Used(job[u])
             /\ job[u] + 1 \in Ids => ~Used(job[u] + 1)
  BY <1>1, Holding DEF Completing, Base, SlotInv, ChainInv, AtEnd
<1>2. ASSUME NEW i \in Ids, NEW j \in Ids, Used(j), i < j, ~(i + 1 \in Ids /\ Used(i + 1))
      PROVE  FALSE
  <2>1. i + 1 \in Ids BY <1>2 DEF Ids
  <2>2. CASE i + 1 = j BY <1>2, <2>1, <2>2
  <2>3. CASE i + 1 < j BY <1>2, <2>1, <2>3 DEF ChainInv
  <2> QED BY <1>2, <2>2, <2>3 DEF Ids
<1>3. job[s] = job[t] BY <1>1, <1>2 DEF Ids
<1> QED BY <1>3 DEF OnceInv, OneHolder, Held

\* The slot that enqueues the next task of a chain gives it the id that follows its own.
LEMMA ChainNext ==
    ASSUME Base, Facts, ChainInv, kind = "chain", ~repeated, NEW s \in Slots, NEW j \in Ids, Followed(s, j)
    PROVE  /\ j = job[s] + 1 /\ counter = job[s] /\ Added(j, j)
           /\ \A i \in Ids : i < j => i \in acked
<1>1. at[s] = "enqueue" /\ Added(j, mine[s].progress + 1) BY DEF Followed
<1>2. job[s] \in Ids /\ Used(job[s]) /\ job[s] \in acked
  BY <1>1, Holding DEF Base, SlotInv, Completing
<1>3. /\ job[s] + 1 \in Ids => ~Used(job[s] + 1)
      /\ counter = job[s] /\ mine[s].progress = counter
  BY <1>1 DEF ChainInv, AtEnd, Completing, Pending
<1>4. \A i \in Ids : i <= job[s] => Used(i) /\ i \in acked BY <1>2 DEF ChainInv, Ids
<1>5. job[s] \in Nat /\ MaxIds \in Nat BY <1>2 DEF Ids, Facts
<1>6. j = job[s] + 1
  <2>1. Added(j, task'[j]) BY <1>1 DEF Added
  <2> QED BY <1>3, <1>4, <1>5, <2>1, NextId
<1> QED BY <1>1, <1>3, <1>4, <1>5, <1>6 DEF Ids

\* The client of a chain makes the first job of all.
LEMMA ChainFirst ==
    ASSUME Base, Facts, kind = "chain", NEW j \in Ids, Enqueued(j)
    PROVE  j = 1 /\ made = 0 /\ Added(1, 1) /\ \A i \in Ids : ~Used(i)
<1>1. made = 0 /\ Added(j, made + 1) BY DEF Enqueued, Initial, Base, TypeOK, Facts
<1>2. \A i \in Ids : ~Used(i) BY <1>1 DEF Base, CreateInv
<1>3. j = 1 BY <1>1, <1>2 DEF Added, Ids, Facts
<1> QED BY <1>1, <1>2, <1>3

\* Ids follow the order of the tasks.
LEMMA StepId == Base /\ ChainInv /\ IdInv /\ [Next]_vars => IdInv'
<1> SUFFICES ASSUME Base /\ ChainInv /\ IdInv, Effect, Facts PROVE IdInv'
  BY Effects, FactsHold
<1> USE DEF IdInv, Base, TypeOK, Facts
<1>1. CASE CreateRecord BY <1>1 DEF CreateRecord, queueVars, slotVars, auxVars
<1>2. ASSUME NEW j \in Ids, Enqueued(j) PROVE IdInv'
  <2>1. ASSUME kind = "group" PROVE IdInv'
    <3>1. made \in Nat /\ Added(j, made + 1) BY <1>2 DEF Enqueued
    <3>2. j = made + 1
      <4>1. Added(j, task'[j]) BY <3>1 DEF Added
      <4>2. made + 1 \in Ids => ~Used(made + 1) BY <2>1, <3>1 DEF Used
      <4>3. \A i \in Ids : i <= made => Used(i) BY <2>1, <3>1 DEF Used, Ids, NoTask
      <4> QED BY <3>1, <4>1, <4>2, <4>3, NextId
    <3> QED BY <1>2, <2>1, <3>1, <3>2 DEF Enqueued, Added, Ids
  <2>2. ASSUME kind = "chain" PROVE IdInv'
    BY <1>2, <2>2, ChainFirst DEF Enqueued, Added
  <2> QED BY <2>1, <2>2
<1>3. CASE CreateDep BY <1>3 DEF CreateDep, Track, queueVars, slotVars, auxVars
<1>4. CASE CreateFails BY <1>4 DEF CreateFails, Disrupt, redisVars, queueVars, slotVars
<1>5. ASSUME NEW s \in Slots, NEW j \in Ids, Taken(s, j) PROVE IdInv'
  BY <1>5 DEF Taken, Restated
<1>6. ASSUME NEW s \in Slots, Acked(s) PROVE IdInv' BY <1>6 DEF Acked, Moved, Restated
<1>7. ASSUME NEW s \in Slots, Ended(s) PROVE IdInv' BY <1>7 DEF Ended, Moved, Restated
<1>8. ASSUME NEW s \in Slots, Loaded(s) PROVE IdInv' BY <1>8 DEF Loaded, Moved
<1>9. ASSUME NEW s \in Slots, Counted(s) PROVE IdInv' BY <1>9 DEF Counted, Moved
<1>10. ASSUME NEW s \in Slots, HeaderGone(s) PROVE IdInv' BY <1>10 DEF HeaderGone, Moved
<1>11. ASSUME NEW s \in Slots, Saved(s) PROVE IdInv' BY <1>11 DEF Saved, Moved
<1>12. ASSUME NEW s \in Slots, NEW j \in Ids, Followed(s, j) PROVE IdInv'
  <2>1. CASE kind = "chain" /\ ~repeated
    <3>1. Added(j, j) BY <1>12, <2>1, ChainNext
    <3> QED BY <1>12, <2>1, <3>1 DEF Followed, Added
  <2>2. CASE ~(kind = "chain" /\ ~repeated) BY <1>12, <2>2 DEF Followed
  <2> QED BY <2>1, <2>2
<1>13. ASSUME NEW s \in Slots, FailLoaded(s) PROVE IdInv' BY <1>13 DEF FailLoaded, Moved
<1>14. ASSUME NEW s \in Slots, FailSaved(s) PROVE IdInv' BY <1>14 DEF FailSaved, Moved
<1>15. ASSUME NEW s \in Slots, Aborted(s) PROVE IdInv' BY <1>15 DEF Aborted, Moved
<1>16. ASSUME NEW j \in Ids, Returned(j) PROVE IdInv' BY <1>16 DEF Returned, Restated
<1>17. CASE ExpireRecord
  BY <1>17 DEF ExpireRecord, Disrupt, clientVars, queueVars, slotVars
<1>18. CASE UNCHANGED vars
  BY <1>18 DEF vars, redisVars, clientVars, queueVars, slotVars, auxVars
<1> QED
  BY <1>1, <1>2, <1>3, <1>4, <1>5, <1>6, <1>7, <1>8, <1>9, <1>10, <1>11,
     <1>12, <1>13, <1>14, <1>15, <1>16, <1>17, <1>18
     DEF Effect

\* Nothing changes for a chain when slots only leave, or go on without counting.
LEMMA ChainKept ==
    ASSUME ChainInv, UNCHANGED <<kind, made, counter, task, acked>>, repeated' \/ ~repeated,
           \A t \in Slots : at'[t] \in Completing =>
               /\ at[t] \in Completing /\ job'[t] = job[t] /\ (t \in Pending' <=> t \in Pending)
               /\ at'[t] \in {"save", "enqueue"} => mine'[t] = mine[t]
    PROVE  ChainInv'
<1> SUFFICES ASSUME kind = "chain", ~repeated, ~repeated' PROVE ChainInv' BY DEF ChainInv
<1>1. \A i, j \in Ids : Used(j)' /\ i < j => Used(i)' /\ i \in acked' BY DEF ChainInv, Used
<1>2. \A j \in Ids : Used(j)' /\ j \notin acked' => counter' = j - 1 BY DEF ChainInv, Used
<1>3. \A s \in Slots : at'[s] \in Completing => AtEnd(s)'
  BY DEF ChainInv, AtEnd, Used
<1>4. ASSUME NEW s \in Slots, at'[s] \in {"save", "enqueue"} PROVE mine'[s].progress = counter'
  <2>1. at[s] \in {"save", "enqueue"} /\ mine'[s] = mine[s] BY <1>4 DEF Pending, Completing
  <2> QED BY <2>1 DEF ChainInv
<1> QED BY <1>1, <1>2, <1>3, <1>4 DEF ChainInv

\* A chain makes its next job only when the last one was acked.
LEMMA StepChain == Base /\ OnceInv /\ ChainInv /\ [Next]_vars => ChainInv'
<1> SUFFICES ASSUME Base /\ OnceInv /\ ChainInv, Effect, Facts PROVE ChainInv'
  BY Effects, FactsHold
<1>1. CASE CreateRecord
  BY <1>1, ChainKept
     DEF CreateRecord, queueVars, slotVars, auxVars, Completing, Pending, Base, TypeOK
<1>2. ASSUME NEW j \in Ids, Enqueued(j) PROVE ChainInv'
  <2> SUFFICES ASSUME kind = "chain", ~repeated PROVE ChainInv' BY <1>2 DEF Enqueued, ChainInv
  <2>1. j = 1 /\ made = 0 /\ \A i \in Ids : ~Used(i) BY <1>2, ChainFirst
  <2>2. \A i \in Ids : Used(i)' => i = 1 BY <1>2, <2>1 DEF Enqueued, Added, Used
  <2>3. counter = 0 /\ counter' = 0 /\ made' = 1 BY <1>2, <2>1 DEF ChainInv, Enqueued
  <2>4. \A t \in Slots : at'[t] \notin Completing
    BY <1>2, <2>1, Holding DEF Enqueued, Completing, Base, SlotInv
  <2>5. \A i, k \in Ids : Used(k)' /\ i < k => Used(i)' /\ i \in acked' BY <2>2 DEF Ids, Facts
  <2> QED BY <2>2, <2>3, <2>4, <2>5 DEF ChainInv, Completing
<1>3. CASE CreateDep
  BY <1>3, ChainKept
     DEF CreateDep, queueVars, slotVars, auxVars, Completing, Pending, Base, TypeOK
<1>4. CASE CreateFails
  BY <1>4, ChainKept
     DEF CreateFails, redisVars, queueVars, slotVars, Completing, Pending, Base, TypeOK
<1>5. ASSUME NEW s \in Slots, NEW j \in Ids, Taken(s, j) PROVE ChainInv'
  BY <1>5, ChainKept DEF Taken, Completing, Pending, Base, TypeOK
<1>6. ASSUME NEW s \in Slots, Acked(s) PROVE ChainInv'
  <2> SUFFICES ASSUME kind = "chain", ~repeated PROVE ChainInv' BY <1>6 DEF Acked, ChainInv
  <2>1. job[s] \in Ids /\ Used(job[s]) /\ job[s] \notin acked
    BY <1>6 DEF Acked, Base, SlotInv, OnceInv
  <2>2. counter = job[s] - 1 BY <2>1 DEF ChainInv
  <2>3. job[s] + 1 \in Ids => ~Used(job[s] + 1) BY <2>1 DEF ChainInv, Ids, Facts
  <2>4. \A i, k \in Ids : Used(k)' /\ i < k => Used(i)' /\ i \in acked'
    BY <1>6 DEF Acked, Used, ChainInv
  <2>5. \A k \in Ids : Used(k)' /\ k \notin acked' => counter' = k - 1
    BY <1>6 DEF Acked, Used, ChainInv
  <2>6. ASSUME NEW t \in Slots, at'[t] \in Completing
        PROVE  /\ AtEnd(t)'
               /\ at'[t] \in {"save", "enqueue"} => mine'[t].progress = counter'
    <3>1. CASE t = s BY <1>6, <2>2, <2>3, <3>1 DEF Acked, Moved, Used, AtEnd, Pending
    <3>2. CASE t # s
      BY <1>6, <2>6, <3>2 DEF Acked, Moved, Used, Pending, Completing, AtEnd, ChainInv
    <3> QED BY <3>1, <3>2
  <2> QED BY <1>6, <2>4, <2>5, <2>6 DEF ChainInv, Completing, Acked
<1>7. ASSUME NEW s \in Slots, Ended(s) PROVE ChainInv'
  BY <1>7, ChainKept DEF Ended, Moved, Completing, Pending, Base, TypeOK
<1>8. ASSUME NEW s \in Slots, Loaded(s) PROVE ChainInv'
  BY <1>8, ChainKept DEF Loaded, Moved, Completing, Pending, Base, TypeOK
<1>9. ASSUME NEW s \in Slots, Counted(s) PROVE ChainInv'
  <2> SUFFICES ASSUME kind = "chain", ~repeated' PROVE ChainInv' BY <1>9 DEF Counted, ChainInv
  <2>1. ~repeated /\ counter' = counter + 1 BY <1>9 DEF Counted
  <2>2. job[s] \in Ids /\ Used(job[s]) /\ job[s] \in acked /\ at[s] \in Completing
    BY <1>9, Holding DEF Counted, Completing, Base, SlotInv
  <2>3. counter = job[s] - 1 /\ (job[s] + 1 \in Ids => ~Used(job[s] + 1))
    BY <1>9, <2>1, <2>2 DEF ChainInv, AtEnd, Counted, Pending
  <2>4. \A i, k \in Ids : Used(k)' /\ i < k => Used(i)' /\ i \in acked'
    BY <1>9, <2>1 DEF Counted, Used, ChainInv
  <2>5. \A k \in Ids : Used(k)' => k \in acked'
    BY <1>9, <2>1, <2>2, <2>3 DEF Counted, Used, ChainInv, Ids
  <2>6. ASSUME NEW t \in Slots, at'[t] \in Completing PROVE t = s
    BY <1>9, <2>1, <2>2, <2>6, OneCompleting DEF Counted, Moved, Facts
  <2>7. /\ job'[s] = job[s] /\ s \notin Pending' /\ mine'[s].progress = counter'
        /\ counter' = job[s] /\ UNCHANGED <<task, made>>
    BY <1>9, <2>1, <2>2, <2>3 DEF Counted, Moved, Pending, Ids
  <2>8. made # 0 BY <2>2 DEF Base, CreateInv
  <2>9. \A t \in Slots : at'[t] \in Completing => AtEnd(t)'
    BY <2>3, <2>6, <2>7 DEF Used, AtEnd
  <2>10. \A t \in Slots : at'[t] \in {"save", "enqueue"} => mine'[t].progress = counter'
    BY <2>6, <2>7 DEF Completing
  <2> QED BY <2>4, <2>5, <2>7, <2>8, <2>9, <2>10 DEF ChainInv
<1>10. ASSUME NEW s \in Slots, HeaderGone(s) PROVE ChainInv'
  BY <1>10 DEF HeaderGone, ChainInv
<1>11. ASSUME NEW s \in Slots, Saved(s) PROVE ChainInv'
  BY <1>11, ChainKept DEF Saved, Moved, Completing, Pending, Base, TypeOK
<1>12. ASSUME NEW s \in Slots, NEW j \in Ids, Followed(s, j) PROVE ChainInv'
  <2> SUFFICES ASSUME kind = "chain", ~repeated PROVE ChainInv' BY <1>12 DEF Followed, ChainInv
  <2>1. /\ j = job[s] + 1 /\ counter = job[s] /\ Added(j, j)
        /\ \A i \in Ids : i < j => i \in acked
    BY <1>12, ChainNext
  <2>2. /\ UNCHANGED <<counter, made, acked>> /\ Moved(s, "idle") /\ at[s] \in Completing
        /\ \A i \in Ids : i < j => Used(i)
    BY <1>12, <2>1 DEF Followed, Completing, Added
  <2>3. \A i \in Ids : (Used(i) => Used(i)') /\ (Used(i)' => Used(i) \/ i = j)
    BY <2>1 DEF Added, Used, Ids, NoTask
  <2>4. \A i, k \in Ids : Used(k)' /\ i < k => Used(i)' /\ i \in acked'
    BY <2>1, <2>2, <2>3 DEF ChainInv
  <2>5. \A k \in Ids : Used(k)' /\ k \notin acked' => counter' = k - 1
    BY <2>1, <2>2, <2>3, Holding DEF ChainInv, Completing, Ids
  <2>6. ASSUME NEW t \in Slots PROVE at'[t] \notin Completing
    BY <2>2, OneCompleting DEF Moved, Completing, Facts
  <2>7. made' = 0 => counter' = 0 BY <2>2 DEF ChainInv
  <2> QED BY <2>4, <2>5, <2>6, <2>7 DEF ChainInv, Completing
<1>13. ASSUME NEW s \in Slots, FailLoaded(s) PROVE ChainInv'
  BY <1>13, ChainKept DEF FailLoaded, Moved, Completing, Pending, Base, TypeOK
<1>14. ASSUME NEW s \in Slots, FailSaved(s) PROVE ChainInv'
  BY <1>14, ChainKept DEF FailSaved, Moved, Completing, Pending, Base, TypeOK
<1>15. ASSUME NEW s \in Slots, Aborted(s) PROVE ChainInv'
  BY <1>15, ChainKept DEF Aborted, Moved, Completing, Pending, Base, TypeOK
<1>16. ASSUME NEW j \in Ids, Returned(j) PROVE ChainInv'
  BY <1>16, ChainKept DEF Returned, Completing, Pending, Base, TypeOK
<1>17. CASE ExpireRecord
  BY <1>17, ChainKept
     DEF ExpireRecord, clientVars, queueVars, slotVars, Completing, Pending, Base, TypeOK
<1>18. CASE UNCHANGED vars
  BY <1>18
     DEF vars, redisVars, clientVars, queueVars, slotVars, auxVars, ChainInv, AtEnd, Used,
         Pending
<1> QED
  BY <1>1, <1>2, <1>3, <1>4, <1>5, <1>6, <1>7, <1>8, <1>9, <1>10, <1>11,
     <1>12, <1>13, <1>14, <1>15, <1>16, <1>17, <1>18
     DEF Effect

\* What is stored for a chain was the counter's value once.
LEMMA StepRecord == Base /\ ChainInv /\ RecordInv /\ [Next]_vars => RecordInv'
<1> SUFFICES ASSUME Base /\ ChainInv /\ RecordInv, Effect, Facts PROVE RecordInv'
  BY Effects, FactsHold
<1> USE DEF RecordInv, Base, TypeOK, Facts, Missing
<1>1. CASE CreateRecord BY <1>1 DEF CreateRecord, queueVars, slotVars, auxVars
<1>2. ASSUME NEW j \in Ids, Enqueued(j) PROVE RecordInv'
  BY <1>2 DEF Enqueued, Added, Restated
<1>3. CASE CreateDep BY <1>3 DEF CreateDep, Track, queueVars, slotVars, auxVars
<1>4. CASE CreateFails BY <1>4 DEF CreateFails, Disrupt, redisVars, queueVars, slotVars
<1>5. ASSUME NEW s \in Slots, NEW j \in Ids, Taken(s, j) PROVE RecordInv'
  BY <1>5 DEF Taken, Restated
<1>6. ASSUME NEW s \in Slots, Acked(s) PROVE RecordInv'
  BY <1>6 DEF Acked, Moved, Restated
<1>7. ASSUME NEW s \in Slots, Ended(s) PROVE RecordInv'
  BY <1>7 DEF Ended, Moved, Restated
<1>8. ASSUME NEW s \in Slots, Loaded(s) PROVE RecordInv' BY <1>8 DEF Loaded, Moved
<1>9. ASSUME NEW s \in Slots, Counted(s) PROVE RecordInv' BY <1>9 DEF Counted, Moved
<1>10. ASSUME NEW s \in Slots, HeaderGone(s) PROVE RecordInv'
  BY <1>10 DEF HeaderGone, Moved
<1>11. ASSUME NEW s \in Slots, Saved(s) PROVE RecordInv'
  BY <1>11 DEF Saved, Moved, ChainInv
<1>12. ASSUME NEW s \in Slots, NEW j \in Ids, Followed(s, j) PROVE RecordInv'
  BY <1>12 DEF Followed, Moved, Added, Restated
<1>13. ASSUME NEW s \in Slots, FailLoaded(s) PROVE RecordInv'
  BY <1>13 DEF FailLoaded, Moved
<1>14. ASSUME NEW s \in Slots, FailSaved(s) PROVE RecordInv'
  BY <1>14 DEF FailSaved, Moved
<1>15. ASSUME NEW s \in Slots, Aborted(s) PROVE RecordInv' BY <1>15 DEF Aborted, Moved
<1>16. ASSUME NEW j \in Ids, Returned(j) PROVE RecordInv'
  BY <1>16 DEF Returned, Restated
<1>17. CASE ExpireRecord
  BY <1>17 DEF ExpireRecord, Disrupt, clientVars, queueVars, slotVars
<1>18. CASE UNCHANGED vars
  BY <1>18 DEF vars, redisVars, clientVars, queueVars, slotVars, auxVars
<1> QED
  BY <1>1, <1>2, <1>3, <1>4, <1>5, <1>6, <1>7, <1>8, <1>9, <1>10, <1>11,
     <1>12, <1>13, <1>14, <1>15, <1>16, <1>17, <1>18
     DEF Effect

\* A job of a chain that is not completed is the newest one, and nobody deals with a
\* completion meanwhile.
LEMMA OpenIsLast ==
    ASSUME Base, Facts, OnceInv, IdInv, ChainInv, kind = "chain", ~repeated,
           NEW j \in Ids, status[j] \notin {"none", "completed"}
    PROVE  /\ Used(j) /\ counter = j - 1 /\ counter < N
           /\ \A s \in Slots : at[s] \notin Completing
<1>1. Used(j) /\ j \notin acked BY DEF Base, JobInv, OnceInv
<1>2. counter = j - 1 BY <1>1 DEF ChainInv
<1>3. j \in Tasks BY <1>1 DEF IdInv, Used, Base, TypeOK, Ids, Callback, NoTask, Facts
<1>4. ASSUME NEW s \in Slots, at[s] \in Completing PROVE FALSE
  <2>1. job[s] \in Ids /\ job[s] \in acked /\ AtEnd(s)
    BY <1>4, Holding DEF Completing, Base, SlotInv, ChainInv
  <2>2. job[s] = j \/ job[s] + 1 = j BY <1>2, <2>1 DEF AtEnd, Ids
  <2> QED BY <1>1, <2>1, <2>2 DEF AtEnd
<1> QED BY <1>1, <1>2, <1>3, <1>4 DEF Tasks, Facts, Ids

\* What an id that is not dead does to the queue is no matter to FailInv.
LEMMA FailKept ==
    ASSUME FailInv, UNCHANGED <<kind, rec>>, repeated' \/ ~repeated, retried' \/ ~retried,
           \A j \in Ids : status[j] = "dead" => status'[j] = "dead",
           \A t \in Slots : at'[t] \in Failing =>
               at[t] = at'[t] /\ job'[t] = job[t] /\ mine'[t] = mine[t] /\ job[t] \in Ids,
           \A t \in Slots : at'[t] \in {"load", "advance", "save"} =>
               at[t] \in {"load", "advance", "save"} \/ rec.state # "completed"
    PROVE  FailInv'
<1> SUFFICES ASSUME kind = "chain", ~repeated, ~repeated', ~retried, ~retried' PROVE FailInv'
  BY DEF FailInv
<1>1. rec'.state = "failed" => \E j \in Ids : status'[j] = "dead" BY DEF FailInv
<1>2. \A s \in Slots : at'[s] \in Failing => status'[job'[s]] = "dead" BY DEF FailInv
<1>3. \A s, t \in Slots : at'[s] \in Failing /\ at'[t] \in Failing /\ job'[s] = job'[t] => s = t
  BY DEF FailInv
<1>4. \A s \in Slots : at'[s] = "saveFailed" => rec'.progress <= mine'[s].progress
  BY DEF FailInv, Failing
<1>5. rec'.state = "completed" => \A s \in Slots : at'[s] \notin {"load", "advance", "save"}
  BY DEF FailInv
<1> QED BY <1>1, <1>2, <1>3, <1>4, <1>5 DEF FailInv

\* A chain fails once, and for good.
LEMMA StepFail ==
    Base /\ OnceInv /\ DoneInv /\ IdInv /\ ChainInv /\ RecordInv /\ FailInv /\ [Next]_vars
        => FailInv'
<1> SUFFICES ASSUME Base /\ OnceInv /\ DoneInv /\ IdInv /\ ChainInv /\ RecordInv /\ FailInv,
                    Effect, Facts
             PROVE  FailInv'
  BY Effects, FactsHold
<1>1. CASE CreateRecord
  BY <1>1
     DEF CreateRecord, queueVars, slotVars, auxVars, FailInv, Base, CreateInv, TypeOK, Facts
<1>2. ASSUME NEW j \in Ids, Enqueued(j) PROVE FailInv'
  BY <1>2, FailKept, Holding DEF Enqueued, Added, Restated, Failing, Base, TypeOK, JobInv, Used
<1>3. CASE CreateDep
  BY <1>3, FailKept, Holding
     DEF CreateDep, queueVars, slotVars, auxVars, Failing, Base, TypeOK, JobInv, Used
<1>4. CASE CreateFails
  BY <1>4, FailKept, Holding
     DEF CreateFails, redisVars, queueVars, slotVars, Failing, Base, TypeOK, JobInv, Used
<1>5. ASSUME NEW s \in Slots, NEW j \in Ids, Taken(s, j) PROVE FailInv'
  BY <1>5, FailKept, Holding DEF Taken, Restated, Failing, Base, TypeOK, JobInv, Used
<1>6. ASSUME NEW s \in Slots, Acked(s) PROVE FailInv'
  <2>1. CASE kind = "chain" /\ ~repeated
    <3>1. status[job[s]] = "active" BY <1>6, <2>1 DEF Acked, OnceInv
    <3>2. rec.state # "completed"
      <4>1. counter < N BY <1>6, <2>1, <3>1, OpenIsLast DEF Acked
      <4> QED BY <2>1, <4>1 DEF DoneInv, Counting, Base, TypeOK, Facts
    <3> QED
      BY <1>6, <3>1, <3>2, FailKept, Holding DEF Acked, Moved, Restated, Failing, Base, TypeOK
  <2>2. CASE ~(kind = "chain" /\ ~repeated) BY <1>6, <2>2 DEF Acked, FailInv
  <2> QED BY <2>1, <2>2
<1>7. ASSUME NEW s \in Slots, Ended(s) PROVE FailInv'
  <2> SUFFICES ASSUME kind = "chain", ~repeated, ~retried PROVE FailInv'
    BY <1>7 DEF Ended, FailInv
  <2>1. status[job[s]] = "active" BY <1>7 DEF Ended, OnceInv
  <2>2. \A j \in Ids : status[j] = "dead" => status'[j] = "dead"
    BY <1>7, <2>1 DEF Ended, Restated
  <2>3. ASSUME NEW t \in Slots, at'[t] \in Failing
        PROVE  (t = s /\ job'[t] = job[s] /\ at'[t] = "loadFailed" /\ status'[job[s]] = "dead")
               \/ (at'[t] = at[t] /\ job'[t] = job[t] /\ mine'[t] = mine[t] /\ job[t] # job[s]
                   /\ job[t] \in Ids)
    BY <1>7, <2>1, <2>3, Holding DEF Ended, Moved, Restated, Failing, FailInv
  <2>4. \A t \in Slots : at'[t] \in Failing => status'[job'[t]] = "dead"
    BY <2>2, <2>3 DEF FailInv
  <2>5. \A t, u \in Slots : at'[t] \in Failing /\ at'[u] \in Failing /\ job'[t] = job'[u] => t = u
    BY <2>3 DEF FailInv
  <2>6. \A t \in Slots : at'[t] = "saveFailed" => rec'.progress <= mine'[t].progress
    BY <1>7, <2>3 DEF FailInv, Failing, Ended
  <2>7. \A t \in Slots : at'[t] \in {"load", "advance", "save"} => at[t] = at'[t]
    BY <1>7 DEF Ended, Moved
  <2> QED BY <1>7, <2>2, <2>4, <2>5, <2>6, <2>7 DEF FailInv, Ended
<1>8. ASSUME NEW s \in Slots, Loaded(s) PROVE FailInv'
  BY <1>8, FailKept, Holding DEF Loaded, Moved, Failing, Base, TypeOK, JobInv, Used
<1>9. ASSUME NEW s \in Slots, Counted(s) PROVE FailInv'
  BY <1>9, FailKept, Holding DEF Counted, Moved, Failing, Base, TypeOK, JobInv, Used
<1>10. ASSUME NEW s \in Slots, HeaderGone(s) PROVE FailInv'
  BY <1>10 DEF HeaderGone, FailInv
<1>11. ASSUME NEW s \in Slots, Saved(s) PROVE FailInv'
  <2> SUFFICES ASSUME kind = "chain", ~repeated, ~retried PROVE FailInv'
    BY <1>11 DEF Saved, FailInv
  <2>1. at[s] \in Completing BY <1>11 DEF Saved, Completing
  <2>2. ASSUME NEW t \in Slots PROVE at'[t] \notin Failing
    <3>1. at[t] \in Failing => job[t] \in Ids BY Holding DEF Failing
    <3>2. at[t] \notin Failing BY <2>1, <3>1, OpenIsLast DEF FailInv
    <3> QED BY <1>11, <3>2 DEF Saved, Moved, Failing
  <2>3. ASSUME NEW t \in Slots PROVE at'[t] \notin {"load", "advance", "save"}
    BY <1>11, <2>1, OneCompleting DEF Saved, Moved, Completing, Facts
  <2>4. rec'.state # "failed" BY <1>11 DEF Saved, Base, SlotInv
  <2> QED BY <2>2, <2>3, <2>4 DEF FailInv, Failing
<1>12. ASSUME NEW s \in Slots, NEW j \in Ids, Followed(s, j) PROVE FailInv'
  <2>1. Added(j, task'[j]) /\ Moved(s, "idle") /\ UNCHANGED <<kind, rec, repeated, retried>>
    BY <1>12 DEF Followed, Added
  <2> QED BY <2>1, FailKept, Holding DEF Added, Moved, Restated, Failing, Base, TypeOK, JobInv
<1>13. ASSUME NEW s \in Slots, FailLoaded(s) PROVE FailInv'
  <2> SUFFICES ASSUME kind = "chain", ~repeated, ~retried PROVE FailInv'
    BY <1>13 DEF FailLoaded, FailInv
  <2>1. ASSUME NEW t \in Slots, at'[t] \in Failing
        PROVE  /\ at[t] \in Failing /\ job'[t] = job[t]
               /\ (t = s /\ mine'[t].progress = rec.progress)
                  \/ (at'[t] = at[t] /\ mine'[t] = mine[t])
    BY <1>13, <2>1 DEF FailLoaded, Moved, Failing
  <2>2. \A t \in Slots : at'[t] = "saveFailed" => rec'.progress <= mine'[t].progress
    BY <1>13, <2>1 DEF FailInv, FailLoaded, Failing, Facts
  <2>3. \A t \in Slots : at'[t] \in {"load", "advance", "save"} => at[t] = at'[t]
    BY <1>13 DEF FailLoaded, Moved
  <2> QED BY <1>13, <2>1, <2>2, <2>3 DEF FailInv, FailLoaded
<1>14. ASSUME NEW s \in Slots, FailSaved(s) PROVE FailInv'
  <2> SUFFICES ASSUME kind = "chain", ~repeated, ~retried PROVE FailInv'
    BY <1>14 DEF FailSaved, FailInv
  <2>1. ASSUME NEW t \in Slots, at'[t] \in Failing PROVE FALSE
    <3>1. t # s /\ at[t] \in Failing /\ at[s] \in Failing
      BY <1>14, <2>1 DEF FailSaved, Moved, Failing
    <3>2. job[s] \in Ids /\ job[t] \in Ids BY <3>1, Holding DEF Failing
    <3>3. counter = job[s] - 1 /\ counter = job[t] - 1 BY <3>1, <3>2, OpenIsLast DEF FailInv
    <3>4. job[s] = job[t] BY <3>2, <3>3 DEF Ids
    <3> QED BY <3>1, <3>4 DEF FailInv
  <2>2. job[s] \in Ids /\ status[job[s]] = "dead"
    BY <1>14, Holding DEF FailSaved, FailInv, Failing
  <2>3. rec'.state = "failed" /\ UNCHANGED status BY <1>14 DEF FailSaved, Base, SlotInv
  <2> QED BY <2>1, <2>2, <2>3 DEF FailInv, Failing
<1>15. ASSUME NEW s \in Slots, Aborted(s) PROVE FailInv'
  BY <1>15, FailKept, Holding DEF Aborted, Moved, Failing, Base, TypeOK, JobInv, Used
<1>16. ASSUME NEW j \in Ids, Returned(j) PROVE FailInv'
  <2>1. CASE repeated' \/ retried' BY <2>1 DEF FailInv
  <2>2. CASE ~(repeated' \/ retried')
    <3>1. status[j] = "active" BY <1>16, <2>2 DEF Returned
    <3> QED BY <1>16, <3>1, FailKept, Holding DEF Returned, Restated, Failing, Base, TypeOK
  <2> QED BY <2>1, <2>2
<1>17. CASE ExpireRecord
  BY <1>17 DEF ExpireRecord, queueVars, slotVars, clientVars, FailInv, Base, TypeOK, Facts
<1>18. CASE UNCHANGED vars
  BY <1>18 DEF vars, redisVars, clientVars, queueVars, slotVars, auxVars, FailInv
<1> QED
  BY <1>1, <1>2, <1>3, <1>4, <1>5, <1>6, <1>7, <1>8, <1>9, <1>10, <1>11,
     <1>12, <1>13, <1>14, <1>15, <1>16, <1>17, <1>18
     DEF Effect

\* The client makes one job per header.
LEMMA StepHeader == Base /\ HeaderInv /\ [Next]_vars => HeaderInv'
<1> SUFFICES ASSUME Base /\ HeaderInv, Effect, Facts PROVE HeaderInv'
  BY Effects, FactsHold
<1> USE DEF HeaderInv, Base, TypeOK, Facts, JobsOf
<1>1. CASE CreateRecord BY <1>1 DEF CreateRecord, queueVars, slotVars, auxVars
<1>2. ASSUME NEW j \in Ids, Enqueued(j) PROVE HeaderInv'
  <2> SUFFICES ASSUME kind = "chord" PROVE HeaderInv' BY <1>2 DEF Enqueued
  <2>1. \A i \in Ids : task'[i] = IF i = j THEN made + 1 ELSE task[i]
    BY <1>2 DEF Enqueued, Added
  <2>2. task[j] = NoTask /\ made' = made + 1 BY <1>2 DEF Enqueued, Added, Used
  <2>3. \A i \in Ids : task'[i] \in Tasks => task'[i] <= made'
    <3>1. made \in Nat /\ made' = made + 1 /\ \A i \in Ids : task[i] \in Tasks => task[i] <= made
      BY <2>2
    <3>2. \A x \in Tasks : x \in Nat BY DEF Tasks
    <3> HIDE DEF HeaderInv, Base, TypeOK, Facts
    <3> QED BY <2>1, <3>1, <3>2
  <2>4. \A i, k \in Ids : task'[i] \in Tasks /\ task'[i] = task'[k] => i = k BY <2>1, <2>2
  <2>5. ASSUME NEW t \in 1 .. made' PROVE \E i \in Ids : task'[i] = t
    <3>1. CASE t = made + 1 BY <2>1, <3>1
    <3>2. CASE t # made + 1
      <4>1. t \in 1 .. made BY <2>2, <3>2
      <4>2. PICK i \in Ids : task[i] = t BY <4>1
      <4> QED BY <2>1, <2>2, <4>1, <4>2 DEF NoTask
    <3> QED BY <3>1, <3>2
  <2> QED BY <2>3, <2>4, <2>5
<1>3. CASE CreateDep BY <1>3 DEF CreateDep, Track, queueVars, slotVars, auxVars
<1>4. CASE CreateFails BY <1>4 DEF CreateFails, Disrupt, redisVars, queueVars, slotVars
<1>5. ASSUME NEW s \in Slots, NEW j \in Ids, Taken(s, j) PROVE HeaderInv'
  BY <1>5 DEF Taken, Restated
<1>6. ASSUME NEW s \in Slots, Acked(s) PROVE HeaderInv'
  BY <1>6 DEF Acked, Moved, Restated
<1>7. ASSUME NEW s \in Slots, Ended(s) PROVE HeaderInv'
  BY <1>7 DEF Ended, Moved, Restated
<1>8. ASSUME NEW s \in Slots, Loaded(s) PROVE HeaderInv' BY <1>8 DEF Loaded, Moved
<1>9. ASSUME NEW s \in Slots, Counted(s) PROVE HeaderInv' BY <1>9 DEF Counted, Moved
<1>10. ASSUME NEW s \in Slots, HeaderGone(s) PROVE HeaderInv'
  BY <1>10 DEF HeaderGone, Moved
<1>11. ASSUME NEW s \in Slots, Saved(s) PROVE HeaderInv' BY <1>11 DEF Saved, Moved
<1>12. ASSUME NEW s \in Slots, NEW j \in Ids, Followed(s, j) PROVE HeaderInv'
  <2> SUFFICES ASSUME kind = "chord" PROVE HeaderInv' BY <1>12 DEF Followed
  <2>1. \A i \in Ids : task'[i] = IF i = j THEN Callback ELSE task[i]
    BY <1>12 DEF Followed, Added
  <2>2. task[j] = NoTask /\ made' = made BY <1>12 DEF Followed, Added, Used
  <2>3. \A i \in Ids : task'[i] \in Tasks => i # j BY <2>1 DEF Tasks, Callback
  <2>4. ASSUME NEW t \in 1 .. made' PROVE \E i \in Ids : task'[i] = t
    <3>1. PICK i \in Ids : task[i] = t BY <2>2
    <3> QED BY <2>1, <2>2, <3>1 DEF NoTask
  <2> QED BY <2>1, <2>2, <2>3, <2>4
<1>13. ASSUME NEW s \in Slots, FailLoaded(s) PROVE HeaderInv'
  BY <1>13 DEF FailLoaded, Moved
<1>14. ASSUME NEW s \in Slots, FailSaved(s) PROVE HeaderInv'
  BY <1>14 DEF FailSaved, Moved
<1>15. ASSUME NEW s \in Slots, Aborted(s) PROVE HeaderInv' BY <1>15 DEF Aborted, Moved
<1>16. ASSUME NEW j \in Ids, Returned(j) PROVE HeaderInv'
  BY <1>16 DEF Returned, Restated
<1>17. CASE ExpireRecord
  BY <1>17 DEF ExpireRecord, Disrupt, clientVars, queueVars, slotVars
<1>18. CASE UNCHANGED vars
  BY <1>18 DEF vars, redisVars, clientVars, queueVars, slotVars, auxVars
<1> QED
  BY <1>1, <1>2, <1>3, <1>4, <1>5, <1>6, <1>7, <1>8, <1>9, <1>10, <1>11,
     <1>12, <1>13, <1>14, <1>15, <1>16, <1>17, <1>18
     DEF Effect

\* A header that was acked stays acked, and keeps its task.
LEMMA AllAckedGrows ==
    ASSUME Facts, AllAcked, acked \subseteq acked',
           \A j \in Ids : task[j] \in Tasks => task'[j] = task[j]
    PROVE  AllAcked'
BY DEF AllAcked, JobsOf, Facts

\* Nothing changes for a chord when no slot learns anything.
LEMMA ChordKept ==
    ASSUME Facts, ChordInv, UNCHANGED <<create, made, deps, task>>, acked \subseteq acked',
           raced' = raced,
           \A t \in Slots : at'[t] \in {"save", "enqueue"} => at[t] \in {"save", "enqueue"},
           \A t \in Slots : mine'[t].state = "completed" => mine[t].state = "completed"
    PROVE  ChordInv'
<1>1. AllAcked => AllAcked' BY AllAckedGrows
<1>2. Tasks' = Tasks /\ kind' = kind /\ JobsOf(Callback)' = JobsOf(Callback)
  BY DEF Facts, JobsOf, Callback
<1> HIDE DEF AllAcked
<1> QED BY <1>1, <1>2 DEF ChordInv

\* A header leaves the open ones only after its ack.
LEMMA StepChord == Base /\ HeaderInv /\ ChordInv /\ [Next]_vars => ChordInv'
<1> SUFFICES ASSUME Base /\ HeaderInv /\ ChordInv, Effect, Facts PROVE ChordInv'
  BY Effects, FactsHold
<1>1. CASE CreateRecord
  <2>1. ChordInv' <=> ChordInv
    BY <1>1 DEF CreateRecord, queueVars, slotVars, auxVars, ChordInv, AllAcked, JobsOf, Tasks, N
  <2> QED BY <2>1
<1>2. ASSUME NEW j \in Ids, Enqueued(j) PROVE ChordInv'
  <2> SUFFICES ASSUME kind = "chord", ~raced PROVE ChordInv' BY <1>2 DEF Enqueued, ChordInv
  <2>1. \A i \in Ids : task'[i] = IF i = j THEN made + 1 ELSE task[i]
    BY <1>2 DEF Enqueued, Added
  <2>2. /\ task[j] = NoTask /\ made' = made + 1 /\ create = "enqueue" /\ create' = "dep"
        /\ made + 1 \in Tasks /\ UNCHANGED <<deps, acked, at, mine>>
    BY <1>2 DEF Enqueued, Added, Used
  <2>3. AllAcked => AllAcked'
    BY <2>1, <2>2, AllAckedGrows DEF Tasks, NoTask, Facts
  <2>4. JobsOf(Callback)' = {}
    BY <2>1, <2>2 DEF ChordInv, JobsOf, Tasks, Callback, Facts
  <2>5. \A i \in Ids : task'[i] \in Tasks =>
          i \in deps' \/ i \in acked' \/ (create' = "dep" /\ task'[i] = made')
    BY <2>1, <2>2 DEF ChordInv
  <2>6. /\ \A s \in Slots : at'[s] \notin {"save", "enqueue"}
        /\ \A s \in Slots : mine'[s].state = "completed" => AllAcked
    BY <2>2 DEF ChordInv
  <2> QED BY <2>2, <2>3, <2>4, <2>5, <2>6 DEF ChordInv, Facts
<1>3. CASE CreateDep
  <2> SUFFICES ASSUME kind = "chord", ~raced PROVE ChordInv'
    BY <1>3 DEF CreateDep, auxVars, ChordInv
  <2>1. PICK j \in Ids : task[j] = made /\ deps' = deps \cup {j} BY <1>3 DEF CreateDep, Track
  <2>2. /\ create = "dep" /\ create' \in {"done", "enqueue"}
        /\ UNCHANGED <<kind, made, task, at, mine, acked, raced>>
    BY <1>3 DEF CreateDep, queueVars, slotVars, auxVars
  <2>3. \A i \in Ids : task[i] \in Tasks => i \in deps' \/ i \in acked
    BY <2>1, <2>2 DEF ChordInv, HeaderInv
  <2>4. (AllAcked' <=> AllAcked) /\ JobsOf(Callback)' = JobsOf(Callback) /\ Tasks' = Tasks
    BY <2>2 DEF AllAcked, JobsOf, Facts
  <2> QED BY <2>2, <2>3, <2>4 DEF ChordInv
<1>4. CASE CreateFails
  <2>1. /\ create # "done" /\ create' = "failed"
        /\ UNCHANGED <<kind, made, task, at, mine, acked, raced>>
    BY <1>4 DEF CreateFails, queueVars, slotVars
  <2>2. (AllAcked' <=> AllAcked) /\ JobsOf(Callback)' = JobsOf(Callback) /\ Tasks' = Tasks
    BY <2>1 DEF AllAcked, JobsOf, Facts
  <2> QED BY <2>1, <2>2 DEF ChordInv
<1>5. ASSUME NEW s \in Slots, NEW j \in Ids, Taken(s, j) PROVE ChordInv'
  BY <1>5, ChordKept DEF Taken, Facts, Base, TypeOK
<1>6. ASSUME NEW s \in Slots, Acked(s) PROVE ChordInv'
  BY <1>6, ChordKept DEF Acked, Moved, Facts, Base, TypeOK
<1>7. ASSUME NEW s \in Slots, Ended(s) PROVE ChordInv'
  BY <1>7, ChordKept DEF Ended, Moved, Facts, Base, TypeOK
<1>8. ASSUME NEW s \in Slots, Loaded(s) PROVE ChordInv'
  BY <1>8, ChordKept DEF Loaded, Moved, Facts, Base, TypeOK
<1>9. ASSUME NEW s \in Slots, Counted(s) PROVE ChordInv'
  BY <1>9 DEF Counted, Counting, ChordInv
<1>10. ASSUME NEW s \in Slots, HeaderGone(s) PROVE ChordInv'
  <2> SUFFICES ASSUME ~raced' PROVE ChordInv' BY DEF ChordInv
  <2>1. ~raced /\ create = "done" /\ kind = "chord" /\ job[s] \in acked
    BY <1>10 DEF HeaderGone, Base, TypeOK, SlotInv, Completing
  <2>2. deps' = deps \ {job[s]} /\ UNCHANGED <<create, task, acked>> /\ Moved(s, "save")
    BY <1>10 DEF HeaderGone
  <2>3. (AllAcked' <=> AllAcked) /\ JobsOf(Callback)' = JobsOf(Callback) /\ Tasks' = Tasks
    BY <2>2 DEF AllAcked, JobsOf, Facts
  <2>4. \A i \in Ids : task[i] \in Tasks => i \in deps' \/ i \in acked
    BY <2>1, <2>2 DEF ChordInv
  <2>5. ASSUME mine'[s].state = "completed" PROVE AllAcked
    <3>1. deps' = {} BY <1>10, <2>5 DEF HeaderGone
    <3>2. made = N BY <2>1 DEF Base, CreateInv, Initial
    <3>3. ASSUME NEW t \in Tasks PROVE JobsOf(t) \cap acked # {}
      <4>1. PICK i \in Ids : task[i] = t BY <2>1, <3>2, <3>3 DEF HeaderInv, JobsOf, Tasks
      <4> QED BY <2>4, <3>1, <4>1 DEF JobsOf
    <3> QED BY <3>3 DEF AllAcked
  <2>6. \A t \in Slots : mine'[t].state = "completed" => AllAcked
    BY <2>1, <2>2, <2>5 DEF ChordInv, Moved
  <2> QED BY <2>1, <2>2, <2>3, <2>4, <2>6 DEF ChordInv
<1>11. ASSUME NEW s \in Slots, Saved(s) PROVE ChordInv'
  BY <1>11, ChordKept DEF Saved, Moved, Facts, Base, TypeOK
<1>12. ASSUME NEW s \in Slots, NEW j \in Ids, Followed(s, j) PROVE ChordInv'
  <2> SUFFICES ASSUME kind = "chord", ~raced PROVE ChordInv' BY <1>12 DEF Followed, ChordInv
  <2>1. /\ create = "done" /\ AllAcked /\ UNCHANGED <<create, deps, acked>> /\ Moved(s, "idle")
        /\ Added(j, Callback)
    BY <1>12 DEF Followed, ChordInv
  <2>2. \A i \in Ids : task'[i] = IF i = j THEN Callback ELSE task[i] BY <2>1 DEF Added
  <2>3. task[j] = NoTask /\ NoTask \notin Tasks /\ Callback \notin Tasks
    BY <2>1 DEF Added, Used, NoTask, Callback, Tasks
  <2>4. AllAcked' BY <2>1, <2>2, <2>3, AllAckedGrows
  <2>5. \A i \in Ids : task'[i] \in Tasks => i \in deps' \/ i \in acked'
    BY <2>1, <2>2, <2>3 DEF ChordInv
  <2> QED BY <2>1, <2>4, <2>5 DEF ChordInv, Facts
<1>13. ASSUME NEW s \in Slots, FailLoaded(s) PROVE ChordInv'
  BY <1>13, ChordKept DEF FailLoaded, Moved, Facts, Base, TypeOK
<1>14. ASSUME NEW s \in Slots, FailSaved(s) PROVE ChordInv'
  BY <1>14, ChordKept DEF FailSaved, Moved, Facts, Base, TypeOK
<1>15. ASSUME NEW s \in Slots, Aborted(s) PROVE ChordInv'
  BY <1>15, ChordKept DEF Aborted, Moved, Facts, Base, TypeOK
<1>16. ASSUME NEW j \in Ids, Returned(j) PROVE ChordInv'
  BY <1>16, ChordKept DEF Returned, Facts, Base, TypeOK
<1>17. CASE ExpireRecord
  BY <1>17, ChordKept DEF ExpireRecord, clientVars, queueVars, slotVars, Facts, Base, TypeOK
<1>18. CASE UNCHANGED vars
  BY <1>18
     DEF vars, redisVars, clientVars, queueVars, slotVars, auxVars, ChordInv, AllAcked,
         JobsOf, Tasks, N
<1> QED
  BY <1>1, <1>2, <1>3, <1>4, <1>5, <1>6, <1>7, <1>8, <1>9, <1>10, <1>11,
     <1>12, <1>13, <1>14, <1>15, <1>16, <1>17, <1>18
     DEF Effect

\* All of it is kept by every step.
LEMMA StepIInv == IInv /\ [Next]_vars => IInv'
<1> SUFFICES ASSUME IInv, [Next]_vars PROVE IInv' OBVIOUS
<1>1. Base' /\ OnceInv' /\ DoneInv' /\ IdInv' BY StepBase, StepOnce, StepDone, StepId DEF IInv
<1>2. CountInv' BY <1>1, StepCount DEF IInv
<1>3. ChainInv' /\ RecordInv' /\ FailInv' BY StepChain, StepRecord, StepFail DEF IInv
<1>4. HeaderInv' /\ ChordInv' BY StepHeader, StepChord DEF IInv
<1> QED BY <1>1, <1>2, <1>3, <1>4 DEF IInv

LEMMA Invariant == Spec => []IInv
<1>1. Init => IInv BY InitIInv
<1>2. IInv /\ [Next]_vars => IInv' BY StepIInv
<1> QED BY <1>1, <1>2, PTL DEF Spec

-----------------------------------------------------------------------------
\* Every state of a workflow is well typed: the counter and the stored progress are
\* numbers (N - SCARD never goes below 0), and a job is made for a task the record has.
THEOREM WorkflowTypes == Spec => []TypeOK
<1>1. IInv => TypeOK BY DEF IInv, Base
<1> QED BY <1>1, Invariant, PTL

\* A chain none of whose completions was reported twice has one job per task at most, and
\* makes it only after the job before it was acked: advanceChain and enqueueTask keep the
\* order whatever crashes, deaths, retries and lost records come between.
THEOREM ChainKeepsOrder == Spec => []ChainInOrder
<1>1. ASSUME IInv, kind = "chain", ~repeated, NEW t \in Tasks
      PROVE  /\ Cardinality(JobsOf(t)) <= 1
             /\ t > 1 /\ JobsOf(t) # {} => JobsOf(t - 1) \cap acked # {}
  <2>1. t \in Nat /\ t >= 1 /\ MaxIds \in Nat BY <1>1, Sizes DEF IInv, Base, TypeOK, Tasks
  <2>2. JobsOf(t) \subseteq {t}
    BY <1>1, <2>1 DEF IInv, IdInv, JobsOf, NoTask
  <2>3. Cardinality(JobsOf(t)) <= 1
    <3>1. IsFiniteSet({t}) /\ Cardinality({t}) = 1 BY FS_Singleton
    <3> QED BY <2>2, <3>1, FS_Subset
  <2>4. ASSUME t > 1, JobsOf(t) # {} PROVE JobsOf(t - 1) \cap acked # {}
    <3>1. t \in Ids /\ Used(t) /\ t - 1 \in Ids
      BY <2>1, <2>2, <2>4 DEF JobsOf, Used, NoTask, Ids
    <3>2. Used(t - 1) /\ t - 1 \in acked BY <1>1, <2>1, <3>1 DEF IInv, ChainInv, Ids
    <3>3. task[t - 1] = t - 1 BY <1>1, <3>1, <3>2 DEF IInv, IdInv, Used
    <3> QED BY <3>1, <3>2, <3>3 DEF JobsOf
  <2> QED BY <2>3, <2>4
<1>2. IInv => ChainInOrder BY <1>1 DEF ChainInOrder
<1> QED BY <1>2, Invariant, PTL

\* A chain or group is stored as completed only when every task was acked: the counter is
\* never more than the acked completions it was told of, whatever stale record a slow server
\* stores.
THEOREM CompletedIsAcked == Spec => []CompletedMeansAllAcked
<1>1. ASSUME IInv, Counting, ~repeated, rec.state = "completed", NEW t \in Tasks
      PROVE  JobsOf(t) \cap acked # {}
  <2>1. N \in Nat /\ N >= 1 /\ MaxIds \in Nat /\ IsFiniteSet(Ids) /\ kind \in {"chain", "group"}
    BY <1>1, Sizes DEF IInv, Base, TypeOK, Counting
  <2>2. counter >= N /\ counter <= Cardinality(Told) /\ counter \in Nat
    BY <1>1 DEF IInv, DoneInv, CountInv, Base, TypeOK
  <2>3. ASSUME NEW j \in acked PROVE j \in Ids /\ j \in Tasks /\ task[j] = j
    <3>1. j \in Ids /\ Used(j) BY <1>1, <2>3 DEF IInv, Base, TypeOK, JobInv
    <3>2. task[j] = j BY <1>1, <2>1, <3>1 DEF IInv, IdInv, Used
    <3>3. j \in Tasks BY <1>1, <2>1, <3>1, <3>2 DEF IInv, Base, TypeOK, Ids, Callback, NoTask
    <3> QED BY <3>1, <3>2, <3>3
  <2>4. Told \subseteq Tasks /\ Told \subseteq acked BY <2>3 DEF Told
  <2>5. IsFiniteSet(Tasks) /\ Cardinality(Tasks) = N
    <3>1. 1 \in Int /\ N \in Int BY <2>1
    <3> QED BY <2>1, <3>1, FS_Interval DEF Tasks
  <2>6. Cardinality(Told) \in Nat BY <1>1, ToldFinite DEF IInv, Base
  <2>7. Told = Tasks
    <3>1. /\ IsFiniteSet(Told) /\ Cardinality(Told) <= Cardinality(Tasks)
          /\ Cardinality(Told) = Cardinality(Tasks) => Told = Tasks
      BY <2>4, <2>5, FS_Subset
    <3> QED BY <2>1, <2>2, <2>5, <2>6, <3>1
  <2>8. t \in acked BY <2>4, <2>7
  <2> QED BY <2>3, <2>8 DEF JobsOf
<1>2. IInv => CompletedMeansAllAcked BY <1>1 DEF CompletedMeansAllAcked, AllAcked, Counting
<1> QED BY <1>2, Invariant, PTL

\* The callback of a chord that nobody advanced before its creation had finished is enqueued
\* only after every header was acked: SREM and SCARD see all headers.
THEOREM CallbackIsLast == Spec => []CallbackAfterHeaders
<1>1. IInv => CallbackAfterHeaders BY DEF IInv, ChordInv, CallbackAfterHeaders
<1> QED BY <1>1, Invariant, PTL

\* The progress stored for a chain never goes back, and a completed or failed chain stays so,
\* as long as nothing is delivered twice and no dead job is retried.
THEOREM ChainIsMonotone == Spec => ChainMonotone
<1> DEFINE Kept == kind = "chain" /\ ~repeated' /\ ~retried' /\ rec # Missing /\ rec' # Missing =>
                      /\ rec'.progress >= rec.progress
                      /\ rec.state # "running" => rec'.state = rec.state
<1>1. ASSUME IInv, [Next]_vars, kind = "chain", ~repeated', ~retried', rec # Missing, rec' # Missing
      PROVE  /\ rec'.progress >= rec.progress
             /\ rec.state # "running" => rec'.state = rec.state
  <2>1. Effect /\ Facts /\ Base BY <1>1, Effects, FactsHold DEF IInv
  <2>2. rec.progress \in Nat /\ counter \in Nat BY <2>1 DEF Facts, Base, TypeOK
  <2>3. CASE rec' = rec BY <2>2, <2>3
  <2>4. CASE CreateRecord BY <1>1, <2>1, <2>4 DEF CreateRecord, Base, CreateInv
  <2>5. CASE ExpireRecord BY <1>1, <2>5 DEF ExpireRecord
  <2>6. ASSUME NEW s \in Slots, Saved(s)
        PROVE  rec'.progress >= rec.progress /\ (rec.state # "running" => rec'.state = rec.state)
    <3>1. /\ at[s] = "save" /\ at[s] \in Completing /\ rec' = mine[s] /\ ~repeated /\ ~retried
      BY <1>1, <2>6 DEF Saved, Completing
    <3>2. rec'.progress = counter /\ rec.progress <= counter
      BY <1>1, <3>1 DEF IInv, ChainInv, RecordInv
    <3>3. rec.state # "completed" BY <1>1, <3>1 DEF IInv, FailInv
    <3>4. rec.state # "failed"
      BY <1>1, <2>1, <3>1, OpenIsLast DEF IInv, FailInv
    <3>5. rec.state # "missing" BY <1>1, <2>1 DEF Base, CreateInv
    <3> QED BY <2>1, <2>2, <3>2, <3>3, <3>4, <3>5 DEF Facts, States
  <2>7. ASSUME NEW s \in Slots, FailSaved(s)
        PROVE  rec'.progress >= rec.progress /\ (rec.state # "running" => rec'.state = rec.state)
    <3>1. /\ at[s] = "saveFailed" /\ rec' = mine[s] /\ ~repeated /\ ~retried /\ mine[s].state = "failed"
      BY <1>1, <2>1, <2>7 DEF FailSaved, Base, SlotInv
    <3>2. rec.progress <= mine[s].progress /\ mine[s].progress \in Nat
      BY <1>1, <2>1, <3>1 DEF IInv, FailInv, Facts
    <3>3. job[s] \in Ids /\ status[job[s]] = "dead"
      BY <1>1, <2>1, <3>1, Holding DEF IInv, FailInv, Failing
    <3>4. counter < N BY <1>1, <2>1, <3>1, <3>3, OpenIsLast DEF IInv
    <3>5. rec.state # "completed"
      BY <1>1, <2>1, <2>2, <3>4 DEF IInv, DoneInv, Counting, Facts
    <3>6. rec.state # "missing" BY <1>1, <2>1 DEF Base, CreateInv
    <3> QED BY <2>1, <2>2, <3>1, <3>2, <3>5, <3>6 DEF Facts, States
  <2> QED
    BY <2>1, <2>3, <2>4, <2>5, <2>6, <2>7
      
         DEF Effect, Enqueued, Returned, Taken, Followed, Acked, Ended, Loaded, Counted,
             HeaderGone,
           FailLoaded, Aborted, CreateDep, CreateFails, vars, redisVars
<1>2. IInv /\ [Next]_vars => [Kept]_vars BY <1>1
<1>3. Spec => [][Kept]_vars BY <1>2, Invariant, PTL DEF Spec
<1> QED BY <1>3 DEF ChainMonotone
=============================================================================
