---------------------------- MODULE RemoteProofs ----------------------------
(***************************************************************************)
(* Remote workers share the jobs properly although they never extend a     *)
(* lease: FreshOwner, for any number of jobs and workers, any lease, any   *)
(* number of faults, with or without a winter server beside the process.   *)
(***************************************************************************)
EXTENDS Remote, TLAPS

\* A worker has a job only while it runs it, its handler only while it replies, and
\* while a worker runs its job it has no call under way.
CallInv == \A w \in Workers :
    /\ got[w] # None <=> rpc[w] = "reply"
    /\ job[w] # None => client[w] = "running"
    /\ client[w] = "running" => rpc[w] = "none" /\ job[w] # None

\* A job nobody reported late and nobody enqueued again is in one of the three sets of
\* Redis at most.
PlaceInv == \A j \in Jobs \ (late \cup replayed) :
    /\ lease[j] # Absent => j \notin ready \cup delayed
    /\ ~(j \in ready /\ j \in delayed)

\* What Redis leases and what workers have was enqueued.
BornInv ==
    /\ \A j \in Jobs : lease[j] # Absent => j \in born
    /\ \A w \in Workers : got[w] \in born \cup {None} /\ job[w] \in born \cup {None}
    /\ \A j \in Jobs : unsure[j] # "none" => j \in born

IInv == TypeOK /\ CallInv /\ PlaceInv /\ BornInv /\ FreshOwner

-----------------------------------------------------------------------------
\* No job has been enqueued and no worker has one.
LEMMA InitIInv == Init => IInv
<1> SUFFICES ASSUME Init PROVE IInv OBVIOUS
<1>0. paused \in BOOLEAN /\ promoter \in BOOLEAN BY Zenon DEF Init
<1>1. TypeOK BY <1>0, RemoteAssumption DEF Init, TypeOK
<1>2. CallInv BY DEF Init, CallInv
<1>3. PlaceInv /\ BornInv BY DEF Init, PlaceInv, BornInv
<1>4. FreshOwner BY RemoteAssumption DEF Init, FreshOwner, Fresh
<1> QED BY <1>1, <1>2, <1>3, <1>4 DEF IInv

\* Every action keeps the types.
LEMMA StepType == IInv /\ [Next]_vars => TypeOK'
<1> SUFFICES ASSUME IInv, [Next]_vars PROVE TypeOK' OBVIOUS
<1> USE RemoteAssumption
    DEF IInv, TypeOK, CallInv, BornInv, Absent, queueVars, procVars, workerVars,
        envVars
<1>1. ASSUME NEW j \in Jobs, NEW set \in {"ready", "delayed"}, Enqueue(j, set) PROVE TypeOK'
  BY <1>1 DEF Enqueue, Store, EnqueueReply, Fault
<1>2. ASSUME NEW j \in Jobs, Promote(j) PROVE TypeOK' BY <1>2 DEF Promote, PushReady
<1>3. ASSUME NEW j \in Jobs, Sweep(j) PROVE TypeOK'
  BY <1>3 DEF Sweep, PushReady, Expired
<1>4. CASE Tick BY <1>4 DEF Tick, OneLess
<1>5. ASSUME NEW w \in Workers, CallDequeue(w) PROVE TypeOK' BY <1>5 DEF CallDequeue
<1>6. ASSUME NEW w \in Workers, GiveUp(w) PROVE TypeOK' BY <1>6 DEF GiveUp
<1>7. ASSUME NEW w \in Workers, NEW j \in Jobs, Pop(w, j) PROVE TypeOK'
  BY <1>7 DEF Pop, GrantLease
<1>8. ASSUME NEW w \in Workers, PopNothing(w) PROVE TypeOK'
  BY <1>8 DEF PopNothing, EndPoll
<1>9. ASSUME NEW w \in Workers, Wake(w) PROVE TypeOK' BY <1>9 DEF Wake, EndPoll
<1>10. ASSUME NEW w \in Workers, Deliver(w) PROVE TypeOK' BY <1>10 DEF Deliver
<1>11. ASSUME NEW w \in Workers, PopError(w) PROVE TypeOK'
  BY <1>11 DEF PopError, EndPoll, GrantLease, Fault
<1>12. ASSUME NEW w \in Workers, NEW outcome \in Outcomes, Report(w, outcome) PROVE TypeOK'
  BY <1>12 DEF Report, Settle, Fault
<1>13. ASSUME NEW w \in Workers, Abandon(w) PROVE TypeOK' BY <1>13 DEF Abandon, Fault
<1>14. CASE Signal BY <1>14 DEF Signal, Fault
<1>15. CASE Stopped BY <1>15 DEF Stopped
<1>16. CASE Crash BY <1>16 DEF Crash, Fault
<1>17. CASE Start BY <1>17 DEF Start
<1>18. CASE UNCHANGED vars BY <1>18 DEF vars
<1>19. ASSUME NEW j \in Jobs, EnqueueAgain(j) PROVE TypeOK'
  BY <1>19 DEF EnqueueAgain, Store, EnqueueReply, Fault
<1>20. ASSUME NEW j \in Jobs, EnqueueEnds(j) PROVE TypeOK' BY <1>20 DEF EnqueueEnds
<1>21. CASE Pause \/ Resume
  <2>1. paused' \in BOOLEAN BY <1>21, Zenon DEF Pause, Resume
  <2> QED BY <1>21, <2>1 DEF Pause, Resume, Fault
<1> QED
    BY <1>1, <1>2, <1>3, <1>4, <1>5, <1>6, <1>7, <1>8, <1>9, <1>10, <1>11, <1>12, <1>13,
     <1>14, <1>15, <1>16, <1>17, <1>18, <1>19, <1>20, <1>21
     DEF Next, PromoteStep, SweepStep, HandlerStep, ReportStep, ResendStep

\* Calls and workers stay in step.
LEMMA StepCall == IInv /\ [Next]_vars => CallInv'
<1> SUFFICES ASSUME IInv, [Next]_vars PROVE CallInv' OBVIOUS
<1> USE RemoteAssumption DEF IInv, TypeOK, CallInv, queueVars, procVars, workerVars,
        envVars
<1>1. ASSUME NEW j \in Jobs, NEW set \in {"ready", "delayed"}, Enqueue(j, set) PROVE CallInv'
  BY <1>1 DEF Enqueue, Store, EnqueueReply, Fault
<1>2. ASSUME NEW j \in Jobs, Promote(j) PROVE CallInv' BY <1>2 DEF Promote, PushReady
<1>3. ASSUME NEW j \in Jobs, Sweep(j) PROVE CallInv'
  BY <1>3 DEF Sweep, PushReady, Expired
<1>4. CASE Tick BY <1>4 DEF Tick, OneLess
<1>5. ASSUME NEW w \in Workers, CallDequeue(w) PROVE CallInv' BY <1>5 DEF CallDequeue
<1>6. ASSUME NEW w \in Workers, GiveUp(w) PROVE CallInv' BY <1>6 DEF GiveUp
<1>7. ASSUME NEW w \in Workers, NEW j \in Jobs, Pop(w, j) PROVE CallInv'
  BY <1>7 DEF Pop, GrantLease
<1>8. ASSUME NEW w \in Workers, PopNothing(w) PROVE CallInv'
  BY <1>8 DEF PopNothing, EndPoll
<1>9. ASSUME NEW w \in Workers, Wake(w) PROVE CallInv' BY <1>9 DEF Wake, EndPoll
<1>10. ASSUME NEW w \in Workers, Deliver(w) PROVE CallInv' BY <1>10 DEF Deliver
<1>11. ASSUME NEW w \in Workers, PopError(w) PROVE CallInv'
  BY <1>11 DEF PopError, EndPoll, GrantLease, Fault
<1>12. ASSUME NEW w \in Workers, NEW outcome \in Outcomes, Report(w, outcome) PROVE CallInv'
  BY <1>12 DEF Report, Settle, Fault
<1>13. ASSUME NEW w \in Workers, Abandon(w) PROVE CallInv' BY <1>13 DEF Abandon, Fault
<1>14. CASE Signal BY <1>14 DEF Signal, Fault
<1>15. CASE Stopped BY <1>15 DEF Stopped
<1>16. CASE Crash BY <1>16 DEF Crash, Fault
<1>17. CASE Start BY <1>17 DEF Start
<1>18. CASE UNCHANGED vars BY <1>18 DEF vars
<1>19. ASSUME NEW j \in Jobs, EnqueueAgain(j) PROVE CallInv'
  BY <1>19 DEF EnqueueAgain, Store, EnqueueReply, Fault
<1>20. ASSUME NEW j \in Jobs, EnqueueEnds(j) PROVE CallInv' BY <1>20 DEF EnqueueEnds
<1>21. CASE Pause \/ Resume BY <1>21 DEF Pause, Resume, Fault
<1> QED
    BY <1>1, <1>2, <1>3, <1>4, <1>5, <1>6, <1>7, <1>8, <1>9, <1>10, <1>11, <1>12, <1>13,
     <1>14, <1>15, <1>16, <1>17, <1>18, <1>19, <1>20, <1>21
     DEF Next, PromoteStep, SweepStep, HandlerStep, ReportStep, ResendStep

\* Only enqueued jobs are popped.
LEMMA StepBorn == IInv /\ [Next]_vars => BornInv'
<1> SUFFICES ASSUME IInv, [Next]_vars PROVE BornInv' OBVIOUS
<1> USE RemoteAssumption
    DEF IInv, TypeOK, CallInv, BornInv, Absent, queueVars, procVars, workerVars,
        envVars
<1>1. ASSUME NEW j \in Jobs, NEW set \in {"ready", "delayed"}, Enqueue(j, set) PROVE BornInv'
  BY <1>1 DEF Enqueue, Store, EnqueueReply, Fault
<1>2. ASSUME NEW j \in Jobs, Promote(j) PROVE BornInv' BY <1>2 DEF Promote, PushReady
<1>3. ASSUME NEW j \in Jobs, Sweep(j) PROVE BornInv'
  BY <1>3 DEF Sweep, PushReady, Expired
<1>4. CASE Tick BY <1>4 DEF Tick, OneLess
<1>5. ASSUME NEW w \in Workers, CallDequeue(w) PROVE BornInv' BY <1>5 DEF CallDequeue
<1>6. ASSUME NEW w \in Workers, GiveUp(w) PROVE BornInv' BY <1>6 DEF GiveUp
<1>7. ASSUME NEW w \in Workers, NEW j \in Jobs, Pop(w, j) PROVE BornInv'
  BY <1>7 DEF Pop, GrantLease
<1>8. ASSUME NEW w \in Workers, PopNothing(w) PROVE BornInv'
  BY <1>8 DEF PopNothing, EndPoll
<1>9. ASSUME NEW w \in Workers, Wake(w) PROVE BornInv' BY <1>9 DEF Wake, EndPoll
<1>10. ASSUME NEW w \in Workers, Deliver(w) PROVE BornInv' BY <1>10 DEF Deliver
<1>11. ASSUME NEW w \in Workers, PopError(w) PROVE BornInv'
  BY <1>11 DEF PopError, EndPoll, GrantLease, Fault
<1>12. ASSUME NEW w \in Workers, NEW outcome \in Outcomes, Report(w, outcome) PROVE BornInv'
  BY <1>12 DEF Report, Settle, Fault
<1>13. ASSUME NEW w \in Workers, Abandon(w) PROVE BornInv' BY <1>13 DEF Abandon, Fault
<1>14. CASE Signal BY <1>14 DEF Signal, Fault
<1>15. CASE Stopped BY <1>15 DEF Stopped
<1>16. CASE Crash BY <1>16 DEF Crash, Fault
<1>17. CASE Start BY <1>17 DEF Start
<1>18. CASE UNCHANGED vars BY <1>18 DEF vars
<1>19. ASSUME NEW j \in Jobs, EnqueueAgain(j) PROVE BornInv'
  BY <1>19 DEF EnqueueAgain, Store, EnqueueReply, Fault
<1>20. ASSUME NEW j \in Jobs, EnqueueEnds(j) PROVE BornInv' BY <1>20 DEF EnqueueEnds
<1>21. CASE Pause \/ Resume BY <1>21 DEF Pause, Resume, Fault
<1> QED
    BY <1>1, <1>2, <1>3, <1>4, <1>5, <1>6, <1>7, <1>8, <1>9, <1>10, <1>11, <1>12, <1>13,
     <1>14, <1>15, <1>16, <1>17, <1>18, <1>19, <1>20, <1>21
     DEF Next, PromoteStep, SweepStep, HandlerStep, ReportStep, ResendStep

\* A job changes its set; it is in a second one only after a late report or a resend.
LEMMA StepPlace == IInv /\ [Next]_vars => PlaceInv'
<1> SUFFICES ASSUME IInv, [Next]_vars PROVE PlaceInv' OBVIOUS
<1> USE RemoteAssumption
    DEF IInv, TypeOK, CallInv, BornInv, PlaceInv, Absent, queueVars, procVars,
        workerVars, envVars
<1>1. ASSUME NEW j \in Jobs, NEW set \in {"ready", "delayed"}, Enqueue(j, set) PROVE PlaceInv'
  BY <1>1 DEF Enqueue, Store, EnqueueReply, Fault
<1>2. ASSUME NEW j \in Jobs, Promote(j) PROVE PlaceInv' BY <1>2 DEF Promote, PushReady
<1>3. ASSUME NEW j \in Jobs, Sweep(j) PROVE PlaceInv'
  BY <1>3 DEF Sweep, PushReady, Expired
<1>4. CASE Tick BY <1>4 DEF Tick, OneLess
<1>5. ASSUME NEW w \in Workers, CallDequeue(w) PROVE PlaceInv' BY <1>5 DEF CallDequeue
<1>6. ASSUME NEW w \in Workers, GiveUp(w) PROVE PlaceInv' BY <1>6 DEF GiveUp
<1>7. ASSUME NEW w \in Workers, NEW j \in Jobs, Pop(w, j) PROVE PlaceInv'
  BY <1>7 DEF Pop, GrantLease
<1>8. ASSUME NEW w \in Workers, PopNothing(w) PROVE PlaceInv'
  BY <1>8 DEF PopNothing, EndPoll
<1>9. ASSUME NEW w \in Workers, Wake(w) PROVE PlaceInv' BY <1>9 DEF Wake, EndPoll
<1>10. ASSUME NEW w \in Workers, Deliver(w) PROVE PlaceInv' BY <1>10 DEF Deliver
<1>11. ASSUME NEW w \in Workers, PopError(w) PROVE PlaceInv'
  BY <1>11 DEF PopError, EndPoll, GrantLease, Fault
<1>12. ASSUME NEW w \in Workers, NEW outcome \in Outcomes, Report(w, outcome) PROVE PlaceInv'
  <2>1. job[w] \in Jobs BY <1>12 DEF Report
  <2>2. age[w] # LeaseTicks /\ job[w] \notin late \cup replayed => job[w] \notin ready \cup delayed
    BY <2>1 DEF FreshOwner, Fresh
  <2> QED BY <1>12, <2>1, <2>2 DEF Report, Settle, Fault
<1>13. ASSUME NEW w \in Workers, Abandon(w) PROVE PlaceInv' BY <1>13 DEF Abandon, Fault
<1>14. CASE Signal BY <1>14 DEF Signal, Fault
<1>15. CASE Stopped BY <1>15 DEF Stopped
<1>16. CASE Crash BY <1>16 DEF Crash, Fault
<1>17. CASE Start BY <1>17 DEF Start
<1>18. CASE UNCHANGED vars BY <1>18 DEF vars
<1>19. ASSUME NEW j \in Jobs, EnqueueAgain(j) PROVE PlaceInv'
  BY <1>19 DEF EnqueueAgain, Store, EnqueueReply, Fault
<1>20. ASSUME NEW j \in Jobs, EnqueueEnds(j) PROVE PlaceInv' BY <1>20 DEF EnqueueEnds
<1>21. CASE Pause \/ Resume BY <1>21 DEF Pause, Resume, Fault
<1> QED
    BY <1>1, <1>2, <1>3, <1>4, <1>5, <1>6, <1>7, <1>8, <1>9, <1>10, <1>11, <1>12, <1>13,
     <1>14, <1>15, <1>16, <1>17, <1>18, <1>19, <1>20, <1>21
     DEF Next, PromoteStep, SweepStep, HandlerStep, ReportStep, ResendStep

\* A fresh worker stays the only one, and its lease ages with it.
LEMMA StepFresh == IInv /\ [Next]_vars => FreshOwner'
<1> SUFFICES ASSUME IInv, [Next]_vars PROVE FreshOwner' OBVIOUS
<1> USE RemoteAssumption
    DEF IInv, TypeOK, CallInv, BornInv, PlaceInv, FreshOwner, Fresh, Absent,
        queueVars, procVars, workerVars,
        envVars
<1>1. ASSUME NEW j \in Jobs, NEW set \in {"ready", "delayed"}, Enqueue(j, set) PROVE FreshOwner'
  BY <1>1 DEF Enqueue, Store, EnqueueReply, Fault
<1>2. ASSUME NEW j \in Jobs, Promote(j) PROVE FreshOwner' BY <1>2 DEF Promote, PushReady
<1>3. ASSUME NEW j \in Jobs, Sweep(j) PROVE FreshOwner'
  BY <1>3 DEF Sweep, PushReady, Expired
<1>4. CASE Tick BY <1>4 DEF Tick, OneLess
<1>5. ASSUME NEW w \in Workers, CallDequeue(w) PROVE FreshOwner' BY <1>5 DEF CallDequeue
<1>6. ASSUME NEW w \in Workers, GiveUp(w) PROVE FreshOwner' BY <1>6 DEF GiveUp
<1>7. ASSUME NEW w \in Workers, NEW j \in Jobs, Pop(w, j) PROVE FreshOwner'
  BY <1>7 DEF Pop, GrantLease
<1>8. ASSUME NEW w \in Workers, PopNothing(w) PROVE FreshOwner'
  BY <1>8 DEF PopNothing, EndPoll
<1>9. ASSUME NEW w \in Workers, Wake(w) PROVE FreshOwner' BY <1>9 DEF Wake, EndPoll
<1>10. ASSUME NEW w \in Workers, Deliver(w) PROVE FreshOwner' BY <1>10 DEF Deliver
<1>11. ASSUME NEW w \in Workers, PopError(w) PROVE FreshOwner'
  BY <1>11 DEF PopError, EndPoll, GrantLease, Fault
<1>12. ASSUME NEW w \in Workers, NEW outcome \in Outcomes, Report(w, outcome) PROVE FreshOwner'
  BY <1>12 DEF Report, Settle, Fault
<1>13. ASSUME NEW w \in Workers, Abandon(w) PROVE FreshOwner'
  BY <1>13 DEF Abandon, Fault
<1>14. CASE Signal BY <1>14 DEF Signal, Fault
<1>15. CASE Stopped BY <1>15 DEF Stopped
<1>16. CASE Crash BY <1>16 DEF Crash, Fault
<1>17. CASE Start BY <1>17 DEF Start
<1>18. CASE UNCHANGED vars BY <1>18 DEF vars
<1>19. ASSUME NEW j \in Jobs, EnqueueAgain(j) PROVE FreshOwner'
  BY <1>19 DEF EnqueueAgain, Store, EnqueueReply, Fault
<1>20. ASSUME NEW j \in Jobs, EnqueueEnds(j) PROVE FreshOwner' BY <1>20 DEF EnqueueEnds
<1>21. CASE Pause \/ Resume BY <1>21 DEF Pause, Resume, Fault
<1> QED
    BY <1>1, <1>2, <1>3, <1>4, <1>5, <1>6, <1>7, <1>8, <1>9, <1>10, <1>11, <1>12, <1>13,
     <1>14, <1>15, <1>16, <1>17, <1>18, <1>19, <1>20, <1>21
     DEF Next, PromoteStep, SweepStep, HandlerStep, ReportStep, ResendStep

\* The invariant holds in every reachable state.
LEMMA Inductive == Spec => []IInv
<1>1. IInv /\ [Next]_vars => IInv'
  BY StepType, StepCall, StepBorn, StepPlace, StepFresh DEF IInv
<1> QED BY <1>1, InitIInv, PTL DEF Spec

\* Every reachable state is well typed: no lease is longer than LeaseTicks, and no set
\* of Redis holds a job that was never enqueued.
THEOREM RemoteTypes == Spec => []TypeOK
<1>1. IInv => TypeOK BY DEF IInv
<1> QED BY <1>1, Inductive, PTL

\* Within its lease a job is with one remote worker, whose lease stands, for as long as
\* nobody reported the job late and the enqueue script ran once for it: crashes, lost
\* responses and clients that give up on a long poll do not hand it out twice.
THEOREM FreshOwnerHolds == Spec => []FreshOwner
<1>1. IInv => FreshOwner BY DEF IInv
<1> QED BY <1>1, Inductive, PTL
=============================================================================
