---------------------------- MODULE ServerProofs ----------------------------
(***************************************************************************)
(* The heartbeat keeps the leases, the semaphore counts the goroutines, a  *)
(* drained server leaves nothing behind, and no queue is passed over for   *)
(* ever: LeaseHeld, TokensMatch, DrainLeavesNothing, BoundedOvertaking and *)
(* TypeOK, for any jobs, queues, weights, concurrency and timing in which  *)
(* the hooks and one heartbeat period fit into a lease.                    *)
(***************************************************************************)
EXTENDS Server, FiniteSetTheorems, WellFoundedInduction, TLAPS

Basic ==
    /\ lease \in [Jobs -> 0 .. LeaseTicks \cup {Absent}]
    /\ slot \in [Slots -> Jobs \cup {Idle}]
    /\ stage \in [Slots -> {"idle", "start", "work", "end"}]
    /\ \A s \in Slots : stage[s] = "idle" <=> slot[s] = Idle
    /\ inflight \in SUBSET Jobs /\ visiting \in SUBSET Jobs
    /\ beat \in 0 .. HeartbeatEvery /\ drain \in 0 .. ShutdownTicks
    /\ phase \in {"up", "stopping", "drained", "forced", "exited"}
    /\ clean \in SUBSET Jobs
    /\ faults \in Nat

\* A clean job has one goroutine, which runs its handler, and is nowhere else.
AloneInv == \A j \in clean :
    /\ \E s \in Slots : slot[s] = j /\ stage[s] = "work"
    /\ \A s, t \in Slots : slot[s] = j /\ slot[t] = j => s = t
    /\ j \in inflight
    /\ j \notin ready /\ j \notin delayed /\ j \notin rival
    /\ lease[j] # Absent

\* What its lease has left at least: it was full, but for the time the hooks took, when
\* the last heartbeat was due or later.  In a round of the heartbeat that period may
\* already be over.
Floor(j) ==
    IF phase # "up" THEN LeaseTicks - HookTicks - HeartbeatEvery - drain
    ELSE IF j \in visiting THEN LeaseTicks - HookTicks - HeartbeatEvery
    ELSE LeaseTicks - HookTicks - beat

FloorInv ==
    /\ phase \in {"up", "stopping"} => \A j \in clean : lease[j] >= Floor(j)
    /\ phase = "up" /\ visiting # {} => beat = 0
    /\ phase = "up" => drain = 0

LeaseInv == Basic /\ AloneInv /\ FloorInv

-----------------------------------------------------------------------------
\* The timing, as numbers.
LEMMA Timing ==
    /\ LeaseTicks \in Nat /\ HookTicks \in Nat /\ HeartbeatEvery \in Nat
    /\ ShutdownTicks \in Nat /\ HookTicks + HeartbeatEvery < LeaseTicks /\ Idle \notin Jobs
BY ServerAssumption

\* The server starts without jobs.
LEMMA InitLease == Init => LeaseInv
BY Timing DEF Init, LeaseInv, Basic, AloneInv, FloorInv, Absent

\* Every action keeps the types.
LEMMA StepBasic == Basic /\ [Next]_vars => Basic'
<1> SUFFICES ASSUME Basic, [Next]_vars PROVE Basic' OBVIOUS
<1> USE Timing DEF Basic, Absent, redisVars, pollVars, jobVars, beatVars, stopVars
<1>1. ASSUME NEW j \in Jobs, Arrive(j) PROVE Basic' BY <1>1 DEF Arrive
<1>2. ASSUME NEW j \in Jobs, Promote(j) PROVE Basic' BY <1>2 DEF Promote
<1>3. ASSUME NEW j \in Jobs, Sweep(j) PROVE Basic' BY <1>3 DEF Sweep
<1>4. ASSUME NEW j \in Jobs, RivalTake(j) PROVE Basic' BY <1>4 DEF RivalTake, Grant
<1>5. ASSUME NEW j \in Jobs, NEW again \in BOOLEAN, RivalEnd(j, again) PROVE Basic'
  BY <1>5 DEF RivalEnd, Report
<1>6. ASSUME NEW j \in Jobs, Extend(j) PROVE Basic' BY <1>6 DEF Extend, Extended
<1>7. ASSUME NEW j \in Jobs, ExtendFails(j) PROVE Basic' BY <1>7 DEF ExtendFails, Fault
<1>8. CASE PollHead \/ PollQuit \/ Acquire \/ AcquireCancelled \/ Miss
  BY <1>8 DEF PollHead, PollQuit, Acquire, AcquireCancelled, Miss
<1>9. ASSUME NEW j \in Jobs, LoseReply(j) PROVE Basic'
  BY <1>9 DEF LoseReply, Grant, Fault
<1>10. ASSUME NEW j \in Jobs, NEW s \in Slots, Take(j, s) PROVE Basic'
  BY <1>10 DEF Take, Grant
<1>11. ASSUME NEW s \in Slots, NEW again \in BOOLEAN, Refuse(s, again) PROVE Basic'
  BY <1>11 DEF Refuse, Report, Return, Fault
<1>12. ASSUME NEW s \in Slots, NEW again \in BOOLEAN, Finish(s, again) PROVE Basic'
  BY <1>12 DEF Finish, Report
<1>13. ASSUME NEW s \in Slots, Track(s) PROVE Basic' BY <1>13 DEF Track, InTime
<1>14. ASSUME NEW s \in Slots, FinishFails(s) PROVE Basic'
  BY <1>14 DEF FinishFails, Fault
<1>15. ASSUME NEW s \in Slots, Release(s) PROVE Basic' BY <1>15 DEF Release, Return
<1>16. CASE BeatStart BY <1>16 DEF BeatStart
<1>17. CASE Tick BY <1>17 DEF Tick, Aged
<1>18. CASE Stop BY <1>18 DEF Stop
<1>19. CASE Drained BY <1>19 DEF Drained, Busy
<1>20. CASE Timeout BY <1>20 DEF Timeout
<1>21. CASE Exit BY <1>21 DEF Exit
<1>22. CASE UNCHANGED vars BY <1>22 DEF vars
<1>23. CASE DequeueFails BY <1>23 DEF DequeueFails, Fault
<1> QED
  BY <1>1, <1>2, <1>3, <1>4, <1>5, <1>6, <1>7, <1>8, <1>9, <1>10, <1>11,
     <1>12, <1>13, <1>14, <1>15, <1>16, <1>17, <1>18, <1>19, <1>20, <1>21, <1>22, <1>23
     DEF Next, PollStep, JobStep

\* Nobody else gets a clean job: it is in no set from which it could be taken.
LEMMA StepAlone == LeaseInv /\ [Next]_vars => AloneInv'
<1> SUFFICES ASSUME LeaseInv, [Next]_vars PROVE AloneInv' OBVIOUS
<1> USE Timing
    DEF LeaseInv, Basic, AloneInv, Absent, redisVars, pollVars, jobVars, beatVars,
        stopVars
<1>1. ASSUME NEW j \in Jobs, Arrive(j) PROVE AloneInv' BY <1>1 DEF Arrive
<1>2. ASSUME NEW j \in Jobs, Promote(j) PROVE AloneInv' BY <1>2 DEF Promote
<1>3. ASSUME NEW j \in Jobs, Sweep(j) PROVE AloneInv' BY <1>3 DEF Sweep
<1>4. ASSUME NEW j \in Jobs, RivalTake(j) PROVE AloneInv' BY <1>4 DEF RivalTake, Grant
<1>5. ASSUME NEW j \in Jobs, NEW again \in BOOLEAN, RivalEnd(j, again) PROVE AloneInv'
  BY <1>5 DEF RivalEnd, Report
<1>6. ASSUME NEW j \in Jobs, Extend(j) PROVE AloneInv' BY <1>6 DEF Extend, Extended
<1>7. ASSUME NEW j \in Jobs, ExtendFails(j) PROVE AloneInv'
  BY <1>7 DEF ExtendFails, Fault
<1>8. CASE PollHead \/ PollQuit \/ Acquire \/ AcquireCancelled \/ Miss
  <2>1. UNCHANGED <<redisVars, jobVars, beatVars, stopVars, clean, faults>>
    BY <1>8 DEF PollHead, PollQuit, Acquire, AcquireCancelled, Miss
  <2> QED BY <2>1
<1>9. ASSUME NEW j \in Jobs, LoseReply(j) PROVE AloneInv'
  BY <1>9 DEF LoseReply, Grant, Fault
<1>10. ASSUME NEW j \in Jobs, NEW s \in Slots, Take(j, s) PROVE AloneInv'
  BY <1>10 DEF Take, Grant
<1>11. ASSUME NEW s \in Slots, NEW again \in BOOLEAN, Refuse(s, again) PROVE AloneInv'
  BY <1>11 DEF Refuse, Report, Return, Fault
<1>12. ASSUME NEW s \in Slots, NEW again \in BOOLEAN, Finish(s, again) PROVE AloneInv'
  BY <1>12 DEF Finish, Report
<1>13. ASSUME NEW s \in Slots, Track(s) PROVE AloneInv' BY <1>13 DEF Track, InTime
<1>14. ASSUME NEW s \in Slots, FinishFails(s) PROVE AloneInv'
  BY <1>14 DEF FinishFails, Fault
<1>15. ASSUME NEW s \in Slots, Release(s) PROVE AloneInv' BY <1>15 DEF Release, Return
<1>16. CASE BeatStart BY <1>16 DEF BeatStart
<1>17. CASE Tick BY <1>17 DEF Tick, Aged
<1>18. CASE Stop BY <1>18 DEF Stop
<1>19. CASE Drained BY <1>19 DEF Drained, Busy
<1>20. CASE Timeout BY <1>20 DEF Timeout
<1>21. CASE Exit BY <1>21 DEF Exit
<1>22. CASE UNCHANGED vars BY <1>22 DEF vars
<1>23. CASE DequeueFails BY <1>23 DEF DequeueFails, Fault
<1> QED
  BY <1>1, <1>2, <1>3, <1>4, <1>5, <1>6, <1>7, <1>8, <1>9, <1>10, <1>11,
     <1>12, <1>13, <1>14, <1>15, <1>16, <1>17, <1>18, <1>19, <1>20, <1>21, <1>22, <1>23
     DEF Next, PollStep, JobStep

\* The heartbeat restores in each round what the ticks since the last one took.
LEMMA StepFloor == LeaseInv /\ [Next]_vars => FloorInv'
<1> SUFFICES ASSUME LeaseInv, [Next]_vars PROVE FloorInv' OBVIOUS
<1> USE Timing
    DEF LeaseInv, Basic, AloneInv, FloorInv, Floor, Absent, redisVars, pollVars,
        jobVars, beatVars, stopVars
<1>1. ASSUME NEW j \in Jobs, Arrive(j) PROVE FloorInv' BY <1>1 DEF Arrive
<1>2. ASSUME NEW j \in Jobs, Promote(j) PROVE FloorInv' BY <1>2 DEF Promote
<1>3. ASSUME NEW j \in Jobs, Sweep(j) PROVE FloorInv' BY <1>3 DEF Sweep
<1>4. ASSUME NEW j \in Jobs, RivalTake(j) PROVE FloorInv' BY <1>4 DEF RivalTake, Grant
<1>5. ASSUME NEW j \in Jobs, NEW again \in BOOLEAN, RivalEnd(j, again) PROVE FloorInv'
  BY <1>5 DEF RivalEnd, Report
<1>6. ASSUME NEW j \in Jobs, Extend(j) PROVE FloorInv' BY <1>6 DEF Extend, Extended
<1>7. ASSUME NEW j \in Jobs, ExtendFails(j) PROVE FloorInv'
  BY <1>7 DEF ExtendFails, Fault
<1>8. CASE PollHead \/ PollQuit \/ Acquire \/ AcquireCancelled \/ Miss
  BY <1>8 DEF PollHead, PollQuit, Acquire, AcquireCancelled, Miss
<1>9. ASSUME NEW j \in Jobs, LoseReply(j) PROVE FloorInv'
  BY <1>9 DEF LoseReply, Grant, Fault
<1>10. ASSUME NEW j \in Jobs, NEW s \in Slots, Take(j, s) PROVE FloorInv'
  BY <1>10 DEF Take, Grant
<1>11. ASSUME NEW s \in Slots, NEW again \in BOOLEAN, Refuse(s, again) PROVE FloorInv'
  BY <1>11 DEF Refuse, Report, Return, Fault
<1>12. ASSUME NEW s \in Slots, NEW again \in BOOLEAN, Finish(s, again) PROVE FloorInv'
  BY <1>12 DEF Finish, Report
<1>13. ASSUME NEW s \in Slots, Track(s) PROVE FloorInv' BY <1>13 DEF Track, InTime
<1>14. ASSUME NEW s \in Slots, FinishFails(s) PROVE FloorInv'
  BY <1>14 DEF FinishFails, Fault
<1>15. ASSUME NEW s \in Slots, Release(s) PROVE FloorInv' BY <1>15 DEF Release, Return
<1>16. CASE BeatStart BY <1>16 DEF BeatStart
<1>17. CASE Tick BY <1>17 DEF Tick, Aged
<1>18. CASE Stop BY <1>18 DEF Stop
<1>19. CASE Drained BY <1>19 DEF Drained, Busy
<1>20. CASE Timeout BY <1>20 DEF Timeout
<1>21. CASE Exit BY <1>21 DEF Exit
<1>22. CASE UNCHANGED vars BY <1>22 DEF vars
<1>23. CASE DequeueFails BY <1>23 DEF DequeueFails, Fault
<1> QED
  BY <1>1, <1>2, <1>3, <1>4, <1>5, <1>6, <1>7, <1>8, <1>9, <1>10, <1>11,
     <1>12, <1>13, <1>14, <1>15, <1>16, <1>17, <1>18, <1>19, <1>20, <1>21, <1>22, <1>23
     DEF Next, PollStep, JobStep

\* The invariant behind the heartbeat holds in every reachable state.
LEMMA LeaseInductive == Spec => []LeaseInv
<1>1. LeaseInv /\ [Next]_vars => LeaseInv' BY StepBasic, StepAlone, StepFloor DEF LeaseInv
<1> QED BY <1>1, InitLease, PTL DEF Spec

\* While the server runs, and in the first part of its drain, the lease of a job that
\* was started in time does not run out, for any lease, period and number of jobs.
THEOREM LeaseHeldAlways == Spec => []LeaseHeld
<1>1. LeaseInv => LeaseHeld
  BY Timing DEF LeaseInv, Basic, AloneInv, FloorInv, Floor, LeaseHeld, Absent
<1> QED BY <1>1, LeaseInductive, PTL

\* As long as no call failed, what is leased is being worked on, here or elsewhere,
\* and the heartbeat knows only jobs of goroutines that have not returned.
DrainInv ==
    /\ faults = 0 /\ phase # "exited" =>
          \A j \in Jobs : lease[j] # Absent =>
              j \in rival \/ \E s \in Slots : slot[s] = j /\ stage[s] \in {"start", "work"}
    /\ \A j \in inflight : \E s \in Slots : slot[s] = j /\ stage[s] \in {"work", "end"}
    /\ phase = "drained" => pc = "done" /\ \A s \in Slots : stage[s] = "idle"

\* A job loses its lease before its goroutine ends; only a failed call leaves one.
LEMMA StepDrain == Basic /\ DrainInv /\ [Next]_vars => DrainInv'
<1> SUFFICES ASSUME Basic /\ DrainInv, [Next]_vars PROVE DrainInv' OBVIOUS
<1> USE Timing DEF Basic, DrainInv, Absent, redisVars, pollVars, jobVars, beatVars, stopVars
<1>1. ASSUME NEW j \in Jobs, Arrive(j) PROVE DrainInv' BY <1>1 DEF Arrive
<1>2. ASSUME NEW j \in Jobs, Promote(j) PROVE DrainInv' BY <1>2 DEF Promote
<1>3. ASSUME NEW j \in Jobs, Sweep(j) PROVE DrainInv' BY <1>3 DEF Sweep
<1>4. ASSUME NEW j \in Jobs, RivalTake(j) PROVE DrainInv' BY <1>4 DEF RivalTake, Grant
<1>5. ASSUME NEW j \in Jobs, NEW again \in BOOLEAN, RivalEnd(j, again) PROVE DrainInv'
  BY <1>5 DEF RivalEnd, Report
<1>6. ASSUME NEW j \in Jobs, Extend(j) PROVE DrainInv' BY <1>6 DEF Extend, Extended
<1>7. ASSUME NEW j \in Jobs, ExtendFails(j) PROVE DrainInv'
  BY <1>7 DEF ExtendFails, Fault
<1>8. CASE PollHead \/ PollQuit \/ Acquire \/ AcquireCancelled \/ Miss
  <2>1. /\ UNCHANGED <<redisVars, jobVars, beatVars, stopVars, clean, faults>>
        /\ pc = "done" => pc' = "done"
    BY <1>8 DEF PollHead, PollQuit, Acquire, AcquireCancelled, Miss
  <2> QED BY <2>1
<1>9. ASSUME NEW j \in Jobs, LoseReply(j) PROVE DrainInv'
  BY <1>9 DEF LoseReply, Grant, Fault
<1>10. ASSUME NEW j \in Jobs, NEW s \in Slots, Take(j, s) PROVE DrainInv'
  BY <1>10 DEF Take, Grant
<1>11. ASSUME NEW s \in Slots, NEW again \in BOOLEAN, Refuse(s, again) PROVE DrainInv'
  BY <1>11 DEF Refuse, Report, Return, Fault
<1>12. ASSUME NEW s \in Slots, NEW again \in BOOLEAN, Finish(s, again) PROVE DrainInv'
  BY <1>12 DEF Finish, Report
<1>13. ASSUME NEW s \in Slots, Track(s) PROVE DrainInv' BY <1>13 DEF Track, InTime
<1>14. ASSUME NEW s \in Slots, FinishFails(s) PROVE DrainInv'
  BY <1>14 DEF FinishFails, Fault
<1>15. ASSUME NEW s \in Slots, Release(s) PROVE DrainInv' BY <1>15 DEF Release, Return
<1>16. CASE BeatStart BY <1>16 DEF BeatStart
<1>17. CASE Tick BY <1>17 DEF Tick, Aged
<1>18. CASE Stop BY <1>18 DEF Stop
<1>19. CASE Drained BY <1>19 DEF Drained, Busy
<1>20. CASE Timeout BY <1>20 DEF Timeout
<1>21. CASE Exit BY <1>21 DEF Exit
<1>22. CASE UNCHANGED vars BY <1>22 DEF vars
<1>23. CASE DequeueFails BY <1>23 DEF DequeueFails, Fault
<1> QED
  BY <1>1, <1>2, <1>3, <1>4, <1>5, <1>6, <1>7, <1>8, <1>9, <1>10, <1>11,
     <1>12, <1>13, <1>14, <1>15, <1>16, <1>17, <1>18, <1>19, <1>20, <1>21, <1>22, <1>23
     DEF Next, PollStep, JobStep

\* When Start reports that all jobs are drained, and no call failed, no job of this
\* server is left for recovery.
THEOREM DrainedClean == Spec => []DrainLeavesNothing
<1>1. Init => Basic /\ DrainInv BY Timing DEF Init, Basic, DrainInv, Absent
<1>2. Basic /\ DrainInv => DrainLeavesNothing
  BY DEF Basic, DrainInv, DrainLeavesNothing, Busy
<1>3. Basic /\ DrainInv /\ [Next]_vars => Basic' /\ DrainInv' BY StepBasic, StepDrain
<1> QED BY <1>1, <1>2, <1>3, PTL DEF Spec

\* The tokens as a number, and in step with the goroutines.
TokenInv == sem \in Int /\ TokensMatch

\* The busy slots are finitely many.
LEMMA BusyFinite ==
    IsFiniteSet(Busy) /\ Cardinality(Busy) \in Nat /\ Concurrency \in Nat \ {0}
<1>1. IsFiniteSet(Slots) /\ Busy \subseteq Slots BY ServerAssumption DEF Busy
<1>2. IsFiniteSet(Busy) BY <1>1, FS_Subset
<1> QED BY <1>2, ServerAssumption, FS_CardinalityType

\* A goroutine that returns gives one token back and frees one slot.
LEMMA Returned ==
    ASSUME Basic, TokenInv, NEW s \in Slots, stage[s] # "idle", Return(s), UNCHANGED pollVars
    PROVE  TokenInv'
<1>1. /\ stage' = [stage EXCEPT ![s] = "idle"] /\ sem' = sem - 1 /\ pc' = pc
  BY DEF Return, ReleaseToken, pollVars
<1>2. Busy' = Busy \ {s} BY <1>1 DEF Basic, Busy
<1>3. s \in Busy BY DEF Busy
<1>4. Cardinality(Busy') = Cardinality(Busy) - 1 BY <1>2, <1>3, BusyFinite, FS_RemoveElement
<1> QED BY <1>1, <1>4, BusyFinite DEF TokenInv, TokensMatch

\* A call that ends without a job gives its token back.
LEMMA CallEnded ==
    ASSUME TokenInv, pc = "call", ReleaseToken, Advance, UNCHANGED stage
    PROVE  TokenInv'
<1>1. sem' = sem - 1 /\ pc' # "call" BY DEF ReleaseToken, Advance
<1>2. Busy' = Busy BY DEF Busy
<1> QED BY <1>1, <1>2, BusyFinite DEF TokenInv, TokensMatch

\* What moves neither a token nor the loop, and no goroutine in or out of its slot.
LEMMA Untouched ==
    ASSUME TokenInv, sem' = sem, pc' = pc \/ {pc, pc'} \subseteq {"head", "acquire", "done"},
           \A s \in Slots : stage'[s] = "idle" <=> stage[s] = "idle"
    PROVE  TokenInv'
<1>1. Busy' = Busy BY DEF Busy
<1>2. (pc' = "call") <=> (pc = "call") OBVIOUS
<1> QED BY <1>1, <1>2 DEF TokenInv, TokensMatch

\* Every way a call or a job can end returns its token, once.
LEMMA StepToken == Basic /\ TokenInv /\ [Next]_vars => TokenInv'
<1> SUFFICES ASSUME Basic, TokenInv, [Next]_vars PROVE TokenInv' OBVIOUS
<1>1. ASSUME NEW j \in Jobs, NEW again \in BOOLEAN,
             \/ Arrive(j) \/ Promote(j) \/ Sweep(j) \/ RivalTake(j) \/ RivalEnd(j, again)
             \/ Extend(j) \/ ExtendFails(j)
      PROVE  TokenInv'
  <2>1. UNCHANGED <<sem, pc, stage>>
    BY <1>1
       DEF Arrive, Promote, Sweep, RivalTake, RivalEnd, Extend, ExtendFails, jobVars, pollVars
  <2> QED BY <2>1, Untouched
<1>2. CASE PollHead \/ PollQuit
  <2>1. sem' = sem /\ stage' = stage /\ {pc, pc'} \subseteq {"head", "acquire", "done"}
    BY <1>2 DEF PollHead, PollQuit, jobVars
  <2> QED BY <2>1, Untouched
<1>3. CASE Acquire
  <2>1. sem' = sem + 1 /\ stage' = stage /\ pc' = "call" /\ pc = "acquire" /\ TokenFree
    BY <1>3 DEF Acquire, jobVars
  <2>2. Busy' = Busy BY <2>1 DEF Busy
  <2> QED BY <2>1, <2>2, BusyFinite DEF TokenInv, TokensMatch, TokenFree
<1>4. CASE AcquireCancelled
  <2>1. sem' = sem /\ stage' = stage /\ {pc, pc'} \subseteq {"head", "acquire", "done"}
    BY <1>4 DEF AcquireCancelled, Advance, jobVars
  <2> QED BY <2>1, Untouched
<1>5. CASE Miss BY <1>5, CallEnded DEF Miss, jobVars
<1>6. ASSUME NEW j \in Jobs, LoseReply(j) PROVE TokenInv'
  BY <1>6, CallEnded DEF LoseReply, CallFailed, jobVars
<1>7. ASSUME NEW j \in Jobs, NEW s \in Slots, Take(j, s) PROVE TokenInv'
  <2>1. /\ pc = "call" /\ pc' # "call" /\ sem' = sem
        /\ stage[s] = "idle" /\ stage' = [stage EXCEPT ![s] = "start"]
    BY <1>7 DEF Take, AfterTake, Advance
  <2>2. Busy' = Busy \cup {s} /\ s \notin Busy BY <2>1 DEF Basic, Busy
  <2>3. Cardinality(Busy') = Cardinality(Busy) + 1 BY <2>2, BusyFinite, FS_AddElement
  <2> QED BY <2>1, <2>3, BusyFinite DEF TokenInv, TokensMatch
<1>8. ASSUME NEW s \in Slots, NEW again \in BOOLEAN, Refuse(s, again) PROVE TokenInv'
  BY <1>8, Returned DEF Refuse
<1>9. ASSUME NEW s \in Slots, Release(s) PROVE TokenInv' BY <1>9, Returned DEF Release
<1>10. ASSUME NEW s \in Slots, NEW again \in BOOLEAN,
              Finish(s, again) \/ Track(s) \/ FinishFails(s)
       PROVE  TokenInv'
  <2>1. /\ sem' = sem /\ pc' = pc /\ stage[s] # "idle"
        /\ \E t \in {"work", "end"} : stage' = [stage EXCEPT ![s] = t]
    BY <1>10 DEF Finish, Track, FinishFails, pollVars
  <2> QED BY <2>1, Untouched DEF Basic
<1>11. CASE BeatStart \/ Tick \/ Stop \/ Drained \/ Timeout \/ UNCHANGED vars
  <2>1. UNCHANGED <<sem, pc, stage>>
    BY <1>11 DEF BeatStart, Tick, Stop, Drained, Timeout, vars, jobVars, pollVars
  <2> QED BY <2>1, Untouched
<1>12. CASE Exit
  <2>1. sem' = 0 /\ pc' = "done" /\ stage' = [s \in Slots |-> "idle"] BY <1>12 DEF Exit
  <2>2. Busy' = {} BY <2>1 DEF Busy
  <2> QED BY <2>1, <2>2, BusyFinite, FS_EmptySet DEF TokenInv, TokensMatch
<1>13. CASE DequeueFails BY <1>13, CallEnded DEF DequeueFails, CallFailed, jobVars
<1> QED
  BY <1>1, <1>2, <1>3, <1>4, <1>5, <1>6, <1>7, <1>8, <1>9, <1>10, <1>11, <1>12, <1>13
     DEF Next, PollStep, JobStep

\* A server starts with all its slots free.
LEMMA InitToken == Init => Basic /\ TokenInv
<1> SUFFICES ASSUME Init PROVE Basic /\ TokenInv OBVIOUS
<1>1. Basic BY Timing DEF Init, Basic, Absent
<1>2. Busy = {} /\ sem = 0 /\ pc # "call" BY DEF Init, Busy
<1> QED BY <1>1, <1>2, BusyFinite, FS_EmptySet DEF TokenInv, TokensMatch

\* No token leaks and none is returned twice, however calls and jobs end, and there are
\* never more goroutines than Concurrency.
THEOREM TokensMatchAlways == Spec => []TokensMatch
<1>1. Basic /\ TokenInv /\ [Next]_vars => Basic' /\ TokenInv' BY StepBasic, StepToken
<1>2. TokenInv => TokensMatch BY DEF TokenInv
<1> QED BY <1>1, <1>2, InitToken, PTL DEF Spec

-----------------------------------------------------------------------------
\* A set of naturals has a least element: < is well-founded.  This is what stands in
\* for induction here.
LEMMA LeastNat ==
    ASSUME NEW T \in SUBSET Nat, T # {}
    PROVE  \E x \in T : \A y \in T : x <= y
<1> DEFINE R == OpToRel(<, Nat)
<1>1. IsWellFoundedOn(R, Nat) BY NatLessThanWellFounded, Zenon
<1>2. \A x, y \in Nat : y < x => <<y, x>> \in R BY Zenon DEF OpToRel
<1> HIDE DEF R
<1>3. PICK x \in T : \A y \in T : ~(<<y, x>> \in R) BY <1>1, WFMin, Zenon
<1>4. \A y \in T : ~(y < x) BY <1>2, <1>3
<1> QED BY <1>4

\* Induction up to N, over a set of numbers.
LEMMA UpTo ==
    ASSUME NEW N \in Nat, NEW T \in SUBSET (1 .. N), N > 0 => 1 \in T,
           \A n \in T : n < N => n + 1 \in T
    PROVE  T = 1 .. N
<1> DEFINE U == (1 .. N) \ T
<1> SUFFICES ASSUME U # {} PROVE FALSE OBVIOUS
<1>a. U \in SUBSET Nat OBVIOUS
<1>1. PICK x \in U : \A y \in U : x <= y
  <2> HIDE DEF U
  <2> QED BY <1>a, LeastNat
<1>2. x # 1 /\ x - 1 \in T BY <1>1
<1> QED BY <1>1, <1>2

QN == Len(Queues)

\* What buildWeightedQueues appends for the i-th queue.
Places(i) == [k \in 1 .. Weight(Queues[i]) |-> Queues[i]]

\* Names and weights as configured, and the places of one queue.
LEMMA QueueFacts ==
    /\ Queues \in Seq(QueueNames) /\ QN \in Nat \ {0}
    /\ \A i \in 1 .. QN : /\ Queues[i] \in QueueNames
                          /\ Weight(Queues[i]) \in Nat \ {0}
                          /\ Places(i) \in Seq(QueueNames)
                          /\ Len(Places(i)) = Weight(Queues[i])
                          /\ \A k \in 1 .. Weight(Queues[i]) : Places(i)[k] = Queues[i]
    /\ \A q \in QueueNames : Weight(q) \in Nat \ {0}
<1>1. Queues \in Seq(QueueNames) /\ QN \in Nat \ {0} BY ServerAssumption DEF QN
<1>2. \A q \in QueueNames : Weight(q) \in Nat \ {0} BY ServerAssumption DEF Weight
<1>3. ASSUME NEW i \in 1 .. QN
      PROVE  /\ Queues[i] \in QueueNames
             /\ Weight(Queues[i]) \in Nat \ {0}
             /\ Places(i) \in Seq(QueueNames)
             /\ Len(Places(i)) = Weight(Queues[i])
             /\ \A k \in 1 .. Weight(Queues[i]) : Places(i)[k] = Queues[i]
  <2>1. Queues[i] \in QueueNames BY DEF QN, QueueNames
  <2> QED BY <1>2, <2>1 DEF Places
<1> QED BY <1>1, <1>2, <1>3

\* One round of the loop that appends them.
Step(h, i) == IF i = 1 THEN Places(i) ELSE h[i - 1] \o Places(i)

\* The recursion FlattenSeq is defined by has a solution ...
LEMMA FlattenExists == \E h : h = [i \in 1 .. QN |-> Step(h, i)]
<1> DEFINE T == {n \in 1 .. QN : \E g \in [1 .. n -> Seq(QueueNames)] :
                                     \A i \in 1 .. n : g[i] = Step(g, i)}
<1>1. 1 \in T
  <2> DEFINE g == [i \in 1 .. 1 |-> Places(1)]
  <2>1. g \in [1 .. 1 -> Seq(QueueNames)] BY QueueFacts
  <2>2. \A i \in 1 .. 1 : g[i] = Step(g, i) BY DEF Step
  <2> QED BY <2>1, <2>2, QueueFacts
<1>2. ASSUME NEW n \in T, n < QN PROVE n + 1 \in T
  <2>1. PICK g \in [1 .. n -> Seq(QueueNames)] : \A i \in 1 .. n : g[i] = Step(g, i)
    BY <1>2
  <2> DEFINE f == [i \in 1 .. n + 1 |-> IF i = n + 1 THEN g[n] \o Places(n + 1) ELSE g[i]]
  <2>2. n \in Nat \ {0} /\ n + 1 \in 1 .. QN BY <1>2, QueueFacts
  <2>3. g[n] \o Places(n + 1) \in Seq(QueueNames)
    <3>1. g[n] \in Seq(QueueNames) BY <2>1, <2>2
    <3>2. Places(n + 1) \in Seq(QueueNames) BY <2>2, QueueFacts
    <3> QED BY <3>1, <3>2
  <2>4. f \in [1 .. n + 1 -> Seq(QueueNames)] BY <2>1, <2>2, <2>3
  <2>5. \A i \in 1 .. n + 1 : f[i] = Step(f, i)
    <3> SUFFICES ASSUME NEW i \in 1 .. n + 1 PROVE f[i] = Step(f, i) OBVIOUS
    <3>1. CASE i = n + 1
      <4>1. f[n] = g[n] /\ f[i] = g[n] \o Places(n + 1) BY <3>1, <2>2
      <4>2. i # 1 /\ i - 1 = n BY <3>1, <2>2
      <4> HIDE DEF f
      <4> QED BY <3>1, <4>1, <4>2 DEF Step
    <3>2. CASE i # n + 1
      <4>1. i \in 1 .. n /\ f[i] = g[i] BY <3>2, <2>2
      <4>2. i # 1 => f[i - 1] = g[i - 1] BY <4>1, <2>2
      <4> QED BY <4>1, <4>2, <2>1 DEF Step
    <3> QED BY <3>1, <3>2
  <2> HIDE DEF f
  <2> QED BY <2>2, <2>4, <2>5
<1>3. T = 1 .. QN
  <2> HIDE DEF T
  <2>1. T \in SUBSET (1 .. QN) BY DEF T
  <2> QED BY <1>1, <1>2, <2>1, UpTo, QueueFacts
<1>4. PICK g \in [1 .. QN -> Seq(QueueNames)] : \A i \in 1 .. QN : g[i] = Step(g, i)
  <2>1. QN \in T
    <3> HIDE DEF T
    <3> QED BY <1>3, QueueFacts
  <2> QED BY <2>1
<1>5. g = [i \in 1 .. QN |-> Step(g, i)] BY <1>4
<1> QED BY <1>5

\* The places of q in r are the Weight(q) places from lo on.
Block(q, r, lo) ==
    /\ lo \in Nat \ {0} /\ lo + Weight(q) - 1 <= Len(r)
    /\ \A i \in 1 .. Len(r) : r[i] = q <=> lo <= i /\ i < lo + Weight(q)

\* ... which is the one the rotation is taken from.
LEMMA Flattened == \E h : h = [i \in 1 .. QN |-> Step(h, i)] /\ WeightedQueues = h[QN]
<1> DEFINE seqs == [i \in 1 .. Len(Queues) |-> [k \in 1 .. Weight(Queues[i]) |-> Queues[i]]]
           Eq(h) == h = [i \in 1 .. Len(seqs) |-> IF i = 1 THEN seqs[i] ELSE h[i - 1] \o seqs[i]]
           flat == CHOOSE h : Eq(h)
<1>1. Len(seqs) = QN BY QueueFacts DEF QN
<1>2. \A i \in 1 .. QN : seqs[i] = Places(i) BY DEF QN, Places
<1> HIDE DEF seqs
<1>3. ASSUME NEW h PROVE Eq(h) <=> h = [i \in 1 .. QN |-> Step(h, i)]
  BY <1>1, <1>2 DEF Step
<1>4. \E h : Eq(h) BY <1>3, FlattenExists
<1> HIDE DEF Eq
<1>5. Eq(flat) BY <1>4, Zenon
<1>6. FlattenSeq(seqs) = flat[Len(seqs)]
  <2>1. Len(seqs) # 0 BY <1>1, QueueFacts
  <2> QED BY <2>1, Zenon DEF FlattenSeq, Eq
<1>7. WeightedQueues = FlattenSeq(seqs) BY Zenon DEF WeightedQueues, seqs
<1> HIDE DEF flat
<1>8. WeightedQueues = flat[QN] BY <1>1, <1>6, <1>7, Zenon
<1> QED BY <1>3, <1>5, <1>8, Zenon

\* buildWeightedQueues: each queue has its places in one block, as many as its weight,
\* and nowhere else.  By induction on the queues appended so far.
LEMMA WeightedBlocks ==
    /\ WeightedQueues \in Seq(QueueNames)
    /\ \A q \in QueueNames : \E lo : Block(q, WeightedQueues, lo)
<1>1. PICK h : h = [i \in 1 .. QN |-> Step(h, i)] /\ WeightedQueues = h[QN] BY Flattened
<1> DEFINE Shape(n) ==
        /\ h[n] \in Seq(QueueNames)
        /\ \A i \in 1 .. Len(h[n]) : \E k \in 1 .. n : h[n][i] = Queues[k]
        /\ \A k \in 1 .. n : \E lo : Block(Queues[k], h[n], lo)
           T == {n \in 1 .. QN : Shape(n)}
<1>2. 1 \in T
  <2>1. 1 \in 1 .. QN BY QueueFacts
  <2>2. h[1] = Places(1) BY <1>1, <2>1 DEF Step
  <2>3. /\ Places(1) \in Seq(QueueNames) /\ Len(Places(1)) = Weight(Queues[1])
        /\ Weight(Queues[1]) \in Nat \ {0}
        /\ \A k \in 1 .. Weight(Queues[1]) : Places(1)[k] = Queues[1]
    BY <2>1, QueueFacts
  <2>4. Block(Queues[1], h[1], 1) BY <2>2, <2>3 DEF Block
  <2> QED BY <2>1, <2>2, <2>3, <2>4
<1>3. ASSUME NEW n \in T, n < QN PROVE n + 1 \in T
  <2>1. n \in Nat \ {0} /\ n \in 1 .. QN /\ n + 1 \in 1 .. QN /\ Shape(n) BY <1>3, QueueFacts
  <2> DEFINE a == h[n]
             b == Places(n + 1)
             q == Queues[n + 1]
  <2>2. h[n + 1] = a \o b
    <3>1. h[n + 1] = Step(h, n + 1) BY <1>1, <2>1
    <3>2. n + 1 # 1 /\ (n + 1) - 1 = n BY <2>1
    <3> QED BY <3>1, <3>2 DEF Step
  <2>3. /\ b \in Seq(QueueNames) /\ Len(b) = Weight(q) /\ Weight(q) \in Nat \ {0}
        /\ \A k \in 1 .. Weight(q) : b[k] = q
    BY <2>1, QueueFacts
  <2>4. a \in Seq(QueueNames) BY <2>1
  <2>5. \A k \in 1 .. n : Queues[k] # q
    <3>1. \A i, k \in 1 .. QN : Queues[i] = Queues[k] => i = k BY ServerAssumption DEF QN
    <3>2. QN \in Nat BY QueueFacts
    <3> HIDE DEF Shape, T, a, b
    <3>3. ASSUME NEW k \in 1 .. n PROVE Queues[k] # Queues[n + 1]
      <4>1. k \in 1 .. QN /\ n + 1 \in 1 .. QN /\ k # n + 1 BY <2>1, <3>2
      <4> QED BY <3>1, <4>1
    <3> QED BY <3>3
  <2>6. \A i \in 1 .. Len(a) : \E k \in 1 .. n : a[i] = Queues[k] BY <2>1
  <2>7. \A k \in 1 .. n : \E lo : Block(Queues[k], a, lo) BY <2>1
  <2>8. \A k \in 1 .. n : Weight(Queues[k]) \in Nat \ {0} BY <2>1, QueueFacts
  <2> HIDE DEF a, b, q, Shape, T
  <2>9. /\ a \o b \in Seq(QueueNames) /\ Len(a \o b) = Len(a) + Weight(q)
        /\ \A i \in 1 .. Len(a) : (a \o b)[i] = a[i]
        /\ \A i \in Len(a) + 1 .. Len(a) + Weight(q) : (a \o b)[i] = q
    BY <2>3, <2>4
  <2> DEFINE c == a \o b
  <2> HIDE DEF c
  <2>10. \A i \in 1 .. Len(c) : \E k \in 1 .. n + 1 : c[i] = Queues[k]
    <3> SUFFICES ASSUME NEW i \in 1 .. Len(c) PROVE \E k \in 1 .. n + 1 : c[i] = Queues[k]
      OBVIOUS
    <3>1. CASE i \in 1 .. Len(a) BY <3>1, <2>1, <2>6, <2>9 DEF c
    <3>2. CASE i \notin 1 .. Len(a)
      <4>1. c[i] = q BY <3>2, <2>3, <2>4, <2>9 DEF c
      <4> QED BY <4>1, <2>1 DEF q
    <3> QED BY <3>1, <3>2
  <2>11. ASSUME NEW k \in 1 .. n PROVE \E lo : Block(Queues[k], c, lo)
    <3>1. PICK lo : Block(Queues[k], a, lo) BY <2>7
    <3>2. Block(Queues[k], c, lo) BY <3>1, <2>3, <2>4, <2>5, <2>8, <2>9 DEF Block, c
    <3> QED BY <3>2
  <2>12. Block(q, c, Len(a) + 1)
    <3>1. \A i \in 1 .. Len(a) : c[i] # q BY <2>5, <2>6, <2>9 DEF c
    <3> QED BY <3>1, <2>3, <2>4, <2>9 DEF Block, c
  <2>13. Shape(n + 1)
    <3>1. \A k \in 1 .. n + 1 : \E lo : Block(Queues[k], c, lo)
      BY <2>1, <2>11, <2>12 DEF q
    <3>2. h[n + 1] = c /\ c \in Seq(QueueNames) BY <2>2, <2>9 DEF c
    <3> QED BY <2>10, <3>1, <3>2 DEF Shape
  <2> QED BY <2>1, <2>13 DEF T
<1>4. Shape(QN)
  <2> HIDE DEF Shape
  <2>1. T \in SUBSET (1 .. QN) OBVIOUS
  <2>2. QN \in T
    <3> HIDE DEF T
    <3>1. T = 1 .. QN BY <1>2, <1>3, <2>1, UpTo, QueueFacts
    <3> QED BY <3>1, QueueFacts
  <2> QED BY <2>2
<1> QED BY <1>1, <1>4 DEF QueueNames, QN

-----------------------------------------------------------------------------
\* What the poll loop keeps: its own variables, and the shape of the rotation.
PollTypes ==
    /\ strict \in BOOLEAN
    /\ rotation \in Seq(QueueNames)
    /\ pc \in {"head", "acquire", "call", "done"}
    /\ pos \in 1 .. Len(rotation)
    /\ over \in [QueueNames -> Nat] /\ failed \in [QueueNames -> Nat]
    /\ strict \/ \A q \in QueueNames : \E lo : Block(q, rotation, lo)

\* How many jobs of others can have been taken when the loop is at pos: since q had its
\* last turn, in this round or at its end in the one before.
RoomAt(x, lo, w, n) ==
    IF x <= lo THEN n - (lo + w) + x ELSE IF x <= lo + w THEN 0 ELSE x - (lo + w)
Room(q, lo) == RoomAt(pos, lo, Weight(q), Len(rotation))

\* The queues before pos have had their turn in this round.  Every turn of q that failed
\* let it be passed over for one round more.
PlaceInv ==
    /\ strict => \A q \in QueueNames :
          over[q] <= failed[q] + (IF \E i \in 1 .. pos - 1 : rotation[i] = q THEN 0 ELSE 1)
    /\ ~strict => \A q \in QueueNames, lo \in Nat : Block(q, rotation, lo) =>
          over[q] <= failed[q] * (Len(rotation) - Weight(q)) + Room(q, lo)

\* After the shutdown has begun a round may go on without polling.
PollInv ==
    /\ PollTypes
    /\ phase = "up" \/ pc = "call" => PlaceInv
    /\ BoundedOvertaking

\* One more failure, one more round.
LEMMA OneRoundMore ==
    ASSUME NEW f \in Nat, NEW k \in Nat
    PROVE  f * k \in Nat /\ (1 + f) * k = f * k + k /\ (f + 1) * k = f * k + k /\ 0 * k = 0
OBVIOUS

\* The numbers behind it: never more than the places of the others, and one more with
\* every place that is not the queue's own.
LEMMA RoomFacts ==
    ASSUME NEW n \in Nat, NEW w \in Nat \ {0}, NEW lo \in Nat \ {0}, lo + w - 1 <= n,
           NEW x \in 1 .. n, NEW y \in 1 .. n, y = IF x < n THEN x + 1 ELSE 1
    PROVE  /\ n - w \in Nat /\ RoomAt(x, lo, w, n) \in 0 .. (n - w)
           /\ RoomAt(y, lo, w, n) \in Nat
           /\ ~(lo <= x /\ x < lo + w) => RoomAt(y, lo, w, n) >= RoomAt(x, lo, w, n) + 1
<1>1. n - w \in Nat OBVIOUS
<1>2. RoomAt(x, lo, w, n) \in 0 .. (n - w) BY DEF RoomAt
<1>3. RoomAt(y, lo, w, n) \in Nat BY DEF RoomAt
<1>4. ASSUME ~(lo <= x /\ x < lo + w)
      PROVE  RoomAt(y, lo, w, n) >= RoomAt(x, lo, w, n) + 1
  <2>1. CASE x < n BY <1>4, <2>1 DEF RoomAt
  <2>2. CASE x = n BY <1>4, <2>2 DEF RoomAt
  <2> QED BY <2>1, <2>2
<1> QED BY <1>1, <1>2, <1>3, <1>4

\* A queue fills its own places of the rotation, and there are others.
LEMMA BlockFits ==
    ASSUME PollTypes, NEW q \in QueueNames, NEW lo, Block(q, rotation, lo)
    PROVE  /\ lo \in Nat \ {0} /\ Weight(q) \in Nat \ {0} /\ Len(rotation) \in Nat \ {0}
           /\ lo + Weight(q) - 1 <= Len(rotation)
           /\ Len(rotation) - Weight(q) \in Nat
           /\ Room(q, lo) \in 0 .. (Len(rotation) - Weight(q))
<1>1. /\ lo \in Nat \ {0} /\ Weight(q) \in Nat \ {0} /\ lo + Weight(q) - 1 <= Len(rotation)
      /\ Len(rotation) \in Nat /\ pos \in 1 .. Len(rotation)
  BY QueueFacts DEF PollTypes, Block
<1> DEFINE y == IF pos < Len(rotation) THEN pos + 1 ELSE 1
<1>2. y \in 1 .. Len(rotation) BY <1>1
<1>3. /\ Len(rotation) - Weight(q) \in Nat
      /\ RoomAt(pos, lo, Weight(q), Len(rotation)) \in 0 .. (Len(rotation) - Weight(q))
  BY <1>1, <1>2, RoomFacts
<1> QED BY <1>1, <1>3 DEF Room

\* The place tells how much a queue was passed over, at most.
LEMMA PlaceBounds == PollTypes /\ PlaceInv => BoundedOvertaking
<1> SUFFICES ASSUME PollTypes, PlaceInv, NEW q \in QueueNames
             PROVE  over[q] <= (1 + failed[q]) * Others(q)
  BY DEF BoundedOvertaking
<1>0. over[q] \in Nat /\ failed[q] \in Nat BY DEF PollTypes
<1>1. CASE strict
  <2>1. Others(q) = 1 BY <1>1 DEF Others
  <2>2. over[q] <= failed[q] + 1 BY <1>0, <1>1 DEF PlaceInv
  <2> QED BY <1>0, <2>1, <2>2
<1>2. CASE ~strict
  <2>1. PICK lo : Block(q, rotation, lo) BY <1>2 DEF PollTypes
  <2> DEFINE K == Len(rotation) - Weight(q)
  <2>2. K \in Nat /\ Room(q, lo) \in 0 .. K /\ lo \in Nat BY <2>1, BlockFits
  <2>3. over[q] <= failed[q] * K + Room(q, lo) BY <1>2, <2>1, <2>2 DEF PlaceInv
  <2>4. Others(q) = K BY <1>2 DEF Others
  <2> HIDE DEF K
  <2>5. failed[q] * K \in Nat /\ (1 + failed[q]) * K = failed[q] * K + K
    BY <1>0, <2>2, OneRoundMore
  <2> QED BY <1>0, <2>2, <2>3, <2>4, <2>5
<1> QED BY <1>1, <1>2

\* How the loop gets to its next place.
LEMMA Moved ==
    ASSUME PollTypes, NEW taken \in BOOLEAN, IF taken THEN AfterTake ELSE Advance,
           UNCHANGED <<strict, rotation>>
    PROVE  /\ pos' \in 1 .. Len(rotation) /\ pc' \in {"head", "acquire", "call", "done"}
           /\ \/ strict /\ taken /\ pos' = 1
              \/ (strict => ~taken) /\ pos' = IF pos < Len(rotation) THEN pos + 1 ELSE 1
BY DEF PollTypes, Advance, AfterTake

\* A round goes on: what the place of a queue allows grows, unless it is its own turn.
LEMMA RoomGrows ==
    ASSUME PollTypes, NEW p \in QueueNames, NEW lo, Block(p, rotation, lo),
           pos' = IF pos < Len(rotation) THEN pos + 1 ELSE 1, UNCHANGED rotation
    PROVE  /\ Room(p, lo)' \in Nat
           /\ rotation[pos] # p => Room(p, lo)' >= Room(p, lo) + 1
<1>1. /\ lo \in Nat \ {0} /\ Weight(p) \in Nat \ {0} /\ lo + Weight(p) - 1 <= Len(rotation)
      /\ Len(rotation) \in Nat /\ pos \in 1 .. Len(rotation)
      /\ rotation[pos] = p <=> lo <= pos /\ pos < lo + Weight(p)
  BY QueueFacts DEF PollTypes, Block
<1>2. pos' \in 1 .. Len(rotation) BY <1>1
<1>3. /\ RoomAt(pos', lo, Weight(p), Len(rotation)) \in Nat
      /\ ~(lo <= pos /\ pos < lo + Weight(p)) =>
            RoomAt(pos', lo, Weight(p), Len(rotation))
                >= RoomAt(pos, lo, Weight(p), Len(rotation)) + 1
  BY <1>1, <1>2, RoomFacts
<1>4. Room(p, lo)' = RoomAt(pos', lo, Weight(p), Len(rotation)) BY DEF Room, Weight, RoomAt
<1> QED BY <1>1, <1>3, <1>4 DEF Room

\* A call that was answered, with or without a job, and the move to the next place.
LEMMA Polled ==
    ASSUME PollTypes, PlaceInv, NEW taken \in BOOLEAN, PassOver(rotation[pos], taken),
           IF taken THEN AfterTake ELSE Advance, UNCHANGED <<strict, rotation>>
    PROVE  PollTypes' /\ PlaceInv'
<1> DEFINE q == rotation[pos]
           n == Len(rotation)
<1>1. /\ q \in QueueNames /\ n \in Nat \ {0} /\ pos \in 1 .. n /\ pos \in Nat
      /\ over \in [QueueNames -> Nat] /\ failed \in [QueueNames -> Nat]
      /\ strict \in BOOLEAN /\ n' = n
  BY DEF PollTypes
<1>2. /\ over' = [p \in QueueNames |->
             IF p = q THEN 0
             ELSE IF taken /\ (strict => \E i \in 1 .. pos : rotation[i] = p)
             THEN over[p] + 1 ELSE over[p]]
      /\ failed' = [failed EXCEPT ![q] = 0]
  BY DEF PassOver
<1>3. /\ pos' \in 1 .. n /\ pc' \in {"head", "acquire", "call", "done"}
      /\ \/ strict /\ taken /\ pos' = 1
         \/ (strict => ~taken) /\ pos' = IF pos < n THEN pos + 1 ELSE 1
  BY Moved
<1>4. PollTypes'
  <2>1. over' \in [QueueNames -> Nat] /\ failed' \in [QueueNames -> Nat] BY <1>1, <1>2
  <2> QED BY <1>1, <1>3, <2>1 DEF PollTypes, Block, Weight
<1> HIDE DEF n
<1>5. ASSUME strict, NEW p \in QueueNames
      PROVE  over'[p] <= failed'[p] + (IF \E i \in 1 .. pos' - 1 : rotation[i] = p THEN 0 ELSE 1)
  <2> HIDE DEF q
  <2>1. /\ over[p] \in Nat /\ failed[p] \in Nat
        /\ over[p] <= failed[p] + (IF \E i \in 1 .. pos - 1 : rotation[i] = p THEN 0 ELSE 1)
    BY <1>1, <1>5 DEF PlaceInv
  <2>2. /\ over'[p] = IF p = q THEN 0
                      ELSE IF taken /\ \E i \in 1 .. pos : rotation[i] = p
                      THEN over[p] + 1 ELSE over[p]
        /\ failed'[p] = IF p = q THEN 0 ELSE failed[p]
    BY <1>1, <1>2, <1>5
  <2>3. CASE taken
    <3>1. pos' = 1 /\ ~\E i \in 1 .. pos' - 1 : rotation[i] = p BY <1>3, <1>5, <2>3
    <3>2. p # q /\ (\E i \in 1 .. pos : rotation[i] = p)
             => \E i \in 1 .. pos - 1 : rotation[i] = p
      BY <1>1 DEF q
    <3> QED BY <2>1, <2>2, <2>3, <3>1, <3>2
  <2>4. CASE ~taken
    <3>0. pos' = 1 \/ pos' = pos + 1 BY <1>3, <2>4
    <3>1. p # q /\ (\E i \in 1 .. pos' - 1 : rotation[i] = p)
             => \E i \in 1 .. pos - 1 : rotation[i] = p
      <4> SUFFICES ASSUME p # q, NEW i \in 1 .. pos' - 1, rotation[i] = p
                   PROVE  i \in 1 .. pos - 1
        OBVIOUS
      <4>1. i # pos BY DEF q
      <4>2. pos \in Nat BY <1>1
      <4>3. CASE pos' = 1 BY <4>3
      <4>4. CASE pos' = pos + 1
        <5>1. i \in 1 .. pos BY <4>2, <4>4
        <5> QED BY <4>1, <4>2, <5>1
      <4> QED BY <3>0, <4>3, <4>4
    <3> QED BY <2>1, <2>2, <2>4, <3>1
  <2> QED BY <2>3, <2>4
<1>6. ASSUME ~strict, NEW p \in QueueNames, NEW lo \in Nat, Block(p, rotation, lo)
      PROVE  over'[p] <= failed'[p] * (n - Weight(p)) + Room(p, lo)'
  <2> DEFINE K == n - Weight(p)
  <2>1. K \in Nat /\ Room(p, lo) \in Nat BY <1>6, BlockFits DEF n
  <2>2. /\ over[p] \in Nat /\ failed[p] \in Nat
        /\ over[p] <= failed[p] * K + Room(p, lo)
    BY <1>1, <1>6 DEF PlaceInv, n
  <2>3. pos' = IF pos < Len(rotation) THEN pos + 1 ELSE 1 BY <1>3, <1>6 DEF n
  <2>4. Room(p, lo)' \in Nat /\ (p # q => Room(p, lo)' >= Room(p, lo) + 1)
    BY <1>6, <2>3, RoomGrows
  <2> HIDE DEF K, q
  <2>5. failed[p] * K \in Nat /\ 0 * K = 0 BY <2>1, <2>2, OneRoundMore
  <2>6. CASE p = q
    <3>1. over'[p] = 0 /\ failed'[p] = 0 BY <1>1, <1>2, <2>6
    <3>2. 0 <= 0 * K + Room(p, lo)' BY <2>4, <2>5
    <3> QED BY <3>1, <3>2 DEF K
  <2>7. CASE p # q
    <3>1. over'[p] \in {over[p], over[p] + 1} /\ failed'[p] = failed[p]
      BY <1>1, <1>2, <2>7
    <3>2. over'[p] <= failed[p] * K + Room(p, lo)' BY <2>1, <2>2, <2>4, <2>5, <2>7, <3>1
    <3> QED BY <3>1, <3>2 DEF K
  <2> QED BY <2>6, <2>7
<1>7. PlaceInv'
  <2>1. \A p \in QueueNames, lo \in Nat : Block(p, rotation, lo)' <=> Block(p, rotation, lo)
    BY DEF Block, Weight
  <2>2. Len(rotation') = n /\ \A p \in QueueNames : Weight(p)' = Weight(p) BY DEF n, Weight
  <2> QED BY <1>5, <1>6, <2>1, <2>2 DEF PlaceInv
<1> QED BY <1>4, <1>7

\* A call that failed: its queue may be passed over for one round more.
LEMMA PolledInVain ==
    ASSUME PollTypes, PlaceInv, CallFailed, UNCHANGED <<strict, rotation, over>>
    PROVE  PollTypes' /\ PlaceInv'
<1> DEFINE q == rotation[pos]
           n == Len(rotation)
<1>1. /\ q \in QueueNames /\ n \in Nat \ {0} /\ pos \in 1 .. n /\ pos \in Nat
      /\ over \in [QueueNames -> Nat] /\ failed \in [QueueNames -> Nat]
      /\ strict \in BOOLEAN /\ n' = n
  BY DEF PollTypes
<1>2. failed' = [failed EXCEPT ![q] = @ + 1] /\ Advance BY DEF CallFailed
<1>3. /\ pos' \in 1 .. n /\ pc' \in {"head", "acquire", "call", "done"}
      /\ pos' = IF pos < n THEN pos + 1 ELSE 1
  BY <1>2, Moved
<1>4. PollTypes'
  <2>1. failed' \in [QueueNames -> Nat] BY <1>1, <1>2
  <2> QED BY <1>1, <1>3, <2>1 DEF PollTypes, Block, Weight
<1> HIDE DEF n
<1>5. ASSUME strict, NEW p \in QueueNames
      PROVE  over[p] <= failed'[p] + (IF \E i \in 1 .. pos' - 1 : rotation[i] = p THEN 0 ELSE 1)
  <2> HIDE DEF q
  <2>1. /\ over[p] \in Nat /\ failed[p] \in Nat
        /\ over[p] <= failed[p] + (IF \E i \in 1 .. pos - 1 : rotation[i] = p THEN 0 ELSE 1)
    BY <1>1, <1>5 DEF PlaceInv
  <2>2. failed'[p] = IF p = q THEN failed[p] + 1 ELSE failed[p] BY <1>1, <1>2
  <2>3. p # q /\ (\E i \in 1 .. pos' - 1 : rotation[i] = p)
           => \E i \in 1 .. pos - 1 : rotation[i] = p
    BY <1>1, <1>3 DEF q
  <2> QED BY <2>1, <2>2, <2>3
<1>6. ASSUME ~strict, NEW p \in QueueNames, NEW lo \in Nat, Block(p, rotation, lo)
      PROVE  over[p] <= failed'[p] * (n - Weight(p)) + Room(p, lo)'
  <2> DEFINE K == n - Weight(p)
  <2>1. K \in Nat /\ Room(p, lo) \in 0 .. K BY <1>6, BlockFits DEF n
  <2>2. /\ over[p] \in Nat /\ failed[p] \in Nat
        /\ over[p] <= failed[p] * K + Room(p, lo)
    BY <1>1, <1>6 DEF PlaceInv, n
  <2>3. Room(p, lo)' \in Nat /\ (p # q => Room(p, lo)' >= Room(p, lo) + 1)
    BY <1>3, <1>6, RoomGrows DEF n
  <2> HIDE DEF K, q
  <2>4. failed[p] * K \in Nat /\ (failed[p] + 1) * K = failed[p] * K + K
    BY <2>1, <2>2, OneRoundMore
  <2>5. CASE p = q
    <3>1. failed'[p] = failed[p] + 1 BY <1>1, <1>2, <2>5
    <3>2. over[p] <= (failed[p] + 1) * K + Room(p, lo)' BY <2>1, <2>2, <2>3, <2>4
    <3> QED BY <3>1, <3>2 DEF K
  <2>6. CASE p # q
    <3>1. failed'[p] = failed[p] BY <1>1, <1>2, <2>6
    <3>2. over[p] <= failed[p] * K + Room(p, lo)' BY <2>1, <2>2, <2>3, <2>4, <2>6
    <3> QED BY <3>1, <3>2 DEF K
  <2> QED BY <2>5, <2>6
<1>7. PlaceInv'
  <2>1. \A p \in QueueNames, lo \in Nat : Block(p, rotation, lo)' <=> Block(p, rotation, lo)
    BY DEF Block, Weight
  <2>2. Len(rotation') = n /\ \A p \in QueueNames : Weight(p)' = Weight(p) BY DEF n, Weight
  <2> QED BY <1>5, <1>6, <2>1, <2>2 DEF PlaceInv
<1> QED BY <1>4, <1>7

\* Whoever leaves the poll loop alone, and a server does not start again.
LEMMA LoopAlone ==
    ASSUME PollInv, UNCHANGED pollVars, phase' = "up" => phase = "up"
    PROVE  PollInv'
<1>1. PollTypes' BY DEF PollInv, PollTypes, pollVars, Block, Weight
<1>2. PlaceInv => PlaceInv' BY DEF PlaceInv, Room, Block, Weight, pollVars
<1>3. BoundedOvertaking' BY DEF PollInv, BoundedOvertaking, Others, Weight, pollVars
<1>4. pc' = pc BY DEF pollVars
<1> QED BY <1>1, <1>2, <1>3, <1>4 DEF PollInv

\* A loop that has ended, in a drain or with the process.
LEMMA LoopEnded ==
    ASSUME PollInv, pc' = "done", pos' = 1, over' = [q \in QueueNames |-> 0],
           failed' = [q \in QueueNames |-> 0], UNCHANGED <<strict, rotation>>, phase' # "up"
    PROVE  PollInv'
<1>1. PollTypes'
  <2>1. pos' \in 1 .. Len(rotation) BY DEF PollInv, PollTypes
  <2>2. over' \in [QueueNames -> Nat] /\ failed' \in [QueueNames -> Nat] OBVIOUS
  <2> QED BY <2>1, <2>2 DEF PollInv, PollTypes, Block, Weight
<1>2. BoundedOvertaking'
  <2> SUFFICES ASSUME NEW q \in QueueNames PROVE 0 <= (1 + 0) * Others(q)
    BY DEF BoundedOvertaking, Others, Weight
  <2>1. CASE ~strict
    <3>1. PICK lo : Block(q, rotation, lo) BY <2>1 DEF PollInv, PollTypes
    <3>2. Len(rotation) - Weight(q) \in Nat BY <3>1, BlockFits DEF PollInv
    <3> QED BY <2>1, <3>2 DEF Others
  <2> QED BY <2>1 DEF Others
<1> QED BY <1>1, <1>2 DEF PollInv

\* The shutdown begins, and the counts start anew.
LEMMA LoopStopped ==
    ASSUME PollInv, Stop
    PROVE  PollInv'
<1>1. /\ UNCHANGED <<strict, rotation, pc, pos>> /\ phase' # "up"
      /\ over' = [q \in QueueNames |-> 0] /\ failed' = [q \in QueueNames |-> 0]
  BY DEF Stop
<1>2. PollTypes'
  <2>1. over' \in [QueueNames -> Nat] /\ failed' \in [QueueNames -> Nat] BY <1>1
  <2> QED BY <1>1, <2>1 DEF PollInv, PollTypes, Block, Weight
<1>3. PlaceInv'
  <2>1. ASSUME NEW q \in QueueNames, NEW lo \in Nat, Block(q, rotation, lo)
        PROVE  0 <= 0 * (Len(rotation) - Weight(q)) + Room(q, lo)
    BY <2>1, BlockFits DEF PollInv
  <2>2. \A q \in QueueNames, lo \in Nat :
           /\ Block(q, rotation, lo)' <=> Block(q, rotation, lo)
           /\ Room(q, lo)' = Room(q, lo) /\ Weight(q)' = Weight(q)
    BY <1>1 DEF Block, Room, RoomAt, Weight
  <2> QED BY <1>1, <2>1, <2>2 DEF PlaceInv
<1>4. (PollTypes /\ PlaceInv => BoundedOvertaking)' BY PlaceBounds, PTL
<1> QED BY <1>2, <1>3, <1>4 DEF PollInv

\* The loop moves on without a call.
LEMMA LoopMoves ==
    ASSUME PollInv, UNCHANGED <<strict, rotation, over, failed, phase>>,
           pc' \in {"head", "acquire", "call", "done"}, pos' \in 1 .. Len(rotation),
           phase = "up" => pos' = pos, pc' = "call" => phase = "up"
    PROVE  PollInv'
<1>1. PollTypes' BY DEF PollInv, PollTypes, Block, Weight
<1>2. phase = "up" => PlaceInv' BY DEF PollInv, PlaceInv, Room, Block, Weight
<1>3. BoundedOvertaking' BY DEF PollInv, BoundedOvertaking, Others, Weight
<1> QED BY <1>1, <1>2, <1>3 DEF PollInv

\* Only a call moves the counts, and every call looks at the queue whose turn it is.
LEMMA StepPoll == PollInv /\ [Next]_vars => PollInv'
<1> SUFFICES ASSUME PollInv, [Next]_vars PROVE PollInv' OBVIOUS
<1>1. ASSUME NEW j \in Jobs, NEW again \in BOOLEAN,
             \/ Arrive(j) \/ Promote(j) \/ Sweep(j) \/ RivalTake(j) \/ RivalEnd(j, again)
             \/ Extend(j) \/ ExtendFails(j)
      PROVE  PollInv'
  <2>1. UNCHANGED <<pollVars, phase>>
    BY <1>1 DEF Arrive, Promote, Sweep, RivalTake, RivalEnd, Extend, ExtendFails, stopVars
  <2> QED BY <2>1, LoopAlone
<1>2. ASSUME NEW s \in Slots, NEW again \in BOOLEAN,
             Refuse(s, again) \/ Finish(s, again) \/ Track(s) \/ FinishFails(s) \/ Release(s)
      PROVE  PollInv'
  <2>1. UNCHANGED <<pollVars, phase>>
    BY <1>2 DEF Refuse, Finish, Track, FinishFails, Release, stopVars
  <2> QED BY <2>1, LoopAlone
<1>3. CASE BeatStart \/ Tick \/ Drained \/ Timeout \/ UNCHANGED vars
  <2>1. UNCHANGED pollVars /\ (phase' = "up" => phase = "up")
    BY <1>3 DEF BeatStart, Tick, Drained, Timeout, vars, stopVars
  <2> QED BY <2>1, LoopAlone
<1>12. CASE Stop BY <1>12, LoopStopped
<1>4. CASE PollQuit \/ Exit
  <2>1. /\ pc' = "done" /\ pos' = 1 /\ over' = [q \in QueueNames |-> 0]
        /\ failed' = [q \in QueueNames |-> 0]
        /\ UNCHANGED <<strict, rotation>> /\ phase' # "up"
    BY <1>4 DEF PollQuit, Exit, stopVars
  <2> QED BY <2>1, LoopEnded
<1>5. CASE PollHead \/ Acquire \/ AcquireCancelled
  <2>1. pos \in 1 .. Len(rotation) /\ Len(rotation) \in Nat BY DEF PollInv, PollTypes
  <2>2. /\ UNCHANGED <<strict, rotation, over, failed, phase>>
        /\ pc' \in {"head", "acquire", "call", "done"} /\ pos' \in 1 .. Len(rotation)
        /\ phase = "up" => pos' = pos
        /\ pc' = "call" => phase = "up"
    BY <1>5, <2>1 DEF PollHead, Acquire, AcquireCancelled, Advance, stopVars
  <2> QED BY <2>2, LoopMoves
<1>6. ASSUME NEW taken \in BOOLEAN, pc = "call", PassOver(rotation[pos], taken),
             IF taken THEN AfterTake ELSE Advance, UNCHANGED <<strict, rotation>>
      PROVE  PollInv'
  <2>1. PollTypes' /\ PlaceInv' BY <1>6, Polled DEF PollInv
  <2>2. BoundedOvertaking'
    <3>1. (PollTypes /\ PlaceInv => BoundedOvertaking)' BY PlaceBounds, PTL
    <3> QED BY <2>1, <3>1
  <2> QED BY <2>1, <2>2 DEF PollInv
<1>7. CASE Miss BY <1>6, <1>7 DEF Miss
<1>8. ASSUME pc = "call", CallFailed, UNCHANGED <<strict, rotation, over>> PROVE PollInv'
  <2>1. PollTypes' /\ PlaceInv' BY <1>8, PolledInVain DEF PollInv
  <2>2. (PollTypes /\ PlaceInv => BoundedOvertaking)' BY PlaceBounds, PTL
  <2> QED BY <2>1, <2>2 DEF PollInv
<1>10. CASE DequeueFails BY <1>8, <1>10 DEF DequeueFails
<1>11. ASSUME NEW j \in Jobs, LoseReply(j) PROVE PollInv' BY <1>8, <1>11 DEF LoseReply
<1>9. ASSUME NEW j \in Jobs, NEW s \in Slots, Take(j, s) PROVE PollInv'
  BY <1>6, <1>9 DEF Take
<1> QED
  BY <1>1, <1>2, <1>3, <1>4, <1>5, <1>7, <1>9, <1>10, <1>11, <1>12
     DEF Next, PollStep, JobStep

\* A server starts at the head of its rotation, and has passed nobody over.
LEMMA InitPoll == Init => PollInv
<1> SUFFICES ASSUME Init PROVE PollInv OBVIOUS
<1>1. /\ rotation \in Seq(QueueNames) /\ strict \in BOOLEAN
      /\ strict \/ \A q \in QueueNames : \E lo : Block(q, rotation, lo)
  <2>1. CASE strict = FALSE /\ rotation = WeightedQueues BY <2>1, WeightedBlocks
  <2>2. CASE strict = TRUE /\ rotation \in StrictQueues
    <3>1. rotation \in [1 .. QN -> QueueNames] BY <2>2 DEF StrictQueues, QN
    <3> QED BY <2>2, <3>1, QueueFacts
  <2> QED BY <2>1, <2>2 DEF Init
<1>2. Len(rotation) \in Nat \ {0}
  <2>1. CASE strict = FALSE /\ rotation = WeightedQueues
    <3>1. Queues[1] \in QueueNames BY QueueFacts
    <3>2. PICK lo : Block(Queues[1], rotation, lo) BY <2>1, <3>1, WeightedBlocks
    <3> QED BY <1>1, <3>1, <3>2, QueueFacts DEF Block
  <2>2. CASE strict = TRUE /\ rotation \in StrictQueues
    BY <2>2, QueueFacts DEF StrictQueues, QN
  <2> QED BY <2>1, <2>2 DEF Init
<1>3. /\ pos = 1 /\ pc = "head" /\ over = [q \in QueueNames |-> 0]
      /\ failed = [q \in QueueNames |-> 0]
  BY DEF Init
<1>4. PollTypes BY <1>1, <1>2, <1>3 DEF PollTypes
<1>5. PlaceInv
  <2>1. ASSUME NEW q \in QueueNames, NEW lo \in Nat, Block(q, rotation, lo)
        PROVE  0 <= 0 * (Len(rotation) - Weight(q)) + Room(q, lo)
    BY <1>4, <2>1, BlockFits
  <2> QED BY <1>3, <2>1 DEF PlaceInv
<1> QED BY <1>4, <1>5, PlaceBounds DEF PollInv

\* No queue is passed over for ever: until a call for it is answered at most one job per
\* place of the others in a weighted rotation, and one job of a worse queue in strict
\* mode, is taken, and as many for each call for it that failed, for any queues, weights
\* and order of calls, losses of replies and shutdowns.
THEOREM OvertakingIsBounded == Spec => []BoundedOvertaking
<1>1. PollInv => BoundedOvertaking BY DEF PollInv
<1> QED BY <1>1, InitPoll, StepPoll, PTL DEF Spec

\* What is in Redis, and the calls that may still fail.
RestTypes ==
    /\ ready \in SUBSET Jobs /\ delayed \in SUBSET Jobs /\ rival \in SUBSET Jobs
    /\ faults \in 0 .. MaxFaults

\* Every action keeps them.
LEMMA StepRest == Basic /\ RestTypes /\ [Next]_vars => RestTypes'
<1> SUFFICES ASSUME Basic, RestTypes, [Next]_vars PROVE RestTypes' OBVIOUS
<1>0. MaxFaults \in Nat BY ServerAssumption
<1> USE DEF RestTypes, redisVars
<1>1. ASSUME NEW j \in Jobs, NEW again \in BOOLEAN,
             \/ Arrive(j) \/ Promote(j) \/ Sweep(j) \/ RivalTake(j) \/ RivalEnd(j, again)
             \/ Extend(j) \/ ExtendFails(j)
      PROVE  RestTypes'
  <2>1. CASE Arrive(j) \/ Promote(j) \/ Sweep(j) \/ Extend(j)
    BY <2>1 DEF Arrive, Promote, Sweep, Extend
  <2>2. CASE RivalTake(j) \/ RivalEnd(j, again)
    BY <2>2 DEF RivalTake, RivalEnd, Grant, Report
  <2>3. CASE ExtendFails(j) BY <1>0, <2>3 DEF ExtendFails, Fault
  <2> QED BY <1>1, <2>1, <2>2, <2>3
<1>2. ASSUME NEW s \in Slots, NEW again \in BOOLEAN, stage[s] # "idle",
             Refuse(s, again) \/ Finish(s, again) \/ Track(s) \/ FinishFails(s) \/ Release(s)
      PROVE  RestTypes'
  <2>1. slot[s] \in Jobs BY <1>2 DEF Basic
  <2> QED BY <1>0, <1>2, <2>1 DEF Refuse, Finish, Track, FinishFails, Release, Report, Fault
<1>3. CASE PollHead \/ PollQuit \/ Acquire \/ AcquireCancelled \/ Miss
  BY <1>3 DEF PollHead, PollQuit, Acquire, AcquireCancelled, Miss
<1>4. ASSUME NEW j \in Jobs, NEW s \in Slots, Take(j, s) PROVE RestTypes'
  BY <1>4 DEF Take, Grant
<1>5. CASE BeatStart \/ Tick \/ Stop \/ Drained \/ Timeout \/ Exit \/ UNCHANGED vars
  BY <1>5 DEF BeatStart, Tick, Stop, Drained, Timeout, Exit, vars
<1>6. ASSUME DequeueFails \/ \E j \in Jobs : LoseReply(j) PROVE RestTypes'
  BY <1>0, <1>6 DEF DequeueFails, LoseReply, Grant, Fault
<1>7. ASSUME NEW s \in Slots, NEW again \in BOOLEAN,
             Refuse(s, again) \/ Finish(s, again) \/ Track(s) \/ FinishFails(s) \/ Release(s)
      PROVE  stage[s] # "idle"
  BY <1>7 DEF Refuse, Finish, Track, FinishFails, Release
<1> QED BY <1>1, <1>2, <1>3, <1>4, <1>5, <1>6, <1>7 DEF Next, PollStep, JobStep

\* Every variable stays in its type: the semaphore never goes below zero, the poll loop
\* stays inside its rotation.
THEOREM ServerTypes == Spec => []TypeOK
<1> DEFINE I == Basic /\ TokenInv /\ PollInv /\ RestTypes
<1>1. Init => I
  <2> SUFFICES ASSUME Init PROVE I OBVIOUS
  <2>1. RestTypes BY ServerAssumption DEF Init, RestTypes
  <2> QED BY <2>1, InitToken, InitPoll
<1>2. I /\ [Next]_vars => I' BY StepBasic, StepToken, StepPoll, StepRest
<1>3. I => TypeOK
  <2> SUFFICES ASSUME I PROVE TypeOK OBVIOUS
  <2>1. sem \in Nat BY BusyFinite DEF TokenInv, TokensMatch
  <2> QED BY <2>1 DEF Basic, PollInv, PollTypes, RestTypes, TypeOK
<1> QED BY <1>1, <1>2, <1>3, PTL DEF Spec
=============================================================================
