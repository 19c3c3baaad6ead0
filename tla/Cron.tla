-------------------------------- MODULE Cron --------------------------------
(***************************************************************************)
(* The periodic scheduler of internal/scheduler/cron.go, run by several    *)
(* server instances over one Redis hash, winter:cron.  A tick reads the    *)
(* wall clock once, then visits the entries in order; for each it reads    *)
(* the stored next run, and if that has come compares-and-swaps it to the  *)
(* following run and enqueues the job of the window it replaced.  Each     *)
(* Redis call is a step of its own, so instances interleave between the    *)
(* read, the swap and the enqueue.  A call may fail, and a reply may be    *)
(* lost after the script ran, in which case go-redis sends it again.       *)
(*                                                                         *)
(* The instances' clocks are not related: every tick may read any time.    *)
(***************************************************************************)
EXTENDS Integers

CONSTANTS
    Instances,   \* server processes that run the scheduler
    N,           \* number of entries; an entry is its index
    Time,        \* readings of a wall clock
    Windows,     \* instants the schedules name
    SchedNext,   \* sched.Next: SchedNext[e][t] is the first run of e after t
    MaxResends   \* how often go-redis sends a call again (MaxRetries)

Entries == 1 .. N

ASSUME ScheduleAssumption ==
    /\ N \in Nat \ {0}
    /\ Time \subseteq Nat
    /\ Windows \subseteq Nat
    /\ SchedNext \in [Entries -> [Time -> Windows]]
    /\ \A e \in Entries, t \in Time : SchedNext[e][t] > t
    /\ MaxResends \in Nat

VARIABLES
    nextRun,    \* winter:cron, field per entry; Unset when it does not exist
    pc,         \* what the instance does next
    entry,      \* the entry its loop has reached
    now,        \* the clock reading of its current tick (or of its seeding)
    raw,        \* the next run it read for the current entry
    fired,      \* how often the enqueue script ran for the job of each window
    lost,       \* auxiliary: how many of its replies were lost and the call sent again
    claimed,    \* auxiliary: the windows some instance swapped out
    claimedAt   \* auxiliary: the clock reading of the latest swap

vars == <<nextRun, pc, entry, now, raw, fired, lost, claimed, claimedAt>>

Unset == -1

TypeOK ==
    /\ nextRun \in [Entries -> Windows \cup {Unset}]
    /\ pc \in [Instances -> {"down", "seed", "wait", "read", "swap", "enqueue"}]
    /\ entry \in [Instances -> Entries]
    /\ now \in [Instances -> Time]
    /\ raw \in [Instances -> Windows \cup {Unset}]
    /\ fired \in [Entries -> [Windows -> Nat]]
    /\ lost \in [Entries -> [Windows -> Nat]]
    /\ claimed \in [Entries -> SUBSET Windows]
    /\ claimedAt \in [Entries -> Time \cup {Unset}]

Init ==
    /\ nextRun = [e \in Entries |-> Unset]
    /\ pc = [i \in Instances |-> "down"]
    /\ entry = [i \in Instances |-> 1]
    /\ now \in [Instances -> Time]
    /\ raw = [i \in Instances |-> Unset]
    /\ fired = [e \in Entries |-> [w \in Windows |-> 0]]
    /\ lost = [e \in Entries |-> [w \in Windows |-> 0]]
    /\ claimed = [e \in Entries |-> {}]
    /\ claimedAt = [e \in Entries |-> Unset]

(***************************************************************************)
(* Plausible mistakes, used only in place of the definitions they are      *)
(* paired with in PROJECT.json.                                            *)
(***************************************************************************)
SeedAlways(e) == TRUE                               \* HSET instead of HSETNX
SwapAlways(i) == TRUE                               \* HSET instead of compare-and-swap
AfterRaw(i) ==                                      \* the run after nextRun, not after now
    IF raw[i] \in Time THEN SchedNext[entry[i]][raw[i]] ELSE SchedNext[entry[i]][now[i]]

ContinuePast(i, step) ==                            \* one entry too many
    IF entry[i] > N
    THEN /\ pc' = [pc EXCEPT ![i] = "wait"]
         /\ entry' = [entry EXCEPT ![i] = 1]
    ELSE /\ pc' = [pc EXCEPT ![i] = step]
         /\ entry' = [entry EXCEPT ![i] = @ + 1]

(***************************************************************************)
(* Control: the loop over the entries.                                     *)
(***************************************************************************)
\* "continue": the next entry, or the end of this pass
Continue(i, step) ==
    IF entry[i] = N
    THEN /\ pc' = [pc EXCEPT ![i] = "wait"]
         /\ entry' = [entry EXCEPT ![i] = 1]
    ELSE /\ pc' = [pc EXCEPT ![i] = step]
         /\ entry' = [entry EXCEPT ![i] = @ + 1]

\* The server starts; seedNextRuns reads the clock.
Start(i) == \E t \in Time :
    /\ pc[i] = "down"
    /\ pc' = [pc EXCEPT ![i] = "seed"]
    /\ entry' = [entry EXCEPT ![i] = 1]
    /\ now' = [now EXCEPT ![i] = t]
    /\ UNCHANGED <<nextRun, raw, fired, lost, claimed, claimedAt>>

\* HSETNX writes only a field that does not exist
SeedIfUnset(e) == nextRun[e] = Unset

\* seedNextRuns, one entry; an error is logged and changes nothing
Seed(i) == LET e == entry[i] IN
    /\ pc[i] = "seed"
    /\ nextRun' = IF SeedIfUnset(e)
                  THEN [nextRun EXCEPT ![e] = SchedNext[e][now[i]]] ELSE nextRun
    /\ Continue(i, "seed")
    /\ UNCHANGED <<now, raw, fired, lost, claimed, claimedAt>>

SeedFails(i) ==
    /\ pc[i] = "seed"
    /\ Continue(i, "seed")
    /\ UNCHANGED <<nextRun, now, raw, fired, lost, claimed, claimedAt>>

\* The ticker fires: tick reads the clock.
Tick(i) == \E t \in Time :
    /\ pc[i] = "wait"
    /\ pc' = [pc EXCEPT ![i] = "read"]
    /\ now' = [now EXCEPT ![i] = t]
    /\ UNCHANGED <<nextRun, entry, raw, fired, lost, claimed, claimedAt>>

\* HGET: no such field, an error, or a run that is not due: continue
ReadSkip(i) ==
    /\ pc[i] = "read"
    /\ Continue(i, "read")
    /\ UNCHANGED <<nextRun, now, raw, fired, lost, claimed, claimedAt>>

\* HGET: the next run is due
ReadDue(i) == LET e == entry[i] IN
    /\ pc[i] = "read"
    /\ nextRun[e] # Unset
    /\ now[i] >= nextRun[e]
    /\ raw' = [raw EXCEPT ![i] = nextRun[e]]
    /\ pc' = [pc EXCEPT ![i] = "swap"]
    /\ UNCHANGED <<nextRun, entry, now, fired, lost, claimed, claimedAt>>

\* compareAndSwapScript: current == expected
Matches(i) == nextRun[entry[i]] = raw[i]

\* sched.Next(now)
Following(i) == SchedNext[entry[i]][now[i]]

\* The swap succeeds, and the instance learns it, or the reply is lost: the
\* client then sends the script again, which finds the new value and says no.
Swap(i) == LET e == entry[i] IN
    /\ pc[i] = "swap"
    /\ Matches(i)
    /\ nextRun' = [nextRun EXCEPT ![e] = Following(i)]
    /\ claimed' = [claimed EXCEPT ![e] = @ \cup {raw[i]}]
    /\ claimedAt' = [claimedAt EXCEPT ![e] = now[i]]
    /\ \/ pc' = [pc EXCEPT ![i] = "enqueue"] /\ UNCHANGED entry
       \/ Continue(i, "read")
    /\ UNCHANGED <<now, raw, fired, lost>>

\* Another instance was faster, or the call failed.
SwapSkip(i) ==
    /\ pc[i] = "swap"
    /\ Continue(i, "read")
    /\ UNCHANGED <<nextRun, now, raw, fired, lost, claimed, claimedAt>>

\* The enqueue script runs for the job of window raw, id cron:<name>:<raw>.
Fire(i) ==
    /\ pc[i] = "enqueue"
    /\ fired' = [fired EXCEPT ![entry[i]][raw[i]] = @ + 1]

\* The instance learns of it, or has no resend left and logs the error.
Enqueue(i) ==
    /\ Fire(i)
    /\ Continue(i, "read")
    /\ UNCHANGED <<nextRun, now, raw, lost, claimed, claimedAt>>

\* The reply is lost: the client sends the same call again.
EnqueueLost(i) ==
    /\ Fire(i)
    /\ lost[entry[i]][raw[i]] < MaxResends
    /\ lost' = [lost EXCEPT ![entry[i]][raw[i]] = @ + 1]
    /\ UNCHANGED <<nextRun, pc, entry, now, raw, claimed, claimedAt>>

\* The enqueue fails without running: the error is logged, the loop continues.
EnqueueFails(i) ==
    /\ pc[i] = "enqueue"
    /\ Continue(i, "read")
    /\ UNCHANGED <<nextRun, now, raw, fired, lost, claimed, claimedAt>>

\* The process crashes or is stopped between any two calls.
Crash(i) ==
    /\ pc[i] # "down"
    /\ pc' = [pc EXCEPT ![i] = "down"]
    /\ UNCHANGED <<nextRun, entry, now, raw, fired, lost, claimed, claimedAt>>

Step(i) ==
    \/ Start(i) \/ Seed(i) \/ SeedFails(i) \/ Tick(i) \/ ReadSkip(i) \/ ReadDue(i)
    \/ Swap(i) \/ SwapSkip(i) \/ Enqueue(i) \/ EnqueueLost(i) \/ EnqueueFails(i) \/ Crash(i)

Next == \E i \in Instances : Step(i)

Spec == Init /\ [][Next]_vars

-----------------------------------------------------------------------------
\* However the instances interleave, crash, restart and however their clocks
\* disagree, the job of a window is enqueued at most once, but for the resends
\* go-redis makes when the reply of that very enqueue is lost: no two instances,
\* and no two ticks of one, enqueue the same window.
AtMostOncePerWindow == \A e \in Entries, w \in Windows :
    fired[e][w] <= 1 + lost[e][w]

\* A swap always moves the stored run past the clock reading it was made with:
\* an instance that was down does not work off the windows it missed.
NoCatchUpBurst == \A e \in Entries : nextRun[e] # Unset => nextRun[e] > claimedAt[e]

\* The stored next run never moves back, in particular not at a restart.
NextRunAdvances == [][\A e \in Entries : nextRun'[e] >= nextRun[e]]_vars

\* The package comment promises "exactly-once enqueue per scheduled window":
\* a window that was swapped out is enqueued, or about to be.
ClaimedIsEnqueued == \A e \in Entries : \A w \in claimed[e] :
    \/ fired[e][w] >= 1
    \/ \E i \in Instances : pc[i] = "enqueue" /\ entry[i] = e /\ raw[i] = w

=============================================================================
