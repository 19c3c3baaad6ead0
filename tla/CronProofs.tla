----------------------------- MODULE CronProofs -----------------------------
(***************************************************************************)
(* Theorems about Cron, for any number of instances and entries, any       *)
(* schedule whose runs lie after the time asked for, and any clocks.       *)
(***************************************************************************)
EXTENDS Cron, TLAPS

USE DEF Unset

\* The loop control only moves pc and entry, within their types.
LEMMA ContinueType ==
  ASSUME TypeOK, NEW i \in Instances, NEW s \in {"seed", "read"}, Continue(i, s)
  PROVE  /\ pc' \in [Instances -> {"down", "seed", "wait", "read", "swap", "enqueue"}]
         /\ entry' \in [Instances -> Entries]
         /\ pc'[i] \in {"wait", s}
         /\ \A k \in Instances : k # i => pc'[k] = pc[k] /\ entry'[k] = entry[k]
<1>1. entry[i] \in 1 .. N /\ N \in Nat \ {0}
  BY ScheduleAssumption DEF TypeOK, Entries
<1>2. CASE entry[i] = N
  <2>1. 1 \in Entries
    BY <1>1 DEF Entries
  <2>2. pc' = [pc EXCEPT ![i] = "wait"] /\ entry' = [entry EXCEPT ![i] = 1]
    BY <1>2 DEF Continue
  <2> QED
    BY <2>1, <2>2 DEF TypeOK
<1>3. CASE entry[i] # N
  <2>1. entry[i] + 1 \in Entries
    BY <1>1, <1>3 DEF Entries
  <2>2. pc' = [pc EXCEPT ![i] = s] /\ entry' = [entry EXCEPT ![i] = @ + 1]
    BY <1>3 DEF Continue
  <2> QED
    BY <2>1, <2>2 DEF TypeOK
<1> QED
  BY <1>2, <1>3

\* A schedule names a window later than the time it is asked about.
LEMMA ScheduleLater ==
  ASSUME TypeOK, NEW i \in Instances
  PROVE  /\ SchedNext[entry[i]][now[i]] \in Windows
         /\ SchedNext[entry[i]][now[i]] > now[i]
<1>1. entry[i] \in Entries /\ now[i] \in Time
  BY DEF TypeOK
<1> QED
  BY <1>1, ScheduleAssumption

\* Stored runs, windows and clock readings are integers; windows are not Unset.
LEMMA Integral ==
  ASSUME TypeOK
  PROVE  /\ \A e \in Entries : nextRun[e] \in Int /\ nextRun[e] >= Unset
         /\ \A w \in Windows : w \in Nat
         /\ \A i \in Instances : now[i] \in Nat /\ raw[i] \in Int
         /\ \A i \in Instances : SchedNext[entry[i]][now[i]] \in Nat
<1>1. \A w \in Windows : w \in Nat
  BY ScheduleAssumption
<1>2. \A t \in Time : t \in Nat
  BY ScheduleAssumption
<1>3. \A e \in Entries : nextRun[e] \in Windows \cup {Unset}
  BY DEF TypeOK
<1>4. \A i \in Instances : now[i] \in Time /\ raw[i] \in Windows \cup {Unset}
  BY DEF TypeOK
<1>5. \A i \in Instances : SchedNext[entry[i]][now[i]] \in Windows
  BY ScheduleLater
<1>6. Unset \in Int
  OBVIOUS
<1>7. \A x \in Windows \cup {Unset} : x \in Int /\ x >= Unset
  BY <1>1
<1> QED
  BY <1>1, <1>2, <1>3, <1>4, <1>5, <1>7

\* An instance about to swap read a run that was due, and the stored run has
\* not moved back since.
SwapReady == \A i \in Instances : pc[i] = "swap" =>
    /\ raw[i] \in Windows
    /\ raw[i] <= now[i]
    /\ raw[i] <= nextRun[entry[i]]

\* A window that was fired lies before the stored run; each run of the enqueue script
\* but the last had its reply lost.
FiredIsPast == \A e \in Entries, w \in Windows :
    /\ lost[e][w] <= fired[e][w] /\ fired[e][w] <= 1 + lost[e][w]
    /\ fired[e][w] # 0 => nextRun[e] > w

\* An instance about to enqueue is the only one to do so for its window, and
\* the reply of each enqueue it has sent was lost.
SoleClaimant == \A i \in Instances : pc[i] = "enqueue" =>
    /\ raw[i] \in Windows
    /\ raw[i] < nextRun[entry[i]]
    /\ fired[entry[i]][raw[i]] = lost[entry[i]][raw[i]]
    /\ \A k \in Instances :
          pc[k] = "enqueue" /\ entry[k] = entry[i] /\ raw[k] = raw[i] => k = i

\* An entry without a stored run has never been swapped.
UnseededUnclaimed == \A e \in Entries : nextRun[e] = Unset => claimedAt[e] = Unset

\* The inductive invariant behind the theorems.
Inv == /\ TypeOK /\ SwapReady /\ FiredIsPast /\ SoleClaimant
       /\ NoCatchUpBurst /\ UnseededUnclaimed

\* Counting one more in a table of counts.
LEMMA CountType ==
  ASSUME NEW g \in [Entries -> [Windows -> Nat]], NEW e \in Entries, NEW w \in Windows
  PROVE  [g EXCEPT ![e][w] = @ + 1] \in [Entries -> [Windows -> Nat]]
<1> DEFINE f == [g[e] EXCEPT ![w] = @ + 1]
<1>1. g[e] \in [Windows -> Nat]
  OBVIOUS
<1>2. f \in [Windows -> Nat]
  BY <1>1
<1>3. [g EXCEPT ![e][w] = @ + 1] = [g EXCEPT ![e] = f]
  OBVIOUS
<1> HIDE DEF f
<1> QED
  BY <1>2, <1>3

\* Every step stays within the types.
LEMMA TypeStep == ASSUME TypeOK, SwapReady, SoleClaimant, [Next]_vars PROVE TypeOK'
<1>1. ASSUME NEW i \in Instances, Start(i) \/ Tick(i) \/ ReadDue(i) \/ Crash(i) PROVE TypeOK'
  <2>1. CASE Start(i)
    <3>1. 1 \in Entries
      BY ScheduleAssumption DEF Entries
    <3> QED
      BY <2>1, <3>1 DEF Start, TypeOK
  <2>2. CASE Tick(i)
    BY <2>2 DEF Tick, TypeOK
  <2>3. CASE ReadDue(i)
    BY <2>3 DEF ReadDue, TypeOK
  <2>4. CASE Crash(i)
    BY <2>4 DEF Crash, TypeOK
  <2> QED
    BY <1>1, <2>1, <2>2, <2>3, <2>4
<1>2. ASSUME NEW i \in Instances,
             Seed(i) \/ SeedFails(i) \/ ReadSkip(i) \/ SwapSkip(i) \/ EnqueueFails(i)
      PROVE  TypeOK'
  <2>1. PICK s \in {"seed", "read"} : Continue(i, s)
    BY <1>2 DEF Seed, SeedFails, ReadSkip, SwapSkip, EnqueueFails
  <2>2. nextRun' \in [Entries -> Windows \cup {Unset}]
    BY <1>2, ScheduleLater DEF Seed, SeedFails, ReadSkip, SwapSkip, EnqueueFails, TypeOK
  <2>3. UNCHANGED <<now, raw, fired, lost, claimed, claimedAt>>
    BY <1>2 DEF Seed, SeedFails, ReadSkip, SwapSkip, EnqueueFails
  <2> QED
    BY <2>1, <2>2, <2>3, ContinueType DEF TypeOK
<1>3. ASSUME NEW i \in Instances, Swap(i) PROVE TypeOK'
  <2>1. raw[i] \in Windows
    BY <1>3 DEF Swap, SwapReady
  <2>2. /\ nextRun' \in [Entries -> Windows \cup {Unset}]
        /\ claimed' \in [Entries -> SUBSET Windows]
        /\ claimedAt' \in [Entries -> Time \cup {Unset}]
    BY <1>3, <2>1, ScheduleLater DEF Swap, Following, TypeOK
  <2>3. /\ pc' \in [Instances -> {"down", "seed", "wait", "read", "swap", "enqueue"}]
        /\ entry' \in [Instances -> Entries]
    <3>1. CASE pc' = [pc EXCEPT ![i] = "enqueue"] /\ entry' = entry
      BY <3>1 DEF TypeOK
    <3>2. CASE Continue(i, "read")
      BY <3>2, ContinueType
    <3> QED
      BY <1>3, <3>1, <3>2 DEF Swap
  <2> QED
    BY <1>3, <2>2, <2>3 DEF Swap, TypeOK
<1>4. ASSUME NEW i \in Instances, Enqueue(i) \/ EnqueueLost(i) PROVE TypeOK'
  <2>1. raw[i] \in Windows /\ entry[i] \in Entries
    BY <1>4 DEF Enqueue, EnqueueLost, Fire, SoleClaimant, TypeOK
  <2>2. fired' \in [Entries -> [Windows -> Nat]]
    <3>1. fired' = [fired EXCEPT ![entry[i]][raw[i]] = @ + 1]
      BY <1>4 DEF Enqueue, EnqueueLost, Fire
    <3>2. fired \in [Entries -> [Windows -> Nat]]
      BY DEF TypeOK
    <3> QED
      BY <2>1, <3>1, <3>2, CountType
  <2>3. CASE Enqueue(i)
    <3>1. UNCHANGED <<nextRun, now, raw, lost, claimed, claimedAt>> /\ Continue(i, "read")
      BY <2>3 DEF Enqueue
    <3>2. /\ pc' \in [Instances -> {"down", "seed", "wait", "read", "swap", "enqueue"}]
          /\ entry' \in [Instances -> Entries]
      BY <3>1, ContinueType
    <3> QED
      BY <2>2, <3>1, <3>2 DEF TypeOK
  <2>4. CASE EnqueueLost(i)
    <3>1. lost' \in [Entries -> [Windows -> Nat]]
      BY <2>1, <2>4, CountType DEF EnqueueLost, TypeOK
    <3> QED
      BY <2>2, <2>4, <3>1 DEF EnqueueLost, TypeOK
  <2> QED
    BY <1>4, <2>3, <2>4
<1>5. ASSUME UNCHANGED vars PROVE TypeOK'
  BY <1>5 DEF vars, TypeOK
<1> QED
  BY <1>1, <1>2, <1>3, <1>4, <1>5 DEF Next, Step

\* The stored run of an entry never moves back.
LEMMA NextRunStep ==
  ASSUME Inv, [Next]_vars, NEW e \in Entries
  PROVE  nextRun'[e] >= nextRun[e]
<1>0. TypeOK /\ SwapReady /\ nextRun[e] \in Int /\ nextRun[e] >= -1
  BY Integral DEF Inv
<1>1. ASSUME NEW i \in Instances, Seed(i) PROVE nextRun'[e] >= nextRun[e]
  <2>1. SchedNext[entry[i]][now[i]] \in Nat
    BY <1>0, Integral
  <2>2. CASE nextRun' = nextRun
    BY <1>0, <2>2
  <2>3. CASE /\ nextRun[entry[i]] = Unset
             /\ nextRun' = [nextRun EXCEPT ![entry[i]] = SchedNext[entry[i]][now[i]]]
    BY <1>0, <2>1, <2>3 DEF TypeOK
  <2> QED
    BY <1>1, <2>2, <2>3 DEF Seed, SeedIfUnset
<1>2. ASSUME NEW i \in Instances, Swap(i) PROVE nextRun'[e] >= nextRun[e]
  <2>1. /\ nextRun[entry[i]] = raw[i] /\ raw[i] <= now[i]
        /\ nextRun' = [nextRun EXCEPT ![entry[i]] = SchedNext[entry[i]][now[i]]]
    BY <1>0, <1>2 DEF Swap, SwapReady, Matches, Following
  <2>2. /\ SchedNext[entry[i]][now[i]] \in Nat /\ SchedNext[entry[i]][now[i]] > now[i]
        /\ now[i] \in Nat /\ raw[i] \in Int
    BY <1>0, ScheduleLater, Integral
  <2>3. SchedNext[entry[i]][now[i]] >= raw[i]
    BY <2>1, <2>2
  <2> QED
    BY <1>0, <2>1, <2>3 DEF TypeOK
<1>3. ASSUME UNCHANGED nextRun PROVE nextRun'[e] >= nextRun[e]
  BY <1>0, <1>3
<1> QED
  <2>1. \/ UNCHANGED nextRun
        \/ \E i \in Instances : Seed(i) \/ Swap(i)
    BY DEF Next, Step, Start, SeedFails, Tick, ReadSkip, ReadDue, SwapSkip, Enqueue,
           EnqueueLost, Fire, EnqueueFails, Crash, vars
  <2> QED
    BY <1>1, <1>2, <1>3, <2>1

\* The step of one instance, seen by the others.
LEMMA OtherUnmoved ==
  ASSUME TypeOK, NEW i \in Instances, Step(i), NEW k \in Instances, k # i
  PROVE  UNCHANGED <<pc[k], entry[k], now[k], raw[k]>>
<1>1. UNCHANGED <<raw[k], now[k]>>
  BY DEF Step, Start, Seed, SeedFails, Tick, ReadSkip, ReadDue, Swap, SwapSkip, Enqueue,
         EnqueueLost, Fire, EnqueueFails, Crash, TypeOK
<1>2. CASE \E s \in {"seed", "read"} : Continue(i, s)
  BY <1>1, <1>2, ContinueType
<1>3. CASE ~\E s \in {"seed", "read"} : Continue(i, s)
  BY <1>1, <1>3 DEF Step, Start, Seed, SeedFails, Tick, ReadSkip, ReadDue, Swap, SwapSkip,
                    Enqueue, EnqueueLost, Fire, EnqueueFails, Crash, TypeOK
<1> QED
  BY <1>2, <1>3

\* Instances other than the one that moves keep what they read; the one that
\* moves reads a due run, or gives up its claim.
LEMMA SwapReadyStep == ASSUME Inv, [Next]_vars PROVE SwapReady'
<1> SUFFICES ASSUME NEW k \in Instances, pc'[k] = "swap"
             PROVE  /\ raw'[k] \in Windows /\ raw'[k] <= now'[k]
                    /\ raw'[k] <= nextRun'[entry'[k]]
  BY DEF SwapReady
<1>0. TypeOK /\ SwapReady
  BY DEF Inv
<1>1. ASSUME pc[k] = "swap", UNCHANGED <<raw[k], now[k], entry[k]>>
      PROVE  raw'[k] \in Windows /\ raw'[k] <= now'[k] /\ raw'[k] <= nextRun'[entry'[k]]
  <2>1. raw[k] \in Windows /\ raw[k] <= now[k] /\ raw[k] <= nextRun[entry[k]]
    BY <1>0, <1>1 DEF SwapReady
  <2>2. entry[k] \in Entries /\ nextRun'[entry[k]] >= nextRun[entry[k]]
    BY <1>0, NextRunStep DEF TypeOK
  <2>3. nextRun[entry[k]] \in Int /\ nextRun'[entry[k]] \in Int /\ raw[k] \in Int
    <3>1. TypeOK'
      BY TypeStep DEF Inv
    <3>2. \A x \in Windows \cup {Unset} : x \in Int
      BY ScheduleAssumption
    <3> QED
      BY <1>0, <2>2, <3>1, <3>2 DEF TypeOK
  <2> QED
    BY <1>1, <2>1, <2>2, <2>3
<1>2. ASSUME NEW i \in Instances, ReadDue(i), i = k
      PROVE  raw'[k] \in Windows /\ raw'[k] <= now'[k] /\ raw'[k] <= nextRun'[entry'[k]]
  <2>1. /\ raw'[k] = nextRun[entry[k]] /\ now[k] >= nextRun[entry[k]]
        /\ nextRun[entry[k]] # Unset /\ UNCHANGED <<now, entry, nextRun>>
    BY <1>0, <1>2 DEF ReadDue, TypeOK
  <2>2. /\ nextRun[entry[k]] \in Int /\ now[k] \in Nat
        /\ nextRun[entry[k]] \in Windows \cup {Unset}
    BY <1>0, Integral DEF TypeOK
  <2> QED
    BY <2>1, <2>2
<1>3. ASSUME NEW i \in Instances, Step(i), i # k
      PROVE  pc[k] = "swap" /\ UNCHANGED <<raw[k], now[k], entry[k]>>
  BY <1>0, <1>3, OtherUnmoved
<1>4. ASSUME Step(k) PROVE ReadDue(k)
  <2>1. CASE \E s \in {"seed", "read"} : Continue(k, s)
    BY <1>0, <2>1, ContinueType
  <2>2. CASE ~\E s \in {"seed", "read"} : Continue(k, s)
    BY <1>0, <1>4, <2>2 DEF Step, Start, Seed, SeedFails, Tick, ReadSkip, ReadDue, Swap,
                            SwapSkip, Enqueue, EnqueueLost, Fire, EnqueueFails, Crash, TypeOK
  <2> QED
    BY <2>1, <2>2
<1>5. CASE UNCHANGED vars
  BY <1>1, <1>5 DEF vars
<1> QED
  BY <1>1, <1>2, <1>3, <1>4, <1>5 DEF Next

\* Whoever is about to enqueue after a step was so before it, or has just
\* swapped; it keeps the entry and the run it read.
LEMMA Enqueuer ==
  ASSUME Inv, [Next]_vars, NEW k \in Instances, pc'[k] = "enqueue"
  PROVE  UNCHANGED <<entry[k], raw[k]>> /\ (pc[k] = "enqueue" \/ Swap(k))
<1>0. TypeOK
  BY DEF Inv
<1>1. ASSUME NEW i \in Instances, Step(i), i # k
      PROVE  UNCHANGED <<entry[k], raw[k]>> /\ pc[k] = "enqueue"
  BY <1>0, <1>1, OtherUnmoved
<1>2. ASSUME Step(k)
      PROVE  UNCHANGED <<entry[k], raw[k]>> /\ (pc[k] = "enqueue" \/ Swap(k))
  <2>1. CASE \E s \in {"seed", "read"} : Continue(k, s)
    BY <1>0, <2>1, ContinueType
  <2>2. CASE ~\E s \in {"seed", "read"} : Continue(k, s)
    BY <1>0, <1>2, <2>2 DEF Step, Start, Seed, SeedFails, Tick, ReadSkip, ReadDue, Swap,
                            SwapSkip, Enqueue, EnqueueLost, Fire, EnqueueFails, Crash, TypeOK
  <2> QED
    BY <2>1, <2>2
<1>3. CASE UNCHANGED vars
  BY <1>3 DEF vars
<1> QED
  BY <1>1, <1>2, <1>3 DEF Next

\* The counts of a window change only when an instance runs the enqueue script for it.
LEMMA FiredChange ==
  ASSUME Inv, [Next]_vars, NEW e \in Entries, NEW w \in Windows,
         fired'[e][w] # fired[e][w] \/ lost'[e][w] # lost[e][w]
  PROVE  /\ fired'[e][w] = fired[e][w] + 1
         /\ \E i \in Instances : /\ entry[i] = e /\ raw[i] = w
                                 /\ \/ Enqueue(i) /\ lost'[e][w] = lost[e][w]
                                    \/ EnqueueLost(i) /\ lost'[e][w] = lost[e][w] + 1
<1>1. PICK i \in Instances : Enqueue(i) \/ EnqueueLost(i)
  BY DEF Next, Step, Start, Seed, SeedFails, Tick, ReadSkip, ReadDue, Swap, SwapSkip,
         EnqueueFails, Crash, vars
<1>2. /\ fired' = [fired EXCEPT ![entry[i]][raw[i]] = @ + 1]
      /\ \/ Enqueue(i) /\ lost' = lost
         \/ EnqueueLost(i) /\ lost' = [lost EXCEPT ![entry[i]][raw[i]] = @ + 1]
  BY <1>1 DEF Enqueue, EnqueueLost, Fire
<1>3. /\ fired \in [Entries -> [Windows -> Nat]] /\ lost \in [Entries -> [Windows -> Nat]]
      /\ entry[i] \in Entries /\ raw[i] \in Windows
  BY <1>1 DEF Inv, TypeOK, SoleClaimant, Enqueue, EnqueueLost, Fire
<1>4. entry[i] = e /\ raw[i] = w
  BY <1>2, <1>3
<1> QED
  BY <1>2, <1>3, <1>4

\* A window is fired by one instance, by then the stored run has passed it.
LEMMA FiredStep == ASSUME Inv, [Next]_vars PROVE FiredIsPast'
<1> SUFFICES ASSUME NEW e \in Entries, NEW w \in Windows
             PROVE  /\ lost'[e][w] <= fired'[e][w] /\ fired'[e][w] <= 1 + lost'[e][w]
                    /\ fired'[e][w] # 0 => nextRun'[e] > w
  BY DEF FiredIsPast
<1>1. /\ nextRun[e] \in Int /\ nextRun'[e] \in Int /\ w \in Nat /\ nextRun'[e] >= nextRun[e]
      /\ fired[e][w] \in Nat /\ lost[e][w] \in Nat
  <2>1. TypeOK /\ TypeOK'
    BY TypeStep DEF Inv
  <2>2. \A x \in Windows \cup {Unset} : x \in Int
    BY ScheduleAssumption
  <2>3. nextRun[e] \in Windows \cup {Unset} /\ nextRun'[e] \in Windows \cup {Unset}
    BY <2>1 DEF TypeOK
  <2>4. w \in Nat
    BY <2>1, Integral
  <2>5. fired[e][w] \in Nat /\ lost[e][w] \in Nat
    BY <2>1 DEF TypeOK
  <2> QED
    BY <2>2, <2>3, <2>4, <2>5, NextRunStep
<1>2. CASE fired'[e][w] = fired[e][w] /\ lost'[e][w] = lost[e][w]
  BY <1>1, <1>2 DEF Inv, FiredIsPast
<1>3. CASE fired'[e][w] # fired[e][w] \/ lost'[e][w] # lost[e][w]
  <2>1. PICK i \in Instances : /\ entry[i] = e /\ raw[i] = w
                               /\ \/ Enqueue(i) /\ lost'[e][w] = lost[e][w]
                                  \/ EnqueueLost(i) /\ lost'[e][w] = lost[e][w] + 1
    BY <1>3, FiredChange
  <2>2. w < nextRun[e] /\ fired[e][w] = lost[e][w]
    BY <2>1 DEF Inv, SoleClaimant, Enqueue, EnqueueLost, Fire
  <2>3. fired'[e][w] = fired[e][w] + 1
    BY <1>3, FiredChange
  <2> QED
    BY <1>1, <2>1, <2>2, <2>3
<1> QED
  BY <1>2, <1>3

\* What a successful swap leaves: the stored run is later than the one read,
\* which was the stored one and has not been fired.
LEMMA SwapMoves ==
  ASSUME Inv, NEW i \in Instances, Swap(i)
  PROVE  /\ raw[i] \in Windows /\ raw[i] = nextRun[entry[i]]
         /\ raw[i] < nextRun'[entry[i]]
         /\ fired[entry[i]][raw[i]] = lost[entry[i]][raw[i]]
         /\ UNCHANGED <<fired, lost>>
<1>1. /\ nextRun[entry[i]] = raw[i] /\ raw[i] <= now[i] /\ raw[i] \in Windows
      /\ nextRun' = [nextRun EXCEPT ![entry[i]] = SchedNext[entry[i]][now[i]]]
      /\ UNCHANGED <<fired, lost>>
  BY DEF Inv, Swap, SwapReady, Matches, Following
<1>2. /\ SchedNext[entry[i]][now[i]] \in Nat /\ SchedNext[entry[i]][now[i]] > now[i]
      /\ now[i] \in Nat /\ raw[i] \in Int
  BY ScheduleLater, Integral DEF Inv
<1>3. entry[i] \in Entries /\ nextRun'[entry[i]] = SchedNext[entry[i]][now[i]]
  BY <1>1 DEF Inv, TypeOK
<1>4. raw[i] < nextRun'[entry[i]]
  BY <1>1, <1>2, <1>3
<1>5. /\ fired[entry[i]][raw[i]] # 0 => nextRun[entry[i]] > raw[i]
      /\ lost[entry[i]][raw[i]] <= fired[entry[i]][raw[i]]
  BY <1>1, <1>3 DEF Inv, FiredIsPast
<1>6. fired[entry[i]][raw[i]] \in Nat /\ lost[entry[i]][raw[i]] \in Nat
  BY <1>1, <1>3 DEF Inv, TypeOK
<1> QED
  BY <1>1, <1>2, <1>4, <1>5, <1>6

\* Two instances never hold the same window: the second to swap it would find
\* a later run stored.
LEMMA ClaimantStep == ASSUME Inv, [Next]_vars PROVE SoleClaimant'
<1> SUFFICES ASSUME NEW k \in Instances, pc'[k] = "enqueue"
             PROVE  /\ raw'[k] \in Windows /\ raw'[k] < nextRun'[entry'[k]]
                    /\ fired'[entry'[k]][raw'[k]] = lost'[entry'[k]][raw'[k]]
                    /\ \A m \in Instances :
                          pc'[m] = "enqueue" /\ entry'[m] = entry'[k] /\ raw'[m] = raw'[k]
                             => m = k
  BY DEF SoleClaimant
<1>0. TypeOK /\ SoleClaimant /\ entry[k] \in Entries
  BY DEF Inv, TypeOK
<1>1. UNCHANGED <<entry[k], raw[k]>> /\ (pc[k] = "enqueue" \/ Swap(k))
  BY Enqueuer
<1>2. raw[k] \in Windows /\ fired[entry[k]][raw[k]] = lost[entry[k]][raw[k]]
  BY <1>0, <1>1, SwapMoves DEF SoleClaimant
<1>3. raw[k] < nextRun'[entry[k]]
  <2>1. CASE Swap(k)
    BY <2>1, SwapMoves
  <2>2. CASE pc[k] = "enqueue"
    <3>1. raw[k] < nextRun[entry[k]] /\ nextRun'[entry[k]] >= nextRun[entry[k]]
      BY <1>0, <2>2, NextRunStep DEF SoleClaimant
    <3>2. TypeOK'
      BY TypeStep DEF Inv
    <3>3. \A x \in Windows \cup {Unset} : x \in Int
      BY ScheduleAssumption
    <3>4. nextRun[entry[k]] \in Int /\ nextRun'[entry[k]] \in Int /\ raw[k] \in Int
      BY <1>0, <3>2, <3>3 DEF TypeOK
    <3> QED
      BY <3>1, <3>4
  <2> QED
    BY <1>1, <2>1, <2>2
<1>4. ASSUME NEW m \in Instances, pc'[m] = "enqueue", entry'[m] = entry'[k],
             raw'[m] = raw'[k], m # k
      PROVE  FALSE
  <2>1. /\ UNCHANGED <<entry[m], raw[m]>> /\ (pc[m] = "enqueue" \/ Swap(m))
        /\ entry[m] = entry[k] /\ raw[m] = raw[k]
    BY <1>1, <1>4, Enqueuer
  <2>2. CASE pc[m] = "enqueue" /\ pc[k] = "enqueue"
    BY <1>0, <1>4, <2>1, <2>2 DEF SoleClaimant
  <2>3. raw[k] \in Int /\ nextRun[entry[k]] \in Int
    BY <1>0, Integral
  <2>4. CASE pc[m] = "enqueue" /\ Swap(k)
    <3>1. raw[k] < nextRun[entry[k]] /\ raw[k] = nextRun[entry[k]]
      BY <1>0, <2>1, <2>4, SwapMoves DEF SoleClaimant
    <3> QED
      BY <2>3, <3>1
  <2>5. CASE Swap(m) /\ pc[k] = "enqueue"
    <3>1. raw[k] < nextRun[entry[k]] /\ raw[k] = nextRun[entry[k]]
      BY <1>0, <2>1, <2>5, SwapMoves DEF SoleClaimant
    <3> QED
      BY <2>3, <3>1
  <2>6. CASE Swap(m) /\ Swap(k)
    <3>1. pc[k] = "swap" /\ pc'[k] = "enqueue"
      BY <2>6 DEF Swap
    <3>2. Step(m)
      BY <2>6 DEF Step
    <3> QED
      BY <1>0, <1>4, <3>1, <3>2, OtherUnmoved
  <2> QED
    BY <1>1, <2>1, <2>2, <2>4, <2>5, <2>6
<1>5. fired'[entry[k]][raw[k]] = lost'[entry[k]][raw[k]]
  <2> DEFINE e == entry[k] w == raw[k]
  <2>1. CASE fired'[e][w] = fired[e][w] /\ lost'[e][w] = lost[e][w]
    BY <1>2, <2>1
  <2>2. CASE fired'[e][w] # fired[e][w] \/ lost'[e][w] # lost[e][w]
    <3>1. /\ fired'[e][w] = fired[e][w] + 1
          /\ \E i \in Instances : /\ entry[i] = e /\ raw[i] = w
                                  /\ \/ Enqueue(i) /\ lost'[e][w] = lost[e][w]
                                     \/ EnqueueLost(i) /\ lost'[e][w] = lost[e][w] + 1
      BY <1>0, <1>2, <2>2, FiredChange
    <3>2. PICK i \in Instances : /\ entry[i] = e /\ raw[i] = w
                                 /\ \/ Enqueue(i) /\ lost'[e][w] = lost[e][w]
                                    \/ EnqueueLost(i) /\ lost'[e][w] = lost[e][w] + 1
      BY <3>1
    <3>3. CASE EnqueueLost(i) /\ lost'[e][w] = lost[e][w] + 1
      BY <1>2, <3>1, <3>3
    <3>4. CASE Enqueue(i)
      <4>1. pc[i] = "enqueue" /\ Continue(i, "read") /\ Step(i)
        BY <3>4 DEF Enqueue, Fire, Step
      <4>2. i # k
        BY <1>0, <4>1, ContinueType
      <4>3. pc[k] = "enqueue"
        BY <1>0, <4>1, <4>2, OtherUnmoved
      <4> QED
        BY <1>0, <3>2, <4>1, <4>2, <4>3 DEF SoleClaimant
    <3> QED
      BY <3>2, <3>3, <3>4
  <2> QED
    BY <2>1, <2>2
<1> QED
  BY <1>1, <1>2, <1>3, <1>4, <1>5

\* After a swap the stored run lies after the clock reading it was made with.
LEMMA NoBurstStep == ASSUME Inv, [Next]_vars PROVE NoCatchUpBurst'
<1> SUFFICES ASSUME NEW e \in Entries, nextRun'[e] # Unset
             PROVE  nextRun'[e] > claimedAt'[e]
  BY DEF NoCatchUpBurst
<1>0. TypeOK /\ TypeOK' /\ NoCatchUpBurst
  BY TypeStep DEF Inv
<1>1. \A x \in Windows \cup {Unset} : x \in Int /\ x >= Unset
  BY ScheduleAssumption
<1>2. \A x \in Time \cup {Unset} : x \in Int /\ x >= Unset
  BY ScheduleAssumption
<1>3. /\ nextRun[e] \in Int /\ nextRun'[e] \in Int /\ nextRun'[e] >= nextRun[e]
      /\ nextRun[e] >= -1 /\ nextRun'[e] >= -1 /\ claimedAt[e] \in Int
  <2>1. nextRun[e] \in Windows \cup {Unset} /\ nextRun'[e] \in Windows \cup {Unset}
    BY <1>0 DEF TypeOK
  <2>2. claimedAt[e] \in Time \cup {Unset}
    BY <1>0 DEF TypeOK
  <2> QED
    BY <1>1, <1>2, <2>1, <2>2, NextRunStep
<1>4. CASE claimedAt'[e] = claimedAt[e] /\ nextRun[e] # Unset
  BY <1>0, <1>3, <1>4 DEF NoCatchUpBurst
<1>5. CASE claimedAt'[e] = claimedAt[e] /\ nextRun[e] = Unset
  <2>1. claimedAt[e] = Unset
    BY <1>5 DEF Inv, UnseededUnclaimed
  <2> QED
    BY <1>3, <1>5, <2>1
<1>6. CASE claimedAt'[e] # claimedAt[e]
  <2>1. PICK i \in Instances : Swap(i)
    BY <1>6 DEF Next, Step, Start, Seed, SeedFails, Tick, ReadSkip, ReadDue, SwapSkip,
                Enqueue, EnqueueLost, Fire, EnqueueFails, Crash, vars
  <2>2. /\ claimedAt' = [claimedAt EXCEPT ![entry[i]] = now[i]]
        /\ nextRun' = [nextRun EXCEPT ![entry[i]] = SchedNext[entry[i]][now[i]]]
    BY <2>1 DEF Swap, Following
  <2>3. entry[i] = e
    BY <1>0, <1>6, <2>2 DEF TypeOK
  <2>4. claimedAt'[e] = now[i] /\ nextRun'[e] = SchedNext[entry[i]][now[i]]
    BY <1>0, <2>2, <2>3 DEF TypeOK
  <2> QED
    BY <1>0, <2>4, ScheduleLater
<1> QED
  BY <1>4, <1>5, <1>6

\* An entry nobody has seeded has not been swapped either.
LEMMA ClaimedStep == ASSUME Inv, [Next]_vars PROVE UnseededUnclaimed'
<1> SUFFICES ASSUME NEW e \in Entries, nextRun'[e] = Unset
             PROVE  claimedAt'[e] = Unset
  BY DEF UnseededUnclaimed
<1>0. TypeOK /\ nextRun[e] \in Int /\ nextRun[e] >= -1 /\ nextRun'[e] >= nextRun[e]
  BY Integral, NextRunStep DEF Inv
<1>1. claimedAt[e] = Unset
  BY <1>0 DEF Inv, UnseededUnclaimed
<1> SUFFICES ASSUME claimedAt'[e] # claimedAt[e] PROVE FALSE
  BY <1>1
<1>2. PICK i \in Instances : Swap(i)
  BY DEF Next, Step, Start, Seed, SeedFails, Tick, ReadSkip, ReadDue, SwapSkip,
         Enqueue, EnqueueLost, Fire, EnqueueFails, Crash, vars
<1>3. entry[i] = e
  BY <1>0, <1>2 DEF Swap, TypeOK
<1>4. raw[i] \in Windows /\ raw[i] = nextRun[e]
  BY <1>2, <1>3, SwapMoves
<1> QED
  BY <1>0, <1>4, Integral

\* The initial states satisfy the invariant.
LEMMA InitInv == Init => Inv
<1> SUFFICES ASSUME Init PROVE Inv
  OBVIOUS
<1>1. 1 \in Entries
  BY ScheduleAssumption DEF Entries
<1>2. TypeOK
  BY <1>1 DEF Init, TypeOK
<1>3. SwapReady /\ SoleClaimant /\ FiredIsPast /\ NoCatchUpBurst /\ UnseededUnclaimed
  BY DEF Init, SwapReady, SoleClaimant, FiredIsPast, NoCatchUpBurst, UnseededUnclaimed
<1> QED
  BY <1>2, <1>3 DEF Inv

\* The invariant is inductive.
LEMMA NextInv == Inv /\ [Next]_vars => Inv'
<1> SUFFICES ASSUME Inv, [Next]_vars PROVE Inv'
  OBVIOUS
<1>1. TypeOK'
  BY TypeStep DEF Inv
<1> QED
  BY <1>1, SwapReadyStep, FiredStep, ClaimantStep, NoBurstStep, ClaimedStep DEF Inv

\* The invariant holds in every reachable state.
LEMMA InvHolds == Spec => []Inv
BY InitInv, NextInv, PTL DEF Spec

\* Every value the scheduler stores, reads and counts stays within its type.
THEOREM CronTypes == Spec => []TypeOK
<1>1. Inv => TypeOK
  BY DEF Inv
<1> QED
  BY <1>1, InvHolds, PTL

\* However many instances run the scheduler, whatever their clocks show and
\* whenever they crash, a window's job is enqueued more than once only by the
\* resends of one enqueue whose reply was lost.
THEOREM AtMostOnce == Spec => []AtMostOncePerWindow
<1>1. Inv => AtMostOncePerWindow
  BY DEF Inv, FiredIsPast, AtMostOncePerWindow
<1> QED
  BY <1>1, InvHolds, PTL

\* The run stored by a swap always lies after the clock reading of the tick
\* that made it, so missed windows are skipped, not worked off.
THEOREM NoBurst == Spec => []NoCatchUpBurst
<1>1. Inv => NoCatchUpBurst
  BY DEF Inv
<1> QED
  BY <1>1, InvHolds, PTL

\* No step of any instance moves the stored run of an entry back.
THEOREM RunsAdvance == Spec => NextRunAdvances
<1>1. Inv /\ [Next]_vars => [\A e \in Entries : nextRun'[e] >= nextRun[e]]_vars
  BY NextRunStep
<1> QED
  BY <1>1, InvHolds, PTL DEF Spec, NextRunAdvances
=============================================================================
