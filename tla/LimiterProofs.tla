--------------------------- MODULE LimiterProofs ---------------------------
(***************************************************************************)
(* The rate limiter admits no more than its bucket allows and its retry    *)
(* times are exact, for any bucket size and interval, any number of jobs   *)
(* and servers, and any clocks that differ by at most an interval:         *)
(* RateBound, RetryExact and TypeOK.                                       *)
(***************************************************************************)
EXTENDS Limiter, TLAPS

\* what a server with the right time finds in the bucket, before it is capped
Level == tokens + Max * since
Cap(x) == Least(Full, x)
Excused == Interval * faults

\* What was admitted of late and what the bucket still grants do not exceed a full
\* bucket together; and when the key expires, the debt has been paid.
DebtInv ==
    /\ ttl > 0 => debt + Cap(Level) <= Full + Excused
    /\ debt <= Max * ttl + Excused
    /\ RateBound

Basic ==
    /\ tokens \in Int /\ since \in Int /\ ttl \in Nat /\ ttl <= 2 * Interval
    /\ ahead \in [Servers -> 0 .. Skew]
    /\ debt \in Nat /\ faults \in Nat

IInv == Basic /\ DebtInv

\* How far the bucket can be overdrawn, and how old it gets before its key expires.
Bounds ==
    /\ tokens <= Full /\ tokens >= -(Max * Skew) /\ Level >= -(Max * Skew)
    /\ since >= -Skew /\ since + ttl <= Interval + Interval

Rest ==
    /\ state \in [Jobs -> {"ready", "delayed", "admitted"}]
    /\ wait \in [Jobs -> Nat]
    /\ last \in Servers \cup {Nobody}
    /\ dueIn \in Nat
    /\ faults <= MaxFaults

\* The ticks to wait are those the refill needs for what server s lacks, rounded up, and
\* they are over before the key expires.
Lacks(s) == Interval - (Level + Max * ahead[s])

RetryInv == last # Nobody =>
    /\ dueIn <= ttl
    /\ ttl > 0 => /\ Lacks(last) <= Max * dueIn
                  /\ dueIn > 0 => Max * (dueIn - 1) < Lacks(last)

AInv == Basic /\ Bounds /\ Rest /\ RetryInv

-----------------------------------------------------------------------------
\* Products of the constants: the provers do not multiply by themselves.
LEMMA Constants ==
    /\ Max \in Nat /\ Interval \in Nat /\ Skew \in Nat /\ Max >= 1 /\ Interval >= 1
    /\ Max * Interval \in Nat /\ Max * Skew \in Nat /\ Full = Max * Interval
    /\ Full >= Interval /\ Max * Skew <= Full
<1>1. /\ Max \in Nat /\ Interval \in Nat /\ Skew \in Nat /\ Max >= 1 /\ Interval >= 1
      /\ Skew <= Interval
  BY LimiterAssumption
<1>2. Max * Interval \in Nat /\ Max * Skew \in Nat BY <1>1
<1>3. Max * Interval >= Interval BY <1>1
<1>4. Max * Skew <= Max * Interval BY <1>1
<1> QED BY <1>1, <1>2, <1>3, <1>4 DEF Full

\* A product with a server's lead is at most the one with Skew.
LEMMA Lead ==
    ASSUME NEW a \in 0 .. Skew
    PROVE  Max * a \in Nat /\ Max * a <= Max * Skew
BY Constants

\* After a call the level is what the server found, less its lead.
LEMMA Levels ==
    ASSUME Basic, NEW s \in Servers, NEW t \in Int, Store(s, t)
    PROVE  /\ Level' = t - Max * ahead[s]
           /\ tokens' \in Int /\ since' \in Int /\ ttl' = Interval + Interval
<1>1. ahead[s] \in 0 .. Skew BY DEF Basic
<1>2. tokens' = t /\ since' = -ahead[s] /\ ttl' = 2 * Interval BY DEF Store, KeyTTL
<1>3. Max * (-ahead[s]) = -(Max * ahead[s]) BY <1>1, Constants
<1> QED BY <1>1, <1>2, <1>3, Constants DEF Level

\* What a server finds is the level plus its lead, capped.
LEMMA Found ==
    ASSUME Basic, NEW s \in Servers
    PROVE  /\ Level \in Int
           /\ Available(s) = IF ttl = 0 THEN Full ELSE Cap(Level + Max * ahead[s])
           /\ Available(s) \in Int /\ Available(s) <= Full
<1>1. ahead[s] \in 0 .. Skew BY DEF Basic
<1>2. Max * (since + ahead[s]) = Max * since + Max * ahead[s]
  BY <1>1, Constants DEF Basic
<1>3. Max * since \in Int /\ Max * ahead[s] \in Int BY <1>1, Constants DEF Basic
<1>4. tokens + Max * (since + ahead[s]) = Level + Max * ahead[s]
  BY <1>2, <1>3 DEF Level, Basic
<1>5. Level \in Int BY <1>3 DEF Level, Basic
<1> QED BY <1>3, <1>4, <1>5, Constants DEF Available, Cap, Least

\* A call that takes cost units out of the bucket and adds at most as much to the debt.
LEMMA Charged ==
    ASSUME IInv, NEW s \in Servers, NEW cost \in {0, Interval},
           Store(s, Available(s) - cost), cost = Interval => Available(s) >= Interval,
           debt' = debt + cost, faults' = faults, ahead' = ahead
    PROVE  IInv'
<1> DEFINE lead == Max * ahead[s]
<1>1. lead \in Nat /\ lead <= Max * Skew BY Lead DEF IInv, Basic
<1>2. /\ Level' = Available(s) - cost - lead /\ tokens' \in Int /\ since' \in Int
      /\ ttl' = Interval + Interval
  BY Levels, Found, Constants DEF IInv
<1>3. Excused' = Excused /\ Excused \in Nat BY Constants DEF Excused, IInv, Basic
<1>4. Basic' BY <1>2, Constants DEF IInv, Basic
<1>5. debt \in Nat /\ cost \in Nat /\ debt <= Max * ttl + Excused
  BY Constants DEF IInv, Basic, DebtInv
<1>6. debt' + Cap(Level') <= Full + Excused
  <2>1. CASE ttl = 0
    <3>1. debt <= Excused BY <1>3, <1>5, <2>1, Constants
    <3>2. Available(s) = Full BY <2>1, Found DEF IInv
    <3> QED BY <1>1, <1>2, <1>3, <1>5, <3>1, <3>2, Constants DEF Cap, Least
  <2>2. CASE ttl # 0
    <3>1. debt + Cap(Level) <= Full + Excused BY <2>2 DEF IInv, Basic, DebtInv
    <3>2. Available(s) = Cap(Level + lead) /\ Level \in Int BY <2>2, Found DEF IInv
    <3> QED BY <1>1, <1>2, <1>3, <1>5, <3>1, <3>2, Constants DEF Cap, Least
  <2> QED BY <2>1, <2>2
<1>7. debt' <= Full + Max * Skew + Excused
  <2>0. debt <= Full + Max * Skew + Excused
    <3>1. Max * (Interval + Skew) = Full + Max * Skew BY Constants
    <3> QED BY <3>1 DEF IInv, DebtInv, RateBound, Excused
  <2>1. CASE cost = 0 BY <1>5, <2>0, <2>1
  <2>2. CASE cost = Interval
    <3>1. Cap(Level') >= -(Max * Skew)
      <4>1. Level' >= -lead /\ Level' \in Int BY <1>1, <1>2, <2>2, Found, Constants DEF IInv
      <4> QED BY <1>1, <4>1, Constants DEF Cap, Least
    <3>2. Cap(Level') \in Int BY <1>1, <1>2, <1>5, Found, Constants DEF Cap, Least, IInv
    <3> QED BY <1>3, <1>5, <1>6, <3>1, <3>2, Constants
  <2> QED BY <2>1, <2>2
<1>8. RateBound'
  <2>1. Max * (Interval + Skew) = Full + Max * Skew BY Constants
  <2> QED BY <1>3, <1>7, <2>1 DEF RateBound, Excused
<1>9. debt' <= Max * ttl' + Excused'
  <2>1. Max * (Interval + Interval) = Full + Full BY Constants
  <2> QED BY <1>2, <1>3, <1>5, <1>7, <2>1, Constants
<1> QED BY <1>3, <1>4, <1>6, <1>8, <1>9 DEF IInv, DebtInv

\* Without a key nothing was admitted and nothing is owed.
LEMMA InitIInv == Init => IInv
<1> SUFFICES ASSUME Init PROVE IInv OBVIOUS
<1>1. Basic BY Constants DEF Init, Basic
<1>2. Excused = 0 /\ Max * ttl = 0 BY Constants DEF Init, Excused
<1>3. RateBound
  <2>1. Max * (Interval + Skew) = Full + Max * Skew BY Constants
  <2> QED BY <1>2, <2>1, Constants DEF Init, RateBound, Excused
<1> QED BY <1>1, <1>2, <1>3 DEF IInv, DebtInv, Init

\* Every action keeps the balance.
LEMMA StepIInv == IInv /\ [Next]_vars => IInv'
<1> SUFFICES ASSUME IInv, [Next]_vars PROVE IInv' OBVIOUS
<1>0. /\ Excused \in Nat /\ debt \in Nat /\ ttl \in Nat /\ faults \in Nat
      /\ Level \in Int /\ Max * ttl \in Nat
  <2>1. Max * since \in Int BY Constants DEF IInv, Basic
  <2> QED BY <2>1, Constants DEF IInv, Basic, Excused, Level
<1>1. ASSUME NEW s \in Servers, NEW j \in Jobs, Allowed(s, j) PROVE IInv'
  BY <1>1, Charged DEF Allowed
<1>2. ASSUME NEW s \in Servers, NEW j \in Jobs, Denied(s, j) PROVE IInv'
  <2>1. Available(s) \in Int BY Found DEF IInv
  <2>2. Available(s) - 0 = Available(s) /\ debt + 0 = debt BY <1>0, <2>1
  <2>3. Store(s, Available(s) - 0) BY <1>2, <2>2 DEF Denied
  <2>4. debt' = debt + 0 /\ faults' = faults /\ ahead' = ahead BY <1>2, <2>2 DEF Denied
  <2>5. 0 # Interval BY Constants
  <2> QED BY <2>3, <2>4, <2>5, Charged
<1>3. ASSUME NEW s \in Servers, NEW j \in Jobs, Unchecked(s, j) PROVE IInv'
  <2> DEFINE lead == Max * ahead[s]
  <2>1. debt' = debt + Interval /\ faults' = faults + 1 /\ ahead' = ahead
    BY <1>3 DEF Unchecked
  <2>2. Excused' = Excused + Interval BY <1>0, <2>1, Constants DEF Excused
  <2>3. lead \in Nat /\ lead <= Max * Skew BY Lead DEF IInv, Basic
  <2>4. debt <= Full + Max * Skew + Excused /\ debt <= Max * ttl + Excused
    <3>1. Max * (Interval + Skew) = Full + Max * Skew BY Constants
    <3> QED BY <3>1 DEF IInv, DebtInv, RateBound, Excused
  <2>5. RateBound'
    <3>1. Max * (Interval + Skew) = Full + Max * Skew BY Constants
    <3>2. Interval * faults' = Excused + Interval BY <2>2 DEF Excused
    <3> QED BY <1>0, <2>1, <2>4, <3>1, <3>2, Constants DEF RateBound
  <2>6. CASE UNCHANGED bucketVars
    <3>1. tokens' = tokens /\ since' = since /\ ttl' = ttl /\ Level' = Level
      BY <2>6 DEF bucketVars, Level
    <3>2. Basic' BY <1>0, <2>1, <3>1, Constants DEF IInv, Basic
    <3>3. ttl' > 0 => debt' + Cap(Level') <= Full + Excused'
      BY <1>0, <2>1, <2>2, <3>1, Constants DEF IInv, DebtInv, Cap, Least
    <3> QED BY <1>0, <2>1, <2>2, <2>4, <2>5, <3>1, <3>2, <3>3, Constants DEF IInv, DebtInv
  <2>7. ASSUME NEW cost \in {0, Interval}, Store(s, Available(s) - cost) PROVE IInv'
    <3>1. /\ Level' = Available(s) - cost - lead /\ tokens' \in Int /\ since' \in Int
          /\ ttl' = Interval + Interval
      BY <2>7, Levels, Found, Constants DEF IInv
    <3>2. Basic' BY <1>0, <2>1, <3>1, Constants DEF IInv, Basic
    <3>3. debt + Cap(Level') <= Full + Excused
      <4>1. CASE ttl = 0
        <5>1. debt <= Excused BY <1>0, <2>4, <4>1, Constants
        <5>2. Available(s) = Full BY <4>1, Found DEF IInv
        <5> QED BY <1>0, <2>3, <3>1, <5>1, <5>2, Constants DEF Cap, Least
      <4>2. CASE ttl # 0
        <5>1. debt + Cap(Level) <= Full + Excused BY <4>2 DEF IInv, Basic, DebtInv
        <5>2. Available(s) = Cap(Level + lead) BY <4>2, Found DEF IInv
        <5> QED BY <1>0, <2>3, <3>1, <5>1, <5>2, Constants DEF Cap, Least
      <4> QED BY <4>1, <4>2
    <3>4. Cap(Level') \in Int BY <2>3, <3>1, Found, Constants DEF Cap, Least, IInv
    <3>5. debt' + Cap(Level') <= Full + Excused' BY <1>0, <2>1, <2>2, <3>3, <3>4, Constants
    <3>6. debt' <= Max * ttl' + Excused'
      <4>1. Max * (Interval + Interval) = Full + Full BY Constants
      <4> QED BY <1>0, <2>1, <2>2, <2>4, <3>1, <4>1, Constants
    <3> QED BY <2>5, <3>2, <3>5, <3>6 DEF IInv, DebtInv
  <2>8. Available(s) \in Int /\ Available(s) - 0 = Available(s)
    <3>1. Available(s) \in Int BY Found DEF IInv
    <3> QED BY <3>1
  <2> QED BY <1>3, <2>6, <2>7, <2>8 DEF Unchecked
<1>4. ASSUME NEW j \in Jobs, Promote(j) PROVE IInv'
  BY <1>4
     DEF Promote, bucketVars, IInv, Basic, DebtInv, RateBound, Level, Excused, Cap, Least, Full
<1>5. CASE Tick
  <2>1. /\ ttl' = (IF ttl > 0 THEN ttl - 1 ELSE 0) /\ ahead' = ahead /\ faults' = faults
        /\ debt' = (IF debt > Max THEN debt - Max ELSE 0)
        /\ since' = (IF ttl <= 1 THEN 0 ELSE since + 1)
        /\ tokens' = (IF ttl <= 1 THEN 0 ELSE tokens)
    BY <1>5 DEF Tick, OneLess
  <2>2. Excused' = Excused BY <2>1 DEF Excused
  <2>3. Basic' BY <1>0, <2>1, Constants DEF IInv, Basic
  <2>4. debt' <= Max * ttl' + Excused'
    <3>1. CASE debt > Max /\ ttl > 0
      <4>1. Max * (ttl - 1) = Max * ttl - Max BY <1>0, Constants
      <4> QED BY <1>0, <2>1, <2>2, <3>1, <4>1, Constants DEF IInv, DebtInv
    <3>2. CASE debt > Max /\ ttl = 0
      <4>1. Max * ttl' = 0 /\ Max * ttl = 0 BY <2>1, <3>2, Constants
      <4> QED BY <1>0, <2>1, <2>2, <3>2, <4>1, Constants DEF IInv, DebtInv
    <3>3. CASE ~(debt > Max)
      <4>1. Max * ttl' \in Nat BY <1>0, <2>1, Constants
      <4> QED BY <1>0, <2>1, <2>2, <3>3, <4>1
    <3> QED BY <1>0, <3>1, <3>2, <3>3
  <2>5. ttl' > 0 => debt' + Cap(Level') <= Full + Excused'
    <3> SUFFICES ASSUME ttl' > 0 PROVE debt' + Cap(Level') <= Full + Excused' OBVIOUS
    <3>1. since' = since + 1 /\ tokens' = tokens /\ ttl > 0 BY <1>0, <2>1
    <3>2. Max * (since + 1) = Max * since + Max BY Constants DEF IInv, Basic
    <3>3. Level' = Level + Max
      <4>1. Max * since \in Int BY Constants DEF IInv, Basic
      <4> QED BY <3>1, <3>2, <4>1, Constants DEF Level, IInv, Basic
    <3>4. debt + Cap(Level) <= Full + Excused BY <3>1 DEF IInv, DebtInv
    <3> QED BY <1>0, <2>1, <2>2, <3>3, <3>4, Constants DEF Cap, Least
  <2>6. RateBound' BY <1>0, <2>1, Constants DEF IInv, DebtInv, RateBound
  <2> QED BY <2>3, <2>4, <2>5, <2>6 DEF IInv, DebtInv
<1>6. CASE UNCHANGED vars
  BY <1>6
     DEF vars, bucketVars, IInv, Basic, DebtInv, RateBound, Level, Excused, Cap, Least, Full
<1> QED BY <1>1, <1>2, <1>3, <1>4, <1>5, <1>6 DEF Next, AskStep

\* In no window are more jobs admitted than the bucket holds and its refill pays for, up
\* to what the clocks disagree by and one job per failed check: tokenBucketScript keeps
\* its promise although the key expires and every caller brings its own time.
THEOREM RateBounded == Spec => []RateBound
<1>1. IInv => RateBound BY DEF IInv, DebtInv
<1> QED BY <1>1, InitIInv, StepIInv, PTL DEF Spec

-----------------------------------------------------------------------------
(***************************************************************************)
(* The retry time.                                                         *)
(***************************************************************************)
\* Rounding up.
LEMMA Ceiling ==
    ASSUME NEW a \in Nat, a >= 1
    PROVE  LET q == CeilDiv(a, Max)
           IN  q \in Nat /\ q >= 1 /\ a <= Max * q /\ Max * (q - 1) < a
<1>1. Max \in Nat /\ Max >= 1 /\ a + Max - 1 \in Nat BY Constants
<1> DEFINE b == a + Max - 1
           q == b \div Max
<1>2. q \in Int /\ b = Max * q + (b % Max) /\ b % Max \in 0 .. (Max - 1)
  <2>1. b \in Nat BY <1>1
  <2> HIDE DEF b
  <2> QED BY <1>1, <2>1
<1> HIDE DEF q
<1>3. Max * (q - 1) = Max * q - Max /\ Max * q \in Int BY <1>1, <1>2
<1>4. a <= Max * q /\ Max * (q - 1) < a BY <1>1, <1>2, <1>3
<1>5. q >= 1
  <2>1. ASSUME q <= 0 PROVE FALSE
    <3>1. Max * q <= 0 BY <1>1, <1>2, <2>1
    <3> QED BY <1>3, <1>4, <3>1
  <2> QED BY <1>2, <2>1
<1> QED BY <1>2, <1>4, <1>5 DEF CeilDiv, q

\* A call leaves no more than a full bucket, and no debt beyond the clocks' disagreement.
LEMMA BoundsKept ==
    ASSUME Basic, Bounds, NEW s \in Servers, NEW cost \in {0, Interval},
           Store(s, Available(s) - cost), cost = Interval => Available(s) >= Interval
    PROVE  Bounds' /\ Level' = Available(s) - cost - Max * ahead[s] /\ ttl' = Interval + Interval
<1> DEFINE lead == Max * ahead[s]
<1>1. ahead[s] \in 0 .. Skew /\ lead \in Nat /\ lead <= Max * Skew BY Lead DEF Basic
<1>2. Available(s) \in Int /\ Available(s) <= Full /\ cost \in Nat BY Found, Constants
<1>3. /\ Level' = Available(s) - cost - lead /\ ttl' = Interval + Interval
      /\ tokens' = Available(s) - cost /\ since' = -ahead[s]
  BY <1>2, Levels, Constants DEF Store
<1>4. Available(s) - cost - lead >= -(Max * Skew)
  <2>1. CASE cost = Interval BY <1>1, <1>2, <2>1, Constants
  <2>2. CASE cost = 0
    <3>1. CASE ttl = 0
      <4>1. Available(s) = Full BY <3>1, Found
      <4> QED BY <1>1, <2>2, <4>1, Constants
    <3>2. CASE ttl # 0
      <4>1. Available(s) = Cap(Level + lead) /\ Level \in Int BY <3>2, Found
      <4> QED BY <1>1, <2>2, <4>1, Constants DEF Cap, Least, Bounds
    <3> QED BY <3>1, <3>2
  <2> QED BY <2>1, <2>2
<1>5. /\ tokens' <= Full /\ tokens' >= -(Max * Skew) /\ Level' >= -(Max * Skew)
  BY <1>1, <1>2, <1>3, <1>4, Constants
<1>6. since' >= -Skew /\ since' + ttl' <= Interval + Interval BY <1>1, <1>3, Constants
<1> QED BY <1>3, <1>5, <1>6 DEF Bounds, Full

\* A denied server is told to wait until the refill has made up for what it lacks.
LEMMA DeniedRetry ==
    ASSUME Basic, Bounds, NEW s \in Servers, Available(s) < Interval, Store(s, Available(s)),
           last' = s, dueIn' = RetryIn(Available(s)), ahead' = ahead
    PROVE  Bounds' /\ RetryInv' /\ dueIn' \in Nat
<1> DEFINE lead == Max * ahead[s]
           a == Interval - Available(s)
<1>1. lead \in Nat /\ lead <= Max * Skew BY Lead DEF Basic
<1>2. Available(s) \in Int /\ a \in Nat /\ a >= 1 BY Found, Constants
<1>3. Bounds' /\ Level' = Available(s) - lead /\ ttl' = Interval + Interval
  <2>1. Available(s) - 0 = Available(s) /\ 0 # Interval BY <1>2, Constants
  <2>2. Store(s, Available(s) - 0) BY <2>1
  <2>3. Level' = Available(s) - 0 - lead /\ Bounds' /\ ttl' = Interval + Interval
    BY <2>1, <2>2, BoundsKept
  <2> QED BY <2>1, <2>3
<1>4. Lacks(s)' = a BY <1>1, <1>2, <1>3, Constants DEF Lacks
<1>5. dueIn' \in Nat /\ dueIn' >= 1 /\ a <= Max * dueIn' /\ Max * (dueIn' - 1) < a
  BY <1>2, Ceiling DEF RetryIn
<1>6. dueIn' <= Interval + Interval
  <2>1. Available(s) >= -(Max * Skew)
    BY <1>1, <1>2, <1>3, Constants DEF Bounds, Full
  <2>2. a <= Interval + Max * Skew BY <1>2, <2>1, Constants
  <2>3. Interval + Max * Skew <= Max * (Interval + Interval)
    <3>1. Max * (Interval + Interval) = Full + Full BY Constants
    <3> QED BY <3>1, Constants
  <2>4. Max * (dueIn' - 1) < Max * (Interval + Interval)
    <3>1. Max * (dueIn' - 1) \in Int /\ Max * (Interval + Interval) \in Int BY <1>5, Constants
    <3> QED BY <1>2, <1>5, <2>2, <2>3, <3>1, Constants
  <2>5. dueIn' - 1 < Interval + Interval
    <3>1. ASSUME NEW x \in Int, NEW y \in Int, Max * x < Max * y PROVE x < y
      <4>1. ASSUME y <= x PROVE Max * y <= Max * x BY <4>1, Constants
      <4>2. Max * x \in Int /\ Max * y \in Int BY Constants
      <4> QED BY <3>1, <4>1, <4>2
    <3> QED BY <1>5, <2>4, <3>1, Constants
  <2> QED BY <1>5, <2>5, Constants
<1>7. RetryInv'
  <2>1. dueIn' <= ttl' BY <1>3, <1>6
  <2>2. Lacks(last)' <= Max * dueIn' /\ Max * (dueIn' - 1) < Lacks(last)'
    <3>1. Lacks(last)' = a BY <1>1, <1>2, <1>3, Constants DEF Lacks
    <3> HIDE DEF a
    <3> QED BY <1>5, <3>1
  <2> QED BY <2>1, <2>2 DEF RetryInv
<1> QED BY <1>3, <1>5, <1>7

LEMMA InitAInv == Init => AInv
<1> SUFFICES ASSUME Init PROVE AInv OBVIOUS
<1>1. Level = 0 BY Constants DEF Init, Level
<1>2. Bounds BY <1>1, Constants DEF Init, Bounds
<1>3. Basic /\ Rest /\ RetryInv
  BY Constants, LimiterAssumption DEF Init, Basic, Rest, RetryInv
<1> QED BY <1>2, <1>3 DEF AInv

\* Every action keeps the bounds and the retry time.
LEMMA StepAInv == IInv /\ AInv /\ [Next]_vars => AInv'
<1> SUFFICES ASSUME IInv, AInv, [Next]_vars PROVE AInv' OBVIOUS
<1>0. Basic /\ Bounds /\ Rest /\ RetryInv /\ Basic' BY StepIInv DEF AInv, IInv
<1>1. ASSUME NEW s \in Servers, NEW j \in Jobs, Allowed(s, j) PROVE AInv'
  <2>1. Bounds' BY <1>0, <1>1, BoundsKept DEF Allowed
  <2>2. Rest' BY <1>0, <1>1 DEF Allowed, Admit, Rest
  <2>3. RetryInv' BY <1>1 DEF Allowed, RetryInv
  <2> QED BY <1>0, <2>1, <2>2, <2>3 DEF AInv
<1>2. ASSUME NEW s \in Servers, NEW j \in Jobs, Denied(s, j) PROVE AInv'
  <2>1. /\ Available(s) < Interval /\ Store(s, Available(s)) /\ last' = s /\ ahead' = ahead
        /\ dueIn' = RetryIn(Available(s)) /\ faults' = faults
        /\ state' = [state EXCEPT ![j] = "delayed"]
        /\ wait' = [wait EXCEPT ![j] = IF dueIn' < MinDelay THEN MinDelay ELSE dueIn']
    BY <1>2 DEF Denied
  <2>2. Bounds' /\ RetryInv' /\ dueIn' \in Nat BY <1>0, <2>1, DeniedRetry
  <2>3. Rest' BY <1>0, <2>1, <2>2, LimiterAssumption DEF Rest
  <2> QED BY <1>0, <2>2, <2>3 DEF AInv
<1>3. ASSUME NEW s \in Servers, NEW j \in Jobs, Unchecked(s, j) PROVE AInv'
  <2>1. ASSUME UNCHANGED bucketVars PROVE Bounds'
    <3>1. Level' = Level BY <2>1 DEF bucketVars, Level
    <3> QED BY <1>0, <2>1, <3>1 DEF Bounds, bucketVars, Full
  <2>2. ASSUME Available(s) >= Interval, Store(s, Available(s) - Interval) PROVE Bounds'
    BY <1>0, <2>2, BoundsKept
  <2>3. ASSUME Store(s, Available(s)) PROVE Bounds'
    <3>1. Available(s) - 0 = Available(s) /\ 0 # Interval BY <1>0, Found, Constants
    <3>2. Store(s, Available(s) - 0) BY <2>3, <3>1
    <3> QED BY <1>0, <3>1, <3>2, BoundsKept
  <2>4. Bounds' BY <1>3, <2>1, <2>2, <2>3 DEF Unchecked
  <2>5. Rest'
    BY <1>0, <1>3, LimiterAssumption DEF Unchecked, Admit, Rest, Basic
  <2>6. RetryInv' BY <1>3 DEF Unchecked, RetryInv
  <2> QED BY <1>0, <2>4, <2>5, <2>6 DEF AInv
<1>4. ASSUME NEW j \in Jobs, Promote(j) PROVE AInv'
  <2>1. Level' = Level /\ UNCHANGED <<tokens, since, ttl, ahead, wait, last, dueIn, faults>>
    BY <1>4 DEF Promote, bucketVars, Level
  <2>2. Bounds' BY <1>0, <2>1 DEF Bounds, Full
  <2>3. Rest' BY <1>0, <1>4 DEF Promote, Rest
  <2>4. RetryInv' BY <1>0, <2>1 DEF RetryInv, Lacks
  <2> QED BY <1>0, <2>2, <2>3, <2>4 DEF AInv
<1>5. CASE Tick
  <2>1. /\ ttl' = (IF ttl > 0 THEN ttl - 1 ELSE 0) /\ dueIn' = (IF dueIn > 0 THEN dueIn - 1 ELSE 0)
        /\ since' = (IF ttl <= 1 THEN 0 ELSE since + 1)
        /\ tokens' = (IF ttl <= 1 THEN 0 ELSE tokens)
        /\ UNCHANGED <<ahead, state, last, faults>>
    BY <1>5 DEF Tick, OneLess
  <2>2. tokens \in Int /\ since \in Int /\ ttl \in Nat /\ dueIn \in Nat /\ Level \in Int
    <3>1. tokens \in Int /\ since \in Int /\ ttl \in Nat /\ dueIn \in Nat
      BY <1>0 DEF Basic, Rest
    <3>2. Max * since \in Int BY <3>1, Constants
    <3> QED BY <3>1, <3>2 DEF Level
  <2>3. Rest'
    <3>1. wait' \in [Jobs -> Nat] BY <1>0, <1>5 DEF Tick, OneLess, Rest
    <3> QED BY <1>0, <2>1, <2>2, <3>1 DEF Rest
  <2>4. CASE ttl <= 1
    <3>1. Level' = 0 /\ ttl' = 0 BY <2>1, <2>2, <2>4, Constants DEF Level
    <3>2. Bounds' BY <2>1, <2>2, <2>4, <3>1, Constants DEF Bounds
    <3>3. RetryInv' BY <1>0, <2>1, <2>2, <2>4, <3>1 DEF RetryInv
    <3> QED BY <1>0, <2>3, <3>2, <3>3 DEF AInv
  <2>5. CASE ttl > 1
    <3>1. since' = since + 1 /\ tokens' = tokens /\ ttl' = ttl - 1 BY <2>1, <2>2, <2>5
    <3>2. Level' = Level + Max
      <4>1. Max * (since + 1) = Max * since + Max /\ Max * since \in Int BY <2>2, Constants
      <4> QED BY <2>2, <3>1, <4>1, Constants DEF Level
    <3>3. Bounds' BY <1>0, <2>2, <3>1, <3>2, Constants DEF Bounds, Full
    <3>4. ASSUME last # Nobody PROVE RetryInv'
      <4>1. last \in Servers /\ ahead[last] \in 0 .. Skew BY <1>0, <3>4 DEF Rest, Basic
      <4>2. Max * ahead[last] \in Nat BY <4>1, Lead
      <4>3. Lacks(last) \in Int /\ Lacks(last)' = Lacks(last) - Max
        BY <2>1, <2>2, <3>2, <4>2, Constants DEF Lacks
      <4>4. /\ dueIn <= ttl /\ Lacks(last) <= Max * dueIn
            /\ dueIn > 0 => Max * (dueIn - 1) < Lacks(last)
        BY <1>0, <2>2, <2>5, <3>4 DEF RetryInv
      <4>5. CASE dueIn = 0
        <5>1. dueIn' = 0 /\ Max * dueIn = 0 /\ Max * dueIn' = 0 BY <2>1, <4>5, Constants
        <5> QED BY <2>2, <3>1, <2>5, <4>3, <4>4, <5>1, Constants DEF RetryInv
      <4>6. CASE dueIn > 0
        <5>1. dueIn' = dueIn - 1 BY <2>1, <4>6
        <5>2. Max * (dueIn - 1) = Max * dueIn - Max /\ Max * dueIn \in Int BY <2>2, Constants
        <5>3. Max * (dueIn - 1 - 1) = Max * (dueIn - 1) - Max BY <2>2, Constants
        <5>4. Lacks(last)' <= Max * dueIn' BY <4>3, <4>4, <5>1, <5>2, Constants
        <5>5. Max * (dueIn' - 1) < Lacks(last)' BY <4>3, <4>4, <4>6, <5>1, <5>2, <5>3, Constants
        <5>6. dueIn' <= ttl' BY <2>2, <3>1, <4>4, <5>1
        <5> QED BY <5>4, <5>5, <5>6 DEF RetryInv
      <4> QED BY <2>2, <4>5, <4>6
    <3>5. RetryInv' BY <2>1, <3>4 DEF RetryInv
    <3> QED BY <1>0, <2>3, <3>3, <3>5 DEF AInv
  <2> QED BY <2>2, <2>4, <2>5
<1>6. CASE UNCHANGED vars
  <2>1. /\ UNCHANGED <<tokens, since, ttl, ahead, state, wait, last, dueIn, faults>>
        /\ Level' = Level
    BY <1>6 DEF vars, bucketVars, Level
  <2> QED BY <1>0, <2>1 DEF AInv, Bounds, Rest, RetryInv, Lacks, Full
<1> QED BY <1>1, <1>2, <1>3, <1>4, <1>5, <1>6 DEF Next, AskStep

LEMMA AlwaysAInv == Spec => [](IInv /\ AInv)
<1>1. IInv /\ AInv /\ [Next]_vars => IInv' /\ AInv' BY StepIInv, StepAInv
<1> QED BY <1>1, InitIInv, InitAInv, PTL DEF Spec

\* The bucket is overdrawn by no more than the clocks disagree by and never holds more than
\* Max tokens, last_refill is never older than the key, and every retry time is a number of
\* milliseconds that is not negative.
THEOREM LimiterTypes == Spec => []TypeOK
<1>1. ASSUME AInv PROVE TypeOK
  <2>1. tokens \in -(Max * Skew) .. Full /\ since \in -Skew .. 2 * Interval /\ ttl \in 0 .. 2 * Interval
    BY <1>1, Constants DEF AInv, Basic, Bounds
  <2>2. faults \in 0 .. MaxFaults BY <1>1, LimiterAssumption DEF AInv, Basic, Rest
  <2> QED BY <1>1, <2>1, <2>2 DEF AInv, Basic, Rest, TypeOK
<1> QED BY <1>1, AlwaysAInv, PTL

\* The retry time tokenBucketScript returns is exact: the server that was denied, asking
\* again before anybody else, gets its token when that time has come and not a millisecond
\* earlier, even when the key expires meanwhile.
THEOREM RetryIsExact == Spec => []RetryExact
<1>1. ASSUME AInv, last # Nobody PROVE dueIn = 0 <=> Available(last) >= Interval
  <2>1. /\ last \in Servers /\ Basic /\ dueIn \in Nat /\ ttl \in Nat /\ dueIn <= ttl
        /\ ttl > 0 => /\ Lacks(last) <= Max * dueIn
                      /\ dueIn > 0 => Max * (dueIn - 1) < Lacks(last)
    BY <1>1 DEF AInv, Basic, Rest, RetryInv
  <2>2. CASE ttl = 0
    <3>1. dueIn = 0 /\ Available(last) = Full BY <2>1, <2>2, Found
    <3> QED BY <3>1, Constants
  <2>3. CASE ttl > 0
    <3> DEFINE lead == Max * ahead[last]
    <3>1. lead \in Nat BY <2>1, Lead DEF Basic
    <3>2. Available(last) = Cap(Level + lead) /\ Level \in Int BY <2>1, <2>3, Found
    <3>3. Lacks(last) \in Int /\ Lacks(last) = Interval - (Level + lead)
      BY <3>1, <3>2, Constants DEF Lacks
    <3>4. Available(last) >= Interval <=> Lacks(last) <= 0
      BY <3>1, <3>2, <3>3, Constants DEF Cap, Least
    <3>5. dueIn = 0 => Lacks(last) <= 0
      <4>1. Max * 0 = 0 BY Constants
      <4> QED BY <2>1, <2>3, <4>1
    <3>6. dueIn > 0 => Lacks(last) > 0
      <4>1. dueIn > 0 => Max * (dueIn - 1) \in Nat BY <2>1, Constants
      <4> QED BY <2>1, <2>3, <3>3, <4>1
    <3> QED BY <2>1, <3>3, <3>4, <3>5, <3>6
  <2> QED BY <2>1, <2>2, <2>3
<1>2. AInv => RetryExact BY <1>1 DEF RetryExact
<1> QED BY <1>2, AlwaysAInv, PTL

=============================================================================
