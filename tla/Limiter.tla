------------------------------ MODULE Limiter ------------------------------
(***************************************************************************)
(* The token bucket of one task kind (internal/ratelimit/limiter.go) and   *)
(* the servers that consult it before they run a job (processJob): a job   *)
(* without a token is rescheduled.                                         *)
(*                                                                         *)
(* One tick is a millisecond.  Tokens are counted in units of which one    *)
(* token has Interval, so that refillRate = max / intervalMs is Max units  *)
(* a tick, exactly; the rounding of the script's doubles is left out.      *)
(* Times are relative to the true time, so that nothing grows without      *)
(* bound.                                                                  *)
(***************************************************************************)
EXTENDS Integers

CONSTANTS
    Jobs,        \* jobs of the kind
    Servers,
    Max,         \* tokens per interval, and the size of the bucket
    Interval,    \* the refill interval, in ticks
    Skew,        \* the clock of no server is further ahead than this
    MinDelay,    \* the 50 ms processJob waits at least
    MaxFaults,   \* bound on failed calls
    Nobody

ASSUME LimiterAssumption ==
    /\ Max \in Nat \ {0} /\ Interval \in Nat \ {0}
    /\ Skew \in Nat /\ Skew <= Interval
    /\ MinDelay \in Nat /\ MaxFaults \in Nat
    /\ Nobody \notin Servers

VARIABLES
    \* winter:ratelimit:<kind>
    tokens,   \* in units
    since,    \* true time minus last_refill
    ttl,      \* ticks until the key expires; 0: there is no key
    \* the servers and the jobs
    ahead,    \* how far each server's clock is ahead
    state,    \* of a job: "ready", "delayed" or "admitted"
    wait,     \* of a delayed job: ticks until it is due
    \* history
    debt,     \* units admitted, less what Max per tick has paid back
    last,     \* the server whose call was the last one, if it was denied
    dueIn,    \* ticks until the retry time it was given
    faults

bucketVars == <<tokens, since, ttl>>
vars == <<bucketVars, ahead, state, wait, debt, last, dueIn, faults>>

Full == Max * Interval
Least(a, b) == IF a < b THEN a ELSE b
OneLess(n) == IF n > 0 THEN n - 1 ELSE 0
CeilDiv(a, b) == (a + b - 1) \div b

TypeOK ==
    /\ tokens \in -(Max * Skew) .. Full
    /\ since \in -Skew .. 2 * Interval
    /\ ttl \in 0 .. 2 * Interval
    /\ ahead \in [Servers -> 0 .. Skew]
    /\ state \in [Jobs -> {"ready", "delayed", "admitted"}]
    /\ wait \in [Jobs -> Nat]
    /\ debt \in Nat
    /\ last \in Servers \cup {Nobody}
    /\ dueIn \in Nat
    /\ faults \in 0 .. MaxFaults

Init ==
    /\ tokens = 0 /\ since = 0 /\ ttl = 0
    /\ ahead \in [Servers -> 0 .. Skew]
    /\ state = [j \in Jobs |-> "ready"]
    /\ wait = [j \in Jobs |-> 0]
    /\ debt = 0 /\ last = Nobody /\ dueIn = 0
    /\ faults = 0

(***************************************************************************)
(* Plausible mistakes, one per property: each stands in for the definition *)
(* it is paired with in PROJECT.json and is used nowhere else.             *)
(***************************************************************************)
NoCap(s) == IF ttl = 0 THEN Full ELSE tokens + Max * (since + ahead[s])  \* without math.min
FloorRetry(t) == (Interval - t) \div Max       \* math.floor
ShortTTL == Interval \div 2                    \* a key that expires before the bucket is full
LostWhenDue(j) ==                              \* only jobs that are not due yet are promoted
    /\ state[j] = "delayed" /\ wait[j] > 1
    /\ state' = [state EXCEPT ![j] = "ready"]
    /\ UNCHANGED <<bucketVars, ahead, wait, debt, last, dueIn, faults>>

(***************************************************************************)
(* tokenBucketScript.                                                      *)
(***************************************************************************)
\* what server s finds: a full bucket if there is no key, else the stored tokens and
\* those its own clock adds or, when it is behind the last caller, takes away
Available(s) ==
    IF ttl = 0 THEN Full ELSE Least(Full, tokens + Max * (since + ahead[s]))

KeyTTL == 2 * Interval

\* HSET tokens, last_refill; PEXPIRE
Store(s, t) ==
    /\ tokens' = t
    /\ since' = -ahead[s]
    /\ ttl' = KeyTTL

\* math.ceil(deficit / refillRate)
RetryIn(t) == CeilDiv(Interval - t, Max)

(***************************************************************************)
(* processJob asks for a token.                                            *)
(***************************************************************************)
Admit(j) == state' = [state EXCEPT ![j] = "admitted"] /\ UNCHANGED wait

Allowed(s, j) ==
    /\ state[j] = "ready"
    /\ Available(s) >= Interval
    /\ Store(s, Available(s) - Interval)
    /\ Admit(j)
    /\ debt' = debt + Interval
    /\ last' = Nobody /\ dueIn' = 0
    /\ UNCHANGED <<ahead, faults>>

\* RescheduleJob after RetryIn, but not before MinDelay
Denied(s, j) ==
    /\ state[j] = "ready"
    /\ Available(s) < Interval
    /\ Store(s, Available(s))
    /\ state' = [state EXCEPT ![j] = "delayed"]
    /\ LET r == RetryIn(Available(s)) IN
         /\ wait' = [wait EXCEPT ![j] = IF r < MinDelay THEN MinDelay ELSE r]
         /\ last' = s /\ dueIn' = r
    /\ UNCHANGED <<ahead, debt, faults>>

\* The call fails, before or after the script ran: the job runs all the same.
Unchecked(s, j) ==
    /\ state[j] = "ready"
    /\ faults < MaxFaults
    /\ faults' = faults + 1
    /\ \/ UNCHANGED bucketVars
       \/ /\ Available(s) >= Interval
          /\ Store(s, Available(s) - Interval)
       \/ /\ Available(s) < Interval
          /\ Store(s, Available(s))
    /\ Admit(j)
    /\ debt' = debt + Interval
    /\ last' = Nobody /\ dueIn' = 0
    /\ UNCHANGED ahead

\* promoteLoop
Promote(j) ==
    /\ state[j] = "delayed" /\ wait[j] = 0
    /\ state' = [state EXCEPT ![j] = "ready"]
    /\ UNCHANGED <<bucketVars, ahead, wait, debt, last, dueIn, faults>>

\* A millisecond passes; Redis drops the key when it is due.
Tick ==
    /\ ttl' = OneLess(ttl)
    /\ since' = IF ttl <= 1 THEN 0 ELSE since + 1
    /\ tokens' = IF ttl <= 1 THEN 0 ELSE tokens
    /\ wait' = [j \in Jobs |-> OneLess(wait[j])]
    /\ debt' = IF debt > Max THEN debt - Max ELSE 0
    /\ dueIn' = OneLess(dueIn)
    /\ UNCHANGED <<ahead, state, last, faults>>

AskStep(j) == \E s \in Servers : Allowed(s, j) \/ Denied(s, j)

Next ==
    \/ \E j \in Jobs : \/ AskStep(j) \/ Promote(j)
                       \/ \E s \in Servers : Unchecked(s, j)
    \/ Tick

Spec == Init /\ [][Next]_vars

\* Time passes, the promote loop runs, and a ready job is taken up by some server.
Fairness ==
    /\ WF_vars(Tick)
    /\ \A j \in Jobs : WF_vars(AskStep(j)) /\ WF_vars(Promote(j))

FairSpec == Spec /\ Fairness

-----------------------------------------------------------------------------
(***************************************************************************)
(* Properties.                                                             *)
(***************************************************************************)
\* In every window of d ticks at most Max + Max * d / Interval jobs are admitted (debt
\* is the most that any window ending now has above the steady rate), up to what the
\* disagreement of the clocks is worth and one job per failed check.  The expiry of the
\* key, which forgets the bucket, lets no more through.
RateBound == debt <= Max * (Interval + Skew) + Interval * faults

\* The retry time is exact: a server that was denied and is the next to ask is allowed
\* when that time has come, and not a millisecond earlier.
RetryExact == last # Nobody => (dueIn = 0 <=> Available(last) >= Interval)

\* Every job gets its token in the end, although those that were denied come
\* back together and servers with slow clocks take tokens out of the bucket.
EventuallyAdmitted == \A j \in Jobs : <>(state[j] = "admitted")
=============================================================================
