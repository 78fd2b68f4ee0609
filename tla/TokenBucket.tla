---------------------------- MODULE TokenBucket -----------------------------
(***************************************************************************)
(* One bucket of src/src/rate_limiter.py (TokenBucket), the callers that   *)
(* wait on it (acquire_or_wait(), reached through the rate_limited()       *)
(* decorator and RateLimitContext) and the ones that do not.               *)
(*                                                                         *)
(* Nothing suspends while _lock is held, so the lock is never contended    *)
(* and every method is one step; between acquire() and wait_for_tokens()   *)
(* of one call no other task runs, only the clock moves.  One tick refills *)
(* Rate tokens.                                                            *)
(***************************************************************************)
EXTENDS Integers

CONSTANTS Waiters,    \* calls of acquire_or_wait()
          Capacity,   \* capacity
          Rate,       \* refill_rate per tick
          Cooldown,   \* COOLDOWN_DURATION in ticks
          MaxWait,    \* max_wait in ticks
          Requests,   \* how many tokens a call may ask for
          NoWaiter,
          LastStart,  \* bound: ticks during which calls start
          MaxResets   \* bound: calls of reset()

ASSUME TokenBucketConstants ==
  /\ Capacity \in Nat \ {0} /\ Rate \in Nat \ {0}
  /\ Cooldown \in Nat /\ MaxWait \in Nat /\ LastStart \in Nat /\ MaxResets \in Nat
  /\ Requests \subseteq Nat \ {0}
  /\ NoWaiter \notin Waiters

VARIABLES
  clock,         \* external: time.monotonic()
  tokens,        \* _tokens
  last_refill,   \* _last_refill
  cooling,       \* _in_cooldown, "yes" or "no"
  cooldown_end,  \* _cooldown_end, 0 for None
  waiter,        \* "idle", "loop", "refused", "asleep", "granted", "gave_up"
  want,          \* tokens each call asks for
  start,         \* when each call started
  running,       \* the call between acquire() and its sleep, or NoWaiter
  since,         \* an observer's start: time, and tokens granted from then on
  last_hot,      \* when a grant last left 10% or less, -1 if never or reset
  resets

bucket_vars ==
  <<clock, tokens, last_refill, cooling, cooldown_end, waiter, want, start, running, since,
    last_hot, resets>>
bucket == <<tokens, last_refill, cooling, cooldown_end>>

BucketTypeOK ==
  /\ clock \in Nat
  /\ tokens \in 0..Capacity
  /\ last_refill \in 0..clock
  /\ cooling \in {"yes", "no"}
  /\ cooldown_end \in Nat
  /\ waiter \in [Waiters -> {"idle", "loop", "refused", "asleep", "granted", "gave_up"}]
  /\ want \in [Waiters -> Requests \cup {0}]
  /\ start \in [Waiters -> Nat]
  /\ running \in Waiters \cup {NoWaiter}
  /\ since \in [at : 0..clock, granted : Nat]
  /\ last_hot \in Nat \cup {-1}
  /\ resets \in 0..MaxResets

BucketInit ==
  /\ clock = 0
  /\ tokens = Capacity
  /\ last_refill = 0
  /\ cooling = "no"
  /\ cooldown_end = 0
  /\ waiter = [c \in Waiters |-> "idle"]
  /\ want = [c \in Waiters |-> 0]
  /\ start = [c \in Waiters |-> 0]
  /\ running = NoWaiter
  /\ since = [at |-> 0, granted |-> 0]
  /\ last_hot = -1
  /\ resets = 0

-----------------------------------------------------------------------------
(* TokenBucket                                                             *)

\* Tokens added in so many ticks.
Refilled(ticks) == Rate * ticks

\* _refill()
Refill ==
  IF tokens + Refilled(clock - last_refill) > Capacity THEN Capacity
  ELSE tokens + Refilled(clock - last_refill)

StillCooling_Ignored == FALSE

\* _check_cooldown_expired() leaves the cooldown on.
StillCooling == cooling = "yes" /\ clock < cooldown_end

\* utilization >= CRITICAL_THRESHOLD
Critical(t) == 10 * t <= Capacity

\* acquire(n) during a cooldown.
AcquireCooling == StillCooling /\ UNCHANGED bucket

AcquireShort_KeepsClock(n) ==
  /\ ~StillCooling
  /\ Refill < n
  /\ tokens' = Refill
  /\ cooling' = "no"
  /\ cooldown_end' = 0
  /\ UNCHANGED last_refill

\* acquire(n) without enough tokens.
AcquireShort(n) ==
  /\ ~StillCooling
  /\ Refill < n
  /\ tokens' = Refill
  /\ last_refill' = clock
  /\ cooling' = "no"
  /\ cooldown_end' = 0

\* acquire(n) with enough; a critical rest starts a cooldown.
AcquireGranted(n) ==
  /\ ~StillCooling
  /\ Refill >= n
  /\ tokens' = Refill - n
  /\ last_refill' = clock
  /\ cooling' = IF Critical(Refill - n) THEN "yes" ELSE "no"
  /\ cooldown_end' = IF Critical(Refill - n) THEN clock + Cooldown ELSE 0

Granted(n) ==
  /\ since' = [since EXCEPT !.granted = @ + n]
  /\ last_hot' = IF Critical(Refill - n) THEN clock ELSE last_hot

\* Overwatch.acquire() of a caller that does not wait.
AcquireOnce(n) ==
  /\ running = NoWaiter
  /\ clock <= LastStart
  /\ \/ (AcquireCooling \/ AcquireShort(n)) /\ UNCHANGED <<since, last_hot>>
     \/ AcquireGranted(n) /\ Granted(n)
  /\ UNCHANGED <<clock, waiter, want, start, running, resets>>

-----------------------------------------------------------------------------
(* acquire_or_wait()                                                       *)

Begin(c, n) ==
  /\ running = NoWaiter
  /\ clock <= LastStart
  /\ waiter[c] = "idle"
  /\ waiter' = [waiter EXCEPT ![c] = "loop"]
  /\ want' = [want EXCEPT ![c] = n]
  /\ start' = [start EXCEPT ![c] = clock]
  /\ running' = c
  /\ UNCHANGED <<clock, bucket, since, last_hot, resets>>

TryGranted(c) ==
  /\ running = c /\ waiter[c] = "loop"
  /\ clock - start[c] < MaxWait
  /\ AcquireGranted(want[c])
  /\ Granted(want[c])
  /\ waiter' = [waiter EXCEPT ![c] = "granted"]
  /\ running' = NoWaiter
  /\ UNCHANGED <<clock, want, start, resets>>

TryRefused(c) ==
  /\ running = c /\ waiter[c] = "loop"
  /\ clock - start[c] < MaxWait
  /\ AcquireCooling \/ AcquireShort(want[c])
  /\ waiter' = [waiter EXCEPT ![c] = "refused"]
  /\ UNCHANGED <<clock, want, start, running, since, last_hot, resets>>

TimesOut_GoesOn(c) ==
  /\ running = c /\ waiter[c] = "loop"
  /\ clock - start[c] >= MaxWait
  /\ waiter' = [waiter EXCEPT ![c] = "asleep"]
  /\ running' = NoWaiter
  /\ UNCHANGED <<clock, bucket, want, start, since, last_hot, resets>>

TimesOut(c) ==
  /\ running = c /\ waiter[c] = "loop"
  /\ clock - start[c] >= MaxWait
  /\ waiter' = [waiter EXCEPT ![c] = "gave_up"]
  /\ running' = NoWaiter
  /\ UNCHANGED <<clock, bucket, want, start, since, last_hot, resets>>

\* wait_for_tokens() says there is something to wait for.
MustWait(n) == StillCooling \/ Refill < n

\* wait_for_tokens() expires the cooldown and refills, like acquire().
Recomputed ==
  \/ StillCooling /\ UNCHANGED bucket
  \/ /\ ~StillCooling
     /\ tokens' = Refill
     /\ last_refill' = clock
     /\ cooling' = "no"
     /\ cooldown_end' = 0

\* A positive wait within max_wait: sleep for at most 0.1 s and try again.
Sleeps(c) ==
  /\ running = c /\ waiter[c] = "refused"
  /\ Recomputed
  /\ MustWait(want[c]) /\ clock - start[c] < MaxWait
  /\ waiter' = [waiter EXCEPT ![c] = "asleep"]
  /\ running' = NoWaiter
  /\ UNCHANGED <<clock, want, start, since, last_hot, resets>>

\* wait_time <= 0: return False.
GivesUp(c) ==
  /\ running = c /\ waiter[c] = "refused"
  /\ Recomputed
  /\ ~(MustWait(want[c]) /\ clock - start[c] < MaxWait)
  /\ waiter' = [waiter EXCEPT ![c] = "gave_up"]
  /\ running' = NoWaiter
  /\ UNCHANGED <<clock, want, start, since, last_hot, resets>>

Wakes(c) ==
  /\ running = NoWaiter
  /\ waiter[c] = "asleep"
  /\ waiter' = [waiter EXCEPT ![c] = "loop"]
  /\ running' = c
  /\ UNCHANGED <<clock, bucket, want, start, since, last_hot, resets>>

\* reset(); the observer and the cooldown start anew.
Reset ==
  /\ running = NoWaiter
  /\ resets < MaxResets
  /\ resets' = resets + 1
  /\ tokens' = Capacity
  /\ last_refill' = clock
  /\ cooling' = "no"
  /\ cooldown_end' = 0
  /\ since' = [at |-> clock, granted |-> 0]
  /\ last_hot' = -1
  /\ UNCHANGED <<clock, waiter, want, start, running>>

\* Somebody starts to count the tokens granted.
Observe ==
  /\ since.at < clock
  /\ since' = [at |-> clock, granted |-> 0]
  /\ UNCHANGED <<clock, bucket, waiter, want, start, running, last_hot, resets>>

\* Time passes; past the bound only as far as a waiting call's deadline.
BucketTick ==
  /\ \/ clock < LastStart
     \/ \E c \in Waiters :
          waiter[c] \in {"loop", "refused", "asleep"} /\ clock <= start[c] + MaxWait
  /\ clock' = clock + 1
  /\ UNCHANGED <<bucket, waiter, want, start, running, since, last_hot, resets>>

BucketNext ==
  \/ \E n \in Requests : AcquireOnce(n)
  \/ \E c \in Waiters : \/ \E n \in Requests : Begin(c, n)
                        \/ TryGranted(c) \/ TryRefused(c) \/ TimesOut(c)
                        \/ Sleeps(c) \/ GivesUp(c) \/ Wakes(c)
  \/ Reset \/ Observe \/ BucketTick

BucketSpec == BucketInit /\ [][BucketNext]_bucket_vars

\* The clock moves and the event loop runs every ready task.
BucketLiveSpec ==
  /\ BucketSpec /\ WF_bucket_vars(BucketTick)
  /\ \A c \in Waiters :
       WF_bucket_vars(TryGranted(c) \/ TryRefused(c) \/ TimesOut(c) \/ Sleeps(c) \/ GivesUp(c))
       /\ SF_bucket_vars(Wakes(c))

-----------------------------------------------------------------------------
(* Properties                                                              *)

\* "Supports gradual refill and burst capacity" (TokenBucket): over any span of time,
\* from wherever an observer starts to count, the bucket grants at most one burst
\* and what was refilled meanwhile.
BurstBound == since.granted <= Capacity + Refilled(clock - since.at)

\* "Seconds to cooldown when critical" (COOLDOWN_DURATION): after a grant that left 10% or
\* less the next one is at least a cooldown later, whoever asks, unless reset() intervenes.
CooldownHolds ==
  [][since'.granted > since.granted /\ last_hot >= 0 => clock >= last_hot + Cooldown]_bucket_vars

\* Every call of acquire_or_wait() returns.
EveryCallReturns == \A c \in Waiters : waiter[c] = "loop" ~> waiter[c] \in {"granted", "gave_up"}

=============================================================================
