---------------------------- MODULE RateLimiter -----------------------------
(***************************************************************************)
(* The sliding-window limiter of src/src/security.py (RateLimiter with its *)
(* rate_limited() decorator), which orders and market analyses go through. *)
(*                                                                         *)
(* wait_if_needed() sleeps while it holds an asyncio.Lock, so the calls    *)
(* form a queue behind the one that sleeps; any of them may be cancelled.  *)
(* The clock is counted in ticks of time.monotonic().  Lag is the least    *)
(* number of ticks between the reading wait_time() takes and the one       *)
(* try_acquire() takes after the wait: 1 where the clock moves on with     *)
(* every reading, 0 where several readings fall into one tick (the 15 ms   *)
(* clock of Windows, for which the repository has a run.bat).              *)
(***************************************************************************)
EXTENDS Integers, Sequences

CONSTANTS Calls,       \* calls of functions decorated with one limiter
          MaxCalls,    \* max_calls
          TimeWindow,  \* time_window, in ticks
          Lag,
          NoCall,      \* nobody holds the lock
          MaxTime      \* bound: ticks during which calls arrive

ASSUME RateLimiterConstants ==
  /\ MaxCalls \in Nat \ {0}
  /\ TimeWindow \in Nat \ {0}
  /\ Lag \in Nat
  /\ MaxTime \in Nat
  /\ NoCall \notin Calls

VARIABLES
  now,     \* external: time.monotonic()
  stamps,  \* _timestamps
  queue,   \* calls waiting for _lock, in order
  holder,  \* the call that sleeps with _lock held
  until,   \* when its sleep ends
  pc,      \* "idle", "queued", "asleep", "through", "cancelled"
  log      \* when calls went through to the function, in order

vars == <<now, stamps, queue, holder, until, pc, log>>

TypeOK ==
  /\ now \in Nat
  /\ stamps \in Seq(Nat) /\ Len(stamps) <= MaxCalls
  /\ queue \in Seq(Calls)
  /\ holder \in Calls \cup {NoCall}
  /\ until \in Nat
  /\ pc \in [Calls -> {"idle", "queued", "asleep", "through", "cancelled"}]
  /\ log \in Seq(Nat)

Init ==
  /\ now = 0
  /\ stamps = << >>
  /\ queue = << >>
  /\ holder = NoCall
  /\ until = 0
  /\ pc = [c \in Calls |-> "idle"]
  /\ log = << >>

-----------------------------------------------------------------------------
(* RateLimiter                                                             *)

Old_Inclusive(s) == s <= now - TimeWindow + 1

\* A timestamp _clean_old_timestamps() removes: it is before the cutoff.
Old(s) == s < now - TimeWindow

\* _clean_old_timestamps() keeps the stamps from the k-th on.
FirstKept(k) ==
  /\ k \in 1..(Len(stamps) + 1)
  /\ \A i \in 1..(k - 1) : Old(stamps[i])
  /\ k <= Len(stamps) => ~Old(stamps[k])

Cleaned(k) == SubSeq(stamps, k, Len(stamps))

\* try_acquire(); wait_if_needed() ignores whether it succeeded.
TryAcquire(kept) == IF Len(kept) < MaxCalls THEN Append(kept, now) ELSE kept

\* The wait is over: the function runs and the lock is free.
GoThrough(c, kept) ==
  /\ stamps' = TryAcquire(kept)
  /\ log' = Append(log, now)
  /\ pc' = [pc EXCEPT ![c] = "through"]
  /\ holder' = NoCall
  /\ UNCHANGED until

WakeTime_Newest(kept) ==
  (IF kept[Len(kept)] + TimeWindow > now THEN kept[Len(kept)] + TimeWindow ELSE now) + Lag

\* When the sleep of wait_time() seconds ends.
WakeTime(kept) == (IF kept[1] + TimeWindow > now THEN kept[1] + TimeWindow ELSE now) + Lag

\* The body of wait_if_needed() from the moment the lock is held.
Locked(c) ==
  \E k \in 1..(Len(stamps) + 1) :
    /\ FirstKept(k)
    /\ \/ /\ Len(Cleaned(k)) < MaxCalls
          /\ GoThrough(c, Cleaned(k))
       \/ /\ Len(Cleaned(k)) >= MaxCalls
          /\ WakeTime(Cleaned(k)) <= now
          /\ GoThrough(c, Cleaned(k))
       \/ /\ Len(Cleaned(k)) >= MaxCalls
          /\ WakeTime(Cleaned(k)) > now
          /\ stamps' = Cleaned(k)
          /\ until' = WakeTime(Cleaned(k))
          /\ pc' = [pc EXCEPT ![c] = "asleep"]
          /\ holder' = c
          /\ UNCHANGED log

\* A decorated function is called: the lock is free, or the call queues for it.
Arrive(c) ==
  /\ now <= MaxTime
  /\ pc[c] = "idle"
  /\ \/ /\ holder = NoCall /\ queue = << >>
        /\ Locked(c)
        /\ UNCHANGED <<now, queue>>
     \/ /\ holder # NoCall \/ queue # << >>
        /\ queue' = Append(queue, c)
        /\ pc' = [pc EXCEPT ![c] = "queued"]
        /\ UNCHANGED <<now, stamps, holder, until, log>>

\* The first in the queue gets the lock.
TakeLock ==
  /\ holder = NoCall
  /\ queue # << >>
  /\ queue' = Tail(queue)
  /\ Locked(Head(queue))
  /\ UNCHANGED now

Wake(c) ==
  /\ holder = c
  /\ pc[c] = "asleep"
  /\ now >= until
  /\ \E k \in 1..(Len(stamps) + 1) : FirstKept(k) /\ GoThrough(c, Cleaned(k))
  /\ UNCHANGED <<now, queue>>

CancelAsleep_KeepsLock(c) ==
  /\ holder = c
  /\ pc[c] = "asleep"
  /\ pc' = [pc EXCEPT ![c] = "cancelled"]
  /\ UNCHANGED <<now, stamps, queue, holder, until, log>>

\* The task is cancelled in its sleep; `async with` frees the lock.
CancelAsleep(c) ==
  /\ holder = c
  /\ pc[c] = "asleep"
  /\ pc' = [pc EXCEPT ![c] = "cancelled"]
  /\ holder' = NoCall
  /\ UNCHANGED <<now, stamps, queue, until, log>>

CancelQueued(c) ==
  /\ pc[c] = "queued"
  /\ pc' = [pc EXCEPT ![c] = "cancelled"]
  /\ \E i \in 1..Len(queue) :
       /\ queue[i] = c
       /\ queue' = SubSeq(queue, 1, i - 1) \o SubSeq(queue, i + 1, Len(queue))
  /\ UNCHANGED <<now, stamps, holder, until, log>>

\* is_allowed(), which SecurityContext.pre_trade_checks() asks: it only cleans.
IsAllowed ==
  /\ \E k \in 1..(Len(stamps) + 1) : FirstKept(k) /\ stamps' = Cleaned(k)
  /\ UNCHANGED <<now, queue, holder, until, pc, log>>

\* Time passes; past the bound only while somebody sleeps.
Tick ==
  /\ now < MaxTime \/ (holder # NoCall /\ now < until)
  /\ now' = now + 1
  /\ UNCHANGED <<stamps, queue, holder, until, pc, log>>

Next ==
  \/ \E c \in Calls : Arrive(c) \/ Wake(c) \/ CancelAsleep(c) \/ CancelQueued(c)
  \/ TakeLock \/ IsAllowed \/ Tick

Spec == Init /\ [][Next]_vars

\* The clock moves, the event loop serves timers and freed locks.
LiveSpec == Spec /\ WF_vars(Tick) /\ WF_vars(TakeLock) /\ \A c \in Calls : WF_vars(Wake(c))

-----------------------------------------------------------------------------
(* Properties                                                              *)

\* "Maximum number of calls allowed in the time window" (RateLimiter.__init__): of
\* any MaxCalls + 1 successive calls the last goes through a window or more after
\* the first.
WindowBound ==
  \A i \in 1..(Len(log) - MaxCalls) : log[i + MaxCalls] - log[i] >= TimeWindow

\* A call sleeps only while the limit is really used up: the last MaxCalls calls went
\* through within the window that ends when the sleep began.
SleepIsJustified ==
  holder # NoCall =>
    /\ Len(log) >= MaxCalls
    /\ log[Len(log) - MaxCalls + 1] + TimeWindow + Lag = until

\* Both: no more than MaxCalls calls per window, and no sleep without need.
LimiterInv == WindowBound /\ SleepIsJustified

\* What callers see of the limiter: the clock and the calls it let through.
Window == INSTANCE SlidingWindow WITH grants <- log

\* Deque, lock, queue, sleep and cancellation implement the sliding window: whichever step lets
\* a call through, although wait_if_needed() ignores what try_acquire() answers after the sleep.
ImplementsWindow == [][Window!Next]_(Window!vars)

\* Nobody waits for ever behind the lock, whoever is cancelled while holding it.
EveryCallProceeds ==
  \A c \in Calls : pc[c] \in {"queued", "asleep"} ~> pc[c] \in {"through", "cancelled"}

=============================================================================
