--------------------------- MODULE LimiterProofs ----------------------------
(***************************************************************************)
(* The window bound of RateLimiter for any limit, window, number of calls  *)
(* and clock with Lag > 0; the burst bound and the cooldown of TokenBucket *)
(* for every capacity, rate, cooldown and number of callers.               *)
(*                                                                         *)
(* The window bound is not inductive: a call that goes through is compared *)
(* with one that left the deque long ago.  IInv adds that the deque is the *)
(* tail of the history and that what was dropped from it is older than a   *)
(* window.  SleepIsJustified is what makes try_acquire() succeed after the *)
(* sleep, although its result is ignored.  Both together make every step a *)
(* step of SlidingWindow, the abstract limiter.                            *)
(*                                                                         *)
(* Nor is the burst bound: what may still be granted counts too.           *)
(* Potential adds the tokens a refill would find now to the ones granted;  *)
(* a tick raises both sides by at most Rate, a grant moves tokens from one *)
(* summand to the other.                                                   *)
(***************************************************************************)
EXTENDS RateLimiter, TokenBucket, TLAPS

-----------------------------------------------------------------------------
(* The sliding window                                                      *)

\* The deque holds the last calls that went through.
Tailed ==
  /\ Len(stamps) <= Len(log)
  /\ \A i \in 1..Len(stamps) : stamps[i] = log[Len(log) - Len(stamps) + i]

\* The history is in order and what the deque has lost is out of the window.
Ordered ==
  /\ \A i \in 1..Len(log) : log[i] <= now
  /\ \A i \in 1..(Len(log) - Len(stamps)) : log[i] + TimeWindow < now

\* Inductive.
IInv == TypeOK /\ Tailed /\ Ordered /\ WindowBound /\ SleepIsJustified

\* What cleaning leaves: a deque with the same two facts, in which every stamp that
\* was not kept is old.
LEMMA CleanedFacts ==
  ASSUME IInv, NEW k \in 1..(Len(stamps) + 1), FirstKept(k), NEW kept, kept = Cleaned(k)
  PROVE  /\ kept \in Seq(Nat)
         /\ Len(kept) = Len(stamps) + 1 - k
         /\ Len(kept) <= MaxCalls /\ Len(kept) <= Len(log)
         /\ \A i \in 1..Len(kept) : kept[i] = log[Len(log) - Len(kept) + i]
         /\ \A i \in 1..(Len(log) - Len(kept)) : log[i] + TimeWindow < now
         /\ Len(kept) > 0 => ~(kept[1] + TimeWindow < now)
<1> USE RateLimiterConstants
<1>1. /\ stamps \in Seq(Nat) /\ log \in Seq(Nat) /\ now \in Nat
      /\ Len(stamps) \in Nat /\ Len(log) \in Nat /\ Len(stamps) <= Len(log)
  BY DEF IInv, TypeOK, Tailed
<1>2. kept \in Seq(Nat) /\ Len(kept) = Len(stamps) + 1 - k
  BY <1>1 DEF Cleaned
<1>3. \A i \in 1..Len(kept) : kept[i] = stamps[k + i - 1]
  BY <1>1, <1>2 DEF Cleaned
<1>4. Len(kept) <= MaxCalls /\ Len(kept) <= Len(log)
  BY <1>1, <1>2 DEF IInv, TypeOK
<1>5. \A i \in 1..Len(kept) : kept[i] = log[Len(log) - Len(kept) + i]
  BY <1>1, <1>2, <1>3 DEF IInv, Tailed
<1>6. ASSUME NEW i \in 1..(Len(log) - Len(kept)) PROVE log[i] + TimeWindow < now
  <2>1. CASE i <= Len(log) - Len(stamps)
    BY <1>1, <2>1 DEF IInv, Ordered
  <2>2. CASE i > Len(log) - Len(stamps)
    <3> DEFINE j == i - (Len(log) - Len(stamps))
    <3>1. j \in 1..(k - 1) /\ j \in 1..Len(stamps) /\ Len(log) - Len(stamps) + j = i
      BY <1>1, <1>2, <2>2
    <3>2. stamps[j] = log[i]
      BY <3>1 DEF IInv, Tailed
    <3> HIDE DEF j
    <3>3. stamps[j] \in Nat
      BY <1>1, <3>1
    <3>4. Old(stamps[j])
      BY <3>1 DEF FirstKept
    <3>5. log[i] \in Nat /\ log[i] < now - TimeWindow
      BY <3>2, <3>3, <3>4 DEF Old
    <3> QED BY <1>1, <3>5
  <2> QED BY <1>1, <1>2, <2>1, <2>2
<1>7. ASSUME Len(kept) > 0 PROVE ~(kept[1] + TimeWindow < now)
  <2>1. k \in 1..Len(stamps) /\ 1 \in 1..Len(kept) /\ k + 1 - 1 = k
    <3>1. Len(kept) = Len(stamps) + 1 - k /\ Len(stamps) \in Nat
      BY <1>1, <1>2
    <3> QED BY <1>7, <3>1
  <2>2. kept[1] = stamps[k]
    BY <1>3, <2>1
  <2>3. stamps[k] \in Nat
    BY <1>1, <2>1
  <2>4. ~Old(kept[1])
    BY <2>1, <2>2 DEF FirstKept
  <2> QED BY <1>1, <2>2, <2>3, <2>4 DEF Old
<1> QED BY <1>2, <1>4, <1>5, <1>6, <1>7

\* A call goes through: if the limit leaves room the new history keeps every fact.
LEMMA GoThroughFacts ==
  ASSUME IInv, NEW k \in 1..(Len(stamps) + 1), FirstKept(k), NEW c \in Calls,
         Len(Cleaned(k)) < MaxCalls, GoThrough(c, Cleaned(k)), now' = now,
         queue' \in Seq(Calls)
  PROVE  IInv'
<1> DEFINE kept == Cleaned(k)
<1> USE RateLimiterConstants
<1>1. /\ kept \in Seq(Nat)
      /\ Len(kept) <= MaxCalls /\ Len(kept) <= Len(log)
      /\ \A i \in 1..Len(kept) : kept[i] = log[Len(log) - Len(kept) + i]
      /\ \A i \in 1..(Len(log) - Len(kept)) : log[i] + TimeWindow < now
  BY CleanedFacts
<1>2. /\ stamps' = Append(kept, now)
      /\ log' = Append(log, now)
      /\ pc' = [pc EXCEPT ![c] = "through"]
      /\ holder' = NoCall /\ until' = until
  BY DEF GoThrough, TryAcquire
<1> HIDE DEF kept
<1>3. log \in Seq(Nat) /\ now \in Nat /\ Len(log) \in Nat /\ Len(kept) \in Nat
  BY <1>1 DEF IInv, TypeOK
<1>4. Len(kept) < MaxCalls
  BY DEF kept
<1>5. /\ Len(log') = Len(log) + 1 /\ Len(stamps') = Len(kept) + 1
      /\ log' \in Seq(Nat) /\ stamps' \in Seq(Nat)
      /\ log'[Len(log) + 1] = now /\ \A i \in 1..Len(log) : log'[i] = log[i]
      /\ stamps'[Len(kept) + 1] = now /\ \A i \in 1..Len(kept) : stamps'[i] = kept[i]
  BY <1>1, <1>2, <1>3
<1>a. Len(log') = Len(log) + 1 /\ Len(stamps') = Len(kept) + 1 /\ Len(kept) <= Len(log)
  BY <1>1, <1>5
<1>6. TypeOK'
  BY <1>2, <1>3, <1>4, <1>5 DEF IInv, TypeOK
<1>7. Tailed'
  <2> SUFFICES ASSUME NEW i \in 1..Len(stamps')
               PROVE  stamps'[i] = log'[Len(log') - Len(stamps') + i]
    BY <1>1, <1>3, <1>5 DEF Tailed
  <2> DEFINE j == Len(log) - Len(kept) + i
  <2>1. Len(log') - Len(stamps') + i = j /\ j \in 1..(Len(log) + 1)
    BY SMTT(30), <1>1, <1>3, <1>5
  <2>2. CASE i = Len(kept) + 1
    <3>1. j = Len(log) + 1
      BY <1>3, <2>2
    <3> QED BY <1>5, <2>1, <2>2, <3>1
  <2>3. CASE i \in 1..Len(kept)
    <3>1. j \in 1..Len(log)
      BY <1>1, <1>3, <2>3
    <3> HIDE DEF j
    <3>2. kept[i] = log[j]
      BY <1>1, <2>3 DEF j
    <3>3. stamps'[i] = kept[i] /\ log'[j] = log[j]
      BY <1>5, <2>3, <3>1
    <3> QED BY <2>1, <3>2, <3>3
  <2> QED BY <1>3, <1>5, <2>2, <2>3
<1>8. Ordered'
  <2>1. ASSUME NEW i \in 1..Len(log') PROVE log'[i] <= now'
    <3>1. CASE i = Len(log) + 1
      BY <1>3, <1>5, <3>1
    <3>2. CASE i \in 1..Len(log)
      <4>1. log'[i] = log[i] /\ log[i] <= now
        BY <1>5, <3>2 DEF IInv, Ordered
      <4> QED BY <4>1
    <3> QED BY <1>3, <1>5, <3>1, <3>2
  <2>2. ASSUME NEW i \in 1..(Len(log') - Len(stamps')) PROVE log'[i] + TimeWindow < now'
    <3>1. i \in 1..(Len(log) - Len(kept)) /\ i \in 1..Len(log)
      BY <1>3, <1>a
    <3>2. log'[i] = log[i] /\ log[i] + TimeWindow < now
      BY <1>1, <1>5, <3>1
    <3> QED BY <3>2
  <2> QED BY <2>1, <2>2 DEF Ordered
<1>9. WindowBound'
  <2> SUFFICES ASSUME NEW i \in 1..(Len(log') - MaxCalls)
               PROVE  log'[i + MaxCalls] - log'[i] >= TimeWindow
    BY DEF WindowBound
  <2> DEFINE j == i + MaxCalls
  <2>1. CASE j <= Len(log)
    <3>1. i \in 1..(Len(log) - MaxCalls) /\ i \in 1..Len(log) /\ j \in 1..Len(log)
      BY <1>3, <1>5, <2>1
    <3>2. log[j] - log[i] >= TimeWindow
      BY <3>1 DEF IInv, WindowBound
    <3> HIDE DEF j
    <3>3. log'[j] = log[j] /\ log'[i] = log[i]
      BY <1>5, <3>1
    <3> QED BY <3>2, <3>3 DEF j
  <2>2. CASE j = Len(log) + 1
    <3>1. i \in 1..(Len(log) - Len(kept)) /\ i \in 1..Len(log)
      BY <1>3, <1>4, <2>2
    <3> HIDE DEF j
    <3>2. log'[j] = now
      BY <1>5, <2>2
    <3>3. log'[i] = log[i] /\ log[i] + TimeWindow < now
      BY <1>1, <1>5, <3>1
    <3>4. log[i] \in Nat
      BY <1>3, <3>1
    <3>5. log'[j] - log'[i] >= TimeWindow
      BY SMTT(30), <1>3, <3>2, <3>3, <3>4
    <3> QED BY <3>5 DEF j
  <2>3. j <= Len(log) \/ j = Len(log) + 1
    <3>1. i \in 1..(Len(log) + 1 - MaxCalls)
      BY <1>a
    <3>2. Len(log) \in Nat /\ MaxCalls \in Nat
      BY <1>3
    <3>3. i + MaxCalls <= Len(log) + 1
      BY <3>1, <3>2
    <3> QED BY <3>1, <3>2, <3>3
  <2> QED BY <2>1, <2>2, <2>3
<1>10. SleepIsJustified'
  BY <1>2 DEF SleepIsJustified
<1> QED BY <1>6, <1>7, <1>8, <1>9, <1>10 DEF IInv

\* A call that gets the lock goes through or falls asleep over a full window.
LEMMA LockedFacts ==
  ASSUME IInv, Lag > 0, NEW c \in Calls, Locked(c), now' = now, queue' \in Seq(Calls)
  PROVE  IInv'
<1> USE RateLimiterConstants
<1>1. PICK k \in 1..(Len(stamps) + 1) :
        /\ FirstKept(k)
        /\ \/ Len(Cleaned(k)) < MaxCalls /\ GoThrough(c, Cleaned(k))
           \/ /\ Len(Cleaned(k)) >= MaxCalls
              /\ WakeTime(Cleaned(k)) <= now
           \/ /\ Len(Cleaned(k)) >= MaxCalls
              /\ stamps' = Cleaned(k)
              /\ until' = WakeTime(Cleaned(k))
              /\ pc' = [pc EXCEPT ![c] = "asleep"]
              /\ holder' = c
              /\ log' = log
  BY DEF Locked
<1> DEFINE kept == Cleaned(k)
<1>2. /\ kept \in Seq(Nat)
      /\ Len(kept) <= MaxCalls /\ Len(kept) <= Len(log)
      /\ \A i \in 1..Len(kept) : kept[i] = log[Len(log) - Len(kept) + i]
      /\ \A i \in 1..(Len(log) - Len(kept)) : log[i] + TimeWindow < now
      /\ Len(kept) > 0 => ~(kept[1] + TimeWindow < now)
  BY <1>1, CleanedFacts
<1>3. log \in Seq(Nat) /\ now \in Nat /\ Len(log) \in Nat /\ Len(kept) \in Nat
  BY <1>2 DEF IInv, TypeOK
<1>4. CASE Len(kept) < MaxCalls /\ GoThrough(c, kept)
  BY <1>1, <1>4, GoThroughFacts
<1>5. ASSUME Len(kept) >= MaxCalls
      PROVE  /\ Len(kept) = MaxCalls /\ kept[1] \in Nat
             /\ WakeTime(kept) = kept[1] + TimeWindow + Lag
             /\ WakeTime(kept) > now
  <2> HIDE DEF kept
  <2>1. Len(kept) = MaxCalls /\ kept[1] \in Nat
    <3>1. Len(kept) = MaxCalls /\ 1 \in 1..Len(kept)
      BY <1>2, <1>3, <1>5
    <3> QED BY <1>2, <3>1
  <2>2. kept[1] + TimeWindow >= now
    <3>1. Len(kept) > 0 /\ ~(kept[1] + TimeWindow < now)
      BY <1>2, <2>1
    <3> QED BY <1>3, <2>1, <3>1
  <2> QED BY SMTT(30), <1>3, <2>1, <2>2 DEF WakeTime
<1>6. CASE /\ Len(kept) >= MaxCalls
           /\ stamps' = kept
           /\ until' = WakeTime(kept)
           /\ pc' = [pc EXCEPT ![c] = "asleep"]
           /\ holder' = c
           /\ log' = log
  <2> HIDE DEF kept
  <2>0. until' \in Nat
    <3>1. until' = kept[1] + TimeWindow + Lag /\ kept[1] \in Nat
      BY <1>5, <1>6
    <3> QED BY <3>1
  <2>1. TypeOK'
    BY <1>2, <1>6, <2>0 DEF IInv, TypeOK
  <2>2. Tailed' /\ Ordered' /\ WindowBound'
    BY <1>2, <1>3, <1>6 DEF IInv, Tailed, Ordered, WindowBound
  <2>3. SleepIsJustified'
    <3>0. Len(kept) = MaxCalls
      BY <1>5, <1>6
    <3>1. kept[1] = log[Len(log) - MaxCalls + 1] /\ Len(log) >= MaxCalls
      BY <1>2, <1>3, <3>0
    <3> QED BY <1>5, <1>6, <3>1 DEF SleepIsJustified
  <2> QED BY <2>1, <2>2, <2>3 DEF IInv
<1> QED BY <1>1, <1>3, <1>4, <1>5, <1>6

\* After the sleep there is room again: the deque has lost the stamp the sleep was for.
LEMMA WakeFacts ==
  ASSUME IInv, Lag > 0, NEW c \in Calls, Wake(c)
  PROVE  IInv'
<1> USE RateLimiterConstants
<1>1. PICK k \in 1..(Len(stamps) + 1) : FirstKept(k) /\ GoThrough(c, Cleaned(k))
  BY DEF Wake
<1> DEFINE kept == Cleaned(k)
<1>2. /\ kept \in Seq(Nat)
      /\ Len(kept) <= MaxCalls /\ Len(kept) <= Len(log)
      /\ \A i \in 1..Len(kept) : kept[i] = log[Len(log) - Len(kept) + i]
      /\ Len(kept) > 0 => ~(kept[1] + TimeWindow < now)
  BY <1>1, CleanedFacts
<1>3. log \in Seq(Nat) /\ now \in Nat /\ Len(log) \in Nat /\ Len(kept) \in Nat /\ until \in Nat
  BY <1>2 DEF IInv, TypeOK
<1>4. /\ Len(log) >= MaxCalls
      /\ log[Len(log) - MaxCalls + 1] + TimeWindow + Lag = until /\ now >= until
  BY DEF IInv, SleepIsJustified, Wake
<1>5. Len(kept) < MaxCalls
  <2> HIDE DEF kept
  <2> SUFFICES ASSUME Len(kept) = MaxCalls PROVE FALSE
    BY <1>2, <1>3
  <2>1. kept[1] = log[Len(log) - MaxCalls + 1] /\ kept[1] \in Nat
    BY <1>2, <1>3
  <2> QED BY SMTT(30), <1>2, <1>3, <1>4, <2>1
<1>6. now' = now /\ queue' = queue /\ queue \in Seq(Calls)
  BY DEF Wake, IInv, TypeOK
<1> QED BY <1>1, <1>5, <1>6, GoThroughFacts

\* Every step of the limiter keeps the invariant.
LEMMA StepKeepsIInv ==
  ASSUME IInv, Lag > 0, [Next]_vars
  PROVE  IInv'
<1> USE RateLimiterConstants
<1> USE DEF IInv
<1>1. ASSUME NEW c \in Calls, Arrive(c) PROVE IInv'
  <2>1. CASE Locked(c) /\ UNCHANGED <<now, queue>>
    BY <2>1, LockedFacts DEF TypeOK
  <2>2. CASE /\ queue' = Append(queue, c)
             /\ pc' = [pc EXCEPT ![c] = "queued"]
             /\ UNCHANGED <<now, stamps, holder, until, log>>
    BY <2>2 DEF TypeOK, Tailed, Ordered, WindowBound, SleepIsJustified
  <2> QED BY <1>1, <2>1, <2>2 DEF Arrive
<1>2. ASSUME NEW c \in Calls, Wake(c) PROVE IInv'
  BY <1>2, WakeFacts
<1>3. ASSUME NEW c \in Calls, CancelAsleep(c) PROVE IInv'
  BY <1>3 DEF CancelAsleep, TypeOK, Tailed, Ordered, WindowBound, SleepIsJustified
<1>4. ASSUME NEW c \in Calls, CancelQueued(c) PROVE IInv'
  <2>1. PICK i \in 1..Len(queue) :
          queue' = SubSeq(queue, 1, i - 1) \o SubSeq(queue, i + 1, Len(queue))
    BY <1>4 DEF CancelQueued
  <2>2. queue \in Seq(Calls) /\ Len(queue) \in Nat
    BY DEF TypeOK
  <2>3. SubSeq(queue, 1, i - 1) \in Seq(Calls)
    BY <2>2
  <2>4. SubSeq(queue, i + 1, Len(queue)) \in Seq(Calls)
    BY <2>2
  <2>5. queue' \in Seq(Calls)
    BY <2>1, <2>3, <2>4
  <2> QED BY <1>4, <2>5
          DEF CancelQueued, TypeOK, Tailed, Ordered, WindowBound, SleepIsJustified
<1>5. CASE TakeLock
  <2>1. Head(queue) \in Calls /\ Tail(queue) \in Seq(Calls)
    BY <1>5 DEF TakeLock, TypeOK
  <2> QED BY <1>5, <2>1, LockedFacts DEF TakeLock
<1>6. CASE IsAllowed
  <2>1. PICK k \in 1..(Len(stamps) + 1) : FirstKept(k) /\ stamps' = Cleaned(k)
    BY <1>6 DEF IsAllowed
  <2>2. UNCHANGED <<now, queue, holder, until, pc, log>>
    BY <1>6 DEF IsAllowed
  <2>3. /\ stamps' \in Seq(Nat)
        /\ Len(stamps') <= MaxCalls /\ Len(stamps') <= Len(log)
        /\ \A i \in 1..Len(stamps') : stamps'[i] = log[Len(log) - Len(stamps') + i]
        /\ \A i \in 1..(Len(log) - Len(stamps')) : log[i] + TimeWindow < now
    BY SMTT(30), <2>1, CleanedFacts
  <2> QED BY <2>2, <2>3 DEF TypeOK, Tailed, Ordered, WindowBound, SleepIsJustified
<1>7. CASE Tick
  BY <1>7 DEF Tick, TypeOK, Tailed, Ordered, WindowBound, SleepIsJustified
<1>8. CASE UNCHANGED vars
  BY <1>8 DEF vars, TypeOK, Tailed, Ordered, WindowBound, SleepIsJustified
<1> QED BY <1>1, <1>2, <1>3, <1>4, <1>5, <1>6, <1>7, <1>8 DEF Next

\* The invariant holds in every reachable state, if the clock moves between two readings.
LEMMA IInvIsInvariant ==
  ASSUME Lag > 0
  PROVE  Spec => []IInv
<1>1. Init => IInv
  BY RateLimiterConstants
     DEF Init, IInv, TypeOK, Tailed, Ordered, WindowBound, SleepIsJustified
<1>2. IInv /\ [Next]_vars => IInv'
  BY StepKeepsIInv
<1> QED BY <1>1, <1>2, PTL DEF Spec

\* Whatever moves the limiter, its callers see time pass, one call let through, or nothing.
LEMMA StepsCallersSee ==
  ASSUME IInv, [Next]_vars
  PROVE  \/ log' = log /\ now' = now
         \/ log' = Append(log, now) /\ now' = now
         \/ log' = log /\ now' > now
<1> DEFINE Seen == \/ log' = log /\ now' = now
                   \/ log' = Append(log, now) /\ now' = now
                   \/ log' = log /\ now' > now
<1>1. ASSUME NEW c \in Calls, Locked(c), now' = now PROVE Seen
  BY <1>1 DEF Locked, GoThrough
<1>2. ASSUME NEW c \in Calls, Arrive(c) PROVE Seen
  BY <1>1, <1>2 DEF Arrive
<1>3. ASSUME NEW c \in Calls, Wake(c) PROVE Seen
  BY <1>3 DEF Wake, GoThrough
<1>4. ASSUME NEW c \in Calls, CancelAsleep(c) \/ CancelQueued(c) PROVE Seen
  BY <1>4 DEF CancelAsleep, CancelQueued
<1>5. CASE TakeLock
  <2>1. Head(queue) \in Calls
    BY <1>5 DEF TakeLock, IInv, TypeOK
  <2> QED BY <1>1, <1>5, <2>1 DEF TakeLock
<1>6. CASE IsAllowed
  BY <1>6 DEF IsAllowed
<1>7. CASE Tick
  <2>1. now \in Nat /\ log' = log /\ now' = now + 1
    BY <1>7 DEF Tick, IInv, TypeOK
  <2> QED BY <2>1
<1>8. CASE UNCHANGED vars
  BY <1>8 DEF vars
<1> QED BY <1>2, <1>3, <1>4, <1>5, <1>6, <1>7, <1>8 DEF Next

\* A call let through found room in the abstract window: the bound holds after it too.
LEMMA GrantFoundRoom ==
  ASSUME IInv, WindowBound', log' = Append(log, now), now' = now
  PROVE  Window!Grant
<1> USE RateLimiterConstants
<1>1. log \in Seq(Nat) /\ now \in Nat /\ Len(log) \in Nat
  BY DEF IInv, TypeOK
<1>2. ASSUME Len(log) >= MaxCalls
      PROVE  log[Len(log) - MaxCalls + 1] + TimeWindow <= now
  <2> DEFINE i == Len(log) - MaxCalls + 1
  <2>1. i \in 1..Len(log) /\ i + MaxCalls = Len(log) + 1
    BY <1>1, <1>2
  <2>2. Len(log') = Len(log) + 1 /\ i \in 1..(Len(log') - MaxCalls)
    BY <1>1, <2>1
  <2>3. log'[i + MaxCalls] - log'[i] >= TimeWindow
    BY <2>2 DEF WindowBound
  <2> HIDE DEF i
  <2>4. log'[Len(log) + 1] = now /\ log'[i] = log[i] /\ log[i] \in Nat
    BY <1>1, <2>1
  <2>5. log[i] + TimeWindow <= now
    BY <1>1, <2>1, <2>3, <2>4
  <2> QED BY <2>5 DEF i
<1> QED BY <1>2 DEF Window!Grant, Window!HasRoom

\* On a clock that moves between two readings the limiter keeps its promise: no
\* MaxCalls + 1 calls within a window, and nobody sleeps without need.
THEOREM RateLimiterSafety ==
  ASSUME Lag > 0
  PROVE  Spec => [](TypeOK /\ LimiterInv)
<1>1. IInv => TypeOK /\ LimiterInv
  BY DEF IInv, LimiterInv
<1> QED BY <1>1, IInvIsInvariant, PTL

\* And it implements the sliding window its callers are promised: wait_if_needed(), is_allowed()
\* and every cancellation are a grant with room, the passing of time, or nothing to them.
THEOREM RateLimiterImplementsWindow ==
  ASSUME Lag > 0
  PROVE  Spec => Window!Init /\ ImplementsWindow
<1>1. Init => Window!Init
  BY DEF Init, Window!Init
<1>2. ASSUME IInv, IInv', [Next]_vars PROVE [Window!Next]_(Window!vars)
  <2>1. CASE log' = log /\ now' = now
    BY <2>1 DEF Window!vars
  <2>2. CASE log' = Append(log, now) /\ now' = now
    BY <1>2, <2>2, GrantFoundRoom DEF IInv, Window!Next
  <2>3. CASE log' = log /\ now' > now
    BY <2>3 DEF Window!Next, Window!Pass
  <2> QED BY <1>2, <2>1, <2>2, <2>3, StepsCallersSee
<1> QED BY <1>1, <1>2, IInvIsInvariant, PTL DEF Spec, ImplementsWindow

-----------------------------------------------------------------------------
(* The token bucket                                                        *)


\* Granted so far and available now, together within the bound.
Potential == since.granted + Refill <= Capacity + Refilled(clock - since.at)

\* After a grant that left 10% or less the cooldown is over, or still on.
HotCools ==
  last_hot >= 0 =>
    clock >= last_hot + Cooldown \/ (cooling = "yes" /\ cooldown_end = last_hot + Cooldown)

\* Inductive.
BucketIInv == BucketTypeOK /\ Potential /\ HotCools

\* The little arithmetic of products the proofs need.
LEMMA RateTimes ==
  /\ Refilled(0) = 0
  /\ \A a \in Nat : Refilled(a) \in Nat /\ Refilled(a + 1) = Refilled(a) + Rate
BY TokenBucketConstants DEF Refilled

\* A refill finds between 0 and Capacity tokens.
LEMMA RefillType ==
  ASSUME BucketTypeOK PROVE Refill \in 0..Capacity
<1> USE TokenBucketConstants
<1>1. clock - last_refill \in Nat /\ tokens \in 0..Capacity
  BY DEF BucketTypeOK
<1>2. Refilled(clock - last_refill) \in Nat
  BY <1>1, RateTimes
<1> QED BY <1>1, <1>2, TokenBucketConstants DEF Refill

\* Right after _refill() the bucket holds what a refill would find.
LEMMA RefillFresh ==
  ASSUME BucketTypeOK, clock' = clock, last_refill' = clock, tokens' \in 0..Capacity
  PROVE  Refill' = tokens'
<1> USE TokenBucketConstants
<1>1. clock' - last_refill' = 0
  BY DEF BucketTypeOK
<1>2. Refilled(clock' - last_refill') = 0
  BY <1>1, RateTimes
<1> QED BY <1>2, TokenBucketConstants DEF Refill

\* A step of the bucket that refills it and grants nothing.
LEMMA RefillStep ==
  ASSUME BucketIInv, clock' = clock, last_refill' = clock, tokens' = Refill, since' = since
  PROVE  Potential' /\ tokens' \in 0..Capacity
<1> USE TokenBucketConstants
<1>1. tokens' \in 0..Capacity
  BY RefillType DEF BucketIInv
<1>2. Refill' = Refill
  BY <1>1, RefillFresh DEF BucketIInv
<1> QED BY <1>1, <1>2 DEF BucketIInv, Potential

\* A grant keeps the invariant, whoever asked for the tokens.
LEMMA GrantStep ==
  ASSUME BucketIInv, NEW n \in Nat, AcquireGranted(n), Granted(n), clock' = clock
  PROVE  /\ Potential' /\ HotCools' /\ tokens' \in 0..Capacity /\ last_refill' = clock
         /\ cooling' \in {"yes", "no"} /\ cooldown_end' \in Nat
         /\ since' \in [at : 0..clock, granted : Nat] /\ last_hot' \in Nat \cup {-1}
<1> USE TokenBucketConstants
<1>1. Refill \in 0..Capacity /\ clock \in Nat /\ since \in [at : 0..clock, granted : Nat]
  BY RefillType DEF BucketIInv, BucketTypeOK
<1>2. /\ Refill >= n /\ tokens' = Refill - n /\ last_refill' = clock
      /\ since' = [since EXCEPT !.granted = @ + n]
  BY DEF AcquireGranted, Granted
<1>3. tokens' \in 0..Capacity
  BY <1>1, <1>2
<1>4. Refill' = Refill - n
  BY <1>2, <1>3, RefillFresh DEF BucketIInv
<1>5. since'.granted = since.granted + n /\ since'.at = since.at
      /\ since' \in [at : 0..clock, granted : Nat]
  BY <1>1, <1>2
<1>6. Refilled(clock - since.at) \in Nat
  BY <1>1, RateTimes
<1>7. since.granted + Refill <= Capacity + Refilled(clock - since.at)
  BY DEF BucketIInv, Potential
<1>8. Potential'
  <2>1. since'.granted + Refill' = since.granted + Refill
    BY <1>1, <1>4, <1>5
  <2> QED BY <1>5, <1>7, <2>1 DEF Potential
<1>9. HotCools'
  <2>1. CASE Critical(Refill - n)
    BY <1>1, <2>1 DEF HotCools, AcquireGranted, Granted
  <2>2. CASE ~Critical(Refill - n)
    BY <1>1, <2>2 DEF HotCools, AcquireGranted, Granted, StillCooling, BucketIInv, BucketTypeOK
  <2> QED BY <2>1, <2>2
<1> QED BY <1>1, <1>2, <1>3, <1>5, <1>8, <1>9 DEF AcquireGranted, Granted, BucketIInv, BucketTypeOK

\* A refused acquire(), or wait_for_tokens(): at most a refill and the end of a cooldown.
LEMMA QuietStep ==
  ASSUME BucketIInv, clock' = clock, since' = since, last_hot' = last_hot,
         (StillCooling /\ UNCHANGED bucket)
         \/ (/\ ~StillCooling /\ tokens' = Refill /\ last_refill' = clock
             /\ cooling' = "no" /\ cooldown_end' = 0)
  PROVE  /\ Potential' /\ HotCools' /\ tokens' \in 0..Capacity /\ last_refill' \in 0..clock
         /\ cooling' \in {"yes", "no"} /\ cooldown_end' \in Nat
<1> USE TokenBucketConstants
<1>1. CASE UNCHANGED bucket
  <2>1. Refill' = Refill
    BY <1>1 DEF Refill, bucket
  <2> QED BY <1>1, <2>1 DEF BucketIInv, BucketTypeOK, Potential, HotCools, bucket
<1>2. CASE /\ ~StillCooling /\ tokens' = Refill /\ last_refill' = clock
           /\ cooling' = "no" /\ cooldown_end' = 0
  <2>1. Potential' /\ tokens' \in 0..Capacity
    BY <1>2, RefillStep
  <2>2. HotCools'
    BY <1>2 DEF BucketIInv, BucketTypeOK, HotCools, StillCooling
  <2> QED BY <1>2, <2>1, <2>2 DEF BucketIInv, BucketTypeOK
<1> QED BY <1>1, <1>2

\* Steps that leave the bucket and the clock alone.
LEMMA IdleStep ==
  ASSUME BucketIInv, clock' = clock, since' = since, last_hot' = last_hot, UNCHANGED bucket
  PROVE  Potential' /\ HotCools'
<1> USE TokenBucketConstants
<1>1. Refill' = Refill
  BY DEF Refill, bucket
<1> QED BY <1>1 DEF BucketIInv, Potential, HotCools, bucket

\* The invariant holds initially and every step keeps it.
LEMMA Inductive ==
  (BucketInit => BucketIInv) /\ (BucketIInv /\ [BucketNext]_bucket_vars => BucketIInv')
<1> USE TokenBucketConstants
<1>1. BucketInit => BucketIInv
  <2> SUFFICES ASSUME BucketInit PROVE BucketIInv
    OBVIOUS
  <2>1. BucketTypeOK
    BY DEF BucketInit, BucketTypeOK
  <2>2. Refilled(clock - last_refill) = 0 /\ Refilled(clock - since.at) = 0
    BY RateTimes DEF BucketInit
  <2> QED BY <2>1, <2>2 DEF BucketInit, BucketIInv, Potential, HotCools, Refill
<1>2. BucketIInv /\ [BucketNext]_bucket_vars => BucketIInv'
  <2> SUFFICES ASSUME BucketIInv, [BucketNext]_bucket_vars PROVE BucketIInv'
    OBVIOUS
  <2>0. BucketTypeOK
    BY DEF BucketIInv
  <2>1. ASSUME NEW n \in Requests, AcquireOnce(n) PROVE BucketIInv'
    <3>1. CASE (AcquireCooling \/ AcquireShort(n)) /\ UNCHANGED <<since, last_hot>>
      BY <2>0, <2>1, <3>1, QuietStep
         DEF AcquireOnce, AcquireCooling, AcquireShort, BucketIInv, BucketTypeOK
    <3>2. CASE AcquireGranted(n) /\ Granted(n)
      BY <2>0, <2>1, <3>2, GrantStep DEF AcquireOnce, BucketIInv, BucketTypeOK
    <3> QED BY <2>1, <3>1, <3>2 DEF AcquireOnce
  <2>2. ASSUME NEW c \in Waiters, NEW n \in Requests, Begin(c, n) PROVE BucketIInv'
    <3>1. Potential' /\ HotCools'
      BY <2>2, IdleStep DEF Begin
    <3> QED BY <2>0, <2>2, <3>1 DEF Begin, bucket, BucketIInv, BucketTypeOK
  <2>3. ASSUME NEW c \in Waiters, TryGranted(c) PROVE BucketIInv'
    <3>1. want[c] \in Nat
      <4>1. want[c] \in Requests \/ want[c] = 0
        BY <2>0 DEF BucketTypeOK
      <4>2. CASE want[c] \in Requests
        <5>1. Requests \subseteq Nat
          OBVIOUS
        <5> QED BY <4>2, <5>1, Zenon
      <4>3. CASE want[c] = 0
        BY <4>3
      <4> QED BY <4>1, <4>2, <4>3, Zenon
    <3> QED BY <2>0, <2>3, <3>1, GrantStep DEF TryGranted, BucketIInv, BucketTypeOK
  <2>4. ASSUME NEW c \in Waiters, TryRefused(c) PROVE BucketIInv'
    BY <2>0, <2>4, QuietStep DEF TryRefused, AcquireCooling, AcquireShort, BucketIInv, BucketTypeOK
  <2>5. ASSUME NEW c \in Waiters, TimesOut(c) PROVE BucketIInv'
    <3>1. Potential' /\ HotCools'
      BY <2>5, IdleStep DEF TimesOut
    <3> QED BY <2>0, <2>5, <3>1 DEF TimesOut, bucket, BucketIInv, BucketTypeOK
  <2>6. ASSUME NEW c \in Waiters, Sleeps(c) \/ GivesUp(c) PROVE BucketIInv'
    <3>1. /\ Recomputed /\ UNCHANGED <<clock, want, start, since, last_hot, resets>>
          /\ running' = NoWaiter
          /\ waiter' \in [Waiters -> {"idle", "loop", "refused", "asleep", "granted", "gave_up"}]
      BY <2>0, <2>6 DEF Sleeps, GivesUp, BucketTypeOK
    <3> QED BY <2>0, <3>1, QuietStep DEF Recomputed, BucketIInv, BucketTypeOK
  <2>7. ASSUME NEW c \in Waiters, Wakes(c) PROVE BucketIInv'
    <3>1. Potential' /\ HotCools'
      BY <2>7, IdleStep DEF Wakes
    <3> QED BY <2>0, <2>7, <3>1 DEF Wakes, bucket, BucketIInv, BucketTypeOK
  <2>8. CASE Reset
    <3>1. BucketTypeOK'
      BY <2>0, <2>8 DEF Reset, BucketTypeOK
    <3>2. Refill' = Capacity
      BY <2>0, <2>8, RefillFresh DEF Reset
    <3>3. Refilled(clock' - since'.at) = 0
      BY <2>0, <2>8, RateTimes DEF Reset, BucketTypeOK
    <3>4. since'.granted = 0 /\ last_hot' = -1
      BY <2>8 DEF Reset
    <3> QED BY <3>1, <3>2, <3>3, <3>4 DEF BucketIInv, Potential, HotCools
  <2>9. CASE Observe
    <3>1. BucketTypeOK'
      BY <2>0, <2>9 DEF Observe, BucketTypeOK, bucket
    <3>2. Refill' = Refill /\ Refill \in 0..Capacity
      BY <2>0, <2>9, RefillType DEF Observe, Refill, bucket
    <3>3. Refilled(clock' - since'.at) = 0
      BY <2>0, <2>9, RateTimes DEF Observe, BucketTypeOK
    <3>4. since'.granted = 0
      BY <2>9 DEF Observe
    <3>5. HotCools'
      BY <2>9 DEF Observe, BucketIInv, HotCools, bucket
    <3> QED BY <3>1, <3>2, <3>3, <3>4, <3>5 DEF BucketIInv, Potential
  <2>10. CASE BucketTick
    <3>1. /\ clock' = clock + 1 /\ clock \in Nat
          /\ clock - last_refill \in Nat /\ clock - since.at \in Nat
          /\ since \in [at : 0..clock, granted : Nat] /\ tokens \in 0..Capacity
      BY <2>0, <2>10 DEF BucketTick, BucketTypeOK
    <3>2. UNCHANGED <<tokens, last_refill, cooling, cooldown_end, waiter, want, start, running,
                      since, last_hot, resets>>
      BY <2>10 DEF BucketTick, bucket
    <3>3. BucketTypeOK'
      BY <2>0, <3>1, <3>2 DEF BucketTypeOK
    <3>4. /\ clock' - last_refill' = (clock - last_refill) + 1
          /\ clock' - since'.at = (clock - since.at) + 1
      BY <2>0, <3>1, <3>2 DEF BucketTypeOK
    <3>5. /\ Refilled(clock' - last_refill') = Refilled(clock - last_refill) + Rate
          /\ Refilled(clock' - since'.at) = Refilled(clock - since.at) + Rate
          /\ Refilled(clock - last_refill) \in Nat /\ Refilled(clock - since.at) \in Nat
      BY <3>1, <3>4, RateTimes
    <3>6. Refill' <= Refill + Rate /\ Refill \in Nat /\ Refill' \in Nat
      BY <3>1, <3>2, <3>5 DEF Refill
    <3>7. Potential'
      BY <3>1, <3>2, <3>5, <3>6 DEF BucketIInv, Potential
    <3>8. HotCools'
      BY <2>0, <3>1, <3>2 DEF BucketIInv, HotCools, BucketTypeOK
    <3> QED BY <3>3, <3>7, <3>8 DEF BucketIInv
  <2>11. CASE UNCHANGED bucket_vars
    <3>1. Potential' /\ HotCools'
      BY <2>11, IdleStep DEF bucket_vars, bucket
    <3> QED BY <2>0, <2>11, <3>1 DEF bucket_vars, BucketIInv, BucketTypeOK
  <2> QED BY <2>1, <2>2, <2>3, <2>4, <2>5, <2>6, <2>7, <2>8, <2>9, <2>10, <2>11 DEF BucketNext
<1> QED BY <1>1, <1>2

\* However callers, waits, resets and idle times interleave, no span of time sees more
\* than a burst and its refill granted.
THEOREM TokenBucketSafety == BucketSpec => [](BucketTypeOK /\ BurstBound)
<1>1. BucketIInv => BucketTypeOK /\ BurstBound
  <2> SUFFICES ASSUME BucketIInv PROVE BurstBound
    BY DEF BucketIInv
  <2> USE TokenBucketConstants
  <2>1. Refill \in Nat /\ since.granted \in Nat /\ clock - since.at \in Nat
    BY RefillType DEF BucketIInv, BucketTypeOK
  <2>2. Refilled(clock - since.at) \in Nat
    BY <2>1, RateTimes
  <2> QED BY <2>1, <2>2 DEF BucketIInv, Potential, BurstBound
<1> QED BY <1>1, Inductive, PTL DEF BucketSpec

\* No caller, waiting or not, gets tokens while a cooldown lasts.
THEOREM TokenBucketCooldown == BucketSpec => CooldownHolds
<1> USE TokenBucketConstants
<1>1. BucketIInv /\ [BucketNext]_bucket_vars => (since'.granted > since.granted /\ last_hot >= 0
                               => clock >= last_hot + Cooldown)
  <2> SUFFICES ASSUME BucketIInv, [BucketNext]_bucket_vars,
                      since'.granted > since.granted, last_hot >= 0
               PROVE  clock >= last_hot + Cooldown
    OBVIOUS
  <2>0. since.granted \in Nat
    BY DEF BucketIInv, BucketTypeOK
  <2>1. ~StillCooling
    <3>1. since' # since
      BY <2>0
    <3>2. CASE \E n \in Requests : AcquireOnce(n)
      BY <3>1, <3>2 DEF AcquireOnce, AcquireGranted
    <3>3. CASE \E c \in Waiters : TryGranted(c)
      BY <3>3 DEF TryGranted, AcquireGranted
    <3>4. CASE Reset \/ Observe
      <4>1. since'.granted = 0
        BY <3>4 DEF Reset, Observe
      <4> QED BY <2>0, <4>1
    <3>5. ASSUME NEW c \in Waiters,
                 \/ \E n \in Requests : Begin(c, n)
                 \/ TryRefused(c) \/ TimesOut(c) \/ Sleeps(c) \/ GivesUp(c) \/ Wakes(c)
          PROVE  FALSE
      BY <3>1, <3>5 DEF Begin, TryRefused, TimesOut, Sleeps, GivesUp, Wakes
    <3>6. CASE BucketTick \/ UNCHANGED bucket_vars
      BY <3>1, <3>6 DEF BucketTick, bucket_vars
    <3> QED BY <3>2, <3>3, <3>4, <3>5, <3>6 DEF BucketNext
  <2> QED BY <2>1 DEF BucketIInv, BucketTypeOK, HotCools, StillCooling
<1> QED BY <1>1, Inductive, PTL DEF BucketSpec, CooldownHolds
=============================================================================
