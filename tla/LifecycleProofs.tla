-------------------------- MODULE LifecycleProofs ---------------------------
(***************************************************************************)
(* The loops that trade, and how they end.                                 *)
(*                                                                         *)
(* Orchestrator, for every set of services, every platform and any number  *)
(* of monitors: the cleanup keeps its order and leaves nothing running.    *)
(*                                                                         *)
(* Executor, for any number of calls and retries: a counted trade was      *)
(* really filled, a call that learns of its fills fills once, exactly when *)
(* it reports it, and nothing is posted after close().                     *)
(*                                                                         *)
(* AssetLoop, for any assets, markets, intervals and durations of a scan:  *)
(* the loops act on fresh lists, come back from every backoff, and         *)
(* subscribe to no expired market.  A cached list is stamped with the time *)
(* its scan began, so it is younger than its stamp says, whichever loop    *)
(* scanned it and however long (Stamped); this is what makes the check     *)
(* against the TTL safe.                                                   *)
(***************************************************************************)
EXTENDS Orchestrator, Executor, AssetLoop, TLAPS

-----------------------------------------------------------------------------
(* Orchestrator                                                            *)


\* Inductive: only a pending loop is in an iteration, and after the cancellation
\* of asyncio.run() nothing is merely running.
LoopsArePending == \A s \in busy : status[s] \notin Ended

\* After the loop has drained, no service is merely running.
DrainedIsCancelled ==
  phase \in {"draining", "exited"} => \A s \in Services : status[s] # "running"

\* Nothing is left at the exit.
ExitedIsEmpty ==
  phase = "exited" => monitors = 0 /\ \A s \in Services : status[s] \in Ended

\* Inductive.
OrchestratorInv ==
  TypeOK /\ CleanupOrder /\ LoopsArePending /\ DrainedIsCancelled /\ ExitedIsEmpty

\* The initial state satisfies the inductive invariant.
LEMMA OrchestratorInit == Init => OrchestratorInv
<1> SUFFICES ASSUME Init PROVE OrchestratorInv
  OBVIOUS
<1>1. TypeOK
  BY OrchestratorConstants DEF Init, TypeOK, YesNo, Ended, CleanupPhases
<1>2. CleanupOrder /\ LoopsArePending /\ DrainedIsCancelled /\ ExitedIsEmpty
  BY DEF Init, CleanupOrder, LoopsArePending, DrainedIsCancelled, ExitedIsEmpty
<1> QED
  BY <1>1, <1>2 DEF OrchestratorInv

\* The end of a service, by whatever cause, keeps the invariant.
LEMMA EndKeepsInv ==
  ASSUME OrchestratorInv, NEW s \in Services, Pending(s),
         NEW result \in Ended, NEW first \in BOOLEAN,
         End(s, result, first), monitors' \in 0..MaxMonitors,
         UNCHANGED <<handles, shutdown, closed, cleanup_error>>
  PROVE  OrchestratorInv'
<1> USE OrchestratorConstants DEF OrchestratorInv, TypeOK, YesNo, Ended
<1>1. phase \notin {"exited"}
  BY DEF ExitedIsEmpty, Pending
<1>2. \/ phase = "gather" /\ phase' = "stop_terminal" /\ running' = "no"
      \/ phase' = phase /\ running' = running
  BY DEF End, Finally
<1>3. TypeOK'
  BY <1>2 DEF End, CleanupPhases
<1>4. CleanupOrder'
  BY <1>1, <1>2 DEF CleanupOrder, CleanupPhases
<1>5. LoopsArePending'
  BY DEF End, LoopsArePending
<1>6. DrainedIsCancelled'
  BY <1>1, <1>2 DEF End, DrainedIsCancelled
<1>7. ExitedIsEmpty'
  BY <1>1, <1>2 DEF ExitedIsEmpty
<1> QED
  BY <1>3, <1>4, <1>5, <1>6, <1>7

\* Every step preserves the inductive invariant.
LEMMA OrchestratorStep == OrchestratorInv /\ [Next]_vars => OrchestratorInv'
<1> SUFFICES ASSUME OrchestratorInv, [Next]_vars PROVE OrchestratorInv'
  OBVIOUS
<1> USE OrchestratorConstants DEF OrchestratorInv, TypeOK, YesNo, Ended, CleanupPhases
<1>1. ASSUME NEW s \in Services, Returns(s) PROVE OrchestratorInv'
  BY <1>1, EndKeepsInv, "done" \in Ended DEF Returns, Pending
<1>2. ASSUME NEW s \in Services, Fails(s) PROVE OrchestratorInv'
  BY <1>2, EndKeepsInv, "failed" \in Ended DEF Fails, Pending
<1>3. ASSUME NEW s \in Services, Cancelled(s) PROVE OrchestratorInv'
  <2>1. monitors' \in 0..MaxMonitors
    BY <1>3 DEF Cancelled, StopMonitors
  <2>2. CASE End(s, "done", FALSE)
    BY <1>3, <2>1, <2>2, EndKeepsInv, "done" \in Ended DEF Cancelled, Pending
  <2>3. CASE End(s, "cancelled", TRUE)
    BY <1>3, <2>1, <2>3, EndKeepsInv, "cancelled" \in Ended DEF Cancelled, Pending
  <2> QED
    BY <1>3, <2>2, <2>3 DEF Cancelled
<1>4. ASSUME NEW s \in Services, IterationStarts(s) PROVE OrchestratorInv'
  BY <1>4 DEF IterationStarts, CleanupOrder, LoopsArePending, DrainedIsCancelled, ExitedIsEmpty
<1>5. ASSUME NEW s \in Services, IterationEnds(s) PROVE OrchestratorInv'
  BY <1>5 DEF IterationEnds, CleanupOrder, LoopsArePending, DrainedIsCancelled, ExitedIsEmpty
<1>6. ASSUME NEW s \in Services, Ignites(s) PROVE OrchestratorInv'
  BY <1>6 DEF Ignites, CleanupOrder, LoopsArePending, DrainedIsCancelled, ExitedIsEmpty
<1>7. CASE MonitorEnds
  BY <1>7 DEF MonitorEnds, CleanupOrder, LoopsArePending, DrainedIsCancelled, ExitedIsEmpty
<1>8. CASE SignalHandled
  BY <1>8 DEF SignalHandled, CleanupOrder, LoopsArePending, DrainedIsCancelled, ExitedIsEmpty
<1>9. CASE SignalCancels
  BY <1>9 DEF SignalCancels, CancelAll, CleanupOrder, LoopsArePending, DrainedIsCancelled,
              ExitedIsEmpty
<1>10. CASE CleanupStep
  <2>1. UNCHANGED <<handles, running, status, busy, shutdown>> /\ phase # "gather" /\ phase' # "gather"
    BY <1>10 DEF CleanupStep, StopTerminal, StopTerminalRaises, CloseOracle, CloseSniper,
                 CloseExecutor, CloseStep
  <2>2. phase' \in CleanupPhases \cup {"leaving"} /\ monitors' \in 0..MaxMonitors
    BY <1>10 DEF CleanupStep, StopTerminal, StopTerminalRaises, StopMonitors, CloseOracle,
                 CloseSniper, CloseExecutor, CloseStep
  <2>3. (closed \subseteq Resources)' /\ (cleanup_error \in YesNo)'
    BY <1>10 DEF CleanupStep, StopTerminal, StopTerminalRaises, CloseOracle, CloseSniper,
                 CloseExecutor, CloseStep, Resources
  <2>4. CleanupOrder'
    <3>1. CASE StopTerminal
      BY <3>1, <2>1 DEF StopTerminal, CleanupOrder
    <3>2. CASE StopTerminalRaises
      BY <3>2, <2>1 DEF StopTerminalRaises, CleanupOrder
    <3>3. CASE CloseOracle
      BY <3>3, <2>1 DEF CloseOracle, CloseStep, CleanupOrder
    <3>4. CASE CloseSniper
      BY <3>4, <2>1 DEF CloseSniper, CloseStep, CleanupOrder
    <3>5. CASE CloseExecutor
      BY <3>5, <2>1 DEF CloseExecutor, CloseStep, CleanupOrder, Resources
    <3> QED
      BY <1>10, <3>1, <3>2, <3>3, <3>4, <3>5 DEF CleanupStep
  <2> QED
    BY <2>1, <2>2, <2>3, <2>4 DEF LoopsArePending, DrainedIsCancelled, ExitedIsEmpty
<1>11. CASE Leave
  BY <1>11 DEF Leave, CancelAll, CleanupOrder, LoopsArePending, DrainedIsCancelled, ExitedIsEmpty
<1>12. CASE Exit
  BY <1>12 DEF Exit, Pending, CleanupOrder, LoopsArePending, DrainedIsCancelled, ExitedIsEmpty
<1>13. CASE UNCHANGED vars
  BY <1>13 DEF vars, CleanupOrder, LoopsArePending, DrainedIsCancelled, ExitedIsEmpty
<1> QED
  BY <1>1, <1>2, <1>3, <1>4, <1>5, <1>6, <1>7, <1>8, <1>9, <1>10, <1>11, <1>12, <1>13
     DEF Next, MainStep

\* The types, and the order in which _cleanup() closes the resources.
THEOREM OrchestratorSafety == Spec => [](TypeOK /\ CleanupOrder)
<1>1. OrchestratorInv => TypeOK /\ CleanupOrder
  BY DEF OrchestratorInv
<1> QED
  BY <1>1, OrchestratorInit, OrchestratorStep, PTL DEF Spec

\* At exit no service, iteration or monitor is left, and everything is closed
\* unless _cleanup() was cut short.
THEOREM OrchestratorCleanExit == Spec => []CleanExit
<1>1. OrchestratorInv => CleanExit
  BY DEF OrchestratorInv, TypeOK, CleanExit, ExitedIsEmpty, LoopsArePending, CleanupOrder
<1> QED
  BY <1>1, OrchestratorInit, OrchestratorStep, PTL DEF Spec

\* Everything is closed in order, and nothing is left behind at exit.
THEOREM OrchestratorCleanShutdown == Spec => []CleanShutdown
<1>1. TypeOK /\ CleanupOrder /\ CleanExit => CleanShutdown
  BY DEF CleanShutdown
<1> QED
  BY <1>1, OrchestratorSafety, OrchestratorCleanExit, PTL

\* Once run() is on its way out no loop begins another iteration.
THEOREM OrchestratorNoNewIteration == Spec => NoNewIteration
<1>1. OrchestratorInv /\ [Next]_vars => [phase # "gather" => busy' \subseteq busy]_vars
  <2> SUFFICES ASSUME OrchestratorInv, Next, phase # "gather" PROVE busy' \subseteq busy
    BY DEF vars
  <2>1. running = "no"
    BY DEF OrchestratorInv, CleanupOrder
  <2> QED
    BY <2>1 DEF Next, MainStep, CleanupStep, StopTerminal, StopTerminalRaises, CloseOracle,
       CloseSniper, CloseExecutor, CloseStep, Leave, Exit, SignalHandled, SignalCancels,
       MonitorEnds, Returns, Fails, Cancelled, End, IterationStarts, IterationEnds, Ignites
<1> QED
  BY <1>1, OrchestratorInit, OrchestratorStep, PTL DEF Spec, NoNewIteration

-----------------------------------------------------------------------------
(* Executor                                                                *)

\* An attempt of a call that is idle or asleep keeps every part of the invariant
\* that speaks of orders, whatever the exchange does.
LEMMA AttemptKeepsOrders ==
  ASSUME ExecutorInv, NEW c \in Calls,
         pc[c] \in {"idle", "sleep"}, Attempt(c),
         client' = client, backoff' \in [Calls -> 1..MaxBackoff]
  PROVE  ExecutorInv'
<1> USE ExecutorConstants DEF ExecutorInv, ExecutorTypeOK, PostsFollowAttempts, CountedIsBacked,
     ReliableMeansOnce, ExecutionStatus, Posted, Return
<1>1. CASE AttemptFilled(c)
  BY <1>1 DEF AttemptFilled, FilledReplies, StatusMap
<1>2. CASE AttemptUnfilled(c)
  BY <1>2 DEF AttemptUnfilled, UnfilledReplies, StatusMap
<1>3. CASE AttemptLost(c)
  BY <1>3 DEF AttemptLost, AttemptRaised
<1>4. CASE AttemptNotPosted(c)
  BY <1>4 DEF AttemptNotPosted, AttemptRaised
<1> QED
  BY <1>1, <1>2, <1>3, <1>4 DEF Attempt, OnlineAttempt

\* No call has been made yet.
LEMMA ExecutorBegins == ExecutorInit => ExecutorInv
  BY ExecutorConstants DEF ExecutorInit, ExecutorInv, ExecutorTypeOK, PostsFollowAttempts,
     CountedIsBacked, ReliableMeansOnce, ExecutionStatus

\* Every step of every call, and close(), keeps the invariant.
LEMMA ExecutorStep == ExecutorInv /\ [ExecutorNext]_executor_vars => ExecutorInv'
<1> SUFFICES ASSUME ExecutorInv, [ExecutorNext]_executor_vars PROVE ExecutorInv'
  OBVIOUS
<1> USE ExecutorConstants
<1>1. ASSUME NEW c \in Calls, ExecuteInvalid(c) \/ ExecuteClosed(c) PROVE ExecutorInv'
  BY <1>1 DEF ExecuteInvalid, ExecuteClosed, Return, ExecutorInv, ExecutorTypeOK,
     PostsFollowAttempts, CountedIsBacked, ReliableMeansOnce, ExecutionStatus
<1>2. ASSUME NEW c \in Calls, Execute(c) PROVE ExecutorInv'
  <2>1. backoff' \in [Calls -> 1..MaxBackoff]
    BY <1>2 DEF Execute, ExecutorInv, ExecutorTypeOK
  <2> QED
    BY <1>2, <2>1, AttemptKeepsOrders DEF Execute
<1>3. ASSUME NEW c \in Calls, Retry(c) PROVE ExecutorInv'
  <2>1. backoff' \in [Calls -> 1..MaxBackoff]
    BY <1>3 DEF Retry, ExecutorInv, ExecutorTypeOK, NextBackoff
  <2> QED
    BY <1>3, <2>1, AttemptKeepsOrders DEF Retry
<1>4. ASSUME NEW c \in Calls, CallCancelled(c) PROVE ExecutorInv'
  BY <1>4 DEF CallCancelled, ExecutorInv, ExecutorTypeOK, PostsFollowAttempts,
     CountedIsBacked, ReliableMeansOnce, ExecutionStatus
<1>5. CASE Close
  BY <1>5 DEF Close, order_vars, ExecutorInv, ExecutorTypeOK, PostsFollowAttempts,
     CountedIsBacked, ReliableMeansOnce, ExecutionStatus
<1>6. CASE UNCHANGED executor_vars
  BY <1>6 DEF executor_vars, order_vars, ExecutorInv, ExecutorTypeOK, PostsFollowAttempts,
     CountedIsBacked, ReliableMeansOnce, ExecutionStatus
<1> QED
  BY <1>1, <1>2, <1>3, <1>4, <1>5, <1>6 DEF ExecutorNext, CallStep

\* The invariant, and with it type correctness, holds in every reachable state.
THEOREM ExecutorSafety == ExecutorSpec => []ExecutorInv
  BY ExecutorBegins, ExecutorStep, PTL DEF ExecutorSpec

\* A trade that the orchestrator counts was filled by the exchange.
THEOREM ExecutorCountedIsBacked == ExecutorSpec => []CountedIsBacked
<1>1. ExecutorInv => CountedIsBacked
  BY DEF ExecutorInv
<1> QED
  BY <1>1, ExecutorSafety, PTL

\* A call that learns of its fills fills at most once, exactly when it reports it.
THEOREM ExecutorReliableMeansOnce == ExecutorSpec => []ReliableMeansOnce
<1>1. ExecutorInv => ReliableMeansOnce
  BY DEF ExecutorInv
<1> QED
  BY <1>1, ExecutorSafety, PTL

\* No order reaches the exchange after close().
THEOREM ExecutorNoPostAfterClose == ExecutorSpec => NoPostAfterClose
<1>1. [ExecutorNext]_executor_vars => [client = "closed" => posts' = posts]_executor_vars
  BY DEF ExecutorNext, CallStep, ExecuteInvalid, ExecuteClosed, Execute, Retry, Attempt,
     AttemptNotPosted, CallCancelled, Close, order_vars, executor_vars
<1> QED
  BY <1>1, PTL DEF ExecutorSpec, NoPostAfterClose

-----------------------------------------------------------------------------
(* AssetLoop                                                               *)

\* A backoff is a length of time within the cap, after any number of errors.
LEMMA BackoffBounded ==
  ASSUME NEW n \in Nat \ {0}
  PROVE  Backoff(n) \in Nat \ {0} /\ Backoff(n) <= MaxErrorBackoff
<1>1. Smaller(n, 6) \in 1..6
  BY DEF Smaller
<1>2. PowersOfTwo[Smaller(n, 6)] \in Nat \ {0}
  BY <1>1 DEF PowersOfTwo
<1>3. \A x \in Nat \ {0}, y \in Nat \ {0} : x * y \in Nat \ {0}
  OBVIOUS
<1>4. Second \in Nat \ {0} /\ MaxErrorBackoff \in Nat \ {0}
  BY LoopConstants
<1>5. Second * PowersOfTwo[Smaller(n, 6)] \in Nat \ {0}
  BY <1>2, <1>3, <1>4
<1> QED BY <1>4, <1>5 DEF Backoff, Smaller

\* The life left of a market is a number.
LEMMA LeftIsInt ==
  ASSUME LoopsTypeOK, NEW m \in Markets
  PROVE  Left(m) \in Int
<1>1. now \in Nat
  BY LoopConstants DEF LoopsTypeOK
<1>2. m[2] \in Ends
  BY DEF Markets
<1>3. m[2] \in Nat
  BY <1>2, LoopConstants
<1> QED BY <1>1, <1>3 DEF Left

\* What an iteration leaves, whichever way it goes: its loop asleep for a bounded time, and no
\* new subscription to a market that has expired.
LEMMA HandleFacts ==
  ASSUME LoopsTypeOK, NEW a \in Assets, NEW list \in SUBSET Markets, NEW made \in Nat,
         Handle(a, list, made)
  PROVE  /\ loop_pc' = [loop_pc EXCEPT ![a] = "sleep"]
         /\ \E d \in Nat \ {0} : d <= MaxErrorBackoff /\ wake' = [wake EXCEPT ![a] = now + d]
         /\ pause_until' \in [Assets -> Nat \cup {-1}]
         /\ pause_until' \in {pause_until, [pause_until EXCEPT ![a] = now + Cooldown]}
         /\ errors' \in [Assets -> Nat]
         /\ subs' \subseteq Markets /\ tracked' \subseteq Markets
         /\ \A m \in subs' \ subs : Left(m) > 0
         /\ age' = [age EXCEPT ![a] = now - made]
<1> DEFINE own == Of(a, list)
<1>0. own \subseteq Markets /\ now \in Nat
  BY LoopConstants DEF Of, LoopsTypeOK
<1>1. CASE CooldownStep(a, own)
  <2>1. pause_until' = [pause_until EXCEPT ![a] = now + Cooldown] /\ now + Cooldown \in Nat
    BY <1>0, <1>1, LoopConstants DEF CooldownStep
  <2>2. loop_pc' = [loop_pc EXCEPT ![a] = "sleep"] /\ wake' = [wake EXCEPT ![a] = now + Second]
    BY <1>1 DEF CooldownStep, Sleep
  <2>3. subs' \subseteq subs /\ errors' = errors /\ tracked' = tracked
    BY <1>1 DEF CooldownStep
  <2>4. Second \in Nat \ {0} /\ Second <= MaxErrorBackoff
    BY LoopConstants
  <2>5. /\ pause_until \in [Assets -> Nat \cup {-1}] /\ errors \in [Assets -> Nat]
        /\ subs \subseteq Markets /\ tracked \subseteq Markets
    BY DEF LoopsTypeOK
  <2>6. pause_until' \in [Assets -> Nat \cup {-1}]
    BY <2>1, <2>5
  <2>7. \E d \in Nat \ {0} : d <= MaxErrorBackoff /\ wake' = [wake EXCEPT ![a] = now + d]
    BY <2>2, <2>4
  <2>8. age' = [age EXCEPT ![a] = now - made]
    BY DEF Handle
  <2>9. /\ errors' \in [Assets -> Nat] /\ subs' \subseteq Markets /\ tracked' \subseteq Markets
        /\ \A m \in subs' \ subs : Left(m) > 0
    BY <2>3, <2>5, Zenon
  <2> QED BY <2>1, <2>2, <2>6, <2>7, <2>8, <2>9, Zenon
<1>2. CASE TradeStep(a, own)
  <2>1. PICK d \in {1, Interval} : wake' = [wake EXCEPT ![a] = now + d]
    BY <1>2 DEF TradeStep, ScanInterval, Sleep
  <2>2. d \in Nat \ {0} /\ d <= MaxErrorBackoff
    BY LoopConstants
  <2>3. subs' \subseteq subs \cup own /\ tracked' \subseteq tracked \cup own
    BY <1>2 DEF TradeStep, Visit, Igniting, RestMarkets
  <2>4. \A m \in own : Left(m) > 0
    <3> SUFFICES ASSUME NEW m \in own PROVE Left(m) > 0
      OBVIOUS
    <3>1. ~(Left(m) <= 0)
      BY <1>2 DEF TradeStep, FirstExpired
    <3>2. Left(m) \in Int
      BY <1>0, LeftIsInt
    <3> QED BY <3>1, <3>2
  <2>5. /\ loop_pc' = [loop_pc EXCEPT ![a] = "sleep"]
        /\ errors' = [errors EXCEPT ![a] = 0] /\ pause_until' = pause_until
    BY <1>2 DEF TradeStep, Sleep
  <2> QED BY <1>0, <2>1, <2>2, <2>3, <2>4, <2>5 DEF LoopsTypeOK, Handle
<1>3. CASE ErrorStep(a, own)
  <2> DEFINE n == errors[a] + 1
  <2>1. n \in Nat \ {0}
    BY DEF LoopsTypeOK
  <2>2. wake' = [wake EXCEPT ![a] = now + Backoff(n)] /\ loop_pc' = [loop_pc EXCEPT ![a] = "sleep"]
    BY <1>3 DEF ErrorStep, Sleep
  <2>3. Backoff(n) \in Nat \ {0} /\ Backoff(n) <= MaxErrorBackoff
    BY <2>1, BackoffBounded
  <2>4. subs' \subseteq subs \cup own /\ tracked' \subseteq tracked \cup own
    BY <1>3 DEF ErrorStep, Visit, Igniting, RestMarkets
  <2>5. \A m \in subs' \ subs : Left(m) > 0
    <3> SUFFICES ASSUME NEW m \in subs' \ subs PROVE Left(m) > 0
      OBVIOUS
    <3>1. m \in own /\ ~(Left(m) <= 0)
      BY <1>3, <2>4 DEF ErrorStep, FirstExpired
    <3>2. Left(m) \in Int
      BY <1>0, <3>1, LeftIsInt
    <3> QED BY <3>1, <3>2
  <2>6. errors' = [errors EXCEPT ![a] = n] /\ pause_until' = pause_until
    BY <1>3 DEF ErrorStep
  <2> HIDE DEF n
  <2> QED BY <1>0, <2>1, <2>2, <2>3, <2>4, <2>5, <2>6 DEF LoopsTypeOK, Handle
<1> QED BY <1>1, <1>2, <1>3 DEF Handle

\* What the proof needs besides: a list is not older than the stamp it is cached under.
Stamped ==
  /\ scan_start <= now /\ fetched <= now
  /\ cache_time # -1 => cache_time <= fetched

\* The inductive invariant.
IInv == LoopsTypeOK /\ Stamped /\ ListIsFresh /\ LoopComesBack

\* The loops start with no list and no error.
LEMMA LoopsStart == LoopsInit => IInv
  BY LoopConstants DEF LoopsInit, IInv, LoopsTypeOK, Stamped, ListIsFresh, LoopComesBack

\* The end of an iteration keeps the invariant if the list it handled was fresh and the
\* shared cache is left in order.
LEMMA HandleKeepsIInv ==
  ASSUME IInv, NEW a \in Assets, NEW list \in SUBSET Markets, NEW made \in Nat,
         made <= now, now - made < CacheTTL, Handle(a, list, made),
         (loop_pc[a] = "lock" /\ lock = None) \/ lock = a, lock' = None,
         now' = now, pauses' = pauses, cache' \subseteq Markets,
         cache_time' \in 0..now \cup {-1}, {scan_start, scan_end, fetched}' \subseteq Nat,
         Stamped'
  PROVE  IInv'
<1> USE DEF IInv
<1>1. PICK d \in Nat : d <= MaxErrorBackoff /\ wake' = [wake EXCEPT ![a] = now + d]
  BY HandleFacts
<1>2. /\ loop_pc' = [loop_pc EXCEPT ![a] = "sleep"]
      /\ pause_until' \in [Assets -> Nat \cup {-1}]
      /\ errors' \in [Assets -> Nat]
      /\ subs' \subseteq Markets /\ tracked' \subseteq Markets
      /\ age' = [age EXCEPT ![a] = now - made]
  BY HandleFacts
<1>3. now \in Nat /\ now - made \in Nat
  BY LoopConstants DEF LoopsTypeOK
<1>4. \A b \in Assets : loop_pc'[b] = "scan" <=> lock' = b
  BY <1>2, LoopConstants DEF LoopsTypeOK
<1>5. LoopsTypeOK'
  BY <1>1, <1>2, <1>3, <1>4 DEF LoopsTypeOK
<1>6. ListIsFresh'
  BY <1>2 DEF ListIsFresh, LoopsTypeOK
<1>7. LoopComesBack'
  <2> SUFFICES ASSUME NEW b \in Assets, loop_pc'[b] = "sleep"
               PROVE  wake'[b] <= now + MaxErrorBackoff
    BY DEF LoopComesBack
  <2>1. CASE b = a
    BY <1>1, <1>3, <2>1, LoopConstants DEF LoopsTypeOK
  <2>2. CASE b # a
    BY <1>1, <1>2, <2>2 DEF LoopsTypeOK, LoopComesBack
  <2> QED BY <2>1, <2>2
<1> QED BY <1>5, <1>6, <1>7

\* Every step of a loop.
LEMMA LoopStepKeepsIInv ==
  ASSUME IInv, NEW a \in Assets, LoopStep(a)
  PROVE  IInv'
<1> USE DEF IInv
<1>0. /\ now \in Nat /\ now' = now
      /\ Second \in Nat /\ Second <= MaxErrorBackoff /\ MaxErrorBackoff \in Nat
  BY LoopConstants DEF LoopsTypeOK, LoopStep, LoopPaused, LoopTop, UseCache, StartScan, EndScan
<1>1. CASE LoopPaused(a)
  <2>1. /\ loop_pc' = [loop_pc EXCEPT ![a] = "sleep"] /\ wake' = [wake EXCEPT ![a] = now + Second]
        /\ loop_pc[a] = "sleep"
        /\ UNCHANGED <<now, pause_until, errors, cache_vars, age, market_vars, pauses>>
    BY <1>1 DEF LoopPaused, Sleep, Awake
  <2>2. loop_pc' = loop_pc
    BY <2>1 DEF LoopsTypeOK
  <2>3. LoopsTypeOK'
    BY <1>0, <2>1, <2>2 DEF LoopsTypeOK, cache_vars, market_vars
  <2>4. LoopComesBack'
    BY <1>0, <2>1, <2>2 DEF LoopComesBack, LoopsTypeOK
  <2> QED BY <2>1, <2>3, <2>4 DEF Stamped, ListIsFresh, cache_vars
<1>2. CASE LoopTop(a)
  <2>1. /\ loop_pc' = [loop_pc EXCEPT ![a] = "lock"] /\ loop_pc[a] = "sleep"
        /\ pause_until' = [pause_until EXCEPT ![a] = -1]
        /\ UNCHANGED <<now, wake, errors, cache_vars, age, market_vars, pauses>>
    BY <1>2 DEF LoopTop, Awake
  <2>2. \A b \in Assets : loop_pc'[b] = "scan" <=> lock' = b
    BY <2>1 DEF LoopsTypeOK, cache_vars
  <2>3. LoopsTypeOK'
    BY <2>1, <2>2 DEF LoopsTypeOK, cache_vars, market_vars
  <2>4. LoopComesBack'
    BY <2>1 DEF LoopComesBack, LoopsTypeOK
  <2> QED BY <2>1, <2>3, <2>4 DEF Stamped, ListIsFresh, cache_vars
<1>3. CASE UseCache(a)
  <2>1. /\ loop_pc[a] = "lock" /\ lock = None /\ UNCHANGED <<now, cache_vars, pauses>>
        /\ Handle(a, cache, fetched)
    BY <1>3 DEF UseCache
  <2>2. cache_time \in Nat /\ now - cache_time < CacheTTL /\ cache_time <= fetched
    BY <1>3 DEF UseCache, CacheValid, Stamped, LoopsTypeOK
  <2>3. fetched \in Nat /\ fetched <= now /\ now - fetched < CacheTTL
    BY <1>0, <2>2, LoopConstants DEF Stamped, LoopsTypeOK
  <2>4. /\ cache \in SUBSET Markets /\ cache' \subseteq Markets
        /\ cache_time' \in 0..now \cup {-1} /\ {scan_start, scan_end, fetched}' \subseteq Nat
        /\ Stamped'
    BY <2>1 DEF LoopsTypeOK, Stamped, cache_vars
  <2>5. lock' = None /\ now' = now /\ pauses' = pauses
    BY <2>1 DEF cache_vars
  <2> QED BY <2>1, <2>3, <2>4, <2>5, HandleKeepsIInv
<1>4. CASE StartScan(a)
  <2>1. /\ loop_pc[a] = "lock" /\ lock = None /\ lock' = a /\ scan_start' = now
        /\ loop_pc' = [loop_pc EXCEPT ![a] = "scan"]
        /\ UNCHANGED <<now, wake, pause_until, errors, cache, cache_time, fetched, age,
                       market_vars, pauses>>
    BY <1>4 DEF StartScan
  <2>2. scan_end' \in Nat
    BY <1>0, <1>4, LoopConstants DEF StartScan
  <2>3. \A b \in Assets : loop_pc'[b] = "scan" <=> lock' = b
    BY <2>1, LoopConstants DEF LoopsTypeOK
  <2>4. LoopsTypeOK'
    BY <1>0, <2>1, <2>2, <2>3 DEF LoopsTypeOK, market_vars
  <2>5. LoopComesBack'
    BY <2>1 DEF LoopComesBack, LoopsTypeOK
  <2> QED BY <1>0, <2>1, <2>4, <2>5 DEF Stamped, ListIsFresh
<1>5. CASE EndScan(a)
  <2>1. PICK result \in ScanResults : cache' = result /\ Handle(a, result, now)
    BY <1>5 DEF EndScan
  <2>2. result \in SUBSET Markets
    BY DEF ScanResults
  <2>3. /\ lock = a /\ lock' = None /\ cache_time' = scan_start /\ fetched' = now
        /\ UNCHANGED <<now, scan_start, scan_end, pauses>>
    BY <1>5 DEF EndScan, LoopsTypeOK
  <2>4. scan_start \in 0..now /\ scan_end \in Nat
    BY <1>0 DEF LoopsTypeOK, Stamped
  <2>5. Stamped'
    BY <1>0, <2>3, <2>4 DEF Stamped
  <2>6. cache_time' \in 0..now \cup {-1} /\ {scan_start, scan_end, fetched}' \subseteq Nat
    BY <1>0, <2>3, <2>4
  <2>7. now - now < CacheTTL
    BY <1>0, LoopConstants
  <2> QED BY <1>0, <2>1, <2>2, <2>3, <2>5, <2>6, <2>7, HandleKeepsIInv
<1> QED BY <1>1, <1>2, <1>3, <1>4, <1>5 DEF LoopStep

\* Every step, of loops, scanner and time.
LEMMA StepKeepsIInv ==
  ASSUME IInv, [LoopsNext]_loops_vars
  PROVE  IInv'
<1> USE DEF IInv
<1>1. CASE Tick
  <2>1. now' = now + 1 /\ now < Horizon /\ now \in Nat /\ Horizon \in Nat
    BY <1>1, LoopConstants DEF Tick, LoopsTypeOK
  <2>2. UNCHANGED <<asset_vars, cache_vars, age, market_vars, pauses>>
    BY <1>1 DEF Tick
  <2>3. LoopsTypeOK'
    BY <2>1, <2>2 DEF LoopsTypeOK, asset_vars, cache_vars, market_vars
  <2>4. LoopComesBack'
    BY <2>1, <2>2, LoopConstants DEF LoopComesBack, LoopsTypeOK, asset_vars
  <2>5. Stamped'
    BY <2>1, <2>2 DEF Stamped, LoopsTypeOK, cache_vars
  <2> QED BY <2>2, <2>3, <2>4, <2>5 DEF ListIsFresh
<1>2. ASSUME NEW a \in Assets, LoopStep(a) PROVE IInv'
  BY <1>2, LoopStepKeepsIInv
<1>3. ASSUME NEW a \in Assets, ResumeAsset(a) PROVE IInv'
  BY <1>3 DEF ResumeAsset, LoopsTypeOK, Stamped, ListIsFresh, LoopComesBack, cache_vars, market_vars
<1>4. ASSUME NEW a \in Assets, NEW d \in {0, Cooldown}, PauseAsset(a, d) PROVE IInv'
  <2>1. now + d \in Nat /\ pauses + 1 \in 0..MaxPauses
    BY <1>4, LoopConstants DEF PauseAsset, LoopsTypeOK
  <2> QED BY <1>4, <2>1 DEF PauseAsset, LoopsTypeOK, Stamped, ListIsFresh, LoopComesBack,
                            cache_vars, market_vars
<1>5. ASSUME NEW m \in Markets, MonitorExpires(m) PROVE IInv'
  BY <1>5 DEF MonitorExpires, LoopsTypeOK, Stamped, ListIsFresh, LoopComesBack, asset_vars,
              cache_vars
<1>6. CASE UNCHANGED loops_vars
  BY <1>6 DEF loops_vars, LoopsTypeOK, Stamped, ListIsFresh, LoopComesBack, asset_vars, cache_vars,
              market_vars
<1> QED BY <1>1, <1>2, <1>3, <1>4, <1>5, <1>6 DEF LoopsNext

\* The invariant holds in every reachable state.
LEMMA LoopInvariant == LoopsSpec => []IInv
<1>1. IInv /\ [LoopsNext]_loops_vars => IInv'
  BY StepKeepsIInv
<1> QED BY <1>1, LoopsStart, PTL DEF LoopsSpec

\* For any assets and markets a loop acts on no list older than the cache's TTL, also behind
\* another loop's scan of any length, and sleeps no longer than the longest backoff.
THEOREM AssetLoopSafety == LoopsSpec => [](LoopsTypeOK /\ ListIsFresh /\ LoopComesBack)
<1>1. IInv => LoopsTypeOK /\ ListIsFresh /\ LoopComesBack
  BY DEF IInv
<1> QED BY <1>1, LoopInvariant, PTL

\* No step of any loop subscribes to a market that has expired: not from the cache, not in an
\* iteration that fails half-way.
THEOREM AssetLoopNoExpiredSubscribe == LoopsSpec => NoExpiredSubscribe
<1>1. ASSUME IInv, [LoopsNext]_loops_vars PROVE \A m \in subs' \ subs : Left(m) > 0
  <2>1. LoopsTypeOK
    BY <1>1 DEF IInv
  <2>2. ASSUME NEW a \in Assets, UseCache(a) PROVE \A m \in subs' \ subs : Left(m) > 0
    <3>1. cache \in SUBSET Markets /\ fetched \in Nat /\ Handle(a, cache, fetched)
      BY <2>1, <2>2 DEF UseCache, LoopsTypeOK
    <3> QED BY <2>1, <3>1, HandleFacts
  <2>3. ASSUME NEW a \in Assets, EndScan(a) PROVE \A m \in subs' \ subs : Left(m) > 0
    <3>1. PICK result \in ScanResults : Handle(a, result, now)
      BY <2>3 DEF EndScan
    <3>2. result \in SUBSET Markets /\ now \in Nat
      BY <2>1, LoopConstants DEF ScanResults, LoopsTypeOK
    <3> QED BY <2>1, <3>1, <3>2, HandleFacts
  <2>4. CASE subs' \subseteq subs
    BY <2>4
  <2> QED BY <1>1, <2>2, <2>3, <2>4
          DEF LoopsNext, LoopStep, Tick, LoopPaused, LoopTop, StartScan, ResumeAsset, PauseAsset,
              MonitorExpires, market_vars, loops_vars
<1> QED BY <1>1, LoopInvariant, PTL DEF LoopsSpec, NoExpiredSubscribe
-----------------------------------------------------------------------------
(* The pauses of AssetLoop                                                 *)

\* A loop that sleeps is to wake up no later than its pause and the longest sleep allow.
SleepersWake ==
  \A a \in Assets : loop_pc[a] = "sleep" =>
    /\ now <= wake[a]
    /\ pause_until[a] > 0 => wake[a] <= pause_until[a] + MaxErrorBackoff + Overrun

\* A scan under way ends in time, also for a pause of its own loop.
ScansEnd ==
  /\ lock # None => now <= scan_end /\ scan_end <= now + MaxScan
  /\ \A a \in Assets : loop_pc[a] = "scan" /\ pause_until[a] > 0 =>
       scan_end <= pause_until[a] + Overrun

\* A paused loop that wants the lock has the time left for the scan that holds it and its own.
\* It loses the free lock to the other loop at most once: that one then sleeps beyond now.
WaitersAreNext ==
  \A a \in Assets : loop_pc[a] = "lock" /\ pause_until[a] > 0 =>
    \/ lock # None /\ scan_end + MaxScan <= pause_until[a] + Overrun
    \/ lock = None /\ now + 2 * MaxScan <= pause_until[a] + Overrun
    \/ /\ lock = None /\ now + MaxScan <= pause_until[a] + Overrun
       /\ \A b \in Assets \ {a} : loop_pc[b] = "sleep" /\ wake[b] > now

\* Inductive, together with IInv.
PausedInv == SleepersWake /\ ScansEnd /\ WaitersAreNext

\* The numbers of the module are numbers, and a pause lasts as long as two scans and what they
\* take longer.
LEMMA PauseNumbers ==
  ASSUME IInv
  PROVE  /\ now \in Nat /\ scan_end \in Nat
         /\ \A a \in Assets : wake[a] \in Nat /\ pause_until[a] \in Int
         /\ MaxScan \in Nat /\ Cooldown \in Nat \ {0} /\ MaxErrorBackoff \in Nat /\ Second \in Nat
         /\ Overrun \in Nat /\ 2 * MaxScan <= Cooldown + Overrun
         /\ Second <= MaxErrorBackoff
  BY LoopConstants DEF IInv, LoopsTypeOK, Overrun

\* Nobody sleeps yet, and nobody is paused.
LEMMA PausesStart == LoopsInit => PausedInv
  BY LoopConstants DEF LoopsInit, PausedInv, SleepersWake, ScansEnd, WaitersAreNext

\* The loop that handles its list, with the lock free afterwards, leaves the pauses in order
\* if its own was not over before.
LEMMA HandleKeepsPauses ==
  ASSUME IInv, PausedInv, NEW a \in Assets, NEW list \in SUBSET Markets, NEW made \in Nat,
         Handle(a, list, made), now' = now, lock' = None,
         pause_until[a] > 0 => now <= pause_until[a] + Overrun,
         \A b \in Assets \ {a} : loop_pc[b] # "scan",
         \A b \in Assets \ {a} : loop_pc[b] = "lock" /\ pause_until[b] > 0 =>
           \/ now + 2 * MaxScan <= pause_until[b] + Overrun
           \/ now + MaxScan <= pause_until[b] + Overrun /\ Assets = {a, b}
  PROVE  PausedInv'
<1>1. PICK d \in Nat \ {0} : d <= MaxErrorBackoff /\ wake' = [wake EXCEPT ![a] = now + d]
  BY HandleFacts DEF IInv
<1>2. /\ loop_pc' = [loop_pc EXCEPT ![a] = "sleep"]
      /\ pause_until' \in {pause_until, [pause_until EXCEPT ![a] = now + Cooldown]}
  BY HandleFacts DEF IInv
<1>3. /\ loop_pc \in [Assets -> {"sleep", "lock", "scan"}] /\ wake \in [Assets -> Nat]
      /\ pause_until \in [Assets -> Nat \cup {-1}]
  BY DEF IInv, LoopsTypeOK
<1>4. /\ loop_pc'[a] = "sleep" /\ wake'[a] = now + d
      /\ pause_until'[a] = pause_until[a] \/ pause_until'[a] = now + Cooldown
      /\ \A b \in Assets \ {a} :
           loop_pc'[b] = loop_pc[b] /\ wake'[b] = wake[b] /\ pause_until'[b] = pause_until[b]
  BY <1>1, <1>2, <1>3
<1>5. SleepersWake'
  <2> SUFFICES ASSUME NEW b \in Assets, loop_pc'[b] = "sleep"
               PROVE  /\ now <= wake'[b]
                      /\ pause_until'[b] > 0 =>
                           wake'[b] <= pause_until'[b] + MaxErrorBackoff + Overrun
    BY DEF SleepersWake
  <2>1. CASE b = a
    <3>1. /\ wake'[b] = now + d /\ d \in Nat /\ d <= MaxErrorBackoff
          /\ pause_until'[b] = pause_until[b] \/ pause_until'[b] = now + Cooldown
      BY <1>1, <1>4, <2>1
    <3>2. pause_until[b] > 0 => now <= pause_until[b] + Overrun
      BY <2>1
    <3>3. /\ now \in Nat /\ pause_until[b] \in Int /\ MaxErrorBackoff \in Nat
          /\ Overrun \in Nat /\ Cooldown \in Nat
      BY PauseNumbers
    <3>4. now <= wake'[b]
      BY <3>1, <3>3
    <3>5. CASE pause_until'[b] = pause_until[b]
      BY <3>1, <3>2, <3>3, <3>4, <3>5
    <3>6. CASE pause_until'[b] = now + Cooldown
      BY <3>1, <3>3, <3>4, <3>6
    <3> QED BY <3>1, <3>5, <3>6
  <2>2. CASE b # a
    BY <1>4, <2>2 DEF PausedInv, SleepersWake
  <2> QED BY <2>1, <2>2
<1>6. ScansEnd'
  BY <1>4 DEF ScansEnd
<1>7. WaitersAreNext'
  <2> SUFFICES ASSUME NEW b \in Assets, loop_pc'[b] = "lock", pause_until'[b] > 0
               PROVE  \/ now + 2 * MaxScan <= pause_until'[b] + Overrun
                      \/ /\ now + MaxScan <= pause_until'[b] + Overrun
                         /\ \A c \in Assets \ {b} : loop_pc'[c] = "sleep" /\ wake'[c] > now
    BY DEF WaitersAreNext
  <2>1. b # a
    BY <1>4
  <2>2. now + d > now
    BY PauseNumbers
  <2> QED BY <1>4, <2>1, <2>2
<1> QED BY <1>5, <1>6, <1>7 DEF PausedInv

\* Every step of a loop.
LEMMA LoopStepKeepsPauses ==
  ASSUME IInv, PausedInv, NEW a \in Assets, LoopStep(a)
  PROVE  PausedInv'
<1>0. /\ loop_pc \in [Assets -> {"sleep", "lock", "scan"}] /\ wake \in [Assets -> Nat]
      /\ pause_until \in [Assets -> Nat \cup {-1}]
      /\ \A b \in Assets : loop_pc[b] = "scan" <=> lock = b
      /\ now' = now
  BY DEF IInv, LoopsTypeOK, LoopStep, LoopPaused, LoopTop, UseCache, StartScan, EndScan
<1>1. CASE LoopPaused(a)
  <2>1. /\ loop_pc[a] = "sleep" /\ wake[a] <= now /\ pause_until[a] # -1
        /\ ~(pause_until[a] > 0 /\ now >= pause_until[a])
        /\ loop_pc' = [loop_pc EXCEPT ![a] = "sleep"]
        /\ wake' = [wake EXCEPT ![a] = now + Second]
        /\ UNCHANGED <<now, pause_until, lock, scan_end>>
    BY <1>1 DEF LoopPaused, Sleep, Awake, IsPaused, PauseOver, cache_vars
  <2>2. /\ loop_pc' = loop_pc /\ wake'[a] = now + Second
        /\ \A b \in Assets \ {a} : wake'[b] = wake[b]
    BY <1>0, <2>1
  <2>3. SleepersWake'
    <3> SUFFICES ASSUME NEW b \in Assets, loop_pc[b] = "sleep"
                 PROVE  /\ now <= wake'[b]
                        /\ pause_until[b] > 0 =>
                             wake'[b] <= pause_until[b] + MaxErrorBackoff + Overrun
      BY <2>1, <2>2 DEF SleepersWake
    <3>1. CASE b = a
      BY <2>1, <2>2, <3>1, PauseNumbers
    <3>2. CASE b # a
      BY <2>2, <3>2 DEF PausedInv, SleepersWake
    <3> QED BY <3>1, <3>2
  <2>4. ScansEnd'
    BY <2>1, <2>2 DEF PausedInv, ScansEnd
  <2>5. WaitersAreNext'
    <3> SUFFICES ASSUME NEW b \in Assets, loop_pc[b] = "lock", pause_until[b] > 0
                 PROVE \/ lock # None /\ scan_end + MaxScan <= pause_until[b] + Overrun
                       \/ lock = None /\ now + 2 * MaxScan <= pause_until[b] + Overrun
                       \/ /\ lock = None /\ now + MaxScan <= pause_until[b] + Overrun
                          /\ \A c \in Assets \ {b} : loop_pc[c] = "sleep" /\ wake'[c] > now
      BY <2>1, <2>2 DEF WaitersAreNext
    <3>1. b # a
      BY <2>1
    <3>2. ~(wake[a] > now)
      BY <2>1, PauseNumbers
    <3>3. ~(\A c \in Assets \ {b} : loop_pc[c] = "sleep" /\ wake[c] > now)
      BY <3>1, <3>2
    <3> QED BY <3>3 DEF PausedInv, WaitersAreNext
  <2> QED BY <2>3, <2>4, <2>5 DEF PausedInv
<1>2. CASE LoopTop(a)
  <2>1. /\ loop_pc[a] = "sleep" /\ wake[a] <= now
        /\ loop_pc' = [loop_pc EXCEPT ![a] = "lock"]
        /\ pause_until' = [pause_until EXCEPT ![a] = -1]
        /\ UNCHANGED <<now, wake, lock, scan_end>>
    BY <1>2 DEF LoopTop, Awake, cache_vars
  <2>2. /\ loop_pc'[a] = "lock" /\ ~(pause_until'[a] > 0)
        /\ \A b \in Assets \ {a} : loop_pc'[b] = loop_pc[b] /\ pause_until'[b] = pause_until[b]
    BY <1>0, <2>1
  <2>3. SleepersWake' /\ ScansEnd'
    BY <2>1, <2>2 DEF PausedInv, SleepersWake, ScansEnd
  <2>4. WaitersAreNext'
    <3> SUFFICES ASSUME NEW b \in Assets \ {a}, loop_pc[b] = "lock", pause_until[b] > 0
                 PROVE \/ lock # None /\ scan_end + MaxScan <= pause_until[b] + Overrun
                       \/ lock = None /\ now + 2 * MaxScan <= pause_until[b] + Overrun
      BY <2>1, <2>2 DEF WaitersAreNext
    <3>1. ~(wake[a] > now)
      BY <2>1, PauseNumbers
    <3> QED BY <3>1 DEF PausedInv, WaitersAreNext
  <2> QED BY <2>3, <2>4 DEF PausedInv
<1>3. CASE UseCache(a)
  <2>1. /\ loop_pc[a] = "lock" /\ lock = None /\ UNCHANGED <<now, cache_vars>>
        /\ Handle(a, cache, fetched)
    BY <1>3 DEF UseCache
  <2>2. cache \in SUBSET Markets /\ fetched \in Nat /\ lock' = None
    BY <2>1 DEF IInv, LoopsTypeOK, cache_vars
  <2>3. pause_until[a] > 0 => now <= pause_until[a] + Overrun
    <3>1. pause_until[a] > 0 => \/ now + MaxScan <= pause_until[a] + Overrun
                                \/ now + 2 * MaxScan <= pause_until[a] + Overrun
      BY <2>1 DEF PausedInv, WaitersAreNext
    <3> QED BY <3>1, PauseNumbers
  <2>4. \A b \in Assets \ {a} : loop_pc[b] # "scan"
    BY <1>0, <2>1, LoopConstants
  <2>5. \A b \in Assets \ {a} : loop_pc[b] = "lock" /\ pause_until[b] > 0 =>
           now + 2 * MaxScan <= pause_until[b] + Overrun
    BY <2>1 DEF PausedInv, WaitersAreNext
  <2> QED BY <1>0, <2>1, <2>2, <2>3, <2>4, <2>5, HandleKeepsPauses
<1>4. CASE StartScan(a)
  <2>1. /\ loop_pc[a] = "lock" /\ lock = None /\ lock' = a /\ scan_end' \in now..(now + MaxScan)
        /\ loop_pc' = [loop_pc EXCEPT ![a] = "scan"]
        /\ UNCHANGED <<now, wake, pause_until>>
    BY <1>4 DEF StartScan
  <2>2. /\ loop_pc'[a] = "scan" /\ scan_end' <= now + MaxScan /\ now <= scan_end'
        /\ scan_end' \in Int /\ lock' # None
        /\ \A b \in Assets \ {a} : loop_pc'[b] = loop_pc[b] /\ loop_pc[b] # "scan"
    BY <1>0, <2>1, LoopConstants, PauseNumbers
  <2>3. SleepersWake'
    BY <2>1, <2>2 DEF PausedInv, SleepersWake
  <2>4. ScansEnd'
    <3>1. pause_until[a] > 0 => \/ now + MaxScan <= pause_until[a] + Overrun
                                \/ now + 2 * MaxScan <= pause_until[a] + Overrun
      BY <2>1 DEF PausedInv, WaitersAreNext
    <3>2. pause_until[a] > 0 => scan_end' <= pause_until[a] + Overrun
      BY <2>2, <3>1, PauseNumbers
    <3> QED BY <2>1, <2>2, <3>2 DEF ScansEnd
  <2>5. WaitersAreNext'
    <3> SUFFICES ASSUME NEW b \in Assets \ {a}, loop_pc[b] = "lock", pause_until[b] > 0
                 PROVE  scan_end' + MaxScan <= pause_until[b] + Overrun
      BY <2>1, <2>2 DEF WaitersAreNext
    <3>1. now + 2 * MaxScan <= pause_until[b] + Overrun
      BY <2>1 DEF PausedInv, WaitersAreNext
    <3> QED BY <2>2, <3>1, PauseNumbers
  <2> QED BY <2>3, <2>4, <2>5 DEF PausedInv
<1>5. CASE EndScan(a)
  <2>1. PICK result \in ScanResults : Handle(a, result, now)
    BY <1>5 DEF EndScan
  <2>2. result \in SUBSET Markets /\ now \in Nat
    BY PauseNumbers DEF ScanResults
  <2>3. loop_pc[a] = "scan" /\ now = scan_end /\ lock = a /\ lock' = None /\ lock # None
    BY <1>0, <1>5, LoopConstants DEF EndScan
  <2>4. pause_until[a] > 0 => now <= pause_until[a] + Overrun
    BY <2>3 DEF PausedInv, ScansEnd
  <2>5. \A b \in Assets \ {a} : loop_pc[b] # "scan"
    BY <1>0, <2>3
  <2>6. \A b \in Assets \ {a} : Assets = {a, b}
    BY LoopConstants
  <2>7. \A b \in Assets \ {a} : loop_pc[b] = "lock" /\ pause_until[b] > 0 =>
           now + MaxScan <= pause_until[b] + Overrun /\ Assets = {a, b}
    BY <2>3, <2>6 DEF PausedInv, WaitersAreNext
  <2> QED BY <1>0, <2>1, <2>2, <2>3, <2>4, <2>5, <2>7, HandleKeepsPauses
<1> QED BY <1>1, <1>2, <1>3, <1>4, <1>5 DEF LoopStep

\* Every step, of loops, pauses and time.
LEMMA StepKeepsPauses ==
  ASSUME IInv, PausedInv, [LoopsNext]_loops_vars
  PROVE  PausedInv'
<1>0. /\ loop_pc \in [Assets -> {"sleep", "lock", "scan"}]
      /\ pause_until \in [Assets -> Nat \cup {-1}]
      /\ lock \in Assets \cup {None}
      /\ \A b \in Assets : loop_pc[b] = "scan" <=> lock = b
  BY DEF IInv, LoopsTypeOK
<1>1. CASE Tick
  <2>1. /\ now' = now + 1 /\ UNCHANGED <<loop_pc, wake, pause_until, lock, scan_end>>
        /\ \A a \in Assets : \/ loop_pc[a] = "sleep" /\ wake[a] > now
                             \/ loop_pc[a] = "scan" /\ scan_end > now
                             \/ loop_pc[a] = "lock" /\ lock # None
    BY <1>1 DEF Tick, asset_vars, cache_vars
  <2>2. SleepersWake'
    BY <2>1, PauseNumbers DEF PausedInv, SleepersWake
  <2>3. ScansEnd'
    <3>1. lock # None => scan_end > now
      BY <1>0, <2>1
    <3>2. lock # None => now + 1 <= scan_end /\ scan_end <= now + 1 + MaxScan
      BY <3>1, PauseNumbers DEF PausedInv, ScansEnd
    <3> QED BY <2>1, <3>2 DEF PausedInv, ScansEnd
  <2>4. WaitersAreNext'
    <3>1. \A a \in Assets : loop_pc[a] = "lock" => lock # None
      BY <2>1
    <3> QED BY <2>1, <3>1 DEF PausedInv, WaitersAreNext
  <2> QED BY <2>2, <2>3, <2>4 DEF PausedInv
<1>2. ASSUME NEW a \in Assets, LoopStep(a) PROVE PausedInv'
  BY <1>2, LoopStepKeepsPauses
<1>3. ASSUME NEW a \in Assets, NEW p \in Nat \cup {-1},
             pause_until' = [pause_until EXCEPT ![a] = p], p > 0 => p = now + Cooldown,
             UNCHANGED <<now, loop_pc, wake, lock, scan_end>>
      PROVE  PausedInv'
  <2>1. pause_until'[a] = p /\ \A b \in Assets \ {a} : pause_until'[b] = pause_until[b]
    BY <1>0, <1>3
  <2>2. SleepersWake'
    <3>1. p > 0 /\ loop_pc[a] = "sleep" => wake[a] <= p + MaxErrorBackoff + Overrun
      <4>1. loop_pc[a] = "sleep" => wake[a] <= now + MaxErrorBackoff
        BY DEF IInv, LoopComesBack
      <4> QED BY <1>3, <4>1, PauseNumbers
    <3> QED BY <1>3, <2>1, <3>1 DEF PausedInv, SleepersWake
  <2>3. ScansEnd'
    <3>1. p > 0 /\ lock # None => scan_end <= p + Overrun
      <4>1. lock # None => scan_end <= now + MaxScan
        BY DEF PausedInv, ScansEnd
      <4> QED BY <1>3, <4>1, PauseNumbers
    <3>2. loop_pc[a] = "scan" => lock # None
      BY <1>0, LoopConstants
    <3> QED BY <1>3, <2>1, <3>1, <3>2 DEF PausedInv, ScansEnd
  <2>4. WaitersAreNext'
    <3>1. p > 0 => \/ lock # None /\ scan_end + MaxScan <= p + Overrun
                   \/ lock = None /\ now + 2 * MaxScan <= p + Overrun
      <4>1. lock # None => scan_end <= now + MaxScan
        BY DEF PausedInv, ScansEnd
      <4> QED BY <1>3, <4>1, PauseNumbers
    <3> QED BY <1>3, <2>1, <3>1 DEF PausedInv, WaitersAreNext
  <2> QED BY <2>2, <2>3, <2>4 DEF PausedInv
<1>4. ASSUME NEW a \in Assets, ResumeAsset(a) PROVE PausedInv'
  <2>1. /\ pause_until' = [pause_until EXCEPT ![a] = -1]
        /\ UNCHANGED <<now, loop_pc, wake, lock, scan_end>>
    BY <1>4 DEF ResumeAsset, cache_vars
  <2>2. -1 \in Nat \cup {-1} /\ ~(-1 > 0)
    OBVIOUS
  <2> QED BY <1>3, <2>1, <2>2
<1>5. ASSUME NEW a \in Assets, NEW d \in {0, Cooldown}, PauseAsset(a, d) PROVE PausedInv'
  <2> DEFINE p == IF d > 0 THEN now + d ELSE 0
  <2>1. p \in Nat \cup {-1} /\ (p > 0 => p = now + Cooldown)
    BY PauseNumbers
  <2>2. /\ pause_until' = [pause_until EXCEPT ![a] = p]
        /\ UNCHANGED <<now, loop_pc, wake, lock, scan_end>>
    BY <1>5 DEF PauseAsset, cache_vars
  <2> HIDE DEF p
  <2> QED BY <1>3, <2>1, <2>2
<1>6. ASSUME NEW m \in Markets, MonitorExpires(m) PROVE PausedInv'
  BY <1>6 DEF MonitorExpires, asset_vars, cache_vars, PausedInv, SleepersWake, ScansEnd,
              WaitersAreNext
<1>7. CASE UNCHANGED loops_vars
  BY <1>7 DEF loops_vars, asset_vars, cache_vars, PausedInv, SleepersWake, ScansEnd,
              WaitersAreNext
<1> QED BY <1>1, <1>2, <1>4, <1>5, <1>6, <1>7 DEF LoopsNext

\* For two assets, any markets, pauses and durations of a scan: fresh lists, no loop that is
\* asleep for good, and no pause that outlives its end by more than PauseEnds allows.
THEOREM AssetLoopAll == LoopsSpec => []AssetLoopInv
<1>1. IInv /\ PausedInv /\ [LoopsNext]_loops_vars => PausedInv'
  BY StepKeepsPauses
<1>2. IInv /\ PausedInv => AssetLoopInv
  <2> SUFFICES ASSUME IInv, PausedInv PROVE PauseEnds
    BY DEF IInv, AssetLoopInv
  <2> SUFFICES ASSUME NEW a \in Assets, pause_until[a] > 0, loop_pc[a] = "sleep"
               PROVE  now <= pause_until[a] + MaxErrorBackoff + Overrun
    BY DEF PauseEnds
  <2>1. now <= wake[a] /\ wake[a] <= pause_until[a] + MaxErrorBackoff + Overrun
    BY DEF PausedInv, SleepersWake
  <2> QED BY <2>1, PauseNumbers
<1> QED BY <1>1, <1>2, PausesStart, LoopInvariant, PTL DEF LoopsSpec
=============================================================================
