---------------------------- MODULE SniperProofs ----------------------------
(***************************************************************************)
(* The sniper, for every set of tokens and callers: SniperInv is inductive,*)
(* and the properties the runs check follow from it.                       *)
(*                                                                         *)
(* The terminal velocity controller, which subscribes through the sniper,  *)
(* for every set of markets and tasks: no market has two monitors that can *)
(* fire a strike, and no strike is fired once stop() was called.           *)
(***************************************************************************)
EXTENDS Sniper, TerminalVelocity, FiniteSetTheorems, TLAPS

-----------------------------------------------------------------------------
(* The sniper                                                              *)

\* The sniper starts disconnected, with nothing subscribed and nobody calling.
LEMMA InitEstablishes == Init => SniperInv
BY ConstantsAssumption
   DEF Init, SniperInv, TypeOK, OnlyOpenSocketStreams, LockHolderIsCalling,
       BrokenMeansSilent, WithdrawnStaysOut, RunningHasSocket, PendingTaken,
       FlushingWhileSending, StreamedIsKnown, NoSocketAfterStop, Known, Subscribing, Idle, Calls,
       ConnectionState, RunPC

\* Every step of every task keeps the type invariant.
LEMMA TypeStep == TypeOK /\ [Next]_vars => TypeOK'
<1> SUFFICES ASSUME TypeOK, [Next]_vars PROVE TypeOK'
  OBVIOUS
<1> USE ConstantsAssumption
    DEF TypeOK, ConnectionState, RunPC, Calls, Idle, conn_vars, sub_vars, loop_vars
<1>1. ASSUME NEW c \in Callers, NEW tokens \in SUBSET Tokens, Subscribe(c, tokens)
      PROVE TypeOK'
  BY <1>1 DEF Subscribe, NewTokens, Deliver
<1>2. ASSUME NEW c \in Callers, NEW tokens \in SUBSET Tokens, Unsubscribe(c, tokens)
      PROVE TypeOK'
  BY <1>2 DEF Unsubscribe, TokensToRemove, Withdraw, Forget
<1>3. ASSUME NEW c \in Callers,
             \/ SubscribeSent(c) \/ SubscribeFailed(c)
             \/ UnsubscribeSent(c) \/ UnsubscribeCancelled(c)
      PROVE TypeOK'
  BY <1>3 DEF SubscribeSent, SubscribeFailed, UnsubscribeSent, UnsubscribeCancelled, Forget
<1>4. CASE Connect \/ ConnectOk \/ ConnectFailed
  BY <1>4 DEF Connect, ConnectOk, ConnectFailed
<1>5. CASE FlushPending \/ FlushSent \/ FlushFailed
  BY <1>5 DEF FlushPending, FlushSent, FlushFailed, StartReconnect, Deliver
<1>6. CASE ReceiveClosed \/ WorkersStopped \/ WorkersCancelled \/ RunExit
  BY <1>6 DEF ReceiveClosed, WorkersStopped, WorkersCancelled, StartReconnect, RunExit
<1>7. Broken \in [Callers -> Calls]
  BY DEF Broken
<1>8. CASE BackoffOver \/ RunClosed \/ LinkDown \/ DisconnectDone
  BY <1>7, <1>8 DEF BackoffOver, RunClosed, LinkDown, DisconnectDone, CloseSocket, Least
<1>9. CASE HeartbeatFailed \/ DisconnectCalled
  BY <1>9 DEF HeartbeatFailed, DisconnectCalled
<1>10. CASE \E t \in Tokens : Receive(t) \/ Process(t)
  BY <1>10 DEF Receive, Process
<1>11. CASE UNCHANGED vars
  BY <1>11 DEF vars
<1> QED
  BY <1>1, <1>2, <1>3, <1>4, <1>5, <1>6, <1>8, <1>9, <1>10, <1>11
     DEF Next, RunStep, CallStep

\* Every step of every task keeps the inductive invariant.
LEMMA InvStep == SniperInv /\ [Next]_vars => SniperInv'
<1> SUFFICES ASSUME SniperInv, [Next]_vars PROVE SniperInv'
  OBVIOUS
<1> DEFINE Rest == /\ OnlyOpenSocketStreams /\ LockHolderIsCalling
                   /\ BrokenMeansSilent /\ WithdrawnStaysOut /\ RunningHasSocket
                   /\ PendingTaken /\ FlushingWhileSending /\ StreamedIsKnown /\ NoSocketAfterStop
<1>0. TypeOK' /\ TypeOK
  BY TypeStep DEF SniperInv
<1> SUFFICES Rest'
  BY <1>0 DEF SniperInv
<1> USE <1>0, ConstantsAssumption
    DEF SniperInv, OnlyOpenSocketStreams, LockHolderIsCalling, BrokenMeansSilent,
        WithdrawnStaysOut, RunningHasSocket, PendingTaken,
        FlushingWhileSending, StreamedIsKnown, NoSocketAfterStop, Known, Subscribing, running, conn_vars, sub_vars, loop_vars
<1>1. ASSUME NEW c \in Callers, NEW tokens \in SUBSET Tokens, Subscribe(c, tokens)
      PROVE Rest'
  BY <1>1 DEF Subscribe, NewTokens, Deliver, CanSend, TypeOK, Idle, Calls
<1>2. ASSUME NEW c \in Callers, NEW tokens \in SUBSET Tokens, Unsubscribe(c, tokens)
      PROVE Rest'
  BY <1>2 DEF Unsubscribe, TokensToRemove, Withdraw, Forget, CanSend, TypeOK, Idle, Calls
<1>3. ASSUME NEW c \in Callers, SubscribeSent(c)
      PROVE Rest'
  BY ZenonT(60), <1>3 DEF SubscribeSent, TypeOK, Idle, Calls
<1>4. ASSUME NEW c \in Callers, SubscribeFailed(c)
      PROVE Rest'
  BY <1>4 DEF SubscribeFailed, TypeOK, Idle, Calls
<1>5. ASSUME NEW c \in Callers, UnsubscribeSent(c)
      PROVE Rest'
  BY <1>5 DEF UnsubscribeSent, Forget, TypeOK, Idle, Calls
<1>6. ASSUME NEW c \in Callers, UnsubscribeCancelled(c)
      PROVE Rest'
  BY <1>6 DEF UnsubscribeCancelled, TypeOK, Idle, Calls
<1>7. CASE Connect
  BY <1>7 DEF Connect, TypeOK
<1>8. CASE ConnectOk
  BY <1>8 DEF ConnectOk, TypeOK
<1>9. CASE ConnectFailed
  BY <1>9 DEF ConnectFailed, TypeOK
<1>10. CASE FlushPending
  BY <1>10 DEF FlushPending, Deliver, TypeOK, Idle, Calls
<1>11. CASE FlushSent
  BY <1>11 DEF FlushSent, TypeOK, Idle, Calls
<1>12. CASE FlushFailed
  BY <1>12 DEF FlushFailed, StartReconnect, TypeOK, Idle, Calls
<1>13. CASE ReceiveClosed
  BY <1>13 DEF ReceiveClosed, TypeOK
<1>14. CASE WorkersStopped
  BY <1>14 DEF WorkersStopped, TypeOK
<1>15. CASE WorkersCancelled
  BY <1>15 DEF WorkersCancelled, StartReconnect, TypeOK
<1>16. CASE RunExit
  BY <1>16 DEF RunExit, TypeOK
<1>b. ASSUME NEW c \in Callers
      PROVE /\ Broken[c].tokens = call[c].tokens
            /\ Broken[c].op \in {"sub", "sub_broken"} <=> call[c].op \in {"sub", "sub_broken"}
            /\ Broken[c].op = "unsub" <=> call[c].op = "unsub"
            /\ Broken[c].op = "idle" <=> call[c].op = "idle"
            /\ Broken[c] = Idle <=> call[c] = Idle
  <2>1. call[c] \in Calls
    BY DEF TypeOK
  <2>2. CASE call[c].op = "sub"
    BY <2>1, <2>2 DEF Broken, Calls, Idle
  <2>3. CASE call[c].op # "sub"
    BY <2>1, <2>3 DEF Broken, Calls, Idle
  <2> QED
    BY <2>2, <2>3
<1>17. CASE BackoffOver
  BY <1>b, <1>17 DEF BackoffOver, TypeOK
<1>18. CASE RunClosed
  BY <1>b, <1>18 DEF RunClosed, CloseSocket, TypeOK
<1>19. CASE LinkDown
  BY <1>b, <1>19 DEF LinkDown, TypeOK
<1>20. CASE DisconnectDone
  BY <1>b, <1>20 DEF DisconnectDone, CloseSocket, TypeOK
<1>21. CASE HeartbeatFailed
  BY <1>21 DEF HeartbeatFailed, TypeOK
<1>22. CASE DisconnectCalled
  BY <1>22 DEF DisconnectCalled, TypeOK
<1>23. CASE \E t \in Tokens : Receive(t) \/ Process(t)
  BY <1>23 DEF Receive, Process
<1>24. CASE UNCHANGED vars
  BY <1>24 DEF vars
<1> QED
  BY <1>1, <1>2, <1>3, <1>4, <1>5, <1>6, <1>7, <1>8, <1>9, <1>10, <1>11, <1>12, <1>13, <1>14, <1>15, <1>16, <1>17, <1>18, <1>19, <1>20, <1>21, <1>22, <1>23, <1>24
     DEF Next, RunStep, CallStep

\* SniperInv holds in every reachable state, for every set of tokens and callers.
THEOREM SniperSafety == Spec => []SniperInv
<1>1. Init => SniperInv
  BY InitEstablishes
<1>2. SniperInv /\ [Next]_vars => SniperInv'
  BY InvStep
<1> QED
  BY <1>1, <1>2, PTL DEF Spec

\* Type correctness of the sniper.
THEOREM SniperTypeOK == Spec => []TypeOK
<1>1. SniperInv => TypeOK
  BY DEF SniperInv
<1> QED
  BY <1>1, SniperSafety, PTL

\* While CONNECTED, every token the exchange streams is one the client knows
\* about, for any number of concurrent subscribe() and unsubscribe() calls.
THEOREM SniperStreamedIsKnown == Spec => []StreamedIsKnown
<1>1. SniperInv => StreamedIsKnown
  BY DEF SniperInv
<1> QED
  BY <1>1, SniperSafety, PTL

\* No subscription is left in the pending set while run() waits on a connected
\* socket.
THEOREM SniperPendingNotStranded == Spec => []PendingNotStranded
<1>1. SniperInv => PendingNotStranded
  BY DEF SniperInv, PendingTaken, PendingNotStranded
<1> QED
  BY <1>1, SniperSafety, PTL

\* No socket survives run(), whichever of connect() and disconnect() wins.
THEOREM SniperNoSocketAfterStop == Spec => []NoSocketAfterStop
<1>1. SniperInv => NoSocketAfterStop
  BY DEF SniperInv
<1> QED
  BY <1>1, SniperSafety, PTL

\* What is streamed is known, nothing queued is stranded, nothing is left open after the stop.
THEOREM SniperIsSafe == Spec => []SniperSafe
<1>1. StreamedIsKnown /\ PendingNotStranded /\ NoSocketAfterStop => SniperSafe
  BY DEF SniperSafe
<1> QED
  BY <1>1, SniperStreamedIsKnown, SniperPendingNotStranded, SniperNoSocketAfterStop, PTL

-----------------------------------------------------------------------------
(* The terminal velocity controller                                        *)

\* The controller starts with empty dictionaries, where the invariant holds.
LEMMA TVStart == TVInit => TVInv
  BY TVConstants DEF TVInit, TVInv, TVTypeOK, ActiveIsRegistered, CallerOwnsEntry,
     CancelledAlone, FiledUnderItsMarket, EndedIsExpired, StreamingIsMonitored, Clock, Phase, TaskPC, Active

\* Every step of the asset loops, the monitors and stop() keeps the invariant.
LEMMA TVInvStep == TVInv /\ [TVNext]_tv_vars => TVInv'
<1> SUFFICES ASSUME TVInv, [TVNext]_tv_vars PROVE TVInv'
  OBVIOUS
<1> USE TVConstants DEF TVInv, TVTypeOK, ActiveIsRegistered, CallerOwnsEntry,
     CancelledAlone, FiledUnderItsMarket, EndedIsExpired, StreamingIsMonitored, Clock, Phase, TaskPC, Active,
     task_vars, stop_vars, tv_running
<1>1. CASE \E m \in Markets : Tick(m)
  BY <1>1 DEF Tick
<1>2. CASE \E m \in Markets : CheckRest(m)
  BY <1>2 DEF CheckRest
<1>3. ASSUME NEW m \in Markets, Ignite(m) PROVE TVInv'
  BY <1>3 DEF Ignite, CanCheck, IgniteGuard, CancellationPending
<1>4. ASSUME NEW m \in Markets, IgniteSubscribed(m) PROVE TVInv'
  BY <1>4 DEF IgniteSubscribed
<1>5. ASSUME NEW m \in Markets, IgniteFailed(m) PROVE TVInv'
  BY <1>5 DEF IgniteFailed
<1>6. ASSUME NEW m \in Markets, CheckExpired(m) PROVE TVInv'
  BY <1>6 DEF CheckExpired, CanCheck, CancellationPending
<1>7. ASSUME NEW m \in Markets, CheckExpiredDone(m) PROVE TVInv'
  BY <1>7 DEF CheckExpiredDone, PopTask, Cancel
<1>8. ASSUME NEW m \in Markets, BookUpdate(m) PROVE TVInv'
  BY <1>8 DEF BookUpdate
<1>9. ASSUME NEW t \in Tasks, MonitorExit(t) PROVE TVInv'
  BY <1>9 DEF MonitorExit, MonitorExits, Finally
<1>10. ASSUME NEW t \in Tasks, MonitorRound(t) PROVE TVInv'
  <2> DEFINE m == market_of[t]
  <2>1. m \in Markets /\ phase[m] # "none" /\ pc[t] \in {"created", "loop"}
    BY <1>10 DEF MonitorRound, MonitorExits
  <2>2. monitor_tasks[m] = t
    BY <2>1
  <2>3. TVTypeOK' /\ ActiveIsRegistered' /\ CallerOwnsEntry'
    BY <1>10, <2>1 DEF MonitorRound, MonitorExits
  <2>4. CancelledAlone' /\ FiledUnderItsMarket' /\ EndedIsExpired'
    BY <1>10, <2>1 DEF MonitorRound, MonitorExits
  <2>5. StreamingIsMonitored'
    BY <1>10, <2>1, <2>2 DEF MonitorRound, MonitorExits
  <2> QED
    BY <2>3, <2>4, <2>5
<1>11. ASSUME NEW t \in Tasks, CallbackReturned(t) PROVE TVInv'
  BY <1>11 DEF CallbackReturned
<1>12. ASSUME NEW t \in Tasks, MonitorCancelled(t) PROVE TVInv'
  BY <1>12 DEF MonitorCancelled, Finally
<1>13. ASSUME NEW t \in Tasks, MonitorDone(t) PROVE TVInv'
  BY <1>13 DEF MonitorDone, PopTask, Cancel
<1>13a. Cardinality(Registered) \in Nat
  BY FS_Subset, FS_CardinalityType DEF Registered
<1>14. CASE StopCalled
  <2>1. ASSUME NEW t \in Tasks, StopCancels(t) PROVE TVInv'
    BY <1>13a, <1>14, <2>1 DEF StopCalled, StopCancels, Cancel
  <2>2. CASE StopClears
    BY <1>13a, <1>14, <2>2 DEF StopCalled, StopClears, Registered
  <2> QED
    BY <1>14, <2>1, <2>2 DEF StopCalled
<1>15. CASE StopRaises
  BY <1>15 DEF StopRaises
<1>16. CASE StopContinues
  <2>1. ASSUME NEW t \in Tasks, StopCancels(t) PROVE TVInv'
    BY <1>16, <2>1 DEF StopContinues, StopCancels, Cancel
  <2>2. CASE StopClears
    BY <1>16, <2>2 DEF StopContinues, StopClears, Registered
  <2> QED
    BY <1>16, <2>1, <2>2 DEF StopContinues
<1>17. CASE StopDone
  BY <1>17 DEF StopDone
<1>18. CASE UNCHANGED tv_vars
  BY <1>18 DEF tv_vars
<1> QED
  BY <1>1, <1>2, <1>3, <1>4, <1>5, <1>6, <1>7, <1>8, <1>9, <1>10, <1>11, <1>12,
     <1>13, <1>14, <1>15, <1>16, <1>17, <1>18
     DEF TVNext, CheckStep, CallerStep, MonitorStep, StopStep

\* The types and the filing of monitors hold in every reachable state.
THEOREM TVSafety == TVSpec => []TVInv
<1> QED
  BY TVStart, TVInvStep, PTL DEF TVSpec

\* No market ever has two monitors that can fire strikes.
THEOREM TVOneStriker == TVSpec => []OneStriker
<1>1. TVInv => OneStriker
  BY DEF TVInv, ActiveIsRegistered, OneStriker
<1> QED
  BY <1>1, TVSafety, PTL

\* A market that streams has one monitor that can fire, the registered one.
THEOREM TVOneMonitorEach == TVSpec => []OneMonitorEach
<1>1. TVInv /\ OneStriker => OneMonitorEach
  BY DEF TVInv, OneMonitorEach
<1> QED
  BY <1>1, TVSafety, TVOneStriker, PTL

\* Once stop() was called no further strike is fired.
THEOREM TVNoStrikeAfterStop == TVSpec => NoStrikeAfterStop
<1> DEFINE Quiet == ~tv_running => \A t \in Tasks : pc'[t] = "callback" => pc[t] = "callback"
<1>1. ASSUME TVInv, [TVNext]_tv_vars PROVE [Quiet]_tv_vars
  <2> SUFFICES ASSUME TVNext, ~tv_running, NEW t \in Tasks, pc'[t] = "callback"
               PROVE  pc[t] = "callback"
    BY <1>1
  <2> USE <1>1 DEF TVInv, TVTypeOK, TaskPC, task_vars, tv_running
  <2>1. CASE \E m \in Markets : Tick(m) \/ CheckStep(m) \/ BookUpdate(m)
    BY <2>1 DEF Tick, CheckStep, CheckRest, Ignite, CheckExpired, BookUpdate
  <2>2. CASE \E m \in Markets : CallerStep(m)
    BY <2>2 DEF CallerStep, IgniteSubscribed, IgniteFailed, CheckExpiredDone, Cancel
  <2>3. ASSUME NEW u \in Tasks, MonitorStep(u) PROVE pc[t] = "callback"
    BY <2>3 DEF MonitorStep, MonitorExit, MonitorRound, MonitorExits, CallbackReturned,
       MonitorCancelled, MonitorDone, Finally, Cancel
  <2>4. CASE StopCalled \/ StopStep
    BY <2>4 DEF StopCalled, StopStep, StopRaises, StopContinues, StopDone,
       StopCancels, StopClears, Cancel
  <2> QED
    BY <2>1, <2>2, <2>3, <2>4 DEF TVNext
<1> QED
  BY <1>1, TVSafety, PTL DEF TVSpec, NoStrikeAfterStop
=============================================================================
