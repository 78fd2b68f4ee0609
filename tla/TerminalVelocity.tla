-------------------------- MODULE TerminalVelocity --------------------------
(***************************************************************************)
(* TerminalVelocityController (src/src/terminal_velocity.py): at T-60 s a  *)
(* market is handed from REST scanning to its own monitor task, which      *)
(* fires the strike callback until the market expires.                     *)
(*                                                                         *)
(* Three kinds of task share the dictionaries: the asset loop that calls   *)
(* check_market_for_terminal() for its market (main.py), the monitors, and *)
(* the one call of stop().  An action is the code between two suspensions. *)
(* _state_lock is left out: the code under it never suspends, so it is     *)
(* never contended.  _token_to_market gains and loses a market's tokens    *)
(* together with its _terminal_markets entry, so one variable stands for   *)
(* both.  The sniper is abstract: the set of markets whose tokens it is    *)
(* subscribed to (module Sniper has the detail).                           *)
(***************************************************************************)
EXTENDS Naturals, FiniteSets

CONSTANTS Markets,     \* condition ids (each belongs to one asset loop)
          Tasks,       \* bound: identities for monitor tasks, one per ignition
          NoTask       \* no entry in _monitor_tasks

ASSUME TVConstants == /\ Markets # {}
                      /\ IsFiniteSet(Markets)
                      /\ NoTask \notin Tasks

VARIABLES
  clock,          \* external: what is left of each market's life
  phase,          \* _terminal_markets[m].phase; "none": no entry
  hot,            \* the last bid or ask meets the strike condition
  caller,         \* where check_market_for_terminal(m) is suspended
  monitor_tasks,  \* _monitor_tasks
  market_of,      \* the market a task monitors
  pc,             \* where each monitor task is
  subs,           \* markets whose tokens the sniper is subscribed to
  stop,           \* where stop() is; _running is stop = "no"
  stop_size,      \* size of _monitor_tasks when stop() started to iterate it
  stop_task,      \* the task stop() awaits
  stop_tokens     \* its local all_tokens (as markets)

task_vars == <<monitor_tasks, market_of, pc>>
stop_vars == <<stop, stop_size, stop_task, stop_tokens>>
tv_vars == <<clock, phase, hot, caller, task_vars, subs, stop_vars>>

Clock == {"cruise", "terminal", "strike", "expired"}
Phase == {"none", "igniting", "streaming", "striking", "completed", "inactive"}
TaskPC == {"free", "created", "loop", "callback", "cancelled", "unsub", "done"}

TVTypeOK ==
  /\ clock \in [Markets -> Clock]
  /\ phase \in [Markets -> Phase]
  /\ hot \in [Markets -> {"yes", "no"}]
  /\ caller \in [Markets -> {"idle", "subscribing", "unsubscribing"}]
  /\ monitor_tasks \in [Markets -> Tasks \cup {NoTask}]
  /\ market_of \in [Tasks -> Markets]
  /\ pc \in [Tasks -> TaskPC]
  /\ subs \subseteq Markets
  /\ stop \in {"no", "awaiting", "unsub", "done", "raised"}
  /\ stop_size \in Nat
  /\ stop_task \in Tasks \cup {NoTask}
  /\ stop_tokens \subseteq Markets

TVInit ==
  /\ clock = [m \in Markets |-> "cruise"]
  /\ phase = [m \in Markets |-> "none"]
  /\ hot = [m \in Markets |-> "no"]
  /\ caller = [m \in Markets |-> "idle"]
  /\ monitor_tasks = [m \in Markets |-> NoTask]
  /\ market_of = [t \in Tasks |-> CHOOSE m \in Markets : TRUE]
  /\ pc = [t \in Tasks |-> "free"]
  /\ subs = {}
  /\ stop = "no"
  /\ stop_size = 0
  /\ stop_task = NoTask
  /\ stop_tokens = {}

\* _running
tv_running == stop = "no"

\* Monitors that can still fire a strike.
Active == {"created", "loop", "callback"}

Registered == {m \in Markets : monitor_tasks[m] # NoTask}

-----------------------------------------------------------------------------
(* External: time passes.                                                  *)

Tick(m) ==
  /\ clock[m] # "expired"
  /\ clock' = [clock EXCEPT ![m] = CASE clock[m] = "cruise" -> "terminal"
                                     [] clock[m] = "terminal" -> "strike"
                                     [] clock[m] = "strike" -> "expired"]
  /\ UNCHANGED <<phase, hot, caller, task_vars, subs, stop_vars>>

-----------------------------------------------------------------------------
(* check_market_for_terminal() and the asset loop around it                *)

\* A cancellation is delivered in the next iteration of the event loop, long
\* before the asset loop has scanned again.
CancellationPending(m) == \E t \in Tasks : market_of[t] = m /\ pc[t] = "cancelled"

CanCheck(m) ==
  /\ caller[m] = "idle"
  /\ ~CancellationPending(m)

\* Not tracked and not yet at T-60: the market stays with REST, and the asset
\* loop subscribes to its tokens.
CheckRest(m) ==
  /\ CanCheck(m)
  /\ phase[m] = "none"
  /\ clock[m] = "cruise"
  /\ subs' = subs \cup {m}
  /\ UNCHANGED <<clock, phase, hot, caller, task_vars, stop_vars>>

IgniteGuard_Retrack(m) == clock[m] # "cruise"

\* At or past T-60, and not tracked already.
IgniteGuard(m) == phase[m] = "none" /\ clock[m] # "cruise"

\* _ignite_terminal_mode(): the entry is made, REST is told to stop, and the
\* caller suspends in sniper.subscribe().
Ignite(m) ==
  /\ CanCheck(m)
  /\ IgniteGuard(m)
  /\ phase' = [phase EXCEPT ![m] = "igniting"]
  /\ hot' = [hot EXCEPT ![m] = "no"]
  /\ caller' = [caller EXCEPT ![m] = "subscribing"]
  /\ UNCHANGED <<clock, task_vars, subs, stop_vars>>

\* subscribe() returned: the monitor task is created and registered.
IgniteSubscribed(m) ==
  /\ caller[m] = "subscribing"
  /\ subs' = subs \cup {m}
  /\ phase' = [phase EXCEPT ![m] = "streaming"]
  /\ \E t \in Tasks :
       /\ pc[t] = "free"
       /\ market_of' = [market_of EXCEPT ![t] = m]
       /\ pc' = [pc EXCEPT ![t] = "created"]
       /\ monitor_tasks' = [monitor_tasks EXCEPT ![m] = t]
  /\ caller' = [caller EXCEPT ![m] = "idle"]
  /\ UNCHANGED <<clock, hot, stop_vars>>

\* subscribe() raised: the entry stays, with no monitor.
IgniteFailed(m) ==
  /\ caller[m] = "subscribing"
  /\ phase' = [phase EXCEPT ![m] = "inactive"]
  /\ caller' = [caller EXCEPT ![m] = "idle"]
  /\ UNCHANGED <<clock, hot, task_vars, subs, stop_vars>>

\* Tracked and expired: _handle_market_expiry() drops the entry and suspends
\* in sniper.unsubscribe().
CheckExpired(m) ==
  /\ CanCheck(m)
  /\ phase[m] # "none"
  /\ clock[m] = "expired"
  /\ phase' = [phase EXCEPT ![m] = "none"]
  /\ caller' = [caller EXCEPT ![m] = "unsubscribing"]
  /\ UNCHANGED <<clock, hot, task_vars, subs, stop_vars>>

\* task.cancel(): a task that never started ends without running its finally;
\* one inside unsubscribe() is torn out of it.
Cancel(p) == CASE p \in {"created", "unsub"} -> "done"
               [] p \in {"loop", "callback"} -> "cancelled"
               [] OTHER -> p

\* Tail of _handle_market_expiry(): the registered task is popped and, unless
\* done, cancelled (a task that cancels itself is just ending).
PopTask(m) == monitor_tasks' = [monitor_tasks EXCEPT ![m] = NoTask]

\* Back in the asset loop with False, which subscribes to the tokens again.
CheckExpiredDone(m) ==
  /\ caller[m] = "unsubscribing"
  /\ PopTask(m)
  /\ pc' = [t \in Tasks |-> IF t = monitor_tasks[m] THEN Cancel(pc[t]) ELSE pc[t]]
  /\ subs' = subs \cup {m}
  /\ caller' = [caller EXCEPT ![m] = "idle"]
  /\ UNCHANGED <<clock, phase, hot, market_of, stop_vars>>

-----------------------------------------------------------------------------
(* _terminal_monitor_task()                                                *)

\* The finally clause up to its first suspension.
Finally(t) ==
  LET m == market_of[t] IN
  /\ phase' = [phase EXCEPT ![m] = "none"]
  /\ pc' = [pc EXCEPT ![t] = IF phase[m] = "none" THEN "done" ELSE "unsub"]

MonitorExits_IgnoresStop(t) ==
  LET m == market_of[t] IN phase[m] = "none" \/ clock[m] = "expired"

\* The conditions that end the loop.
MonitorExits(t) ==
  LET m == market_of[t] IN ~tv_running \/ phase[m] = "none" \/ clock[m] = "expired"

MonitorExit(t) ==
  /\ pc[t] \in {"created", "loop"}
  /\ MonitorExits(t)
  /\ Finally(t)
  /\ UNCHANGED <<clock, hot, caller, monitor_tasks, market_of, subs, stop_vars>>

\* One round of the loop: enter the strike zone, then sleep or await the
\* strike callback.
MonitorRound(t) ==
  LET m == market_of[t] IN
  /\ pc[t] \in {"created", "loop"}
  /\ ~MonitorExits(t)
  /\ phase' = IF clock[m] = "strike" THEN [phase EXCEPT ![m] = "striking"] ELSE phase
  /\ pc' = [pc EXCEPT ![t] = IF hot[m] = "yes" THEN "callback" ELSE "loop"]
  /\ UNCHANGED <<clock, hot, caller, monitor_tasks, market_of, subs, stop_vars>>

\* The strike callback returned; its exceptions are caught.
CallbackReturned(t) ==
  /\ pc[t] = "callback"
  /\ pc' = [pc EXCEPT ![t] = "loop"]
  /\ UNCHANGED <<clock, phase, hot, caller, monitor_tasks, market_of, subs, stop_vars>>

\* CancelledError arrives at the await the task is suspended in.
MonitorCancelled(t) ==
  /\ pc[t] = "cancelled"
  /\ Finally(t)
  /\ UNCHANGED <<clock, hot, caller, monitor_tasks, market_of, subs, stop_vars>>

MonitorDone_NoUnsubscribe(t) ==
  LET m == market_of[t] IN
  /\ pc[t] = "unsub"
  /\ PopTask(m)
  /\ pc' = [pc EXCEPT ![t] = "done"]
  /\ UNCHANGED <<clock, phase, hot, caller, market_of, subs, stop_vars>>

\* unsubscribe() returned: the rest of _handle_market_expiry().  The task it
\* pops and cancels is the one registered now, which need not be itself.
MonitorDone(t) ==
  LET m == market_of[t] IN
  /\ pc[t] = "unsub"
  /\ subs' = subs \ {m}
  /\ PopTask(m)
  /\ pc' = [u \in Tasks |-> CASE u = t -> "done"
                              [] u # t /\ u = monitor_tasks[m] -> Cancel(pc[u])
                              [] OTHER -> pc[u]]
  /\ UNCHANGED <<clock, phase, hot, caller, market_of, stop_vars>>

-----------------------------------------------------------------------------
(* _on_orderbook_update()                                                  *)

BookUpdate(m) ==
  /\ m \in subs
  /\ phase[m] # "none"
  /\ hot' = [hot EXCEPT ![m] = IF hot[m] = "yes" THEN "no" ELSE "yes"]
  /\ UNCHANGED <<clock, phase, caller, task_vars, subs, stop_vars>>

-----------------------------------------------------------------------------
(* stop()                                                                  *)

\* The next task that is not done is cancelled and awaited.
StopCancels(t) ==
  /\ \E m \in Markets : monitor_tasks[m] = t
  /\ pc[t] # "done"
  /\ pc' = [pc EXCEPT ![t] = Cancel(pc[t])]
  /\ stop' = "awaiting"
  /\ stop_task' = t
  /\ UNCHANGED <<monitor_tasks, stop_tokens>>

\* No task is left: the dictionary is cleared, and the tokens of the markets
\* still mapped are unsubscribed, if there are any.
StopClears ==
  /\ \A m \in Registered : pc[monitor_tasks[m]] = "done"
  /\ monitor_tasks' = [m \in Markets |-> NoTask]
  /\ stop_tokens' = {m \in Markets : phase[m] # "none"}
  /\ stop' = IF stop_tokens' = {} THEN "done" ELSE "unsub"
  /\ stop_task' = NoTask
  /\ UNCHANGED pc

StopCalled ==
  /\ stop = "no"
  /\ stop_size' = Cardinality(Registered)
  /\ (\E t \in Tasks : StopCancels(t)) \/ StopClears
  /\ UNCHANGED <<clock, phase, hot, caller, market_of, subs>>

SizeChanged == Cardinality(Registered) # stop_size

\* The awaited task is done, but the dictionary changed size under the
\* iteration: RuntimeError.
StopRaises ==
  /\ stop = "awaiting"
  /\ pc[stop_task] = "done"
  /\ SizeChanged
  /\ stop' = "raised"
  /\ UNCHANGED <<clock, phase, hot, caller, task_vars, subs, stop_size, stop_task,
                 stop_tokens>>

StopContinues ==
  /\ stop = "awaiting"
  /\ pc[stop_task] = "done"
  /\ ~SizeChanged
  /\ (\E t \in Tasks : StopCancels(t)) \/ StopClears
  /\ UNCHANGED <<clock, phase, hot, caller, market_of, subs, stop_size>>

StopDone ==
  /\ stop = "unsub"
  /\ subs' = subs \ stop_tokens
  /\ stop' = "done"
  /\ UNCHANGED <<clock, phase, hot, caller, task_vars, stop_size, stop_task, stop_tokens>>

-----------------------------------------------------------------------------
(* The specification                                                       *)

CallerStep(m) == IgniteSubscribed(m) \/ IgniteFailed(m) \/ CheckExpiredDone(m)
CheckStep(m) == CheckRest(m) \/ Ignite(m) \/ CheckExpired(m)
MonitorStep(t) ==
  \/ MonitorExit(t) \/ MonitorRound(t) \/ CallbackReturned(t)
  \/ MonitorCancelled(t) \/ MonitorDone(t)
StopStep == StopRaises \/ StopContinues \/ StopDone

TVNext ==
  \/ \E m \in Markets : Tick(m) \/ CheckStep(m) \/ CallerStep(m) \/ BookUpdate(m)
  \/ \E t \in Tasks : MonitorStep(t)
  \/ StopCalled \/ StopStep

TVSpec == TVInit /\ [][TVNext]_tv_vars

\* Time passes, and the event loop runs every ready task; the sniper's sends
\* and the strike callback return.  Nothing forces a scan or a call of stop().
TVFairness ==
  /\ \A m \in Markets : WF_tv_vars(Tick(m)) /\ WF_tv_vars(CallerStep(m))
  /\ \A t \in Tasks : WF_tv_vars(MonitorStep(t))
  /\ WF_tv_vars(StopStep)

TVFairSpec == TVSpec /\ TVFairness

-----------------------------------------------------------------------------
(* Properties                                                              *)

\* No market ever has two monitors that can fire strikes, however checks,
\* expiry handling, a late re-ignition and stop() interleave: each strike may
\* place an order.
OneStriker ==
  \A t, u \in Tasks :
     pc[t] \in Active /\ pc[u] \in Active /\ market_of[t] = market_of[u] => t = u

\* A live market in STREAMING or STRIKING is subscribed and has its registered,
\* running monitor: no interleaving leaves it half set up.
StreamingIsMonitored ==
  \A m \in Markets :
     phase[m] \in {"streaming", "striking"} /\ clock[m] # "expired" /\ tv_running
       => /\ m \in subs
          /\ monitor_tasks[m] # NoTask
          /\ pc[monitor_tasks[m]] \in Active

\* Both together: a market that streams has one monitor, the registered one.
OneMonitorEach == OneStriker /\ StreamingIsMonitored

\* An expired market is given up although nothing forces another scan: its
\* monitor has the sniper unsubscribed, unless the asset loop comes back to it
\* first.  (The entry itself may survive: a check that re-ignites the market
\* while its old monitor is unsubscribing gets its new monitor cancelled.)
ExpiredSessionEnds ==
  \A m \in Markets :
     (phase[m] \in {"streaming", "striking"} /\ clock[m] = "expired" /\ tv_running)
        ~> (m \notin subs \/ caller[m] # "idle" \/ ~tv_running)

\* Once stop() was called no further strike is fired, although stop() may raise
\* before it has cancelled every monitor.
NoStrikeAfterStop ==
  [][~tv_running => \A t \in Tasks : pc'[t] = "callback" => pc[t] = "callback"]_tv_vars

-----------------------------------------------------------------------------
(* The inductive invariant behind OneStriker                               *)

\* A monitor that can fire is the registered one, and its market is past
\* ignition or its expiry is being handled by the asset loop.
ActiveIsRegistered ==
  \A t \in Tasks : pc[t] \in Active =>
     /\ monitor_tasks[market_of[t]] = t
     /\ \/ phase[market_of[t]] \in {"streaming", "striking"}
        \/ caller[market_of[t]] = "unsubscribing"

\* While the asset loop is inside the controller it owns the market's entry.
CallerOwnsEntry ==
  \A m \in Markets : /\ caller[m] = "subscribing" <=> phase[m] = "igniting"
                     /\ caller[m] = "unsubscribing" => phase[m] = "none"

\* No cancellation is under way while a market ignites or has a firing monitor.
CancelledAlone ==
  \A t \in Tasks : pc[t] = "cancelled" =>
     /\ caller[market_of[t]] # "subscribing"
     /\ \A u \in Tasks : pc[u] \in Active => market_of[u] # market_of[t]

\* _monitor_tasks files a task under the market it monitors.
FiledUnderItsMarket ==
  \A m \in Markets : monitor_tasks[m] # NoTask =>
     market_of[monitor_tasks[m]] = m /\ pc[monitor_tasks[m]] # "free"

\* Until stop() is called, a monitor ends and an expiry is handled only for an expired market,
\* so what they undo is never a live session.
EndedIsExpired ==
  tv_running =>
    /\ \A t \in Tasks : pc[t] \in {"cancelled", "unsub"} => clock[market_of[t]] = "expired"
    /\ \A m \in Markets : caller[m] = "unsubscribing" => clock[m] = "expired"

TVInv ==
  /\ TVTypeOK
  /\ ActiveIsRegistered
  /\ CallerOwnsEntry
  /\ CancelledAlone
  /\ FiledUnderItsMarket
  /\ EndedIsExpired
  /\ StreamingIsMonitored

=============================================================================
