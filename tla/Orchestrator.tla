---------------------------- MODULE Orchestrator ----------------------------
(***************************************************************************)
(* Life and death of the bot: Orchestrator.run(), the services it gathers, *)
(* the signal handlers, _cleanup() and main() (src/src/main.py).           *)
(*                                                                         *)
(* asyncio.gather() is modelled from the way run() uses it: the first      *)
(* child that raises, or ends as cancelled, ends the gather and leaves the *)
(* other children running; otherwise it ends when every child has.         *)
(* asyncio.run() cancels what is left and waits for it.                    *)
(***************************************************************************)
EXTENDS Naturals, FiniteSets

CONSTANTS Services,       \* the coroutines given to gather(), by name
          HasOfi,         \* "yes": ofi_engine can be imported (HAS_OFI_ENGINE)
          MaxMonitors     \* bound: terminal markets monitored at a time

YesNo == {"yes", "no"}
AssetLoops == {"btc", "eth"}
Loopers == AssetLoops \cup {"stats"}                      \* `while orchestrator._running`
Swallowers == {"oracle", "sniper", "ta", "dashboard"}     \* may return on CancelledError
AllServices == Loopers \cup Swallowers \cup {"terminal", "ofi", "wait"}
Resources == {"terminal", "oracle", "sniper", "executor"}

ASSUME OrchestratorConstants ==
  /\ Services \subseteq AllServices
  /\ HasOfi \in YesNo
  /\ MaxMonitors \in Nat

VARIABLES
  phase,         \* where run() and main() are
  running,       \* _running
  status,        \* of every service's task
  busy,          \* the loops that are in the middle of an iteration
  shutdown,      \* _shutdown_event
  monitors,      \* terminal monitor tasks alive
  closed,        \* resources closed by _cleanup()
  cleanup_error, \* _cleanup() was cut short
  handles        \* "yes": add_signal_handler() works on this platform

vars == <<handles, phase, running, status, busy, shutdown, monitors, closed, cleanup_error>>

CleanupPhases == {"stop_terminal", "close_oracle", "close_sniper", "close_executor"}
Ended == {"done", "failed", "cancelled"}
Pending(s) == status[s] \in {"running", "cancelling"}

TypeOK ==
  /\ phase \in {"gather"} \cup CleanupPhases \cup {"leaving", "draining", "exited"}
  /\ running \in YesNo
  /\ status \in [Services -> Ended \cup {"running", "cancelling"}]
  /\ busy \subseteq Loopers \cap Services
  /\ shutdown \in YesNo
  /\ monitors \in 0..MaxMonitors
  /\ closed \subseteq Resources
  /\ cleanup_error \in YesNo
  /\ handles \in YesNo

Init ==
  /\ phase = "gather"
  /\ running = "yes"
  /\ status = [s \in Services |-> "running"]
  /\ busy = {}
  /\ shutdown = "no"
  /\ monitors = 0
  /\ closed = {}
  /\ cleanup_error = "no"
  /\ handles \in YesNo

-----------------------------------------------------------------------------
(* How a service ends                                                      *)

Finally_CleanupFirst == phase' = "stop_terminal" /\ running' = running

\* The finally clause of run().
Finally == phase' = "stop_terminal" /\ running' = "no"

\* Service s ends as result; gather() ends with it when `first` holds, or when it
\* was the last one.
End(s, result, first) ==
  /\ status' = [status EXCEPT ![s] = result]
  /\ busy' = busy \ {s}
  /\ IF phase = "gather" /\ (first \/ \A t \in Services \ {s} : ~Pending(t))
       THEN Finally
       ELSE UNCHANGED <<phase, running>>

\* When a service returns by itself: the loops once _running is off, the streams
\* once they are closed (the oracle also after its reconnection attempts), the
\* waiter on the event, and technical analysis at once: nobody calls its start(),
\* so its _running is still False.
MayReturn(s) ==
  \/ s \in Loopers \ busy /\ running = "no"
  \/ s \in {"oracle", "ta"}
  \/ s = "sniper" /\ "sniper" \in closed
  \/ s = "wait" /\ shutdown = "yes"

Returns(s) ==
  /\ status[s] = "running"
  /\ MayReturn(s)
  /\ End(s, "done", FALSE)
  /\ UNCHANGED <<handles, shutdown, monitors, closed, cleanup_error>>

\* The services whose exceptions are not caught inside: the dashboard's first
\* layout, and OFIEngine.run(), which does not exist.
MayFail(s) == s = "dashboard" \/ (s = "ofi" /\ HasOfi = "yes")

Fails(s) ==
  /\ status[s] = "running"
  /\ MayFail(s)
  /\ End(s, "failed", TRUE)
  /\ UNCHANGED <<handles, shutdown, monitors, closed, cleanup_error>>

\* TerminalVelocityController.stop(): with monitors alive the first one it cancels
\* removes itself from the dictionary under iteration, which raises.
StopMonitors == monitors' = IF monitors > 0 THEN monitors - 1 ELSE 0

Cancelled_GoesOn(s) ==
  /\ status[s] = "cancelling"
  /\ status' = [status EXCEPT ![s] = "running"]
  /\ UNCHANGED <<handles, phase, running, busy, shutdown, monitors, closed, cleanup_error>>

\* CancelledError reaches a service: some swallow it and return (unless it meets
\* them in the sleep of their error handler), the terminal service stops the
\* controller, whose errors it swallows, and raises on, the others raise.
Cancelled(s) ==
  /\ status[s] = "cancelling"
  /\ \/ s \in Swallowers /\ End(s, "done", FALSE)
     \/ End(s, "cancelled", TRUE)
  /\ IF s = "terminal" THEN StopMonitors ELSE UNCHANGED monitors
  /\ UNCHANGED <<handles, shutdown, closed, cleanup_error>>

CancelAll == status' = [s \in Services |-> IF status[s] = "running" THEN "cancelling"
                                                                    ELSE status[s]]

-----------------------------------------------------------------------------
(* The loops and the terminal markets                                      *)

IterationStarts(s) ==
  /\ s \in Loopers \ busy
  /\ status[s] = "running"
  /\ running = "yes"
  /\ busy' = busy \cup {s}
  /\ UNCHANGED <<handles, phase, running, status, shutdown, monitors, closed, cleanup_error>>

IterationEnds(s) ==
  /\ s \in busy
  /\ status[s] = "running"
  /\ busy' = busy \ {s}
  /\ UNCHANGED <<handles, phase, running, status, shutdown, monitors, closed, cleanup_error>>

\* An iteration ignites a terminal market (TerminalVelocity has the detail).
Ignites(s) ==
  /\ s \in AssetLoops \cap busy
  /\ status[s] = "running"
  /\ monitors < MaxMonitors
  /\ monitors' = monitors + 1
  /\ UNCHANGED <<handles, phase, running, status, busy, shutdown, closed, cleanup_error>>

\* A monitor ends: its market expired, the controller stopped, or it is cancelled.
MonitorEnds ==
  /\ monitors > 0
  /\ monitors' = monitors - 1
  /\ UNCHANGED <<handles, phase, running, status, busy, shutdown, closed, cleanup_error>>

-----------------------------------------------------------------------------
(* SIGINT and SIGTERM                                                      *)

\* signal_handler(): sets the event, and nothing else.
SignalHandled ==
  /\ handles = "yes"
  /\ phase = "gather"
  /\ shutdown' = "yes"
  /\ UNCHANGED <<handles, phase, running, status, busy, monitors, closed, cleanup_error>>

\* No handler on this platform: KeyboardInterrupt, asyncio.run() cancels main().
SignalCancels ==
  /\ handles = "no"
  /\ phase = "gather"
  /\ CancelAll
  /\ UNCHANGED <<handles, phase, running, busy, shutdown, monitors, closed, cleanup_error>>

-----------------------------------------------------------------------------
(* _cleanup(), then main() and asyncio.run()                               *)

StopTerminal ==
  /\ phase = "stop_terminal"
  /\ monitors = 0
  /\ closed' = closed \cup {"terminal"}
  /\ phase' = "close_oracle"
  /\ UNCHANGED <<handles, running, status, busy, shutdown, monitors, cleanup_error>>

\* stop() raised: the except clause around the whole of _cleanup() logs it.
StopTerminalRaises ==
  /\ phase = "stop_terminal"
  /\ monitors > 0
  /\ StopMonitors
  /\ cleanup_error' = "yes"
  /\ phase' = "leaving"
  /\ UNCHANGED <<handles, running, status, busy, shutdown, closed>>

CloseStep(here, resource, next) ==
  /\ phase = here
  /\ closed' = closed \cup {resource}
  /\ phase' = next
  /\ UNCHANGED <<handles, running, status, busy, shutdown, monitors, cleanup_error>>

CloseOracle == CloseStep("close_oracle", "oracle", "close_sniper")
CloseSniper == CloseStep("close_sniper", "sniper", "close_executor")
CloseExecutor == CloseStep("close_executor", "executor", "leaving")

Leave_KeepsTasks ==
  /\ phase = "leaving"
  /\ phase' = "exited"
  /\ UNCHANGED <<handles, running, status, busy, shutdown, monitors, closed, cleanup_error>>

\* run() and main() end; asyncio.run() cancels every task that is left ...
Leave ==
  /\ phase = "leaving"
  /\ phase' = "draining"
  /\ CancelAll
  /\ UNCHANGED <<handles, running, busy, shutdown, monitors, closed, cleanup_error>>

\* ... and the process exits when they have ended.
Exit ==
  /\ phase = "draining"
  /\ monitors = 0
  /\ \A s \in Services : ~Pending(s)
  /\ phase' = "exited"
  /\ UNCHANGED <<handles, running, status, busy, shutdown, monitors, closed, cleanup_error>>

CleanupStep == StopTerminal \/ StopTerminalRaises \/ CloseOracle \/ CloseSniper \/ CloseExecutor
MainStep == CleanupStep \/ Leave \/ Exit

Next ==
  \/ MainStep \/ SignalHandled \/ SignalCancels \/ MonitorEnds
  \/ \E s \in Services : \/ Returns(s) \/ Fails(s) \/ Cancelled(s)
                         \/ IterationStarts(s) \/ IterationEnds(s) \/ Ignites(s)

Spec == Init /\ [][Next]_vars

\* The event loop runs every task that can go on: main(), cancelled services, the
\* loops' iterations, the waiter, and the monitors, whose markets expire.
FairSpec ==
  /\ Spec
  /\ WF_vars(MainStep) /\ WF_vars(MonitorEnds)
  /\ \A s \in Services :
       /\ WF_vars(Cancelled(s)) /\ WF_vars(IterationEnds(s))
       /\ WF_vars(s \in Loopers \cup {"wait", "ta"} /\ Returns(s))

-----------------------------------------------------------------------------
(* Properties                                                              *)

\* _cleanup() closes in its order, and _running is off before it starts.
CleanupOrder ==
  /\ phase # "gather" => running = "no"
  /\ phase \in {"gather", "stop_terminal"} => closed = {}
  /\ phase = "close_oracle" => closed = {"terminal"}
  /\ phase = "close_sniper" => closed = {"terminal", "oracle"}
  /\ phase = "close_executor" => closed = {"terminal", "oracle", "sniper"}
  /\ phase \in {"leaving", "draining", "exited"} =>
       closed = IF cleanup_error = "yes" THEN {} ELSE Resources
  /\ cleanup_error = "yes" => phase \in {"leaving", "draining", "exited"}

\* When the process exits no service and no monitor is left, and _cleanup() has
\* closed everything unless it was cut short.
CleanExit ==
  phase = "exited" =>
    /\ \A s \in Services : status[s] \in Ended
    /\ busy = {}
    /\ monitors = 0
    /\ cleanup_error = "no" => closed = Resources

\* Both together: everything is closed, in order, and nothing is left behind.
CleanShutdown == CleanupOrder /\ CleanExit

\* Once run() is on its way out no loop begins another iteration, whichever
\* service ended the gather and whatever the others are doing.
NoNewIteration == [][phase # "gather" => busy' \subseteq busy]_vars

\* After a fatal error of any service, or a cancellation, the process exits.
LeavesToExit == phase # "gather" ~> phase = "exited"

\* "Bot started - press Ctrl+C to stop" (run()): a signal ends the process.
SignalStops == shutdown = "yes" ~> phase = "exited"

=============================================================================
