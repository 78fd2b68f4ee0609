--------------------------- MODULE ProcessManager ---------------------------
(***************************************************************************)
(* The master orchestrator (src/src/master_orchestrator.py): it starts     *)
(* containers and child processes in dependency order, restarts children   *)
(* that fail their health check, and stops everything in reverse order.    *)
(*                                                                         *)
(* Everything is registered first, and one task calls start_all() once and *)
(* stop_all() at last, also when start_all() was cancelled.  The calls of  *)
(* subprocess block the event loop, so only sleeps and callbacks let the   *)
(* health check and its owner interleave; children fail at any time.       *)
(***************************************************************************)
EXTENDS Integers, Sequences, FiniteSets, SequencesExt

CONSTANTS Procs, Containers,     \* names, sequences in registration order
          Deps,                  \* depends_on: a sequence of names for each name
          AutoRestart,           \* the processes with auto_restart
          MaxRestarts,           \* max_restarts
          MaxFaults              \* bound: failures of children, starts and docker

VARIABLES status,                \* of processes and containers
          alive,                 \* children and containers that run, as the system sees it
          handle,                \* ProcessState.process: the process it is about to stop
          restarts,              \* restart_count
          owner,                 \* where start_all() and stop_all() are
          todo,                  \* what their loop has still to visit
          health, pos,           \* _health_check_loop(): "off" while there is no task
          faults

vars == <<status, alive, handle, restarts, owner, todo, health, pos, faults>>

ProcNames == Range(Procs)
Names == ProcNames \cup Range(Containers)

TypeOK ==
  /\ status \in [Names -> {"NOT_FOUND", "EXITED", "STOPPED", "RUNNING", "CRASHED", "UNHEALTHY"}]
  /\ alive \in [Names -> Nat]
  /\ handle \in [ProcNames -> {"none", "live", "dead"}]
  /\ restarts \in [ProcNames -> 0..MaxRestarts]
  /\ owner \in {"new", "starting", "started", "stopping", "stopped"}
  /\ todo \in Seq(Names)
  /\ health \in {"off", "check", "restart", "callback", "sleep"}
  /\ pos \in 1..Len(Procs) + Len(Containers)

Init ==
  /\ status = [n \in Names |-> IF n \in ProcNames THEN "STOPPED" ELSE "NOT_FOUND"]
  /\ alive = [n \in Names |-> 0]
  /\ handle = [n \in ProcNames |-> "none"]
  /\ restarts = [n \in ProcNames |-> 0]
  /\ owner = "new" /\ todo = << >>
  /\ health = "off" /\ pos = 1
  /\ faults = 0

-----------------------------------------------------------------------------
\* visit() of _get_dependency_order(): what a name depends on comes before it, each name once;
\* `path` are the names on the way, visited but not yet ordered.
Visit[acc \in Seq(Names), path \in Seq(Names)] ==
  LET name == Head(path) IN
  IF name \in Range(acc) \cup Range(Tail(path)) THEN acc
  ELSE Append(FoldLeft(LAMBDA a, d : Visit[a, <<d>> \o path], acc, Deps[name]), name)

DependencyOrder_Registration(names) == names

\* _get_dependency_order()
DependencyOrder(names) == FoldLeft(LAMBDA acc, name : Visit[acc, <<name>>], << >>, names)

StartAll ==
  /\ owner = "new"
  /\ owner' = "starting"
  /\ todo' = DependencyOrder(Containers) \o DependencyOrder(Procs)
  /\ UNCHANGED <<status, alive, handle, restarts, health, pos, faults>>

\* _start_process() and _start_container()
StartOk(n) ==
  IF status[n] = "RUNNING" /\ n \in ProcNames THEN UNCHANGED <<status, alive, handle, faults>>
  ELSE /\ status' = [status EXCEPT ![n] = "RUNNING"]
       /\ alive' = [alive EXCEPT ![n] = IF n \in ProcNames THEN @ + 1 ELSE 1]
       /\ handle' = IF n \in ProcNames THEN [handle EXCEPT ![n] = "live"] ELSE handle
       /\ UNCHANGED faults

StartFails(n) ==
  /\ faults < MaxFaults
  /\ faults' = faults + 1
  /\ status' = [status EXCEPT ![n] = IF n \in ProcNames THEN "CRASHED" ELSE "EXITED"]
  /\ UNCHANGED <<alive, handle>>

\* A round of the loops of start_all(): a failed start does not stop it.
StartNext ==
  /\ owner = "starting" /\ todo # << >>
  /\ StartOk(Head(todo)) \/ StartFails(Head(todo))
  /\ todo' = Tail(todo)
  /\ UNCHANGED <<restarts, owner, health, pos>>

\* The health check task begins when everything was started.
StartDone ==
  /\ owner = "starting" /\ todo = << >>
  /\ owner' = "started"
  /\ health' = "check" /\ pos' = 1
  /\ UNCHANGED <<status, alive, handle, restarts, todo, faults>>

-----------------------------------------------------------------------------
\* _stop_process(): terminate(), kill() after ten seconds, and the handle is gone.
StopProcess(n) ==
  /\ status' = [status EXCEPT ![n] = "STOPPED"]
  /\ alive' = [alive EXCEPT ![n] = IF handle[n] = "live" /\ status[n] # "STOPPED" THEN @ - 1 ELSE @]
  /\ handle' = [handle EXCEPT ![n] = IF status[n] = "STOPPED" THEN @ ELSE "none"]

\* _stop_container(): docker stop works, or its failure is ignored.
StopContainer(n) ==
  \/ /\ status' = [status EXCEPT ![n] = "EXITED"]
     /\ alive' = [alive EXCEPT ![n] = 0]
     /\ UNCHANGED faults
  \/ /\ faults < MaxFaults
     /\ faults' = faults + 1
     /\ UNCHANGED <<status, alive>>

\* stop_all() cancels the health check wherever it waits.
StopAll ==
  /\ owner \in {"starting", "started"}
  /\ owner' = "stopping"
  /\ health' = "off"
  /\ todo' = Reverse(DependencyOrder(Procs)) \o Reverse(DependencyOrder(Containers))
  /\ UNCHANGED <<status, alive, handle, restarts, pos, faults>>

StopNext ==
  /\ owner = "stopping" /\ todo # << >>
  /\ \/ Head(todo) \in ProcNames /\ StopProcess(Head(todo)) /\ UNCHANGED faults
     \/ Head(todo) \notin ProcNames /\ StopContainer(Head(todo)) /\ UNCHANGED handle
  /\ todo' = Tail(todo)
  /\ UNCHANGED <<restarts, owner, health, pos>>

\* The state is saved and stop_all() returns.
StopDone ==
  /\ owner = "stopping" /\ todo = << >>
  /\ owner' = "stopped"
  /\ UNCHANGED <<status, alive, handle, restarts, todo, health, pos, faults>>

-----------------------------------------------------------------------------
(* _health_check_loop()                                                    *)

Checked == (Procs \o Containers)[pos]
Onward == IF pos < Len(Procs) + Len(Containers) THEN health' = "check" /\ pos' = pos + 1
          ELSE health' = "sleep" /\ pos' = 1

\* _check_process_health(), _check_container_health(): what is not RUNNING is not looked at.
CheckPasses ==
  /\ health = "check"
  /\ status[Checked] = "RUNNING" =>
       alive[Checked] > 0 /\ (Checked \in ProcNames => handle[Checked] = "live")
  /\ Onward
  /\ UNCHANGED <<status, alive, handle, restarts, owner, todo, faults>>

RestartAllowed(n) == restarts[n] < MaxRestarts

\* The process has ended, or (a fault) its health command fails although it runs.
CheckFails ==
  /\ health = "check" /\ status[Checked] = "RUNNING"
  /\ \/ alive[Checked] = 0 /\ UNCHANGED faults
     \/ alive[Checked] > 0 /\ faults < MaxFaults /\ faults' = faults + 1
  /\ \/ /\ Checked \in AutoRestart /\ RestartAllowed(Checked)    \* _restart_process()
        /\ restarts' = [restarts EXCEPT ![Checked] = @ + 1]
        /\ StopProcess(Checked)
        /\ health' = "restart" /\ UNCHANGED pos
     \/ /\ Checked \in AutoRestart /\ ~RestartAllowed(Checked)
        /\ status' = [status EXCEPT ![Checked] = "CRASHED"]
        /\ Onward
        /\ UNCHANGED <<alive, handle, restarts>>
     \/ /\ Checked \notin AutoRestart
        /\ status' = [status EXCEPT ![Checked] = IF Checked \in ProcNames THEN "UNHEALTHY"
                                                 ELSE "EXITED"]
        /\ health' = "callback"
        /\ UNCHANGED <<alive, handle, restarts, pos>>
  /\ UNCHANGED <<owner, todo>>

\* The restart delay is over.
RestartStarts ==
  /\ health = "restart"
  /\ StartOk(Checked) \/ StartFails(Checked)
  /\ Onward
  /\ UNCHANGED <<restarts, owner, todo>>

\* _safe_callback() is over, or the sleep between two rounds.
HealthWakes ==
  /\ \/ health = "callback" /\ Onward
     \/ health = "sleep" /\ health' = "check" /\ UNCHANGED pos
  /\ UNCHANGED <<status, alive, handle, restarts, owner, todo, faults>>

\* A child or a container ends by itself.
Dies(n) ==
  /\ alive[n] > 0
  /\ faults < MaxFaults
  /\ faults' = faults + 1
  /\ alive' = [alive EXCEPT ![n] = @ - 1]
  /\ handle' = IF n \in ProcNames THEN [handle EXCEPT ![n] = "dead"] ELSE handle
  /\ UNCHANGED <<status, restarts, owner, todo, health, pos>>

Next ==
  \/ StartAll \/ StartNext \/ StartDone \/ StopAll \/ StopNext \/ StopDone
  \/ CheckPasses \/ CheckFails \/ RestartStarts \/ HealthWakes
  \/ \E n \in Names : Dies(n)

Spec == Init /\ [][Next]_vars

-----------------------------------------------------------------------------
(* Properties                                                              *)

\* Every child that runs is the one its handle names: no restart, failed start or cancelled
\* start_all() leaves a second instance behind (_restart_process(), _start_process()).
NoStrayChild == \A n \in ProcNames : alive[n] = IF handle[n] = "live" THEN 1 ELSE 0

\* After stop_all() no child runs, wherever the health check was cancelled.
StoppedMeansGone == owner = "stopped" => \A n \in ProcNames : alive[n] = 0

\* A process is started after what it depends on was, and at shutdown outlives nothing that
\* depends on it (_get_dependency_order()).
DependenciesFirst ==
  \A i \in 1..Len(todo) : \A n \in Range(Deps[todo[i]]) :
    /\ owner = "starting" => n \notin Range(SubSeq(todo, i + 1, Len(todo)))
    /\ owner = "stopping" => n \in Range(SubSeq(todo, i + 1, Len(todo)))
=============================================================================
