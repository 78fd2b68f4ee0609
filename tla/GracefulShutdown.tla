-------------------------- MODULE GracefulShutdown --------------------------
(***************************************************************************)
(* The shutdown handler (GracefulShutdown, src/src/shutdown_handler.py):   *)
(* the signals, the tasks they start, the cleanup coroutines these await   *)
(* one after the other, and the orders and cleanups that are registered    *)
(* meanwhile.                                                              *)
(***************************************************************************)
EXTENDS Integers, Sequences, SequencesExt

CONSTANTS Orders,      \* order ids
          Cleanups,    \* cleanup coroutines
          MaxSignals   \* bound: SIGINT and SIGTERM received

Handlers == 1..MaxSignals  \* one task of _handle_shutdown() per signal

VARIABLES
  loop,       \* the handlers: "none" yet, installed with _loop "unset", or with _loop "set"
  requested,  \* _shutdown_requested
  tasks,      \* _cleanup_tasks
  orders,     \* _active_orders
  handler,    \* _handle_shutdown() of each signal: "none", "created", "cleanup", "returned", "done"
  index,      \* the cleanup each of them awaits
  ran,        \* how often each cleanup has been started
  signals

vars == <<loop, requested, tasks, orders, handler, index, ran, signals>>

TypeOK ==
  /\ loop \in {"none", "unset", "set"}
  /\ requested \in BOOLEAN
  /\ tasks \in Seq(Cleanups)
  /\ orders \subseteq Orders
  /\ handler \in [Handlers -> {"none", "created", "cleanup", "returned", "done"}]
  /\ index \in [Handlers -> 0..Len(tasks)]
  /\ ran \in [Cleanups -> Nat]
  /\ signals \in 0..MaxSignals

Init ==
  /\ loop = "none"
  /\ requested = FALSE
  /\ tasks = << >>
  /\ orders = {}
  /\ handler = [h \in Handlers |-> "none"]
  /\ index = [h \in Handlers |-> 0]
  /\ ran = [c \in Cleanups |-> 0]
  /\ signals = 0

-----------------------------------------------------------------------------
\* Each coroutine is registered once, by the component it belongs to.
RegisterCleanup(c) ==
  /\ c \notin Range(tasks)
  /\ tasks' = Append(tasks, c)
  /\ UNCHANGED <<loop, requested, orders, handler, index, ran, signals>>

RegisterOrder(o) ==
  /\ o \notin orders
  /\ orders' = orders \union {o}
  /\ UNCHANGED <<loop, requested, tasks, handler, index, ran, signals>>

UnregisterOrder(o) ==
  /\ o \in orders
  /\ orders' = orders \ {o}
  /\ UNCHANGED <<loop, requested, tasks, handler, index, ran, signals>>

\* setup_signal_handlers() inside a running loop or, _loop staying None, outside of one.
\* The handlers it gives to the loop are replaced by signal.signal() at once.
SetupSignalHandlers ==
  /\ \/ loop # "set" /\ loop' = "set"
     \/ loop = "none" /\ loop' = "unset"
  /\ UNCHANGED <<requested, tasks, orders, handler, index, ran, signals>>

\* _signal_handler()
Signal ==
  /\ loop # "none"
  /\ signals < MaxSignals
  /\ signals' = signals + 1
  /\ \/ loop = "set" /\ handler' = [handler EXCEPT ![signals'] = "created"] /\ UNCHANGED requested
     \/ loop = "unset" /\ requested' = TRUE /\ UNCHANGED handler
  /\ UNCHANGED <<loop, tasks, orders, index, ran>>

\* request_shutdown()
RequestShutdown ==
  /\ requested' = TRUE
  /\ UNCHANGED <<loop, tasks, orders, handler, index, ran, signals>>

-----------------------------------------------------------------------------
(* _handle_shutdown()                                                      *)

AlreadyInProgress(h) ==
  /\ handler[h] = "created"
  /\ requested
  /\ handler' = [handler EXCEPT ![h] = "returned"]
  /\ UNCHANGED <<loop, requested, tasks, orders, index, ran, signals>>

\* The next turn of the for loop, over the list as it is by now.
NextCleanup(h, i) ==
  IF i <= Len(tasks)
  THEN /\ index' = [index EXCEPT ![h] = i]
       /\ ran' = [ran EXCEPT ![tasks[i]] = @ + 1]
       /\ handler' = [handler EXCEPT ![h] = "cleanup"]
  ELSE handler' = [handler EXCEPT ![h] = "done"] /\ UNCHANGED <<index, ran>>

BeginShutdown_Unguarded(h) ==
  /\ handler[h] = "created"
  /\ requested' = TRUE
  /\ orders' = {}
  /\ NextCleanup(h, 1)
  /\ UNCHANGED <<loop, tasks, signals>>

\* _cancel_all_mock_orders() never suspends: up to the first cleanup it is one step.
BeginShutdown(h) ==
  /\ handler[h] = "created"
  /\ ~requested
  /\ requested' = TRUE
  /\ orders' = {}
  /\ NextCleanup(h, 1)
  /\ UNCHANGED <<loop, tasks, signals>>

\* A cleanup has returned or failed: an exception, a cancellation too, is logged.
CleanupEnds(h) ==
  /\ handler[h] = "cleanup"
  /\ NextCleanup(h, index[h] + 1)
  /\ UNCHANGED <<loop, requested, tasks, orders, signals>>

Handle(h) == AlreadyInProgress(h) \/ BeginShutdown(h) \/ CleanupEnds(h)

Next ==
  \/ \E c \in Cleanups : RegisterCleanup(c)
  \/ \E o \in Orders : RegisterOrder(o) \/ UnregisterOrder(o)
  \/ SetupSignalHandlers \/ Signal \/ RequestShutdown
  \/ \E h \in Handlers : Handle(h)

Spec == Init /\ [][Next]_vars

-----------------------------------------------------------------------------
(* Properties                                                              *)

\* "Shutdown already in progress" (_handle_shutdown()): a second signal, at any point of
\* the first one's cleanup, starts no cleanup again.
CleanupOnce == \A c \in Cleanups : ran[c] <= 1

\* "Run cleanup tasks" (_handle_shutdown()): when a shutdown is over, every cleanup that
\* was registered by then has been started, though others failed or came late.
\* (What is registered after the end is too late.)
CompletedShutdownRanAll ==
  \A h \in Handlers :
    handler[h] # "done" /\ handler'[h] = "done" => \A c \in Range(tasks) : ran'[c] >= 1

=============================================================================
