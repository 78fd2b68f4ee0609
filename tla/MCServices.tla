----------------------------- MODULE MCServices -----------------------------
(***************************************************************************)
(* One instance for TLC of the services that share no state and never call *)
(* each other: the price oracle, the order flow engine, the scanner, the   *)
(* throttle overwatch, the audit log, the shutdown handler, the process    *)
(* manager, the capital tracker, the matching engine, the message bus, the *)
(* tick buffer, the configuration reloader, the archiver and the error log *)
(* next to it, and the technical analyzer.                                 *)
(*                                                                         *)
(* Whatever one of them does leaves the others as they are, so what can    *)
(* be reached in one does not depend on when the others move.  `moves`     *)
(* names the service whose steps a behaviour is about: the run explores    *)
(* the sum of their state spaces instead of the product.  The constants    *)
(* are in the configuration, or with the instances below.                  *)
(***************************************************************************)
EXTENDS Integers, Sequences, FiniteSets, TLC

CONSTANTS
  MaxAttempts, RollingWindow, MaxTime, MaxMessages, MaxOutages,         \* Oracle
  Callbacks, Tasks, MaxChanges,                                         \* Overwatch
  Contents, MaxInMemory, MaxLogged, MaxRestarts,                        \* AuditLog
  Orders, Cleanups, MaxSignals,                                         \* GracefulShutdown
  Conditions, Callers, Amounts, StartingUsdc, MaxTrades, NoCaller,      \* CapitalTracker
  Prices, Quantities, OrderTypes, TickSize, MinPrice, MaxPrice, MaxOrders,  \* MatchingEngine
  Tolerance,                             \* of both, in their least units
  Interval, Ahead, MinLeft, MaxLeft, Cruising, Terminal, Listed,        \* Scanner
  MaxRetries, MaxBackoff, MaxNow, MaxFailures,
  Keys, Values, Absent, Invalid, MaxEdits, MaxSets, MaxReloads,         \* HotReloader
  Day, Keep, Chunk, ArchiveTime, MaxDeletes,                            \* Archiver
  RecoveryAttempts, MaxErrors, MaxCrashes,
  Topics, Subscribed, HighWater, QueueSize, BusMessages, MaxStarts,     \* MessageBus
  TickTasks, Times, TickPrices, TickInterval, Periods, MaxSize,         \* TickBuffer
  MaxTicks, MaxClears, TickFailures

\* Limits and times are whole numbers, the limits of the code at least one.
ASSUME ServiceConstants ==
  /\ {MaxAttempts, RollingWindow, MaxTime, MaxMessages, MaxOutages} \subseteq Nat
  /\ IsFiniteSet(Callbacks) /\ MaxChanges \in Nat
  /\ {MaxLogged, MaxRestarts} \subseteq Nat /\ MaxInMemory \in Nat \ {0}
  /\ MaxSignals \in Nat
  /\ Conditions # {} /\ NoCaller \notin Callers
  /\ Amounts \subseteq Nat /\ {StartingUsdc, Tolerance, MaxTrades} \subseteq Nat

\* The code's 60 s to 360 s: five slugs of 300 s reach beyond the window, however long their
\* queries take.
ASSUME ScannerConstants ==
  /\ {Interval, MinLeft, Ahead, MaxRetries} \subseteq Nat \ {0}
  /\ {MaxLeft, Cruising, Terminal, MaxBackoff, MaxNow, MaxFailures} \subseteq Nat
  /\ Listed \subseteq Nat \ {0}
  /\ MaxLeft + MaxBackoff <= Ahead * Interval

\* The clock of the archiver starts when the first chunk is complete.
ASSUME FileConstants ==
  /\ IsFiniteSet(Keys) /\ MaxReloads \in Nat
  /\ {Day, Chunk} \subseteq Nat \ {0} /\ {Keep, ArchiveTime} \subseteq Nat
  /\ Keep + Chunk <= ArchiveTime
  /\ {RecoveryAttempts, MaxErrors} \subseteq Nat

\* Queues and buffers hold something.
ASSUME TransportConstants ==
  /\ {HighWater, BusMessages, MaxStarts} \subseteq Nat /\ QueueSize \in Nat \ {0}
  /\ IsFiniteSet(TickTasks) /\ Times \subseteq Nat /\ TickPrices \subseteq Int
  /\ {TickInterval, Periods, MaxSize} \subseteq Nat \ {0}
  /\ {MaxTicks, MaxClears, TickFailures} \subseteq Nat

VARIABLES
  moves,
  stream, running, connected, attempts, ws, closing, asked, failures, prices, now, messages,
  outages,
  level, callbacks, notifier, pos, status, due, told, changes,
  entries, hashes, logFile, hashFile, logged, process,
  loop, requested, tasks, active_orders, handler, index, ran, signals,
  shares, usdc, history, lock, merger, local, bought, trades,
  orders, book, lookup, fills, stats,
  scanner_now, scanner_pc, scanner_running, since, request, markets, seen, mode,
  scanner_failures, reported, hidden,
  manager_status, alive, handle, restarts, owner, todo, health, manager_pos, faults,
  ofi_now, ofi_pc, ofi_running, delay, snapshot, ofi_prices, state, ofi_messages, ofi_outages,
  ofi_told,
  bus_running, fallback, sequence, wire, queue, subscriber, received, starts, lost,
  manager, ticks_connected, ticks_pc, sending, memory, list, latest, pushed, clears,
  ticks_failures, dropped, gone, untrimmed, disturbed,
  file, editing, saving, config, config_history, watcher, sighup, scheduled, edits, sets,
  config_signals, sources, byhand,
  archive_now, db, pool, job, files, last, deleted, deletes, disciplined, program, error_count,
  archive_attempts, state_file, crashes, recorded, forgetful,
  ta_now, ta_price, moves_left, ta_running, aggregator, analysis, candles, building, shared, rsi,
  micro, prev_rsi, last_signal, raises, first, said,
  outcomes, ta_stats, ta_file, ta_recorded, ta_faults, torn

MCBuckets == <<"polymarket_rest", "polymarket_ws", "binance_ws">>

Oracle == INSTANCE Oracle WITH pc <- stream
Throttle == INSTANCE Overwatch WITH pc <- notifier, Buckets <- MCBuckets
Audit == INSTANCE AuditLog
Shutdown == INSTANCE GracefulShutdown WITH orders <- active_orders
Capital == INSTANCE CapitalTracker WITH pc <- merger
Engine == INSTANCE MatchingEngine

\* The user interface needs the model and the feed, the model needs the feed.
MCProcs == <<"ml", "feed", "ui">>
MCContainers == <<"db", "cache">>
MCDeps == [ml |-> <<"feed">>, feed |-> << >>, ui |-> <<"ml", "feed">>,
           db |-> <<"cache">>, cache |-> << >>]

Scan == INSTANCE Scanner WITH
  now <- scanner_now, pc <- scanner_pc, running <- scanner_running, failures <- scanner_failures

Manager == INSTANCE ProcessManager WITH
  Procs <- MCProcs, Containers <- MCContainers, Deps <- MCDeps, AutoRestart <- {"ml", "feed"},
  MaxRestarts <- 1, MaxFaults <- 3, status <- manager_status, pos <- manager_pos

Flow == INSTANCE OFIEngine WITH
  Volumes <- {10, 50}, Mids <- {0, 1000, 1002}, SpikeWindow <- 1, SpikePerMille <- 1,
  MaxPrices <- 2, MaxDelay <- 3, MaxTime <- 2, MaxMessages <- 3, MaxOutages <- 2,
  now <- ofi_now, pc <- ofi_pc, running <- ofi_running, prices <- ofi_prices,
  messages <- ofi_messages, outages <- ofi_outages, told <- ofi_told

Bus == INSTANCE MessageBus WITH
  MaxMessages <- BusMessages, running <- bus_running

Ticks == INSTANCE TickBuffer WITH
  Tasks <- TickTasks, Prices <- TickPrices, Interval <- TickInterval, MaxFailures <- TickFailures,
  connected <- ticks_connected, pc <- ticks_pc, failures <- ticks_failures

Reloader == INSTANCE HotReloader WITH
  MaxSignals <- MaxReloads, history <- config_history, signals <- config_signals

Archive == INSTANCE Archiver WITH
  MaxTime <- ArchiveTime, MaxAttempts <- RecoveryAttempts, now <- archive_now,
  attempts <- archive_attempts

\* The code's 14, 5, 30 s and 60 s: a cooldown outlasts a candle and the two warm-ups that can
\* delay it, Cooldown > Interval + 2 * Period - Micro.
TA == INSTANCE TAFallback WITH
  Symbols <- <<"BTC", "ETH">>, Prices <- [BTC |-> {1, 2, 5}, ETH |-> {1, 2}], Period <- 3,
  Micro <- 2, Interval <- 2, Cooldown <- 7, ErrorPause <- 1, MaxCandles <- 4,
  Types <- {"shift", "early"}, MaxTime <- 12, MaxMoves <- 3, MaxRaises <- 1, MaxRecords <- 3,
  MaxFaults <- 2, now <- ta_now, price <- ta_price, running <- ta_running, signals <- outcomes,
  stats <- ta_stats, file <- ta_file, recorded <- ta_recorded, faults <- ta_faults

oracle_vars == <<stream, running, connected, attempts, ws, closing, asked, failures, prices,
                 now, messages, outages>>
throttle_vars == <<level, callbacks, notifier, pos, status, due, told, changes>>
audit_vars == <<entries, hashes, logFile, hashFile, logged, process>>
shutdown_vars == <<loop, requested, tasks, active_orders, handler, index, ran, signals>>
capital_vars == <<shares, usdc, history, lock, merger, local, bought, trades>>
engine_vars == <<orders, book, lookup, fills, stats>>
scanner_vars == <<scanner_now, scanner_pc, scanner_running, since, request, markets, seen, mode,
                  scanner_failures, reported, hidden>>
manager_vars == <<manager_status, alive, handle, restarts, owner, todo, health, manager_pos,
                  faults>>
ofi_vars == <<ofi_now, ofi_pc, ofi_running, delay, snapshot, ofi_prices, state, ofi_messages,
              ofi_outages, ofi_told>>
bus_vars == <<bus_running, fallback, sequence, wire, queue, subscriber, received, starts, lost>>
ticks_vars == <<manager, ticks_connected, ticks_pc, sending, memory, list, latest, pushed,
                clears, ticks_failures, dropped, gone, untrimmed, disturbed>>
config_vars == <<file, editing, saving, config, config_history, watcher, sighup, scheduled,
                 edits, sets, config_signals, sources, byhand>>
archive_vars == <<archive_now, db, pool, job, files, last, deleted, deletes, disciplined>>
error_vars == <<program, error_count, archive_attempts, state_file, crashes, recorded, forgetful>>
ta_vars == <<ta_now, ta_price, moves_left, ta_running, aggregator, analysis, candles, building,
             shared, rsi, micro, prev_rsi, last_signal, raises, first, said>>
outcome_vars == <<outcomes, ta_stats, ta_file, ta_recorded, ta_faults, torn>>
vars == <<moves, oracle_vars, throttle_vars, audit_vars, shutdown_vars, capital_vars,
         engine_vars, scanner_vars, manager_vars, ofi_vars, bus_vars, ticks_vars, config_vars,
         archive_vars, error_vars, ta_vars, outcome_vars>>

Init ==
  /\ moves \in {"oracle", "overwatch", "audit", "shutdown", "capital", "engine", "scanner",
                "manager", "ofi", "bus", "ticks", "config", "archive", "error",
                "ta", "outcomes"}
  /\ Oracle!Init /\ Throttle!Init /\ Audit!Init /\ Shutdown!Init /\ Capital!Init /\ Engine!Init
  /\ Scan!Init /\ Manager!Init /\ Flow!Init /\ Bus!Init /\ Ticks!Init /\ Reloader!Init
  /\ Archive!Init /\ TA!Init
  /\ moves # "overwatch" => callbacks = << >>
  /\ moves # "config" => file = Reloader!Empty

OracleMoves ==
  /\ moves = "oracle" /\ Oracle!Next
  /\ UNCHANGED <<moves, throttle_vars, audit_vars, shutdown_vars, capital_vars, engine_vars,
                 scanner_vars, manager_vars, ofi_vars, bus_vars, ticks_vars, config_vars,
                 archive_vars, error_vars, ta_vars, outcome_vars>>

OverwatchMoves ==
  /\ moves = "overwatch" /\ Throttle!Next
  /\ UNCHANGED <<moves, oracle_vars, audit_vars, shutdown_vars, capital_vars, engine_vars,
                 scanner_vars, manager_vars, ofi_vars, bus_vars, ticks_vars, config_vars,
                 archive_vars, error_vars, ta_vars, outcome_vars>>

AuditMoves ==
  /\ moves = "audit" /\ Audit!Next
  /\ UNCHANGED <<moves, oracle_vars, throttle_vars, shutdown_vars, capital_vars, engine_vars,
                 scanner_vars, manager_vars, ofi_vars, bus_vars, ticks_vars, config_vars,
                 archive_vars, error_vars, ta_vars, outcome_vars>>

ShutdownMoves ==
  /\ moves = "shutdown" /\ Shutdown!Next
  /\ UNCHANGED <<moves, oracle_vars, throttle_vars, audit_vars, capital_vars, engine_vars,
                 scanner_vars, manager_vars, ofi_vars, bus_vars, ticks_vars, config_vars,
                 archive_vars, error_vars, ta_vars, outcome_vars>>

CapitalMoves ==
  /\ moves = "capital" /\ Capital!Next
  /\ UNCHANGED <<moves, oracle_vars, throttle_vars, audit_vars, shutdown_vars, engine_vars,
                 scanner_vars, manager_vars, ofi_vars, bus_vars, ticks_vars, config_vars,
                 archive_vars, error_vars, ta_vars, outcome_vars>>

EngineMoves ==
  /\ moves = "engine" /\ Engine!Next
  /\ UNCHANGED <<moves, oracle_vars, throttle_vars, audit_vars, shutdown_vars, capital_vars,
                 scanner_vars, manager_vars, ofi_vars, bus_vars, ticks_vars, config_vars,
                 archive_vars, error_vars, ta_vars, outcome_vars>>

ScannerMoves ==
  /\ moves = "scanner" /\ Scan!Next
  /\ UNCHANGED <<moves, oracle_vars, throttle_vars, audit_vars, shutdown_vars, capital_vars,
                 engine_vars, manager_vars, ofi_vars, bus_vars, ticks_vars, config_vars,
                 archive_vars, error_vars, ta_vars, outcome_vars>>

ProcessManagerMoves ==
  /\ moves = "manager" /\ Manager!Next
  /\ UNCHANGED <<moves, oracle_vars, throttle_vars, audit_vars, shutdown_vars, capital_vars,
                 engine_vars, scanner_vars, ofi_vars, bus_vars, ticks_vars, config_vars,
                 archive_vars, error_vars, ta_vars, outcome_vars>>

OFIEngineMoves ==
  /\ moves = "ofi" /\ Flow!Next
  /\ UNCHANGED <<moves, oracle_vars, throttle_vars, audit_vars, shutdown_vars, capital_vars,
                 engine_vars, scanner_vars, manager_vars, bus_vars, ticks_vars, config_vars,
                 archive_vars, error_vars, ta_vars, outcome_vars>>

MessageBusMoves ==
  /\ moves = "bus" /\ Bus!Next
  /\ UNCHANGED <<moves, oracle_vars, throttle_vars, audit_vars, shutdown_vars, capital_vars,
                 engine_vars, scanner_vars, manager_vars, ofi_vars, ticks_vars, config_vars,
                 archive_vars, error_vars, ta_vars, outcome_vars>>

TickBufferMoves ==
  /\ moves = "ticks" /\ Ticks!Next
  /\ UNCHANGED <<moves, oracle_vars, throttle_vars, audit_vars, shutdown_vars, capital_vars,
                 engine_vars, scanner_vars, manager_vars, ofi_vars, bus_vars, config_vars,
                 archive_vars, error_vars, ta_vars, outcome_vars>>

HotReloaderMoves ==
  /\ moves = "config" /\ Reloader!Next
  /\ UNCHANGED <<moves, oracle_vars, throttle_vars, audit_vars, shutdown_vars, capital_vars,
                 engine_vars, scanner_vars, manager_vars, ofi_vars, bus_vars, ticks_vars,
                 archive_vars, error_vars, ta_vars, outcome_vars>>

ArchiverMoves ==
  /\ moves = "archive" /\ Archive!ArchiveNext
  /\ UNCHANGED <<moves, oracle_vars, throttle_vars, audit_vars, shutdown_vars, capital_vars,
                 engine_vars, scanner_vars, manager_vars, ofi_vars, bus_vars, ticks_vars,
                 config_vars, error_vars, ta_vars, outcome_vars>>

ErrorLogMoves ==
  /\ moves = "error" /\ Archive!ErrorNext
  /\ UNCHANGED <<moves, oracle_vars, throttle_vars, audit_vars, shutdown_vars, capital_vars,
                 engine_vars, scanner_vars, manager_vars, ofi_vars, bus_vars, ticks_vars,
                 config_vars, archive_vars, ta_vars, outcome_vars>>

TAFallbackMoves ==
  /\ moves = "ta" /\ TA!LoopNext
  /\ UNCHANGED <<moves, oracle_vars, throttle_vars, audit_vars, shutdown_vars, capital_vars,
                 engine_vars, scanner_vars, manager_vars, ofi_vars, bus_vars, ticks_vars,
                 config_vars, archive_vars, error_vars, outcome_vars>>

OutcomesMove ==
  /\ moves = "outcomes" /\ TA!HeuristicsNext
  /\ UNCHANGED <<moves, oracle_vars, throttle_vars, audit_vars, shutdown_vars, capital_vars,
                 engine_vars, scanner_vars, manager_vars, ofi_vars, bus_vars, ticks_vars,
                 config_vars, archive_vars, error_vars, ta_vars>>

Next ==
  \/ OracleMoves \/ OverwatchMoves \/ AuditMoves \/ ShutdownMoves \/ CapitalMoves \/ EngineMoves
  \/ ScannerMoves \/ ProcessManagerMoves \/ OFIEngineMoves \/ MessageBusMoves \/ TickBufferMoves
  \/ HotReloaderMoves \/ ArchiverMoves \/ ErrorLogMoves \/ TAFallbackMoves \/ OutcomesMove

Spec == Init /\ [][Next]_vars

\* The audit log does not tell what an entry says.
Symmetry == Permutations(Contents)

-----------------------------------------------------------------------------
(* The properties, from the ones the modules state.  A service is checked  *)
(* in the behaviours it moves in; in the others it stays as it began.      *)

\* The price oracle, the order flow engine and the technical analyzer.  The oracle ends unasked
\* only after all its reconnection attempts in a row failed, however many outages it survived
\* before; the listener of the OFI engine knows the signal of the last message, and its backoff
\* starts anew after a connection; the analyzer's candles follow one another, its cached RSIs
\* are theirs, no candle is signalled twice, and recorded outcomes are kept.
StreamsInv ==
  /\ moves = "oracle" => Oracle!TypeOK /\ Oracle!GivesUpOnlyAfterMax
  /\ moves = "ofi" => Flow!TypeOK /\ Flow!ListenerIsCurrent /\ Flow!BackoffRestarts
  /\ moves = "ta" => TA!TypeOK /\ TA!CandlesChain /\ TA!CacheIsCurrent /\ TA!SignalsAreFresh
  /\ moves = "outcomes" => TA!OutcomesAreKept

\* What a step of a service may not do.  The prices an update or an average of the oracle
\* leaves are within the rolling window; a shutdown that ends has started every cleanup
\* registered by then; matching follows price-time priority, and simulate_fill() predicts the
\* fills of a limit order.
ServiceSteps ==
  [][/\ moves = "oracle" => Oracle!AverageInWindow
     /\ moves = "shutdown" => Shutdown!CompletedShutdownRanAll
     /\ moves = "engine" => Engine!Priority /\ Engine!SimulationAgrees]_vars

\* A market of the window is overlooked only by a scan whose requests failed or that took too
\* long, and a market goes to the callback once while it is remembered.
ScannerInv ==
  moves = "scanner" =>
    /\ Scan!TypeOK
    /\ Scan!NothingOverlooked /\ Scan!ReportedOnce /\ Scan!FoundIsReported

\* No child runs that the manager has lost sight of, what it calls stopped is gone, and a
\* process starts after the ones it depends on.
ManagerInv ==
  moves = "manager" =>
    /\ Manager!TypeOK
    /\ Manager!NoStrayChild /\ Manager!StoppedMeansGone /\ Manager!DependenciesFirst

\* The two ways data reaches other processes: messages arrive in the order of their numbers
\* and every number is accounted for; ticks pushed are buffered, evicted, cleared or counted
\* as lost, the list in Redis stays bounded and agrees with the latest tick.
TransportInv ==
  /\ moves = "bus" => Bus!TypeOK /\ Bus!InOrder /\ Bus!NumbersAccounted
  /\ moves = "ticks" =>
       /\ Ticks!TypeOK /\ Ticks!ListBounded /\ Ticks!TicksAccounted /\ Ticks!ViewsAgree
       /\ Ticks!CandlesAreRight

\* What is kept in files: the configuration is one version of its file, and its history leads
\* to it; ticks deleted from the database are in an archive, and the errors recorded survive a
\* crash.
FilesInv ==
  /\ moves = "config" => Reloader!TypeOK /\ Reloader!HistoryExplains /\ Reloader!OneVersion
  /\ moves \in {"archive", "error"} =>
       Archive!TypeOK /\ Archive!DeletedIsArchived /\ Archive!ErrorsSurvive

\* A callback that stays registered is told once per notification, and a notification misses
\* at most one callback for each that left the list meanwhile.
OverwatchInv ==
  moves = "overwatch" => Throttle!TypeOK /\ Throttle!ToldOnce /\ Throttle!EveryoneIsTold

\* What verify_integrity() accepts is what was logged; until the first eviction it accepts a
\* log nobody touched; a record in a file commits to the earlier ones of its process.
AuditInv ==
  moves = "audit" =>
    Audit!TypeOK /\ Audit!AcceptedIsLogged /\ Audit!UntouchedIsAccepted /\ Audit!FilesCommit

\* The shutdown handler keeps its types, and a second signal starts no cleanup again.
ShutdownInv == moves = "shutdown" => Shutdown!TypeOK /\ Shutdown!CleanupOnce

\* Every share recorded is still held or was merged, once, and the merge events explain the
\* balance.
CapitalInv ==
  moves = "capital" => Capital!TypeOK /\ Capital!SharesConserved /\ Capital!BalanceExplained

\* The book is not crossed, a level's depth is what its orders have left, and no order is
\* filled beyond its quantity.
EngineInv ==
  moves = "engine" =>
    Engine!TypeOK /\ Engine!NotCrossed /\ Engine!DepthIsReal /\ Engine!NeverOverfilled
=============================================================================
