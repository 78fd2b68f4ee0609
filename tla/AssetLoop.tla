------------------------------ MODULE AssetLoop ------------------------------
(***************************************************************************)
(* The per-asset trading loops (run_btc_simulation(), run_eth_simulation() *)
(* in src/src/main.py, the same code twice) against the clock: the scan    *)
(* cache they share, the scanner's time window (src/src/scanner.py), the   *)
(* hand-over to terminal mode, the post-sale cooldown, pauses and the      *)
(* error backoff.                                                          *)
(*                                                                         *)
(* Time is counted in ticks, Second of them to the second, and a due task  *)
(* runs before the clock advances.  A market is <<asset, end time>>.  The  *)
(* sniper is the set of subscribed markets and the terminal velocity       *)
(* controller the set of tracked ones (modules Sniper and TerminalVelocity *)
(* have the detail, failed ignitions included).  The 100 ms scan interval  *)
(* is rounded up to a tick.                                                *)
(***************************************************************************)
EXTENDS Integers, FiniteSets

CONSTANTS Assets, Ends,      \* the markets are Assets \X Ends
          MinTime, MaxTime,  \* min_time_seconds, max_time_seconds of the scanner
          TerminalThreshold, \* TERMINAL_THRESHOLD
          Interval,          \* ASSET_SCAN_INTERVALS
          Second,            \* ticks in a second: the loop's short sleep, the backoff's unit
          CacheTTL,          \* _scan_cache_ttl
          Cooldown,          \* the post-sale pause
          MaxErrorBackoff,        \* cap of the error backoff
          MaxScan,           \* bound: ticks one scan takes
          Horizon,           \* bound: last tick of the run
          MaxPauses,         \* bound: calls of pause_asset() from outside the loops
          None

ASSUME LoopConstants ==
  /\ {MinTime, MaxTime, TerminalThreshold, Interval, CacheTTL, Cooldown, MaxErrorBackoff,
      Second, MaxScan, Horizon, MaxPauses} \subseteq Nat
  /\ Interval > 0 /\ Second > 0 /\ Cooldown > 0 /\ CacheTTL > 0
  /\ Interval <= MaxErrorBackoff /\ Second <= MaxErrorBackoff
  /\ Ends \subseteq Nat
  /\ None \notin Assets
  /\ \E a, b \in Assets : Assets = {a, b}    \* run_btc_simulation(), run_eth_simulation()

VARIABLES
  now,           \* external: the clock
  loop_pc,            \* where each loop is suspended
  wake,          \* when its sleep ends
  pause_until,   \* AssetState.pause_until; -1: not paused, 0: until resumed
  errors,        \* AssetState.consecutive_errors
  lock,          \* holder of _scan_cache_lock
  scan_start,    \* `now` of the scan under way
  scan_end,      \* external: when the API answers
  cache,         \* _scan_cache
  cache_time,    \* _scan_cache_time; -1: None
  fetched,       \* when the cached list was really made
  age,           \* how old the list was that the loop acted on last
  subs,          \* markets whose tokens the sniper is subscribed to
  tracked,       \* markets in terminal mode
  pauses         \* external pauses so far (bounded by MaxPauses)

asset_vars == <<loop_pc, wake, pause_until, errors>>
cache_vars == <<lock, scan_start, scan_end, cache, cache_time, fetched>>
market_vars == <<subs, tracked>>
loops_vars == <<now, asset_vars, cache_vars, age, market_vars, pauses>>

Markets == Assets \X Ends
Left(m) == m[2] - now
Of(a, list) == {m \in list : m[1] = a}

LoopsTypeOK ==
  /\ now \in 0..Horizon
  /\ loop_pc \in [Assets -> {"sleep", "lock", "scan"}]
  /\ wake \in [Assets -> Nat]
  /\ pause_until \in [Assets -> Nat \cup {-1}]
  /\ errors \in [Assets -> Nat]
  /\ lock \in Assets \cup {None}
  /\ \A a \in Assets : loop_pc[a] = "scan" <=> lock = a
  /\ cache \subseteq Markets
  /\ cache_time \in 0..now \cup {-1}
  /\ {scan_start, scan_end, fetched} \subseteq Nat
  /\ age \in [Assets -> Nat]
  /\ subs \subseteq Markets
  /\ tracked \subseteq Markets
  /\ pauses \in 0..MaxPauses

\* run() starts the loops together.
LoopsInit ==
  /\ now = 0
  /\ loop_pc = [a \in Assets |-> "sleep"]
  /\ wake = [a \in Assets |-> 0]
  /\ pause_until = [a \in Assets |-> -1]
  /\ errors = [a \in Assets |-> 0]
  /\ lock = None
  /\ scan_start = 0
  /\ scan_end = 0
  /\ cache = {}
  /\ cache_time = -1
  /\ fetched = 0
  /\ age = [a \in Assets |-> 0]
  /\ subs = {}
  /\ tracked = {}
  /\ pauses = 0

Sleep(a, seconds) ==
  /\ loop_pc' = [loop_pc EXCEPT ![a] = "sleep"]
  /\ wake' = [wake EXCEPT ![a] = now + seconds]

Awake(a) == loop_pc[a] = "sleep" /\ wake[a] <= now

-----------------------------------------------------------------------------
(* Pauses                                                                  *)

IsPaused(a) == pause_until[a] # -1

\* `state.pause_until and now >= state.pause_until`: the pause has run out.
PauseOver(a) == pause_until[a] > 0 /\ now >= pause_until[a]

\* Still paused: look again in a second.
LoopPaused(a) ==
  /\ Awake(a)
  /\ IsPaused(a) /\ ~PauseOver(a)
  /\ Sleep(a, Second)
  /\ UNCHANGED <<now, pause_until, errors, cache_vars, age, market_vars, pauses>>

\* Not paused, or the pause is over: ask for the markets.
LoopTop(a) ==
  /\ Awake(a)
  /\ IsPaused(a) => PauseOver(a)
  /\ pause_until' = [pause_until EXCEPT ![a] = -1]
  /\ loop_pc' = [loop_pc EXCEPT ![a] = "lock"]
  /\ UNCHANGED <<now, wake, errors, cache_vars, age, market_vars, pauses>>

\* pause_asset() from outside the loops, for d seconds or (0) until resumed.
PauseAsset(a, d) ==
  /\ pauses < MaxPauses
  /\ pauses' = pauses + 1
  /\ pause_until' = [pause_until EXCEPT ![a] = IF d > 0 THEN now + d ELSE 0]
  /\ UNCHANGED <<now, loop_pc, wake, errors, cache_vars, age, market_vars>>

ResumeAsset(a) ==
  /\ IsPaused(a)
  /\ pause_until' = [pause_until EXCEPT ![a] = -1]
  /\ UNCHANGED <<now, loop_pc, wake, errors, cache_vars, age, market_vars, pauses>>

-----------------------------------------------------------------------------
(* _scan_markets_for_asset() and MarketScanner.scan_markets()              *)

\* _parse_market() keeps a market that ends within the window.
InWindow(m) == MinTime <= Left(m) /\ Left(m) <= MaxTime

\* scan_markets() answers with the markets in the window, or with none when an
\* error is swallowed.
ScanResults == {{m \in Markets : InWindow(m)}, {}}

CacheValid_AnyAge == cache_time # -1

\* The cache is younger than its TTL, counted from the start of its scan.
CacheValid == cache_time # -1 /\ now - cache_time < CacheTTL

-----------------------------------------------------------------------------
(* The rest of an iteration, after the list arrived                        *)

\* The first market of the sorted list has expired.
FirstExpired(list) == \E m \in list : Left(m) <= 0

Soonest(list) == CHOOSE m \in list : \A n \in list : Left(m) <= Left(n)

\* check_market_for_terminal(): markets at or past T-60 not tracked yet.  (Its
\* branch for tracked markets that expired is not reachable from the loop:
\* FirstExpired() is tested before.)
Igniting(list) == {m \in list \ tracked : Left(m) <= TerminalThreshold}

RestMarkets(list) == list \ (tracked \cup Igniting(list))

\* _get_dynamic_scan_interval(), or the base interval for an empty list
ScanInterval(list) ==
  IF \E m \in list : Left(m) <= TerminalThreshold THEN 1 ELSE Interval

\* Terminal checks for the whole list, then the subscription for `rest`.
Visit(list, rest) ==
  /\ tracked' = tracked \cup Igniting(list)
  /\ subs' = subs \cup Igniting(list) \cup rest

\* The market that ends first has expired: the post-sale cooldown.
CooldownStep(a, list) ==
  /\ FirstExpired(list)
  /\ subs' = subs \ {Soonest(list)}
  /\ pause_until' = [pause_until EXCEPT ![a] = now + Cooldown]
  /\ Sleep(a, Second)
  /\ UNCHANGED <<errors, tracked>>

TradeStep_NoExpiryCheck(a, list) ==
  /\ Visit(list, RestMarkets(list))
  /\ errors' = [errors EXCEPT ![a] = 0]
  /\ Sleep(a, ScanInterval(list))
  /\ UNCHANGED pause_until

\* Terminal checks, REST subscriptions, analysis (which finds nothing: its time
\* condition is far stricter than the scanner's window), and the next sleep.
TradeStep(a, list) ==
  /\ ~FirstExpired(list)
  /\ Visit(list, RestMarkets(list))
  /\ errors' = [errors EXCEPT ![a] = 0]
  /\ Sleep(a, ScanInterval(list))
  /\ UNCHANGED pause_until

Smaller(a, b) == IF a < b THEN a ELSE b

PowersOfTwo == <<2, 4, 8, 16, 32, 64>>

\* min(60, 2 ** min(consecutive_errors, 6)); there is at least one error.
Backoff(n) == Smaller(MaxErrorBackoff, Second * PowersOfTwo[Smaller(n, 6)])

\* The cooldown's unsubscribe raised, or the subscription or the analysis of the
\* REST markets did, after the ignitions.
ErrorStep(a, list) ==
  /\ \/ FirstExpired(list) /\ UNCHANGED <<subs, tracked>>
     \/ /\ ~FirstExpired(list)
        /\ RestMarkets(list) # {}
        /\ \E rest \in {{}, RestMarkets(list)} : Visit(list, rest)
  /\ errors' = [errors EXCEPT ![a] = @ + 1]
  /\ Sleep(a, Backoff(errors[a] + 1))
  /\ UNCHANGED pause_until

\* The code from the end of _scan_markets_for_asset() to the next sleep, for a
\* list made at time made.
Handle(a, list, made) ==
  /\ age' = [age EXCEPT ![a] = now - made]
  /\ \/ CooldownStep(a, Of(a, list))
     \/ TradeStep(a, Of(a, list))
     \/ ErrorStep(a, Of(a, list))

\* The lock is free and the cache is valid.
UseCache(a) ==
  /\ loop_pc[a] = "lock"
  /\ lock = None
  /\ CacheValid
  /\ Handle(a, cache, fetched)
  /\ UNCHANGED <<now, cache_vars, pauses>>

\* The lock is free and the cache is not valid: scan under the lock.
StartScan(a) ==
  /\ loop_pc[a] = "lock"
  /\ lock = None
  /\ ~CacheValid
  /\ lock' = a
  /\ scan_start' = now
  /\ scan_end' \in now..(now + MaxScan)
  /\ loop_pc' = [loop_pc EXCEPT ![a] = "scan"]
  /\ UNCHANGED <<now, wake, pause_until, errors, cache, cache_time, fetched, age,
                 market_vars, pauses>>

\* The scan is back: cached with the time it was started.
EndScan(a) ==
  /\ loop_pc[a] = "scan"
  /\ now = scan_end
  /\ \E result \in ScanResults :
       /\ cache' = result
       /\ Handle(a, result, now)
  /\ cache_time' = scan_start
  /\ fetched' = now
  /\ lock' = None
  /\ UNCHANGED <<now, scan_start, scan_end, pauses>>

-----------------------------------------------------------------------------
(* The controller and the clock                                            *)

\* A monitor gives its market up at expiry (TerminalVelocity!MonitorDone).
MonitorExpires(m) ==
  /\ m \in tracked
  /\ Left(m) <= 0
  /\ tracked' = tracked \ {m}
  /\ subs' = subs \ {m}
  /\ UNCHANGED <<now, asset_vars, cache_vars, age, pauses>>

\* External: a second passes, once nothing is due any more.
Tick ==
  /\ now < Horizon
  /\ \A a \in Assets : \/ loop_pc[a] = "sleep" /\ wake[a] > now
                       \/ loop_pc[a] = "scan" /\ scan_end > now
                       \/ loop_pc[a] = "lock" /\ lock # None
  /\ \A m \in tracked : Left(m) > 0
  /\ now' = now + 1
  /\ UNCHANGED <<asset_vars, cache_vars, age, market_vars, pauses>>

LoopStep(a) == LoopPaused(a) \/ LoopTop(a) \/ UseCache(a) \/ StartScan(a) \/ EndScan(a)

LoopsNext ==
  \/ Tick
  \/ \E a \in Assets : LoopStep(a) \/ ResumeAsset(a)
  \/ \E a \in Assets : \E d \in {0, Cooldown} : PauseAsset(a, d)
  \/ \E m \in Markets : MonitorExpires(m)

LoopsSpec == LoopsInit /\ [][LoopsNext]_loops_vars

-----------------------------------------------------------------------------
(* Properties                                                              *)

\* A loop never acts on a list older than the cache's TTL, also when it waited
\* for the lock behind a slow scan of the other loop: the cache is stamped with
\* the start of its scan.
ListIsFresh == \A a \in Assets : age[a] < CacheTTL

\* No interleaving of scans, cache, lock waits, pauses and backoffs makes a loop
\* subscribe to a market that has already expired.
NoExpiredSubscribe == [][\A m \in subs' \ subs : Left(m) > 0]_loops_vars

\* What two scans in a row, the other loop's and the own one, take longer than a pause.
Overrun == IF 2 * MaxScan > Cooldown THEN 2 * MaxScan - Cooldown ELSE 0

\* A timed pause never outlives its end by more than the longest sleep of its
\* loop and the overrun of scans slower than the pause, whatever the loop was
\* doing when the pause began.
PauseEnds ==
  \A a \in Assets : pause_until[a] > 0 /\ loop_pc[a] = "sleep"
                      => now <= pause_until[a] + MaxErrorBackoff + Overrun

\* However many errors come in a row, a loop looks at the market again within
\* the longest backoff.
LoopComesBack == \A a \in Assets : loop_pc[a] = "sleep" => wake[a] <= now + MaxErrorBackoff

\* Types, fresh lists, and no loop that is left asleep or paused for good.
AssetLoopInv == LoopsTypeOK /\ ListIsFresh /\ PauseEnds /\ LoopComesBack

=============================================================================
