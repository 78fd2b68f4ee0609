----------------------------- MODULE FlashCrash -----------------------------
(***************************************************************************)
(* The flash crash detector (src/src/flash_crash_detector.py) for one      *)
(* symbol: prices of a short window, an event when the price fell too far, *)
(* a cooldown after it, and the simulated withdrawal of the orders, which  *)
(* takes time and updates an average.                                      *)
(*                                                                         *)
(* Times are in seconds, prices whole numbers; the crashes of other        *)
(* symbols, which share the statistics, are the action OtherCrash.         *)
(***************************************************************************)
EXTENDS Integers, Sequences, FiniteSets, FiniteSetsExt, SequencesExt

CONSTANTS Prices,                \* positive
          DropPct, Window,       \* drop_threshold_pct, window_ms
          Cooldown,              \* 10 s
          Latencies,             \* of simulate_pull_orders()
          MaxHistory,            \* maxlen of _price_history
          MaxTime, MaxTicks      \* bounds

VARIABLES now,
          history,               \* _price_history
          last_crash,            \* _last_crash_time (0 is long ago)
          in_crash,              \* _is_in_crash
          events,                \* _crash_events: times and severities
          crashes,               \* total_crashes
          pulling,               \* simulate_pull_orders() calls under way
          average,               \* avg_pull_latency_ms, a fraction
          ticks,
          latency_sum, pulls,    \* history: of the calls that are over
          overlapped             \* history: a crash came while a call was under way

vars == <<now, history, last_crash, in_crash, events, crashes, pulling, average, ticks, latency_sum,
          pulls, overlapped>>

Severities == {"MINOR", "MODERATE", "SEVERE", "FLASH_CRASH"}

TypeOK ==
  /\ now \in Cooldown..Cooldown + MaxTime
  /\ Len(history) <= MaxHistory
  /\ in_crash \in BOOLEAN
  /\ \A i \in DOMAIN events : events[i].severity \in Severities \ {"MINOR"}
  /\ pulling \in 0..crashes /\ average.den > 0

Init ==
  /\ now = Cooldown            \* clock values are large, the last crash time starts at 0
  /\ history = << >>
  /\ last_crash = 0 /\ in_crash = FALSE
  /\ events = << >>
  /\ crashes = 0 /\ pulling = 0
  /\ average = [num |-> 0, den |-> 1]
  /\ ticks = 0
  /\ latency_sum = 0 /\ pulls = 0 /\ overlapped = FALSE

-----------------------------------------------------------------------------
\* _classify_severity() of a fall by `drop` from `start`
Severity(drop, start) ==
  CASE drop * 100 >= 5 * start -> "FLASH_CRASH"
    [] drop * 100 >= 2 * start /\ drop * 100 < 5 * start -> "SEVERE"
    [] drop * 100 >= start /\ drop * 100 < 2 * start -> "MODERATE"
    [] OTHER -> "MINOR"

InWindow(tick) == tick.time >= now - Window

\* The oldest price in the window; there is one, for the price just added is in it.
StartTick(h) == h[Min({i \in DOMAIN h : InWindow(h[i])})]

Crashed(price, start) == (start - price) * 100 > DropPct * start

Push(h, tick) == IF Len(h) = MaxHistory THEN Append(Tail(h), tick) ELSE Append(h, tick)

\* add_price() and _check_crash()
AddPrice(price) ==
  /\ ticks < MaxTicks
  /\ ticks' = ticks + 1
  /\ LET h == Push(history, [price |-> price, time |-> now])
         start == StartTick(h).price
     IN /\ history' = h
        /\ \/ /\ Len(h) < 2 \/ now - last_crash < Cooldown
              /\ UNCHANGED <<last_crash, in_crash, events, crashes, pulling, overlapped>>
           \/ /\ Len(h) >= 2 /\ now - last_crash >= Cooldown
              /\ ~Crashed(price, start)
              /\ in_crash' = FALSE
              /\ UNCHANGED <<last_crash, events, crashes, pulling, overlapped>>
           \/ /\ Len(h) >= 2 /\ now - last_crash >= Cooldown
              /\ Crashed(price, start)
              /\ in_crash' = TRUE
              /\ last_crash' = now
              /\ events' = Append(events, [time |-> now, severity |-> Severity(start - price, start)])
              /\ crashes' = crashes + 1
              /\ pulling' = pulling + 1
              /\ overlapped' = (overlapped \/ pulling > 0)
  /\ UNCHANGED <<now, average, latency_sum, pulls>>

\* A crash of another symbol, whose orders are withdrawn as well
OtherCrash ==
  /\ ticks < MaxTicks
  /\ ticks' = ticks + 1
  /\ crashes' = crashes + 1
  /\ pulling' = pulling + 1
  /\ overlapped' = (overlapped \/ pulling > 0)
  /\ UNCHANGED <<now, history, last_crash, in_crash, events, average, latency_sum, pulls>>

\* The sleep of simulate_pull_orders() is over: the average counts the crashes of this moment.
Pulled(latency) ==
  /\ pulling > 0
  /\ pulling' = pulling - 1
  /\ average' = [num |-> average.num * (crashes - 1) + latency * average.den,
                 den |-> average.den * crashes]
  /\ latency_sum' = latency_sum + latency
  /\ pulls' = pulls + 1
  /\ UNCHANGED <<now, history, last_crash, in_crash, events, crashes, ticks, overlapped>>

\* reset_crash_state()
ResetCrashState ==
  /\ in_crash
  /\ in_crash' = FALSE
  /\ UNCHANGED <<now, history, last_crash, events, crashes, pulling, average, ticks,
                 latency_sum, pulls, overlapped>>

Tick ==
  /\ now < Cooldown + MaxTime
  /\ now' = now + 1
  /\ UNCHANGED <<history, last_crash, in_crash, events, crashes, pulling, average, ticks,
                 latency_sum, pulls, overlapped>>

Next ==
  \/ \E p \in Prices : AddPrice(p)
  \/ \E l \in Latencies : Pulled(l)
  \/ OtherCrash \/ ResetCrashState \/ Tick

Spec == Init /\ [][Next]_vars

-----------------------------------------------------------------------------
(* Properties                                                              *)

\* A fall beyond the threshold since the oldest price of the window that is still in the buffer is
\* covered by an event, at most a cooldown old; and the state of crash outlives no price that comes
\* after the cooldown (_check_crash()).
DropIsCovered ==
  history # << >> =>
    LET last == history[Len(history)]
        windowed == {i \in DOMAIN history : history[i].time >= last.time - Window}
        start == history[Min(windowed)].price
        recent == last_crash > 0 /\ last.time - last_crash < Cooldown
    IN /\ Crashed(last.price, start) => recent
       /\ in_crash => recent

\* Two events are a cooldown apart, whatever the prices do (_check_crash()).
EventsAreApart ==
  \A i \in 2..Len(events) : events[i].time - events[i - 1].time >= Cooldown

\* The average latency is the mean over the withdrawals as long as each is over before the
\* next crash, of any symbol (simulate_pull_orders()).
AverageIsMean ==
  ~overlapped /\ pulls > 0 /\ pulling = 0 => average.num * pulls = latency_sum * average.den
=============================================================================
