----------------------------- MODULE RiskBreaker ----------------------------
(***************************************************************************)
(* The drawdown bookkeeping and the circuit breaker of                     *)
(* src/src/risk_metrics.py: RiskMetricsCalculator records equity in a      *)
(* bounded window, DrawdownCircuitBreaker trips on the equity it is shown  *)
(* and stays tripped until somebody resets it.                             *)
(*                                                                         *)
(* Equity is a whole number of dollars.  Returns, volatility, ratios and   *)
(* VaR are floating-point statistics nothing here depends on.              *)
(***************************************************************************)
EXTENDS Integers, Sequences, FiniteSetsExt, SequencesExt

CONSTANTS Equities,              \* positive
          InitialCapital,        \* of both, 100
          ThresholdEquity, ThresholdPct,   \* threshold_equity, threshold_drawdown_pct
          MaxSnapshots,          \* maxlen of _snapshots
          MaxTime, MaxResets     \* bounds: snapshots and checks, resets

VARIABLES snapshots,             \* _snapshots: equity and time
          peak, drawdown_start,  \* _peak_equity, _drawdown_start (0: None)
          triggered,             \* CircuitBreakerState: equity at the trigger and why, or << >>
          breaker_peak,          \* _peak_equity of the breaker
          now, resets,
          evicted,               \* history: the window has lost a snapshot
          high,                  \* history: highest equity shown to an armed breaker
          shown,                 \* history: the last of them since the last reset (0: none)
          calls                  \* history: calls of on_trigger

vars == <<snapshots, peak, drawdown_start, triggered, breaker_peak, now, resets, evicted, high,
          shown, calls>>

TypeOK ==
  /\ Len(snapshots) <= MaxSnapshots
  /\ {peak, breaker_peak, high} \subseteq Equities \cup {InitialCapital}
  /\ drawdown_start \in 0..now
  /\ triggered \in {<< >>} \cup (Equities \X {"equity", "drawdown"})
  /\ now \in 0..MaxTime /\ resets \in 0..MaxResets

Init ==
  /\ snapshots = << >>
  /\ peak = InitialCapital /\ drawdown_start = 0
  /\ triggered = << >> /\ breaker_peak = InitialCapital
  /\ now = 0 /\ resets = 0
  /\ evicted = FALSE /\ high = InitialCapital /\ shown = 0 /\ calls = 0

-----------------------------------------------------------------------------
\* record_snapshot(): equity that only equals the peak starts a drawdown, too.
RecordSnapshot(equity) ==
  /\ now < MaxTime
  /\ now' = now + 1
  /\ LET all == Append(snapshots, [equity |-> equity, time |-> now + 1]) IN
       /\ snapshots' = IF Len(all) > MaxSnapshots THEN Tail(all) ELSE all
       /\ evicted' = (evicted \/ Len(all) > MaxSnapshots)
  /\ \/ equity > peak /\ peak' = equity /\ drawdown_start' = 0
     \/ /\ equity <= peak
        /\ drawdown_start' = IF drawdown_start = 0 THEN now + 1 ELSE drawdown_start
        /\ UNCHANGED peak
  /\ UNCHANGED <<triggered, breaker_peak, resets, high, shown, calls>>

\* The two drawdowns calculate_metrics() reports, as fractions <<loss, peak>>
CurrentDrawdown == <<peak - snapshots[Len(snapshots)].equity, peak>>

\* _calculate_max_drawdown(): the peaks start at the initial capital, whatever left the window.
RunningPeak(i) == Max({InitialCapital} \cup {snapshots[j].equity : j \in 1..i})
Drawdowns == {<<RunningPeak(i) - snapshots[i].equity, RunningPeak(i)>> : i \in DOMAIN snapshots}

NotLess(a, b) == a[1] * b[2] >= b[1] * a[2]

-----------------------------------------------------------------------------
\* _trigger(): the state is set, dumped, and the callback called once.
Trigger(equity, why) ==
  /\ triggered' = <<equity, why>>
  /\ calls' = calls + 1

NewPeak_Never(equity) == breaker_peak
NewPeak(equity) == Max({breaker_peak, equity})

\* check()
Check(equity) ==
  /\ now < MaxTime
  /\ now' = now + 1
  /\ \/ triggered # << >> /\ UNCHANGED <<triggered, breaker_peak, high, shown, calls>>
     \/ /\ triggered = << >>
        /\ breaker_peak' = NewPeak(equity)
        /\ high' = Max({high, equity}) /\ shown' = equity
        /\ \/ equity < ThresholdEquity /\ Trigger(equity, "equity")
           \/ /\ equity >= ThresholdEquity
              /\ (breaker_peak' - equity) * 100 >= ThresholdPct * breaker_peak'
              /\ Trigger(equity, "drawdown")
           \/ /\ equity >= ThresholdEquity
              /\ (breaker_peak' - equity) * 100 < ThresholdPct * breaker_peak'
              /\ UNCHANGED <<triggered, calls>>
  /\ UNCHANGED <<snapshots, peak, drawdown_start, resets, evicted>>

\* reset(): the peak stays.
Reset ==
  /\ resets < MaxResets
  /\ resets' = resets + 1
  /\ triggered' = << >> /\ shown' = 0
  /\ UNCHANGED <<snapshots, peak, drawdown_start, breaker_peak, now, evicted, high, calls>>

Next == (\E e \in Equities : RecordSnapshot(e) \/ Check(e)) \/ Reset

Spec == Init /\ [][Next]_vars

-----------------------------------------------------------------------------
(* Properties                                                              *)

\* An armed breaker has only been shown equity within its limits of the highest it ever saw,
\* over resets too, and calls on_trigger once per trip (check(), reset()).
ArmedMeansWithinLimits ==
  /\ triggered = << >> /\ shown > 0 =>
       shown >= ThresholdEquity /\ (high - shown) * 100 < ThresholdPct * high
  /\ calls <= 1 + resets

\* The largest drawdown reported covers the current one until the window has lost a snapshot
\* (calculate_metrics(), _calculate_max_drawdown()).
MaxCoversCurrent ==
  snapshots # << >> /\ ~evicted => \E d \in Drawdowns : NotLess(d, CurrentDrawdown)

\* A drawdown is dated from the first snapshot after the peak, and from none before it.
DrawdownStartsAfterPeak ==
  \A i \in DOMAIN snapshots :
    /\ drawdown_start > 0 /\ snapshots[i].time >= drawdown_start => snapshots[i].equity <= peak
    /\ drawdown_start = 0 /\ i = Len(snapshots) => snapshots[i].equity = peak
=============================================================================
