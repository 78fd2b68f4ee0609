----------------------------- MODULE TAFallback -----------------------------
(***************************************************************************)
(* The technical analyzer of src/src/ta_fallback.py: one loop makes        *)
(* candles of the oracle's prices and caches their RSI, the other reads    *)
(* the cache and passes signals to a callback; recorded outcomes are kept  *)
(* in a file.                                                              *)
(*                                                                         *)
(* An RSI is in hundredths.  Confidences and texts are left out.  A loop   *)
(* runs when it is due; which of the two goes first is open.               *)
(***************************************************************************)
EXTENDS Integers, Sequences, FiniteSetsExt

CONSTANTS Symbols,               \* the sequence <<"BTC", "ETH">>
          Prices,                \* of each symbol
          Period, Micro,         \* _rsi_period 14, window 5
          Interval,              \* _candle_interval, 30 s; a loop turn of start() is one unit
          Cooldown, ErrorPause,  \* signal_cooldown_seconds 60, and 5 s
          MaxCandles,            \* maxlen of a deque, 100
          Types,                 \* signal types of recorded outcomes
          MaxTime, MaxMoves, MaxRaises, MaxRecords, MaxFaults   \* bounds

VARIABLES now, price, moves_left,      \* the clock and the oracle (0: no price yet)
          running,                     \* _running
          aggregator, analysis,        \* the two loops: New, Ended or when they wake
          candles, building,           \* per symbol; << >> while no candle is being built
          shared,                      \* stored entries that are the building candle itself
          rsi, micro, prev_rsi,        \* the caches
          last_signal,                 \* last_signal_time of the loop (-1: none)
          raises,
          first,                       \* history: when the first candle was begun (-1: not yet)
          said,                        \* history: the last two signals, time and newest candle
          signals, stats, file,        \* _heuristics and what the file holds
          recorded, faults, torn       \* history: all outcomes, faults so far, a file was cut

loop_vars == <<now, price, moves_left, running, aggregator, analysis, candles, building, shared,
               rsi, micro, prev_rsi, last_signal, raises, first, said>>
heuristics_vars == <<signals, stats, file, recorded, faults, torn>>
vars == <<loop_vars, heuristics_vars>>

NoRsi == -1
New == -2      \* a loop that was not started
Ended == -1
Asset == {Symbols[i] : i \in DOMAIN Symbols}
Outcomes == {"win", "loss"}
NoStats == [t \in Types |-> [o \in Outcomes |-> 0]]

Init ==
  /\ now = 0 /\ price = [s \in Asset |-> 0] /\ moves_left = MaxMoves
  /\ running = FALSE /\ aggregator = New /\ analysis = New
  /\ candles = [s \in Asset |-> << >>] /\ building = [s \in Asset |-> << >>]
  /\ shared = [s \in Asset |-> 0]
  /\ rsi = [s \in Asset |-> NoRsi] /\ micro = rsi /\ prev_rsi = rsi
  /\ last_signal = [s \in Asset |-> -1] /\ raises = 0
  /\ first = [s \in Asset |-> -1] /\ said = [s \in Asset |-> << >>]
  /\ signals = << >> /\ stats = NoStats /\ file = << >>
  /\ recorded = << >> /\ faults = 0 /\ torn = FALSE

-----------------------------------------------------------------------------
(* Candles and their RSI                                                   *)

\* _calculate_rsi() over the last n differences, 100 * gain / (gain + loss)
Rsi(cs, n) ==
  LET last == (Len(cs) - n + 1)..Len(cs)
      Delta(i) == cs[i].close - cs[i - 1].close
      gain == MapThenSumSet(LAMBDA i : Max({Delta(i), 0}), last)
      loss == MapThenSumSet(LAMBDA i : Max({-Delta(i), 0}), last)
  IN CASE Len(cs) < n + 1 -> NoRsi
       [] Len(cs) >= n + 1 /\ loss = 0 -> 10000
       [] OTHER -> (10000 * gain) \div (gain + loss)

CalculateRsi(cs) == Rsi(cs, Period)

\* get_micro_rsi() `or 50.0`: a micro RSI of zero counts as missing, too.
MicroRsi(cs) == LET m == Rsi(cs, Micro) IN IF m \in {NoRsi, 0} THEN 5000 ELSE m

NewCandle(p) == [at |-> now, open |-> p, high |-> p, low |-> p, close |-> p]

Updated(c, p) == [c EXCEPT !.high = Max({@, p}), !.low = Min({@, p}), !.close = p]

\* The stored entries that are the building candle change with it.
WithShared(s, c) ==
  [i \in DOMAIN candles[s] |-> IF i > Len(candles[s]) - shared[s] THEN c ELSE candles[s][i]]

Push(cs, c) == LET all == Append(cs, c) IN IF Len(all) > MaxCandles THEN Tail(all) ELSE all

\* What one symbol looks like after its turn of _aggregate_candles()
Unchanged(s) ==
  [candles |-> candles[s], building |-> building[s], shared |-> shared[s], rsi |-> rsi[s],
   micro |-> micro[s], prev_rsi |-> prev_rsi[s], raised |-> FALSE]

Begun(s) == [Unchanged(s) EXCEPT !.building = NewCandle(price[s])]

Kept(s) ==
  LET c == Updated(building[s], price[s])
  IN [Unchanged(s) EXCEPT !.building = c, !.candles = WithShared(s, c)]

\* The candle is stored and the caches follow (_update_rsi()).  As long as there are too few
\* candles for an RSI, formatting the log message raises before the next candle is begun.
Closed(s) ==
  LET c == Updated(building[s], price[s])
      cs == Push(WithShared(s, c), c)
      ok == CalculateRsi(cs) # NoRsi
  IN [candles |-> cs, building |-> IF ok THEN NewCandle(price[s]) ELSE c,
      shared |-> IF ok THEN 0 ELSE shared[s] + 1,
      rsi |-> CalculateRsi(cs), micro |-> MicroRsi(cs), prev_rsi |-> rsi[s], raised |-> ~ok]

Turn(s) ==
  CASE price[s] = 0 -> Unchanged(s)
    [] price[s] # 0 /\ building[s] = << >> -> Begun(s)
    [] price[s] # 0 /\ building[s] # << >> /\ now - building[s].at < Interval -> Kept(s)
    [] OTHER -> Closed(s)

\* _aggregate_candles(): a symbol that raises ends the turn of the ones after it.
Reached(s) ==
  \E i \in DOMAIN Symbols : Symbols[i] = s /\ \A j \in 1..(i - 1) : ~Turn(Symbols[j]).raised

AggregateCandles ==
  LET after == [s \in Asset |-> IF Reached(s) THEN Turn(s) ELSE Unchanged(s)] IN
  /\ candles' = [s \in Asset |-> after[s].candles]
  /\ building' = [s \in Asset |-> after[s].building]
  /\ shared' = [s \in Asset |-> after[s].shared]
  /\ rsi' = [s \in Asset |-> after[s].rsi]
  /\ micro' = [s \in Asset |-> after[s].micro]
  /\ prev_rsi' = [s \in Asset |-> after[s].prev_rsi]
  /\ first' = [s \in Asset |-> IF first[s] = -1 /\ building'[s] # << >> THEN now ELSE first[s]]

\* start(): the first turn, and one turn a second, whether the turn raised or not.
\* run_analyzer() makes its task before the one of the analysis.
Start ==
  /\ aggregator = New /\ analysis = New
  /\ running' = TRUE /\ aggregator' = now + 1
  /\ AggregateCandles
  /\ UNCHANGED <<now, price, moves_left, analysis, last_signal, raises, said>>

Due(loop) == loop \notin {New, Ended} /\ loop <= now

Aggregate ==
  /\ Due(aggregator) /\ running
  /\ aggregator' = now + 1
  /\ AggregateCandles
  /\ UNCHANGED <<now, price, moves_left, running, analysis, last_signal, raises, said>>

-----------------------------------------------------------------------------
(* Signals                                                                 *)

IsBullish(c) == c.close > c.open
BodySize(c) == Max({c.close - c.open, c.open - c.close})

\* The first of some [when, type] whose condition holds, "none" if there is none
First(cases) ==
  LET true == SelectSeq(cases, LAMBDA c : c.when)
  IN IF true = << >> THEN "none" ELSE true[1].type

\* detect_momentum_shift(): crossings, then the two RSIs apart, then any large change
MomentumShift(s) ==
  LET r == rsi[s]
      p == prev_rsi[s]
      divergence == micro[s] - r
  IN IF r = NoRsi \/ candles[s] = << >> THEN "none" ELSE First(<<
       [when |-> p # NoRsi /\ p < 3000 /\ r >= 3000, type |-> "oversold_bounce"],
       [when |-> p # NoRsi /\ p > 7000 /\ r <= 7000, type |-> "overbought_reversal"],
       [when |-> divergence > 1000 /\ r < 5000, type |-> "bullish_divergence"],
       [when |-> divergence < -1000 /\ r > 5000, type |-> "bearish_divergence"],
       [when |-> p # NoRsi /\ (r - p > 500 \/ p - r > 500), type |-> "momentum_shift"]>>)

\* get_early_entry_signal(): an extreme against the candle's direction, or a breakout
EarlyEntry(s) ==
  LET n == Len(candles[s])
      current == candles[s][n]
      prev == candles[s][n - 1]
      m == micro[s]
      divergence == m - rsi[s]
      strong == 2 * BodySize(current) > BodySize(prev)
  IN IF m = NoRsi \/ n < 3 THEN "none" ELSE First(<<
       [when |-> m < 2000 /\ IsBullish(current) /\ strong, type |-> "early_entry_long"],
       [when |-> m > 8000 /\ ~IsBullish(current) /\ strong, type |-> "early_entry_short"],
       [when |-> /\ rsi[s] # NoRsi /\ divergence > 1500 /\ m < 4000
                 /\ IsBullish(current) /\ current.close > prev.high,
        type |-> "early_entry_long"],
       [when |-> /\ rsi[s] # NoRsi /\ divergence < -1500 /\ m > 6000
                 /\ ~IsBullish(current) /\ current.close < prev.low,
        type |-> "early_entry_short"]>>)

Signal(s) == LET shift == MomentumShift(s) IN IF shift = "none" THEN EarlyEntry(s) ELSE shift

\* The symbols the callback hears of in a turn of the analysis
CoolingDown(s) == last_signal[s] # -1 /\ now - last_signal[s] < Cooldown
Signalling(s) == ~CoolingDown(s) /\ Signal(s) # "none"

\* The loop notes the time after the callback returned.
Told(S) ==
  /\ last_signal' = [s \in Asset |-> IF s \in S THEN now ELSE last_signal[s]]
  /\ said' = [s \in Asset |->
       IF s \notin S THEN said[s]
       ELSE LET new == [time |-> now, candle |-> candles[s][Len(candles[s])].at]
            IN IF said[s] = << >> THEN <<new>> ELSE <<said[s][Len(said[s])], new>>]

\* run_background_analysis(): nothing but a running analyzer keeps it in its loop, so the task
\* of main.py, which never calls start(), is over at once.
StartAnalysis ==
  /\ analysis = New
  /\ analysis' = IF running THEN now ELSE Ended
  /\ UNCHANGED <<now, price, moves_left, running, aggregator, candles, building, shared, rsi,
                 micro, prev_rsi, last_signal, raises, first, said>>

Analyse ==
  /\ Due(analysis) /\ running
  /\ analysis' = now + Interval \div 2
  /\ Told({s \in Asset : Signalling(s)})
  /\ UNCHANGED <<now, price, moves_left, running, aggregator, candles, building, shared, rsi,
                 micro, prev_rsi, raises, first>>

\* The callback raises for one symbol: the turn ends there, and that signal is not noted.
CallbackRaises ==
  /\ Due(analysis) /\ running
  /\ raises < MaxRaises /\ raises' = raises + 1
  /\ \E i \in DOMAIN Symbols :
       /\ Signalling(Symbols[i])
       /\ Told({s \in Asset : Signalling(s) /\ \E j \in 1..(i - 1) : Symbols[j] = s})
  /\ analysis' = now + ErrorPause
  /\ UNCHANGED <<now, price, moves_left, running, aggregator, candles, building, shared, rsi,
                 micro, prev_rsi, first>>

\* stop(), after which run_analyzer() cancels both loops in the same step
Stop ==
  /\ running
  /\ running' = FALSE /\ aggregator' = Ended /\ analysis' = Ended
  /\ UNCHANGED <<now, price, moves_left, candles, building, shared, rsi, micro, prev_rsi,
                 last_signal, raises, first, said>>

\* The oracle's price moves, or comes for the first time.  The analyzer looks at it once a
\* second, so one move between two looks is as good as many.
PriceMoves ==
  \/ UNCHANGED <<price, moves_left>>
  \/ /\ moves_left > 0 /\ moves_left' = moves_left - 1
     /\ \E s \in Asset : \E p \in Prices[s] \ {price[s]} : price' = [price EXCEPT ![s] = p]

Tick ==
  /\ now < MaxTime /\ now' = now + 1
  /\ aggregator > now /\ analysis > now
  /\ PriceMoves
  /\ UNCHANGED <<running, aggregator, analysis, candles, building, shared, rsi, micro, prev_rsi,
                 last_signal, raises, first, said>>

-----------------------------------------------------------------------------
(* Recorded outcomes.  record_heuristic() saves after each of them, the    *)
(* end of start() and stop() save again.                                   *)

Heuristics == [signals |-> signals, stats |-> stats]

\* save_heuristics(): an error of the file system is swallowed.
Save(h) ==
  \/ file' = h /\ UNCHANGED <<faults, torn>>
  \/ faults < MaxFaults /\ faults' = faults + 1 /\ UNCHANGED <<file, torn>>

RecordHeuristic ==
  /\ Len(recorded) < MaxRecords
  /\ \E t \in Types, o \in Outcomes :
       /\ signals' = Append(signals, <<t, o>>)
       /\ stats' = [stats EXCEPT ![t][o] = @ + 1]
       /\ recorded' = Append(recorded, <<t, o>>)
  /\ Save([signals |-> signals', stats |-> stats'])

SaveAgain == Save(Heuristics) /\ UNCHANGED <<signals, stats, recorded>>

\* load_heuristics(): without a file that parses the analyzer starts afresh.
Loaded(f) ==
  IF f \in {<< >>, <<"cut">>} THEN [signals |-> << >>, stats |-> NoStats] ELSE f

\* The process ends, while a file is being written or not, and starts again.
CrashAndLoad ==
  /\ faults < MaxFaults /\ faults' = faults + 1
  /\ \/ UNCHANGED <<file, torn>>
     \/ file' = <<"cut">> /\ torn' = TRUE
  /\ signals' = Loaded(file').signals /\ stats' = Loaded(file').stats
  /\ UNCHANGED recorded

-----------------------------------------------------------------------------
LoopNext ==
  /\ Start \/ Aggregate \/ StartAnalysis \/ Analyse \/ CallbackRaises \/ Stop \/ Tick
  /\ UNCHANGED heuristics_vars

HeuristicsNext ==
  /\ RecordHeuristic \/ SaveAgain \/ CrashAndLoad
  /\ UNCHANGED loop_vars

Next == LoopNext \/ HeuristicsNext

Spec == Init /\ [][Next]_vars

TypeOK ==
  /\ now \in 0..MaxTime /\ moves_left \in 0..MaxMoves
  /\ aggregator \in {New, Ended} \cup 0..(MaxTime + 1)
  /\ analysis \in {New, Ended} \cup 0..(MaxTime + Interval + ErrorPause)
  /\ \A s \in Asset :
       /\ price[s] \in {0} \cup Prices[s]
       /\ Len(candles[s]) <= MaxCandles /\ shared[s] \in 0..Len(candles[s])
       /\ {rsi[s], prev_rsi[s], micro[s]} \subseteq {NoRsi} \cup 0..10000
       /\ last_signal[s] \in -1..now

-----------------------------------------------------------------------------
(* Properties                                                              *)

\* The stored candles follow one another without a gap: each opens at the close of the one
\* before it and begins at least an interval later.  Only the very first one of a symbol is
\* stored repeatedly, until there are enough entries for an RSI (_aggregate_candles()).
CandlesChain ==
  \A s \in Asset : \A i \in 2..Len(candles[s]) :
    LET a == candles[s][i - 1]
        b == candles[s][i]
    IN \/ b.open = a.close /\ b.at >= a.at + Interval
       \/ a = b /\ a.at = first[s] /\ Len(SelectSeq(candles[s], LAMBDA c : c = a)) <= Period + 1

\* A cached RSI is the one of the candles stored now: what detect_momentum_shift() reads of
\* the cache and of the candles belongs together although another loop writes both.
CacheIsCurrent ==
  \A s \in Asset :
    rsi[s] # NoRsi => rsi[s] = CalculateRsi(candles[s]) /\ micro[s] = MicroRsi(candles[s])

\* Two signals of a symbol that the callback took are a cooldown apart and are not about the
\* same candle, whatever the two loops' delays and errors (run_background_analysis()).
SignalsAreFresh ==
  \A s \in Asset : Len(said[s]) = 2 =>
    /\ said[s][2].time - said[s][1].time >= Cooldown
    /\ said[s][2].candle > said[s][1].candle

\* The statistics count the outcomes kept with them, in memory and in the file, and one failed
\* save or one crash loses none, unless it cuts the file (save_heuristics()).
OutcomesAreKept ==
  LET Counts(h) == \A t \in Types, o \in Outcomes :
        h.stats[t][o] = Cardinality({i \in DOMAIN h.signals : h.signals[i] = <<t, o>>})
  IN /\ Counts(Heuristics) /\ Counts(Loaded(file))
     /\ faults <= 1 /\ ~torn => signals = recorded
=============================================================================
