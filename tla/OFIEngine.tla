------------------------------ MODULE OFIEngine -----------------------------
(***************************************************************************)
(* The order flow imbalance engine (src/src/ofi_engine.py) for one symbol: *)
(* the stream with its reconnection backoff, the imbalance between two     *)
(* consecutive depth messages, the signal, the spike detection, and the    *)
(* callback that hears of a new signal.                                    *)
(*                                                                         *)
(* A message is its bid and ask volume and its mid price (0: a side is     *)
(* empty).  The imbalance is normalised the way the code does with fewer   *)
(* than ten values, a bound of the model; volumes are in percent of the    *)
(* divisor 100.                                                            *)
(***************************************************************************)
EXTENDS Integers, Sequences, FiniteSets, FiniteSetsExt, SequencesExt

CONSTANTS Volumes, Mids,
          SpikeWindow,           \* SPIKE_WINDOW_MS, in the unit of the clock
          SpikePerMille,         \* SPIKE_THRESHOLD_PCT
          MaxPrices,             \* maxlen of _price_history
          MaxDelay,              \* 30, the limit of the backoff
          MaxTime, MaxMessages, MaxOutages   \* bounds; MaxMessages < 10

VARIABLES now, pc,               \* start(): "connect", "stream", "signal", "sleep", "off"
          running, delay,        \* _running, _reconnect_delay
          snapshot,              \* _snapshots: the last message, or none
          prices,                \* _price_history
          state,                 \* _ofi_state: imbalance, signal, spike
          messages, outages,
          told                   \* history: the last signal passed to on_signal

vars == <<now, pc, running, delay, snapshot, prices, state, messages, outages, told>>

None == [bid |-> 0, ask |-> 0, mid |-> -1]

Signals == {"strong_buy", "buy", "neutral", "sell", "strong_sell"}

TypeOK ==
  /\ pc \in {"connect", "stream", "signal", "sleep", "off"}
  /\ delay \in 1..MaxDelay
  /\ Len(prices) <= MaxPrices
  /\ state.signal \in Signals /\ told \in Signals

Init ==
  /\ now = SpikeWindow /\ pc = "connect" /\ running = TRUE /\ delay = 1
  /\ snapshot = None
  /\ prices = << >>
  /\ state = [ofi |-> 0, signal |-> "neutral", spike |-> FALSE]
  /\ messages = 0 /\ outages = 0
  /\ told = "neutral"

-----------------------------------------------------------------------------
(* start() and stop()                                                      *)

\* The connection is up: the backoff starts again.
Connected ==
  /\ pc = "connect"
  /\ pc' = "stream"
  /\ delay' = 1
  /\ UNCHANGED <<now, running, snapshot, prices, state, messages, outages, told>>

\* A failed handshake or a lost connection: the next delay is twice as long, up to the limit.
\* (The sleep is over before _reconnect_delay changes.)
ConnectionFails ==
  /\ pc \in {"connect", "stream"} /\ outages < MaxOutages
  /\ outages' = outages + 1
  /\ pc' = IF running THEN "sleep" ELSE "off"
  /\ UNCHANGED <<now, running, delay, snapshot, prices, state, messages, told>>

Awake ==
  /\ pc = "sleep"
  /\ delay' = Min({2 * delay, MaxDelay})
  /\ pc' = IF running THEN "connect" ELSE "off"
  /\ UNCHANGED <<now, running, snapshot, prices, state, messages, outages, told>>

\* The exchange closes the connection without an error: start() connects again at once.
StreamCloses ==
  /\ pc = "stream" /\ running /\ outages < MaxOutages
  /\ outages' = outages + 1
  /\ pc' = "connect"
  /\ UNCHANGED <<now, running, delay, snapshot, prices, state, messages, told>>

\* stop() closes the stream, if there is one yet.
Stop ==
  /\ running
  /\ running' = FALSE
  /\ UNCHANGED <<now, pc, delay, snapshot, prices, state, messages, outages, told>>

\* The closed stream, or the first message after stop(), ends start().
StreamEnds ==
  /\ pc = "stream" /\ ~running
  /\ pc' = "off"
  /\ UNCHANGED <<now, running, delay, snapshot, prices, state, messages, outages, told>>

-----------------------------------------------------------------------------
(* _process_message() and _calculate_ofi()                                 *)

\* _normalize_ofi(), first branch, in percent
Normalize(ofi) == Max({-100, Min({100, ofi})})

\* _classify_signal()
ClassifySignal(n) == CASE n > 80             -> "strong_buy"
                       [] n > 30 /\ n <= 80  -> "buy"
                       [] n < -80            -> "strong_sell"
                       [] n < -30 /\ n >= -80 -> "sell"
                       [] OTHER              -> "neutral"

\* _detect_spike(): the last price against the newest one that is a window old
DetectSpike(h) ==
  LET old == {i \in DOMAIN h : h[i].time <= now - SpikeWindow}
      base == h[Max(old)].price
      move == h[Len(h)].price - base
  IN Len(h) >= 2 /\ old # {} /\ (move * 1000 > SpikePerMille * base \/ -move * 1000 > SpikePerMille * base)

Push(h, mid) ==
  LET all == Append(h, [price |-> mid, time |-> now]) IN
  IF mid = 0 THEN h ELSE IF Len(all) > MaxPrices THEN Tail(all) ELSE all

\* Whether on_signal hears of the new state
Notify(old, new) == new.signal # old.signal \/ new.spike

\* The first message only sets the base; a message of another symbol is ignored before.
Message(bid, ask, mid) ==
  /\ pc = "stream" /\ running /\ messages < MaxMessages
  /\ messages' = messages + 1
  /\ snapshot' = [bid |-> bid, ask |-> ask, mid |-> mid]
  /\ \/ snapshot = None /\ UNCHANGED <<prices, state, told, pc>>
     \/ /\ snapshot # None
        /\ LET ofi == (bid - snapshot.bid) - (ask - snapshot.ask)
               h == Push(prices, mid)
               new == [ofi |-> ofi, signal |-> ClassifySignal(Normalize(ofi)), spike |-> DetectSpike(h)]
           IN /\ prices' = h
              /\ state' = new
              /\ told' = IF Notify(state, new) THEN new.signal ELSE told
              /\ pc' = IF Notify(state, new) THEN "signal" ELSE pc
  /\ UNCHANGED <<now, running, delay, outages>>

\* on_signal is over, whether it returned or raised.
SignalDone ==
  /\ pc = "signal"
  /\ pc' = "stream"
  /\ UNCHANGED <<now, running, delay, snapshot, prices, state, messages, outages, told>>

Tick ==
  /\ now < SpikeWindow + MaxTime
  /\ now' = now + 1
  /\ UNCHANGED <<pc, running, delay, snapshot, prices, state, messages, outages, told>>

Next ==
  \/ Connected \/ ConnectionFails \/ Awake \/ StreamCloses \/ Stop \/ StreamEnds \/ SignalDone \/ Tick
  \/ \E b, a \in Volumes, m \in Mids : Message(b, a, m)

Spec == Init /\ [][Next]_vars

-----------------------------------------------------------------------------
(* Properties                                                              *)

\* The signal last passed to on_signal is the current one, whatever was not worth a call, lost
\* or interrupted in between (_calculate_ofi()).
ListenerIsCurrent == told = state.signal

\* While the stream is up the next outage waits one unit, however long the last one took;
\* otherwise the wait reflects the failures in a row and stays within the limit (start()).
BackoffRestarts == pc \in {"stream", "signal"} => delay = 1
=============================================================================
