----------------------------- MODULE TickBuffer -----------------------------
(***************************************************************************)
(* The tick buffer of src/src/memory_buffer.py: get_buffer_manager(), the  *)
(* in-memory buffer and the Redis buffer, for the ticks of one symbol (the *)
(* others have keys of their own).                                         *)
(*                                                                         *)
(* A Redis command is one step at the server; push_tick() and clear() send *)
(* several, each awaited, and the commands of two tasks may alternate.     *)
(* The in-memory buffer never suspends while it holds its lock.  A tick is *)
(* the number of the push_tick() call, a time and a price; its volume is 1.*)
(***************************************************************************)
EXTENDS Integers, Sequences, FiniteSets, FiniteSetsExt, SequencesExt

CONSTANTS Tasks,                 \* tasks of the program that use the buffer
          Times, Prices,         \* of ticks
          Interval, Periods,     \* interval_ms and periods of get_ohlcv()
          MaxSize,               \* max_size and MAX_TICKS_PER_SYMBOL
          MaxTicks, MaxClears, MaxFailures   \* bounds

VARIABLES manager,               \* _buffer_manager: "none", "made", then what initialize() chose
          connected,             \* _connected of the Redis buffer
          pc, sending,           \* per task: what it awaits, and the tick it sends
          memory,                \* the deque of InMemoryBuffer
          list, latest,          \* Redis: the list, newest first, and the :latest key
          pushed, clears, failures,
          dropped,               \* history: ticks push_tick() did nothing with
          gone,                  \* history: ticks evicted, cleared, or never sent
          untrimmed,             \* history: failures since the last LTRIM
          disturbed              \* history: a call failed or met another one

vars == <<manager, connected, pc, sending, memory, list, latest, pushed, clears, failures,
          dropped, gone, untrimmed, disturbed>>

Ticks == [number : 1..MaxTicks, time : Times, price : Prices]
NoTick == [number |-> 0]
Numbers(s) == {s[i].number : i \in DOMAIN s}
Busy == {"lpush", "ltrim", "set", "delete", "delete_latest"}

TypeOK ==
  /\ manager \in {"none", "made", "redis", "memory"}
  /\ connected \in BOOLEAN
  /\ pc \in [Tasks -> {"idle", "initialize", "ready"} \cup Busy]
  /\ sending \in [Tasks -> Ticks \cup {NoTick}]
  /\ Len(memory) <= MaxSize /\ Range(memory) \subseteq Ticks
  /\ Range(list) \subseteq Ticks /\ latest \in Ticks \cup {NoTick}

Init ==
  /\ manager = "none" /\ connected = FALSE
  /\ pc = [t \in Tasks |-> "idle"] /\ sending = [t \in Tasks |-> NoTick]
  /\ memory = << >> /\ list = << >> /\ latest = NoTick
  /\ pushed = 0 /\ clears = 0 /\ failures = 0
  /\ dropped = {} /\ gone = {} /\ untrimmed = 0 /\ disturbed = FALSE

-----------------------------------------------------------------------------
(* get_buffer_manager()                                                    *)

\* The first caller stores the manager, then awaits its initialize(); a caller that comes
\* meanwhile is handed the manager as it is.
GetManager(t) ==
  /\ pc[t] = "idle"
  /\ \/ manager = "none" /\ manager' = "made" /\ pc' = [pc EXCEPT ![t] = "initialize"]
     \/ manager # "none" /\ pc' = [pc EXCEPT ![t] = "ready"] /\ UNCHANGED manager
  /\ UNCHANGED <<connected, sending, memory, list, latest, pushed, clears, failures, dropped,
                 gone, untrimmed, disturbed>>

\* initialize(): Redis answers the ping, or the buffer is kept in memory.
Initialized(t, answers) ==
  /\ pc[t] = "initialize"
  /\ pc' = [pc EXCEPT ![t] = "ready"]
  /\ manager' = IF answers THEN "redis" ELSE "memory"
  /\ connected' = answers
  /\ UNCHANGED <<sending, memory, list, latest, pushed, clears, failures, dropped, gone,
                 untrimmed, disturbed>>

\* close() of the manager: later calls raise ConnectionError.
Close ==
  /\ manager = "redis" /\ connected
  /\ connected' = FALSE
  /\ UNCHANGED <<manager, pc, sending, memory, list, latest, pushed, clears, failures, dropped,
                 gone, untrimmed, disturbed>>

-----------------------------------------------------------------------------
(* push_tick() and clear()                                                 *)

Others(t) == \E u \in Tasks \ {t} : pc[u] \in Busy

\* push_tick() of the manager.  Without a buffer it does nothing; a closed Redis raises.
Push(t, time, price) ==
  /\ pc[t] = "ready" /\ pushed < MaxTicks
  /\ pushed' = pushed + 1
  /\ LET tick == [number |-> pushed + 1, time |-> time, price |-> price]
         full == Len(memory) = MaxSize IN
       \/ /\ manager = "made"
          /\ dropped' = dropped \cup {pushed + 1}
          /\ UNCHANGED <<pc, sending, memory, gone, disturbed>>
       \/ /\ manager = "memory"
          /\ memory' = Append(IF full THEN Tail(memory) ELSE memory, tick)
          /\ gone' = IF full THEN gone \cup {memory[1].number} ELSE gone
          /\ UNCHANGED <<pc, sending, dropped, disturbed>>
       \/ /\ manager = "redis" /\ ~connected
          /\ gone' = gone \cup {pushed + 1}
          /\ UNCHANGED <<pc, sending, memory, dropped, disturbed>>
       \/ /\ manager = "redis" /\ connected
          /\ pc' = [pc EXCEPT ![t] = "lpush"] /\ sending' = [sending EXCEPT ![t] = tick]
          /\ disturbed' = (disturbed \/ Others(t))
          /\ UNCHANGED <<memory, dropped, gone>>
  /\ UNCHANGED <<manager, connected, list, latest, clears, failures, untrimmed>>

\* clear(): in memory at once, in Redis by two commands
Clear(t) ==
  /\ pc[t] = "ready" /\ clears < MaxClears
  /\ clears' = clears + 1
  /\ \/ /\ manager = "memory"
        /\ memory' = << >> /\ gone' = gone \cup Numbers(memory)
        /\ UNCHANGED <<pc, disturbed>>
     \/ /\ manager = "redis" /\ connected
        /\ pc' = [pc EXCEPT ![t] = "delete"] /\ disturbed' = (disturbed \/ Others(t))
        /\ UNCHANGED <<memory, gone>>
  /\ UNCHANGED <<manager, connected, sending, list, latest, pushed, failures, dropped, untrimmed>>

LPush(t) ==
  /\ pc[t] = "lpush"
  /\ pc' = [pc EXCEPT ![t] = "ltrim"]
  /\ list' = <<sending[t]>> \o list
  /\ UNCHANGED <<manager, connected, sending, memory, latest, pushed, clears, failures, dropped,
                 gone, untrimmed, disturbed>>

Kept_Oldest(l) == IF Len(l) > MaxSize THEN SubSeq(l, Len(l) - MaxSize + 1, Len(l)) ELSE l

\* LTRIM 0 MAX - 1: the head of the list stays.
Kept(l) == IF Len(l) > MaxSize THEN SubSeq(l, 1, MaxSize) ELSE l

LTrim(t) ==
  /\ pc[t] = "ltrim"
  /\ pc' = [pc EXCEPT ![t] = "set"]
  /\ list' = Kept(list)
  /\ gone' = gone \cup (Numbers(list) \ Numbers(list'))
  /\ untrimmed' = 0
  /\ UNCHANGED <<manager, connected, sending, memory, latest, pushed, clears, failures, dropped,
                 disturbed>>

SetLatest(t) ==
  /\ pc[t] = "set"
  /\ pc' = [pc EXCEPT ![t] = "ready"]
  /\ latest' = sending[t] /\ sending' = [sending EXCEPT ![t] = NoTick]
  /\ UNCHANGED <<manager, connected, memory, list, pushed, clears, failures, dropped, gone,
                 untrimmed, disturbed>>

DeleteList(t) ==
  /\ pc[t] = "delete"
  /\ pc' = [pc EXCEPT ![t] = "delete_latest"]
  /\ list' = << >> /\ gone' = gone \cup Numbers(list)
  /\ UNCHANGED <<manager, connected, sending, memory, latest, pushed, clears, failures, dropped,
                 untrimmed, disturbed>>

DeleteLatest(t) ==
  /\ pc[t] = "delete_latest"
  /\ pc' = [pc EXCEPT ![t] = "ready"]
  /\ latest' = NoTick
  /\ UNCHANGED <<manager, connected, sending, memory, list, pushed, clears, failures, dropped,
                 gone, untrimmed, disturbed>>

\* A command fails: the exception leaves the commands after it unsent.
CommandFails(t) ==
  /\ pc[t] \in Busy /\ failures < MaxFailures
  /\ failures' = failures + 1
  /\ pc' = [pc EXCEPT ![t] = "ready"] /\ sending' = [sending EXCEPT ![t] = NoTick]
  /\ gone' = IF pc[t] = "lpush" THEN gone \cup {sending[t].number} ELSE gone
  /\ untrimmed' = IF pc[t] = "ltrim" THEN untrimmed + 1 ELSE untrimmed
  /\ disturbed' = TRUE
  /\ UNCHANGED <<manager, connected, memory, list, latest, pushed, clears, dropped>>

Next ==
  \/ Close
  \/ \E t \in Tasks :
       \/ GetManager(t) \/ Clear(t) \/ CommandFails(t)
       \/ LPush(t) \/ LTrim(t) \/ SetLatest(t) \/ DeleteList(t) \/ DeleteLatest(t)
       \/ \E answers \in BOOLEAN : Initialized(t, answers)
       \/ \E time \in Times, price \in Prices : Push(t, time, price)

Spec == Init /\ [][Next]_vars

-----------------------------------------------------------------------------
(* get_ohlcv() of the in-memory buffer                                     *)

\* One turn of the loop: the candles finished and the current one
AddTick(candles, tick) ==
  LET start == (tick.time \div Interval) * Interval
      last == candles[Len(candles)] IN
  IF candles = << >> \/ last.timestamp # start
  THEN Append(candles, [timestamp |-> start, open |-> tick.price, high |-> tick.price,
                        low |-> tick.price, close |-> tick.price, volume |-> 1])
  ELSE [candles EXCEPT ![Len(candles)] =
          [last EXCEPT !.high = Max({@, tick.price}), !.low = Min({@, tick.price}),
                       !.close = tick.price, !.volume = @ + 1]]

get_ohlcv ==
  LET candles == FoldLeft(AddTick, << >>, memory) IN
  SubSeq(candles, Max({1, Len(candles) - Periods + 1}), Len(candles))

-----------------------------------------------------------------------------
(* Properties                                                              *)

\* A Redis list is longer than its limit only by pushes between LPUSH and LTRIM and by those
\* that failed there since the last LTRIM (push_tick()).
ListBounded == Len(list) <= MaxSize + Cardinality({t \in Tasks : pc[t] = "ltrim"}) + untrimmed

\* Every tick is held, on its way, evicted, or was refused; none is held in two places
\* (push_tick(), clear()).
TicksAccounted ==
  LET sent == {sending[t].number : t \in {u \in Tasks : pc[u] = "lpush"}}
      places == <<Numbers(memory), Numbers(list), sent, gone, dropped>> IN
  /\ UNION Range(places) = 1..pushed
  /\ \A i, j \in 1..5 : i # j => places[i] \cap places[j] = {}

\* Between calls that did not fail and never overlapped, the list is newest first and the
\* :latest key is its head (push_tick(), clear()).
ViewsAgree ==
  ~disturbed =>
    /\ \A i, j \in DOMAIN list : i < j => list[i].number > list[j].number
    /\ (\A t \in Tasks : pc[t] \notin Busy) =>
         latest = IF list = << >> THEN NoTick ELSE list[1]

\* While ticks arrive in the order of their times, get_ohlcv() has one candle for each of the
\* last intervals traded in, and its prices are those of the ticks in it.
CandlesAreRight ==
  (\A i, j \in DOMAIN memory : i < j => memory[i].time <= memory[j].time) =>
    LET In(i) == {j \in DOMAIN memory : memory[j].time \div Interval = i \div Interval}
        PricesIn(c) == {memory[j].price : j \in In(c.timestamp)} IN
    /\ Len(get_ohlcv) = Min({Periods, Cardinality({tick.time \div Interval : tick \in Range(memory)})})
    /\ \A k \in DOMAIN get_ohlcv :
         LET c == get_ohlcv[k] IN
         /\ c.volume = Cardinality(In(c.timestamp))
         /\ c.high = Max(PricesIn(c)) /\ c.low = Min(PricesIn(c))
         /\ c.open = memory[Min(In(c.timestamp))].price
         /\ c.close = memory[Max(In(c.timestamp))].price
    /\ memory # << >> =>
         get_ohlcv[Len(get_ohlcv)].timestamp \div Interval = memory[Len(memory)].time \div Interval
=============================================================================
