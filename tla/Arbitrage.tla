----------------------------- MODULE Arbitrage ------------------------------
(***************************************************************************)
(* The arbitrage engine (ArbitrageEngine, src/src/arbitrage.py): the three *)
(* conditions of an opportunity, and run_analysis_loop() with its batches  *)
(* and callbacks.                                                          *)
(*                                                                         *)
(* One analysis is one step: it suspends only before it begins, in the     *)
(* rate limiter, where time passes and prices move.  A market is what its  *)
(* question says (`bias` is the direction it names, or "none"), the asset  *)
(* the oracle follows or not, and the second it resolves.  Prices of       *)
(* tokens are cents; 0 is an empty book.  The counters are left out.       *)
(***************************************************************************)
EXTENDS Integers, Sequences, FiniteSets, SequencesExt

CONSTANTS Markets,          \* a sequence of [bias, supported, expiry]
          OraclePrices,     \* prices of the asset
          Asks,             \* best asks, in cents
          MaxEntry,         \* max_entry_price
          Threshold,        \* time_threshold_seconds
          MinConfidence,    \* min_confidence, in per cent
          Staleness,        \* oracle_staleness_threshold
          MaxTime, MaxMoves \* bounds: seconds, price changes

VARIABLES now, oracle, asks, moves_left,   \* what the oracle and the sniper know
          pc, running, todo, found, queue, told   \* todo: the batch's markets still to analyse

env_vars == <<now, oracle, asks, moves_left>>
vars == <<env_vars, pc, running, todo, found, queue, told>>

Ids == DOMAIN Markets
Tokens == Ids \X {"YES", "NO"}
Directions == {"UP", "DOWN"}
NoPrice == [price |-> 0, avg |-> 0, time |-> 0]

TypeOK ==
  /\ now \in 0..MaxTime
  /\ oracle \in [price: OraclePrices \cup {0}, avg: OraclePrices \cup {0}, time: 0..now]
  /\ asks \in [Tokens -> Asks \cup {0}]
  /\ pc \in {"idle", "batch", "callback", "sleep", "ended"}
  /\ running \in BOOLEAN
  /\ todo \subseteq Ids
  /\ {o.token : o \in Range(found \o queue \o told)} \subseteq Tokens

Init ==
  /\ now = 0
  /\ oracle = NoPrice
  /\ asks = [t \in Tokens |-> 0]
  /\ moves_left = MaxMoves
  /\ pc = "idle"
  /\ running = FALSE
  /\ todo = {} /\ found = << >> /\ queue = << >> /\ told = << >>

-----------------------------------------------------------------------------
(* External: time, the oracle's stream and the order books.                *)

Tick ==
  /\ now < MaxTime
  /\ now' = now + 1
  /\ UNCHANGED <<oracle, asks, moves_left, pc, running, todo, found, queue, told>>

OracleMoves(p, a) ==
  /\ moves_left > 0
  /\ moves_left' = moves_left - 1
  /\ oracle' = [price |-> p, avg |-> a, time |-> now]
  /\ UNCHANGED <<now, asks, pc, running, todo, found, queue, told>>

BookMoves(t, p) ==
  /\ moves_left > 0
  /\ moves_left' = moves_left - 1
  /\ asks' = [asks EXCEPT ![t] = p]
  /\ UNCHANGED <<now, oracle, pc, running, todo, found, queue, told>>

-----------------------------------------------------------------------------
(* _analyze_market_detailed()                                              *)

Left(m) == Markets[m].expiry - now

TimeCondition_Always(m) == TRUE

\* _check_time_condition()
TimeCondition(m) == 0 < Left(m) /\ Left(m) <= Threshold

\* _parse_asset_from_question() finds an asset the oracle has, and
\* _parse_market_direction_bias() which way the question goes, if it says so.
Supported(m) == Markets[m].supported
Bias(m) == Markets[m].bias

\* is_stale() of the oracle: no price, or one that is too old
IsStale == oracle.price = 0 \/ now - oracle.time > Staleness

\* The confidence, min(1, 0.5 + 2.5 * deviation in per cent), reaches the minimum.
Confident(p, a) ==
  LET deviation == IF p < a THEN a - p ELSE p - a
      confidence == 50 * a + 25000 * deviation
  IN (IF confidence > 100 * a THEN 100 * a ELSE confidence) >= MinConfidence * a

\* _check_oracle_alignment(): supported, fresh, with a price and an average
OracleAligned(m) == Supported(m) /\ ~IsStale /\ oracle.avg # 0

Direction == IF oracle.price >= oracle.avg THEN "UP" ELSE "DOWN"

\* _determine_winning_side()
DetermineWinningSide(m, direction) ==
  IF Bias(m) = "none" THEN IF direction = "UP" THEN "YES" ELSE "NO"
  ELSE IF direction = Bias(m) THEN "YES" ELSE "NO"

\* _get_token_for_signal()
TokenOf(m, side) == <<m, side>>

\* _check_price_condition()
PriceCondition(t) == asks[t] # 0 /\ asks[t] < MaxEntry

\* What the analysis of m returns: at most one opportunity.
Analysed(m) ==
  LET token == TokenOf(m, DetermineWinningSide(m, Direction))
      all == /\ Left(m) > 0 /\ TimeCondition(m) /\ OracleAligned(m)
             /\ Confident(oracle.price, oracle.avg) /\ PriceCondition(token)
  IN IF all THEN << [market |-> m, token |-> token, price |-> asks[token], at |-> now,
                     direction |-> Direction, heard |-> oracle.time] >>
     ELSE << >>

-----------------------------------------------------------------------------
(* run_analysis_loop() and analyze_markets_batch()                         *)

StartLoop ==
  /\ pc = "idle"
  /\ running' = TRUE
  /\ pc' = "sleep"
  /\ UNCHANGED <<env_vars, todo, found, queue, told>>

\* Top of the loop: the markets that are not resolved go into a batch.
LoopTop ==
  /\ pc = "sleep"
  /\ LET active == {m \in Ids : Left(m) > 0} IN
       \/ /\ ~running \/ active = {}
          /\ pc' = "ended"
          /\ running' = FALSE
          /\ UNCHANGED <<todo, found, told>>
       \/ /\ running /\ active # {}
          /\ pc' = "batch"
          /\ todo' = active
          /\ found' = << >> /\ told' = << >>
          /\ UNCHANGED running
  /\ UNCHANGED <<env_vars, queue>>

\* The rate limiter lets the next analysis of the gather() run, in the order of the list.
AnalyzeMarket ==
  /\ pc = "batch"
  /\ todo # {}
  /\ found' = found \o Analysed(Min(todo))
  /\ todo' = todo \ {Min(todo)}
  /\ UNCHANGED <<env_vars, pc, running, queue, told>>

\* The analysis raised: gather() returns the exception, which is logged.
AnalyzeRaises ==
  /\ pc = "batch"
  /\ todo # {}
  /\ todo' = todo \ {Min(todo)}
  /\ UNCHANGED <<env_vars, pc, running, found, queue, told>>

\* The profit margin is what the price leaves of a dollar; equal margins keep their order.
Before(opps, i, j) ==
  \/ opps[i].price < opps[j].price
  \/ opps[i].price = opps[j].price /\ i < j

\* opportunities.sort(): the k-th opportunity is the one that k - 1 others go before.
SortByProfit(opps) ==
  [k \in DOMAIN opps |->
     opps[CHOOSE i \in DOMAIN opps : Cardinality({j \in DOMAIN opps : Before(opps, j, i)}) = k - 1]]

BatchDone ==
  /\ pc = "batch"
  /\ todo = {}
  /\ queue' = SortByProfit(found)
  /\ pc' = "callback"
  /\ UNCHANGED <<env_vars, running, todo, found, told>>

\* on_opportunity() is called; whether it returns or raises the next one follows.
Callback ==
  /\ pc = "callback"
  /\ queue # << >>
  /\ told' = Append(told, Head(queue))
  /\ queue' = Tail(queue)
  /\ UNCHANGED <<env_vars, pc, running, todo, found>>

RoundOver ==
  /\ pc = "callback"
  /\ queue = << >>
  /\ pc' = "sleep"
  /\ UNCHANGED <<env_vars, running, todo, found, queue, told>>

\* The task is cancelled where it waits: the loop ends.
Cancelled ==
  /\ pc \in {"batch", "callback", "sleep"}
  /\ pc' = "ended"
  /\ running' = FALSE
  /\ todo' = {} /\ queue' = << >>
  /\ UNCHANGED <<env_vars, found, told>>

\* stop()
Stop ==
  /\ running
  /\ running' = FALSE
  /\ UNCHANGED <<env_vars, pc, todo, found, queue, told>>

Next ==
  \/ Tick
  \/ \E p, a \in OraclePrices : OracleMoves(p, a)
  \/ \E t \in Tokens, p \in Asks \cup {0} : BookMoves(t, p)
  \/ StartLoop \/ LoopTop \/ AnalyzeMarket \/ AnalyzeRaises \/ BatchDone
  \/ Callback \/ RoundOver \/ Cancelled \/ Stop

Spec == Init /\ [][Next]_vars

-----------------------------------------------------------------------------
(* Properties                                                              *)

\* Reference: does a token pay if the asset moves in this direction?  YES of "Up or Down?" and
\* of "Will it go up?" pays on UP, YES of "Will it go down?" on DOWN, NO on the opposite.
Pays(token, direction) ==
  LET yes == IF Markets[token[1]].bias = "DOWN" THEN "DOWN" ELSE "UP"
  IN (token[2] = "YES") = (direction = yes)

\* "must all be true simultaneously" (arbitrage.py): what reaches a callback was found at one
\* moment, in the last second of its market, at an ask below the maximum and on an oracle
\* price not older than allowed, and its token pays if the oracle's direction holds.
OpportunityIsSound ==
  \A o \in Range(found \o queue \o told) :
    LET left == Markets[o.market].expiry - o.at IN
    /\ 0 < left /\ left <= Threshold
    /\ o.at - o.heard <= Staleness
    /\ o.price < MaxEntry
    /\ Pays(o.token, o.direction)

\* "Prioritizes highest profit margin" (run_analysis_loop()): the callbacks of a round come in
\* order of profit, each market at most once, and what is still queued is no better.
BestFirst ==
  pc = "callback" =>
    LET all == told \o queue IN
    /\ \A i, j \in DOMAIN all : i < j => all[i].price <= all[j].price /\ all[i].market # all[j].market
    /\ Range(all) = Range(found)

=============================================================================
