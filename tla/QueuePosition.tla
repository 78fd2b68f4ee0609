---------------------------- MODULE QueuePosition ---------------------------
(***************************************************************************)
(* The queue position simulator (src/src/queue_position_simulator.py), for *)
(* one market: mock orders wait at their price level, and trades seen on   *)
(* the market fill those the simulator thinks are far enough in the queue. *)
(*                                                                         *)
(* Prices are ticks, quantities whole shares.  An order's id is its place  *)
(* in `orders`.  The trade history only feeds an estimate and is left out. *)
(***************************************************************************)
EXTENDS Integers, Sequences, FiniteSetsExt, SequencesExt

CONSTANTS Prices, MinTick, MaxTick,   \* prices asked for; 0.01 and 0.99
          Quantities,
          Latencies,                  \* simulated submission latencies
          MaxOrders, MaxTrades        \* bounds

VARIABLES orders,          \* _orders, by id
          levels,          \* _bid_books and _ask_books: levels made so far, by side and price
          filled_total,    \* _stats: total_filled_quantity
          trades,          \* number of trades seen
          traded           \* history: total quantity of the trades

vars == <<orders, levels, filled_total, trades, traded>>

Sides == {"BUY", "SELL"}
Complete == {"FILLED", "CANCELLED"}
remaining_quantity(o) == o.quantity - o.filled

TypeOK ==
  /\ \A i \in DOMAIN orders :
       /\ orders[i].price \in MinTick..MaxTick
       /\ orders[i].filled \in 0..orders[i].quantity
       /\ orders[i].status \in {"OPEN", "PARTIALLY_FILLED"} \cup Complete
  /\ filled_total \in Nat /\ traded \in Nat

Init ==
  /\ orders = << >>
  /\ levels = << >>
  /\ filled_total = 0
  /\ trades = 0 /\ traded = 0

-----------------------------------------------------------------------------
(* The book, as functions of a state [orders, levels, filled_total]        *)

LevelOf(o) == <<o.side, o.price>>
NoLevel == [ids |-> << >>, total |-> 0]

\* The ids listed at the level of an order before it, submitted earlier
Ahead(st, id) ==
  LET listed == st.levels[LevelOf(st.orders[id])].ids IN
  {listed[k] : k \in {j \in DOMAIN listed :
     /\ \A i \in 1..j : listed[i] # id
     /\ st.orders[listed[j]].submitted < st.orders[id].submitted}}

SizeOf(st, ids) ==
  SumFunctionOnSet([i \in DOMAIN st.orders |-> remaining_quantity(st.orders[i])], ids)

UpdateQueuePosition_Count(st, id) ==
  [st EXCEPT !.orders[id].ahead = IF Ahead(st, id) = {} THEN 0 ELSE 1]

\* _update_queue_position()
UpdateQueuePosition(st, id) == [st EXCEPT !.orders[id].ahead = SizeOf(st, Ahead(st, id))]

\* _add_to_book()
AddToBook(st, id) ==
  LET o == st.orders[id]
      old == IF LevelOf(o) \in DOMAIN st.levels THEN st.levels[LevelOf(o)] ELSE NoLevel
      new == [ids |-> Append(old.ids, id), total |-> old.total + o.quantity]
  IN [st EXCEPT !.levels = [l \in DOMAIN st.levels \cup {LevelOf(o)} |->
                              IF l = LevelOf(o) THEN new ELSE st.levels[l]]]

\* _remove_from_book(): the level stays, and loses what the order has left by now.
RemoveFromBook(st, id) ==
  LET o == st.orders[id] IN
  [st EXCEPT !.levels[LevelOf(o)].ids = RemoveFirst(@, id),
             !.levels[LevelOf(o)].total = @ - remaining_quantity(o)]

\* _apply_fill()
ApplyFill(st, id, n) ==
  LET o == st.orders[id]
      full == o.filled + n >= o.quantity
      s1 == [st EXCEPT !.orders[id].filled = @ + n,
                       !.orders[id].status = IF full THEN "FILLED" ELSE "PARTIALLY_FILLED",
                       !.filled_total = @ + n]
  IN UpdateQueuePosition(IF full THEN RemoveFromBook(s1, id) ELSE s1, id)

-----------------------------------------------------------------------------
(* process_trade()                                                         *)

\* Python's round() of n / d: halves go to the even neighbour.
RoundHalfEven(n, d) ==
  LET q == n \div d
      r == 2 * (n % d)
  IN IF r > d \/ (r = d /\ q % 2 = 1) THEN q + 1 ELSE q

\* _calculate_fill_probability(), as numerator and denominator; a trade through the order's
\* price makes it half as likely again, up to certainty.
FillProbability(o, trade) ==
  LET through == \/ o.side = "BUY" /\ trade.price < o.price
                 \/ o.side = "SELL" /\ trade.price > o.price
      n == trade.quantity * (IF through THEN 3 ELSE 2)
      d == (trade.quantity + o.ahead) * 2
  IN IF o.ahead = 0 \/ n > d THEN <<1, 1>> ELSE <<n, d>>

\* _would_fill()
WouldFill(o, trade) ==
  IF o.side = "BUY" THEN trade.price <= o.price ELSE trade.price >= o.price

\* _find_matching_orders(): the ids at the levels the trade reaches, best price first
MatchingOrders(trade) ==
  LET side == IF trade.side = "buy" THEN "SELL" ELSE "BUY"
      Level(k) == <<side, IF side = "SELL" THEN MinTick + k - 1 ELSE MaxTick - k + 1>>
      reached == IF side = "SELL" THEN trade.price - MinTick + 1 ELSE MaxTick - trade.price + 1
      ids[k \in 0..reached] ==
        IF k = 0 THEN << >>
        ELSE ids[k - 1] \o (IF Level(k) \in DOMAIN levels THEN levels[Level(k)].ids ELSE << >>)
  IN ids[reached]

\* One round of the loop over the matching orders; `left` is remaining_quantity.
FillOne(st, id, trade) ==
  LET o == st.orders[id]
      p == FillProbability(o, trade)
      likely == 2 * p[1] > p[2]
      want == LET rounded == RoundHalfEven(Min({st.left, remaining_quantity(o)}) * p[1], p[2])
              IN Min({Max({1, rounded}), remaining_quantity(o)})
  IN IF st.left > 0 /\ o.status \notin Complete /\ WouldFill(o, trade) /\ likely
     THEN [ApplyFill(st, id, want) EXCEPT !.left = @ - want]
     ELSE st

State == [orders |-> orders, levels |-> levels, filled_total |-> filled_total, left |-> 0]
Becomes(st) == /\ orders' = st.orders /\ levels' = st.levels /\ filled_total' = st.filled_total

ProcessTrade(trade) ==
  /\ trades < MaxTrades
  /\ LET ids == MatchingOrders(trade)
         after[k \in 0..Len(ids)] ==
           IF k = 0 THEN [State EXCEPT !.left = trade.quantity]
           ELSE FillOne(after[k - 1], ids[k], trade)
     IN Becomes(after[Len(ids)])
  /\ trades' = trades + 1
  /\ traded' = traded + trade.quantity

\* create_order(): the price is brought into range, the submission time adds the latency.
CreateOrder(side, price, quantity, latency) ==
  /\ Len(orders) < MaxOrders
  /\ LET id == Len(orders) + 1
         o == [side |-> side, price |-> Max({MinTick, Min({MaxTick, price})}),
               quantity |-> quantity, filled |-> 0, status |-> "OPEN",
               submitted |-> id + latency, ahead |-> 0]
     IN Becomes(UpdateQueuePosition(AddToBook([State EXCEPT !.orders = Append(@, o)], id), id))
  /\ UNCHANGED <<trades, traded>>

\* cancel_order()
CancelOrder(id) ==
  /\ orders[id].status \notin Complete
  /\ Becomes([RemoveFromBook(State, id) EXCEPT !.orders[id].status = "CANCELLED"])
  /\ UNCHANGED <<trades, traded>>

Next ==
  \/ \E side \in Sides, p \in Prices, q \in Quantities, l \in Latencies : CreateOrder(side, p, q, l)
  \/ \E id \in DOMAIN orders : CancelOrder(id)
  \/ \E side \in {"buy", "sell"}, p \in MinTick..MaxTick, q \in Quantities :
       ProcessTrade([side |-> side, price |-> p, quantity |-> q])

Spec == Init /\ [][Next]_vars

-----------------------------------------------------------------------------
(* Properties                                                              *)

\* A level lists exactly its open orders, and its total never falls short of what they have
\* left, over partial fills, cancellations and rounding (_add_to_book(), _remove_from_book()).
BookListsOpenOrders ==
  /\ \A l \in DOMAIN levels :
       /\ Range(levels[l].ids) =
            {i \in DOMAIN orders : LevelOf(orders[i]) = l /\ orders[i].status \notin Complete}
       /\ levels[l].total >= SizeOf(State, Range(levels[l].ids))

\* The size ahead an open order was last given is at least what is still ahead of it: stale
\* positions never make a fill too likely (_update_queue_position(),
\* _calculate_fill_probability()).
PositionIsCautious ==
  \A i \in DOMAIN orders : orders[i].status \notin Complete =>
    orders[i].ahead >= SizeOf(State, Ahead(State, i))

\* All fills together never exceed what was traded, and the statistics add up
\* (process_trade(), _apply_fill()).
FillsAreBacked ==
  /\ filled_total = SumFunctionOnSet([i \in DOMAIN orders |-> orders[i].filled], DOMAIN orders)
  /\ filled_total <= traded
=============================================================================
