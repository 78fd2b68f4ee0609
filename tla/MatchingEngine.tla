--------------------------- MODULE MatchingEngine ---------------------------
(***************************************************************************)
(* The local matching engine (LocalMatchingEngine and PriceLevel,          *)
(* src/src/local_matching_engine.py): a central limit order book with      *)
(* price-time priority.  Its methods are synchronous, one step each.       *)
(*                                                                         *)
(* A price is a whole number of units, TickSize of them to the tick of one *)
(* cent.  The floats the engine is given may be off by a rounding error:   *)
(* _validate_order() accepts those up to 1e-9, Tolerance units here, and   *)
(* keeps the price as it came.  Fees and averages are left out; quantities *)
(* are exact.                                                              *)
(***************************************************************************)
EXTENDS Integers, Sequences, SequencesExt, FiniteSetsExt, Functions

CONSTANTS Prices, Quantities,   \* what a submitted order may say
          OrderTypes,
          TickSize, Tolerance,
          MinPrice, MaxPrice,   \* MIN_PRICE, MAX_PRICE, in units
          MaxOrders             \* bound: orders submitted

VARIABLES
  orders,    \* every order submitted, in this order; its index is its id
  book,      \* _bids and _asks: per side the levels, price |-> [queue, total]
  lookup,    \* the keys of _orders
  fills,     \* _fills
  stats      \* _stats

vars == <<orders, book, lookup, fills, stats>>

Sides == {"buy", "sell"}
Opposite(side) == CHOOSE s \in Sides : s # side
Statuses == {"open", "partially_filled", "filled", "cancelled", "rejected"}
Remaining(id) == orders[id].quantity - orders[id].filled
Units == 0..(MaxPrice + TickSize)
OnTick(p) == \E k \in Units : k % TickSize = 0 /\ p - k \in (-Tolerance)..Tolerance

TypeOK ==
  /\ orders \in Seq([side: Sides, price: Prices, quantity: Quantities, type: OrderTypes,
                     filled: Nat, status: Statuses])
  /\ \A s \in Sides : \A p \in DOMAIN book[s] :
       /\ p \in Prices /\ OnTick(p) /\ p >= MinPrice /\ p <= MaxPrice
       /\ book[s][p].queue \in Seq(DOMAIN orders)
       /\ book[s][p].total \in Nat
  /\ lookup \subseteq DOMAIN orders
  /\ fills \in Seq([maker: DOMAIN orders, taker: DOMAIN orders, price: Prices, quantity: Nat \ {0}])
  /\ stats \in [received: Nat, filled: Nat, cancelled: Nat, volume: Nat, fills: Nat]

Init ==
  /\ orders = << >>
  /\ book = [s \in Sides |-> << >>]
  /\ lookup = {}
  /\ fills = << >>
  /\ stats = [received |-> 0, filled |-> 0, cancelled |-> 0, volume |-> 0, fills |-> 0]

-----------------------------------------------------------------------------
\* _validate_order()
ValidateOrder(o) ==
  /\ o.price >= MinPrice /\ o.price <= MaxPrice
  /\ OnTick(o.price)
  /\ o.quantity > 0

\* price_check, which market orders skip
PriceCheck(o, price) ==
  o.type = "market" \/ IF o.side = "buy" THEN price <= o.price ELSE price >= o.price

\* price_order: the levels an order of this side meets, the best one first
PriceOrder(side, prices) == IF side = "buy" THEN SetToSortSeq(prices, <) ELSE SetToSortSeq(prices, >)

\* The resting orders an order may be matched with, in the order of matching.
Makers(o) ==
  LET levels == book[Opposite(o.side)]
      prices == PriceOrder(o.side, {p \in DOMAIN levels : PriceCheck(o, p)})
  IN FlattenSeq([i \in DOMAIN prices |-> levels[prices[i]].queue])

\* fill_qty
FillQuantity(left, maker) == Min({left, Remaining(maker)})

\* The loop of _match_order(): the quantity left and the fills made.
Matched(o) ==
  LET MatchNext(acc, maker) ==
        LET quantity == FillQuantity(acc.left, maker) IN
        IF quantity = 0 THEN acc
        ELSE [left  |-> acc.left - quantity,
              fills |-> Append(acc.fills, [maker |-> maker, taker |-> Len(orders) + 1,
                                           price |-> orders[maker].price, quantity |-> quantity])]
  IN FoldLeft(MatchNext, [left |-> o.quantity, fills |-> << >>], Makers(o))

Volume(fs) == SumFunction([i \in DOMAIN fs |-> fs[i].quantity])
FilledBy(fs, maker) == Volume(SelectSeq(fs, LAMBDA f : f.maker = maker))

\* What the fills leave of the makers, and of their levels; empty levels are deleted.
MakerAfter(id, fs) ==
  LET o == orders[id]  quantity == FilledBy(fs, id) IN
  IF quantity = 0 THEN o
  ELSE [o EXCEPT !.filled = @ + quantity,
                 !.status = IF o.filled + quantity = o.quantity THEN "filled" ELSE "partially_filled"]

LevelsAfter(levels, fs) ==
  LET Rests(id) == FilledBy(fs, id) < Remaining(id)
      after == [p \in DOMAIN levels |->
                  [queue |-> SelectSeq(levels[p].queue, Rests),
                   total |-> levels[p].total - Volume(SelectSeq(fs, LAMBDA f : f.price = p))]]
  IN RestrictValues(after, LAMBDA level : level.queue # << >>)

\* add_order(), into a new level if need be
AddToBook(levels, price, id, quantity) ==
  LET level == IF price \in DOMAIN levels THEN levels[price] ELSE [queue |-> << >>, total |-> 0]
  IN [p \in DOMAIN levels \cup {price} |->
        IF p # price THEN levels[p]
        ELSE [queue |-> Append(level.queue, id), total |-> level.total + quantity]]

\* The status submit_order() leaves, from what was matched and the order type.
StatusAfter(o, filled) ==
  CASE filled = o.quantity -> "filled"
    [] filled < o.quantity /\ o.type = "limit" -> IF filled > 0 THEN "partially_filled" ELSE "open"
    [] filled < o.quantity /\ o.type \in {"market", "ioc"} -> IF filled > 0 THEN "filled" ELSE "cancelled"
    [] filled < o.quantity /\ o.type = "fok" -> IF filled > 0 THEN "cancelled" ELSE "open"

NewOrder(side, price, quantity, type) ==
  [side |-> side, price |-> price, quantity |-> quantity, type |-> type, filled |-> 0,
   status |-> "rejected"]

\* submit_order() of an order that is not valid
Reject(o) ==
  /\ ~ValidateOrder(o)
  /\ orders' = Append(orders, o)
  /\ UNCHANGED <<book, lookup, fills, stats>>

\* submit_order()
SubmitOrder(o) ==
  LET match  == Matched(o)
      filled == o.quantity - match.left
      id     == Len(orders) + 1
      rests  == match.left > 0 /\ o.type = "limit"
      opposite == LevelsAfter(book[Opposite(o.side)], match.fills)
      own    == IF rests THEN AddToBook(book[o.side], o.price, id, match.left) ELSE book[o.side]
      done   == {i \in DOMAIN orders : FilledBy(match.fills, i) = Remaining(i) /\ Remaining(i) > 0}
  IN
  /\ ValidateOrder(o)
  /\ orders' = Append([i \in DOMAIN orders |-> MakerAfter(i, match.fills)],
                      [o EXCEPT !.filled = filled, !.status = StatusAfter(o, filled)])
  /\ book' = [s \in Sides |-> IF s = o.side THEN own ELSE opposite]
  /\ lookup' = IF rests THEN lookup \cup {id} ELSE lookup
  /\ fills' = fills \o match.fills
  /\ stats' = [stats EXCEPT !.received = @ + 1, !.volume = @ + filled,
                 !.fills = @ + Len(match.fills),
                 !.filled = @ + Cardinality(done) + (IF match.left = 0 THEN 1 ELSE 0)]

RemoveOrder_WholeQuantity(level, id) ==
  [queue |-> RemoveFirst(level.queue, id), total |-> level.total - orders[id].quantity]

\* remove_order()
RemoveOrder(level, id) ==
  [queue |-> RemoveFirst(level.queue, id), total |-> level.total - Remaining(id)]

\* cancel_order() of an order it finds and that is not complete
CancelOrder(id) ==
  LET o == orders[id]
      levels == [book[o.side] EXCEPT ![o.price] = RemoveOrder(@, id)]
  IN
  /\ id \in lookup
  /\ o.status \notin {"filled", "cancelled", "rejected"}
  /\ book' = [book EXCEPT ![o.side] = RestrictValues(levels, LAMBDA level : level.queue # << >>)]
  /\ lookup' = lookup \ {id}
  /\ orders' = [orders EXCEPT ![id].status = "cancelled"]
  /\ stats' = [stats EXCEPT !.cancelled = @ + 1]
  /\ UNCHANGED fills

Next ==
  \/ /\ Len(orders) < MaxOrders
     /\ \E s \in Sides, p \in Prices, q \in Quantities, t \in OrderTypes :
          LET o == NewOrder(s, p, q, t) IN SubmitOrder(o) \/ Reject(o)
  \/ \E id \in DOMAIN orders : CancelOrder(id)

Spec == Init /\ [][Next]_vars

-----------------------------------------------------------------------------
\* simulate_fill(): per level, from its total
SimulateFill(side, price, quantity) ==
  LET o == NewOrder(side, price, quantity, "limit")
      levels == book[Opposite(side)]
      prices == PriceOrder(side, {p \in DOMAIN levels : PriceCheck(o, p)})
      TakeLevel(acc, p) ==
        LET part == Min({acc.left, levels[p].total}) IN
        IF part = 0 THEN acc
        ELSE [left |-> acc.left - part, parts |-> Append(acc.parts, <<p, part>>)]
  IN FoldLeft(TakeLevel, [left |-> quantity, parts |-> << >>], prices)

-----------------------------------------------------------------------------
(* Properties                                                              *)

Resting(id) == \E s \in Sides : \E p \in DOMAIN book[s] : Contains(book[s][p].queue, id)

\* "Continuous matching" (LocalMatchingEngine): after every call the best bid is below the
\* best ask; nothing that could trade is left resting.
NotCrossed == \A b \in DOMAIN book["buy"], a \in DOMAIN book["sell"] : b < a

\* The depth a level shows is what its orders have left, after partial fills and
\* cancellations of any of them (total_quantity, which get_order_book() and simulate_fill()
\* rely on).
DepthIsReal ==
  \A s \in Sides : \A p \in DOMAIN book[s] :
    LET level == book[s][p] IN
    /\ level.queue # << >>
    /\ level.total = SumFunction([i \in DOMAIN level.queue |-> Remaining(level.queue[i])])
    /\ \A i \in DOMAIN level.queue : Remaining(level.queue[i]) > 0

\* An order is never filled beyond its quantity, as maker and as taker together; the
\* history of fills and the statistics account for all of it.
NeverOverfilled ==
  \A id \in DOMAIN orders :
    /\ orders[id].filled = Volume(SelectSeq(fills, LAMBDA f : id \in {f.maker, f.taker}))
    /\ orders[id].filled <= orders[id].quantity
    /\ stats.volume = Volume(fills) /\ stats.fills = Len(fills)
    /\ stats.filled = Cardinality({i \in DOMAIN orders : Remaining(i) = 0})

\* a goes before b: a better price, or the same and an earlier order.
Before(a, b) ==
  LET better == IF orders[a].side = "buy" THEN orders[a].price > orders[b].price
                ELSE orders[a].price < orders[b].price
  IN better \/ (orders[a].price = orders[b].price /\ a < b)

\* "Price-time priority (best price first, then FIFO)" (LocalMatchingEngine): whoever trades,
\* no resting order that goes before it is left with anything.
Priority ==
  \A a, b \in DOMAIN orders :
    /\ Resting(a) /\ Resting(b) /\ orders[a].side = orders[b].side /\ Before(a, b)
    /\ orders'[b].filled > orders[b].filled
    => orders'[a].filled = orders'[a].quantity

\* "Simulate what would happen if order was submitted" (simulate_fill()): the fills of a
\* limit order, taken together per price, are the ones predicted just before.
Predicted(id) == SimulateFill(orders'[id].side, orders'[id].price, orders'[id].quantity)
FillsAre(id, predicted) ==
  LET new == SubSeq(fills', Len(fills) + 1, Len(fills')) IN
  /\ Range(predicted.parts) = {<<p, Volume(SelectSeq(new, LAMBDA f : f.price = p))>> :
                                 p \in {f.price : f \in Range(new)}}
  /\ predicted.left = orders'[id].quantity - orders'[id].filled

SimulationAgrees ==
  \A id \in DOMAIN orders' \ DOMAIN orders :
    orders'[id].type = "limit" /\ orders'[id].status # "rejected" => FillsAre(id, Predicted(id))

=============================================================================
