----------------------------- MODULE AutoHedger -----------------------------
(***************************************************************************)
(* The simulated perpetual hedges of src/src/auto_hedger.py: opened        *)
(* against a Polymarket order, closed one by one or all together, with     *)
(* fees on both legs.                                                      *)
(*                                                                         *)
(* Money is counted in units of which a dollar has Dollar, and the fee of  *)
(* a dollar of notional is one unit.  Notionals are multiples of prices,   *)
(* so that quantities are whole.                                           *)
(***************************************************************************)
EXTENDS Integers, FiniteSetsExt, Functions

CONSTANTS Symbols, Prices,       \* prices are positive
          Notionals,
          MaxNotional,           \* max_position_usd
          Dollar,
          MaxHedges              \* bound

VARIABLES hedges,                \* _positions and _closed_positions, by _hedge_counter
          counter,               \* _hedge_counter
          metrics,               \* HedgeMetrics: hedges, closed, pnl, fees
          exposure,              \* history: signed notional of the order each hedge is for
          promised               \* history: get_unrealized_pnl() before the last
                                 \* close_all_hedges(), and what that realised before fees

vars == <<hedges, counter, metrics, exposure, promised>>

Ids == 1..counter
Open == {h \in Ids : hedges[h].status = "open"}

TypeOK ==
  /\ counter \in 0..MaxHedges /\ DOMAIN hedges = Ids /\ DOMAIN exposure = Ids
  /\ \A h \in Ids : /\ hedges[h].symbol \in Symbols /\ hedges[h].status \in {"open", "closed"}
                     /\ hedges[h].quantity \in 0..MaxNotional

Init ==
  /\ hedges = << >> /\ counter = 0 /\ exposure = << >>
  /\ metrics = [hedges |-> 0, closed |-> 0, pnl |-> 0, fees |-> 0]
  /\ promised = <<0, 0>>

-----------------------------------------------------------------------------
Capped(notional) == Min({notional, MaxNotional})

\* create_hedge(): short against an "up" order.  Without a price nothing is hedged, and the
\* fee is charged all the same.
CreateHedge(symbol, up, notional, price) ==
  /\ counter < MaxHedges
  /\ counter' = counter + 1
  /\ hedges' = [h \in 1..(counter + 1) |->
       IF h <= counter THEN hedges[h]
       ELSE [symbol |-> symbol, status |-> "open", sign |-> IF up THEN -1 ELSE 1,
             entry |-> price, exit |-> 0, pnl |-> 0, fees |-> Capped(notional),
             quantity |-> IF price > 0 THEN Capped(notional) \div price ELSE 0]]
  /\ exposure' = [h \in 1..(counter + 1) |->
       IF h <= counter THEN exposure[h] ELSE IF up THEN Capped(notional) ELSE -Capped(notional)]
  /\ metrics' = [metrics EXCEPT !.hedges = @ + 1]
  /\ UNCHANGED promised

RawPnl(h, price) == h.sign * (price - h.entry) * h.quantity * Dollar

Settled_ExitFeeOnly(h, price) ==
  [h EXCEPT !.status = "closed", !.exit = price, !.fees = @ + price * h.quantity,
            !.pnl = RawPnl(h, price) - price * h.quantity]

\* close_hedge(): the exit fee is on the exit notional; both fees are taken from the profit.
Settled(h, price) ==
  LET fees == h.fees + price * h.quantity IN
  [h EXCEPT !.status = "closed", !.exit = price, !.fees = fees, !.pnl = RawPnl(h, price) - fees]

\* A symbol without a price counts at entry.
Price(h, price) == IF price[hedges[h].symbol] = 0 THEN hedges[h].entry ELSE price[hedges[h].symbol]

\* The hedges hs are closed; an id that is not open changes nothing.
Close(hs, price) ==
  /\ hedges' = [h \in Ids |-> IF h \in hs THEN Settled(hedges[h], Price(h, price)) ELSE hedges[h]]
  /\ metrics' = [metrics EXCEPT
       !.closed = @ + Cardinality(hs),
       !.pnl = @ + SumFunctionOnSet([h \in hs |-> hedges'[h].pnl], hs),
       !.fees = @ + SumFunctionOnSet([h \in hs |-> hedges'[h].fees], hs)]
  /\ UNCHANGED <<counter, exposure>>

CloseHedge(h, price) == Close({h} \cap Open, [s \in Symbols |-> price]) /\ UNCHANGED promised

\* get_unrealized_pnl() and get_net_delta()
UnrealizedPnl(price) ==
  SumFunctionOnSet([h \in Open |-> RawPnl(hedges[h], Price(h, price))], Open)
NetDelta(price, hs) ==
  SumFunctionOnSet([h \in hs |-> hedges[h].sign * hedges[h].quantity * Price(h, price)], hs)

\* close_all_hedges()
CloseAllHedges(price) ==
  /\ Open # {}
  /\ Close(Open, price)
  /\ promised' = <<UnrealizedPnl(price), metrics'.pnl - metrics.pnl + metrics'.fees - metrics.fees>>

Next ==
  \/ \E s \in Symbols, up \in BOOLEAN, n \in Notionals, p \in Prices \cup {0} :
       CreateHedge(s, up, n, p)
  \/ \E h \in Open, p \in Prices : CloseHedge(h, p)
  \/ \E price \in [Symbols -> Prices \cup {0}] : CloseAllHedges(price)

Spec == Init /\ [][Next]_vars

-----------------------------------------------------------------------------
(* Properties                                                              *)

\* The metrics are those of the hedges closed: what the prices moved in our favour is the
\* profit plus the fees, and fees were paid on both notionals (close_hedge()).
MetricsExplained ==
  LET closed == Ids \ Open
      Moved(h) == hedges[h].sign * (hedges[h].exit - hedges[h].entry) * hedges[h].quantity * Dollar IN
  /\ metrics.hedges = counter /\ metrics.closed = Cardinality(closed)
  /\ metrics.pnl + metrics.fees = SumFunctionOnSet([h \in closed |-> Moved(h)], closed)

\* Closing everything realises, before fees, what get_unrealized_pnl() said at those prices,
\* and an open hedge offsets its order at the price it was opened at (get_net_delta()).
HedgesOffset ==
  /\ promised[1] = promised[2]
  /\ LET priced == {h \in Open : hedges[h].entry > 0} IN
     NetDelta([s \in Symbols |-> 0], priced) = -SumFunctionOnSet(exposure, priced)
=============================================================================
