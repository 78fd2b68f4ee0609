----------------------------- MODULE GridPricer -----------------------------
(***************************************************************************)
(* The grid pricer and its manager (src/src/grid_pricer.py): quotes on     *)
(* both tokens of each active market, one tick below the best bid, with    *)
(* the capital split over the markets and, by order flow, over the sides.  *)
(*                                                                         *)
(* Prices are ticks of one cent, money is cents, the order flow bias is    *)
(* percent.  Best bids are read one by one with awaits in between, while   *)
(* markets come and go and prices move.  _active_markets is the list of    *)
(* entries a CPython dictionary is: a removed entry leaves a hole, a new   *)
(* one goes to the end, and an iterator notices only a changed size.       *)
(***************************************************************************)
EXTENDS Integers, Sequences, FiniteSets, FiniteSetsExt, SequencesExt

CONSTANTS Markets, Hole,         \* market ids; what a removed entry leaves
          Bids, Biases,          \* best bids in ticks; sizes of the order flow in percent
          BaseAllocation,        \* base_allocation
          MaxPerSide,            \* max_position_per_side
          Capital,               \* available_capital of a refresh
          MaxMarkets,            \* MAX_CONCURRENT_MARKETS
          MaxRefreshes, MaxChanges   \* bounds

VARIABLES entries,               \* _active_markets
          bids,                  \* best bids of the market, per market and token
          flow,                  \* of the OFI engine: bias and spike
          quotes,                \* _current_state: the quotes of the last grid, by market
          pc, index, size,       \* refresh_all_grids(): its iterator
          share, read,           \* per_market_capital; market in hand and its best_bid_yes
          results,               \* markets refreshed in this call
          refreshes, changes,
          churned,               \* history: markets came or went since the call began
          tried                  \* history: markets visited by the call

vars == <<entries, bids, flow, quotes, pc, index, size, share, read, results, refreshes, changes,
          churned, tried>>

Active == Range(entries) \ {Hole}
NoQuote == [price |-> 0, size |-> 0]

TypeOK ==
  /\ Cardinality(Active) <= MaxMarkets
  /\ DOMAIN quotes \subseteq Markets
  /\ results \subseteq DOMAIN quotes
  /\ pc \in {"idle", "next", "yes", "no"}

Init ==
  /\ entries = << >>
  /\ bids = [m \in Markets |-> [yes |-> 50, no |-> 50]]
  /\ flow = [bias |-> 0, spike |-> FALSE]
  /\ quotes = << >>
  /\ pc = "idle" /\ index = 0 /\ size = 0 /\ share = 0 /\ read = [market |-> Hole, yes |-> 0]
  /\ results = {}
  /\ refreshes = 0 /\ changes = 0 /\ churned = FALSE /\ tried = {}

-----------------------------------------------------------------------------
(* GabagoolGridPricer                                                      *)

\* calculate_grid(): the mode
Mode == IF flow.spike /\ (flow.bias > 79 \/ flow.bias < -79) THEN "DIRECTIONAL"
        ELSE IF flow.bias > 20 \/ flow.bias < -20 THEN "TILTED" ELSE "SYMMETRIC"

\* The share of the YES side in thousandths, by _allocate_sizes()
YesPart == CASE Mode = "SYMMETRIC"   -> 500
             [] Mode = "TILTED"      -> Max({200, Min({800, 500 + (flow.bias * 3) \div 2})})
             [] Mode = "DIRECTIONAL" -> IF flow.bias > 0 THEN 900 ELSE 100

\* `available_capital or self.base_allocation`: no capital counts as none given.
CapitalOf(available) == IF available = 0 THEN BaseAllocation ELSE available

\* max_per_side of _allocate_sizes(), which is what both sides share
MaxShare_Whole(available) == Min({CapitalOf(available), MaxPerSide})
MaxShare(available) == Min({CapitalOf(available) \div 2, MaxPerSide})

\* A quote of a part of it, to the cent; below fifty cents there is none.
Quote(bid, available, part) ==
  LET cents == (MaxShare(available) * part + 500) \div 1000 IN
  IF MaxShare(available) * part >= 50 * 1000 THEN [price |-> Max({1, bid - 1}), size |-> cents]
  ELSE NoQuote

Grid(yes, no, available) ==
  [yes |-> Quote(yes, available, YesPart), no |-> Quote(no, available, 1000 - YesPart)]

Exposure(m) == quotes[m].yes.size + quotes[m].no.size

-----------------------------------------------------------------------------
(* GridManager                                                             *)

\* add_market(); the id of an active market only gets new token ids.
AddMarket(m) ==
  /\ changes < MaxChanges
  /\ changes' = changes + 1
  /\ Cardinality(Active) < MaxMarkets /\ m \notin Active
  /\ entries' = Append(entries, m)
  /\ churned' = TRUE
  /\ UNCHANGED <<bids, flow, quotes, pc, index, size, share, read, results, refreshes, tried>>

\* remove_market(): the pricer keeps its quotes.
RemoveMarket(m) ==
  /\ changes < MaxChanges
  /\ changes' = changes + 1
  /\ m \in Active
  /\ entries' = [i \in DOMAIN entries |-> IF entries[i] = m THEN Hole ELSE entries[i]]
  /\ churned' = TRUE
  /\ UNCHANGED <<bids, flow, quotes, pc, index, size, share, read, results, refreshes, tried>>

\* refresh_all_grids() splits the capital over the markets of this moment.
Refresh ==
  /\ pc = "idle" /\ refreshes < MaxRefreshes
  /\ refreshes' = refreshes + 1
  /\ share' = Capital \div Max({1, Cardinality(Active)})
  /\ size' = Cardinality(Active) /\ index' = 0 /\ results' = {}
  /\ churned' = FALSE /\ tried' = {}
  /\ pc' = "next"
  /\ UNCHANGED <<entries, bids, flow, quotes, read, changes>>

\* The iterator raises on a changed size, which ends the call, and skips holes.
NextMarket ==
  /\ pc = "next"
  /\ LET ahead == {i \in DOMAIN entries : i > index /\ entries[i] # Hole} IN
       \/ /\ size = Cardinality(Active) /\ ahead # {}
          /\ index' = Min(ahead) /\ pc' = "yes"
          /\ read' = [market |-> entries[index'], yes |-> 0]
          /\ tried' = tried \cup {entries[index']}
       \/ /\ size # Cardinality(Active) \/ ahead = {}
          /\ pc' = "idle" /\ UNCHANGED <<index, read, tried>>
  /\ UNCHANGED <<entries, bids, flow, quotes, size, share, results, refreshes, changes, churned>>

\* The first await returns the bid of YES.
ReadYes ==
  /\ pc = "yes"
  /\ read' = [read EXCEPT !.yes = bids[read.market].yes]
  /\ pc' = "no"
  /\ UNCHANGED <<entries, bids, flow, quotes, index, size, share, results, refreshes, changes,
                 churned, tried>>

\* The second await returns the bid of NO; the grid is made of both and the flow of now.
ReadNo ==
  /\ pc = "no"
  /\ quotes' = [m \in DOMAIN quotes \cup {read.market} |->
                  IF m = read.market THEN Grid(read.yes, bids[m].no, share) ELSE quotes[m]]
  /\ results' = results \cup {read.market}
  /\ pc' = "next"
  /\ UNCHANGED <<entries, bids, flow, index, size, share, read, refreshes, changes, churned, tried>>

\* A best bid that cannot be read raises; the loop goes on with the next market.
ReadFails ==
  /\ pc \in {"yes", "no"}
  /\ pc' = "next"
  /\ UNCHANGED <<entries, bids, flow, quotes, index, size, share, read, results, refreshes,
                 changes, churned, tried>>

\* The market and the OFI engine move on.
MarketMoves(m, token, bid) ==
  /\ changes < MaxChanges
  /\ changes' = changes + 1
  /\ bids' = [bids EXCEPT ![m][token] = bid]
  /\ UNCHANGED <<entries, flow, quotes, pc, index, size, share, read, results, refreshes, churned, tried>>

FlowMoves(bias, spike) ==
  /\ changes < MaxChanges
  /\ changes' = changes + 1
  /\ flow' = [bias |-> bias, spike |-> spike]
  /\ UNCHANGED <<entries, bids, quotes, pc, index, size, share, read, results, refreshes, churned, tried>>

Next ==
  \/ Refresh \/ NextMarket \/ ReadYes \/ ReadNo \/ ReadFails
  \/ \E m \in Markets : AddMarket(m) \/ RemoveMarket(m)
  \/ \E m \in Markets, token \in {"yes", "no"}, bid \in Bids : MarketMoves(m, token, bid)
  \/ \E bias \in Biases \cup {-b : b \in Biases}, spike \in BOOLEAN : FlowMoves(bias, spike)

Spec == Init /\ [][Next]_vars

-----------------------------------------------------------------------------
(* Properties                                                              *)

\* The quotes of one refresh together stake at most half the capital, to the cent, and no
\* side more than its limit, whatever moves between the two reads of a market; a market that
\* comes or goes meanwhile ends this, for the split was made before (refresh_all_grids()).
WithinCapital ==
  /\ ~churned =>
       2 * SumFunctionOnSet([m \in results |-> Exposure(m)], results)
         <= Capital + 2 * Cardinality(results)
  /\ \A m \in DOMAIN quotes : quotes[m].yes.size <= MaxPerSide /\ quotes[m].no.size <= MaxPerSide

\* A refresh nobody disturbs visits every active market, over the holes earlier removals left
\* (refresh_all_grids()).
VisitsAll == pc = "idle" /\ refreshes > 0 /\ ~churned => tried = Active

=============================================================================
