----------------------------- MODULE MCTrading ------------------------------
(***************************************************************************)
(* One instance for TLC of the parts that price, size and account for      *)
(* trades: the portfolio engine with its loss limiter, the message         *)
(* pipeline of the sniper, the arbitrage engine, the adverse selection     *)
(* tracker, the queue position simulator, the drawdown breaker, the flash  *)
(* crash detector, the grid pricer, the hedging simulator, the token       *)
(* merger and the reinforcement learning environment.                      *)
(*                                                                         *)
(* None of them calls another or shares its state, so what can be reached  *)
(* in one does not depend on when the others move.  `moves` names the part *)
(* whose steps a behaviour is about: the run explores the sum of their     *)
(* state spaces instead of the product.  The constants are in the          *)
(* configuration.                                                          *)
(***************************************************************************)
EXTENDS Portfolio, Sequences, TLC

CONSTANTS
  FeedTokens, FeedPrices, FeedMaxQueue, FeedListeners, FeedMaxMessages,
  FeedMaxLosses,  \* SniperFeed
  ArbMarkets, ArbOraclePrices, ArbAsks, ArbMaxEntry, ArbThreshold, ArbMinConfidence,
  ArbStaleness, ArbMaxTime, ArbMaxMoves,  \* Arbitrage
  MaxFills, FillPrices, FillPremium, FillOneMinute, FillFiveMinutes,
  FillToxicBps, FillMaxPending, FillMaxTime, FillMaxMoves,  \* AdverseSelection
  SimPrices, SimMinTick, SimMaxTick, SimQuantities, SimLatencies,
  SimMaxOrders, SimMaxTrades,  \* QueuePosition
  RiskEquities, RiskInitialCapital, RiskThresholdEquity,
  RiskThresholdPct, RiskMaxSnapshots, RiskMaxTime, RiskMaxResets,  \* RiskBreaker
  CrashPrices, CrashDropPct, CrashWindow, CrashCooldown, CrashLatencies,
  CrashMaxHistory, CrashMaxTime, CrashMaxTicks,  \* FlashCrash
  GridMarkets, GridHole, GridBids, GridBiases, GridBaseAllocation,
  GridMaxPerSide, GridCapital, GridMaxMarkets, GridMaxRefreshes,
  GridMaxChanges,  \* GridPricer
  HedgeSymbols, HedgePrices, HedgeNotionals, HedgeMaxNotional,
  HedgeDollar, MaxHedges,  \* AutoHedger
  MergeConditions, MergeBuys, MergeSells, MergeStartingUsdc,
  MergeMaxUpdates,  \* TokenMerger
  EnvMids, EnvInitialSpread, EnvMinSpread, EnvMaxSpread, EnvInitialSize,
  EnvInitialCash, EnvMaxPosition, EnvMaxSteps, EnvMaxSizes,
  EnvMaxEpisodes  \* MarketEnv

\* SniperFeed: prices are positive, and the queue holds a message.
ASSUME FeedConstants ==
  /\ FeedPrices \subseteq Nat \ {0} /\ IsFiniteSet(FeedPrices)
  /\ FeedMaxQueue \in Nat \ {0} /\ FeedListeners \in Nat

\* Arbitrage: asks are whole cents.
ASSUME ArbConstants ==
  /\ ArbMarkets \in Seq([bias : {"UP", "DOWN", "none"}, supported : BOOLEAN, expiry : Int])
  /\ ArbOraclePrices \subseteq Nat \ {0} /\ ArbAsks \subseteq Nat \ {0}
  /\ {ArbMaxEntry, ArbThreshold, ArbMinConfidence, ArbStaleness, ArbMaxTime, ArbMaxMoves}
       \subseteq Nat

\* AdverseSelection: prices are positive.
ASSUME FillConstants ==
  /\ FillPrices \subseteq Nat \ {0} /\ FillPremium \in Int
  /\ {MaxFills, FillOneMinute, FillFiveMinutes, FillToxicBps, FillMaxPending, FillMaxTime,
      FillMaxMoves} \subseteq Nat

\* QueuePosition: orders are for whole shares.
ASSUME SimConstants ==
  /\ SimPrices \subseteq Int /\ SimMinTick \in Nat /\ SimMaxTick \in Nat /\ SimMinTick <= SimMaxTick
  /\ SimQuantities \subseteq Nat \ {0} /\ SimLatencies \subseteq Nat
  /\ SimMaxOrders \in Nat /\ SimMaxTrades \in Nat

\* RiskBreaker: equity is positive.
ASSUME RiskConstants ==
  /\ RiskEquities \subseteq Nat \ {0} /\ RiskInitialCapital \in Nat \ {0}
  /\ {RiskThresholdEquity, RiskThresholdPct, RiskMaxSnapshots, RiskMaxTime, RiskMaxResets}
       \subseteq Nat

\* FlashCrash: prices, the cooldown and the threshold (in whole percent) are positive.
ASSUME CrashConstants ==
  /\ CrashPrices \subseteq Nat \ {0} /\ CrashLatencies \subseteq Nat
  /\ {CrashDropPct, CrashWindow, CrashMaxHistory, CrashMaxTime, CrashMaxTicks} \subseteq Nat
  /\ CrashDropPct > 0 /\ CrashMaxHistory > 0 /\ CrashCooldown \in Nat \ {0}

\* GridPricer: there is a cent of capital for each market (less would count as none given).
ASSUME GridConstants ==
  /\ GridHole \notin GridMarkets /\ IsFiniteSet(GridMarkets)
  /\ GridBiases \subseteq Int /\ {GridBaseAllocation, GridMaxPerSide} \subseteq Nat
  /\ GridMaxMarkets \in Nat /\ GridCapital \in Nat \ {0} /\ GridMaxMarkets <= GridCapital
  /\ GridMaxRefreshes \in Nat

\* AutoHedger: what is hedged is a whole number of units at every price.
ASSUME HedgeConstants ==
  /\ HedgePrices \subseteq Nat \ {0} /\ HedgeNotionals \subseteq Nat
  /\ HedgeMaxNotional \in Nat /\ HedgeDollar \in Int /\ MaxHedges \in Nat
  /\ \A n \in HedgeNotionals \cup {HedgeMaxNotional}, p \in HedgePrices : (n \div p) * p = n

\* TokenMerger: whole shares.
ASSUME MergeConstants ==
  MergeBuys \subseteq Nat /\ MergeSells \subseteq Nat /\ MergeStartingUsdc \in Int

\* MarketEnv: prices and spreads are positive, and an episode starts inside its limits.
ASSUME EnvConstants ==
  /\ EnvMids \subseteq Nat \ {0}
  /\ EnvMinSpread \in Nat \ {0} /\ EnvMaxSpread \in Nat
  /\ EnvInitialSpread \in EnvMinSpread..EnvMaxSpread
  /\ EnvInitialSize \in Nat /\ EnvInitialCash \in Nat /\ EnvMaxPosition \in Nat
  /\ EnvMaxSteps \in Nat \ {0} /\ EnvMaxEpisodes \in Nat \ {0} /\ EnvMaxSizes \in Nat

VARIABLES
  moves,
  feed_queue, books, worker, stats, sent, latest, missing, feed_losses,
  arb_now, oracle, asks, arb_moves_left, arb_pc, running, todo, found, arb_queue, told,
  fills_now, price, fills_moves_left, record, fills_pending, completed, fills_pc, round, start,
  held, finishing, warned, fills_evicted,
  orders, levels, filled_total, trades, traded,
  snapshots, peak, drawdown_start, triggered, breaker_peak, risk_now, resets, risk_evicted,
  high, shown, calls,
  crash_now, history, last_crash, in_crash, events, crashes, pulling, average, ticks,
  latency_sum, pulls, overlapped,
  entries, bids, flow, quotes, grid_pc, index, grid_size, share, read, results, refreshes,
  changes, churned, tried,
  hedges, counter, metrics, exposure, promised,
  known, yes, no, merger_pending, merged, usdc, nonce, requests, updates, bought,
  mid, position, cash, unrealized, spread, env_size, bid, ask, steps, episodes, sizes,
  total_reward, done, filled

\* Instance: a market without a directional question and one that asks whether the price falls.
MCMarkets == <<[bias |-> "none", supported |-> TRUE, expiry |-> 2],
               [bias |-> "DOWN", supported |-> TRUE, expiry |-> 3]>>

Feed == INSTANCE SniperFeed WITH
  Tokens <- FeedTokens, Prices <- FeedPrices, MaxQueue <- FeedMaxQueue,
  Listeners <- FeedListeners, MaxMessages <- FeedMaxMessages, MaxLosses <- FeedMaxLosses,
  queue <- feed_queue, losses <- feed_losses

Arb == INSTANCE Arbitrage WITH
  Markets <- ArbMarkets, OraclePrices <- ArbOraclePrices, Asks <- ArbAsks,
  MaxEntry <- ArbMaxEntry, Threshold <- ArbThreshold, MinConfidence <- ArbMinConfidence,
  Staleness <- ArbStaleness, MaxTime <- ArbMaxTime, MaxMoves <- ArbMaxMoves, now <- arb_now,
  moves_left <- arb_moves_left, pc <- arb_pc, queue <- arb_queue

Fills == INSTANCE AdverseSelection WITH
  MaxFills <- MaxFills, Prices <- FillPrices, Premium <- FillPremium,
  OneMinute <- FillOneMinute, FiveMinutes <- FillFiveMinutes, ToxicBps <- FillToxicBps,
  MaxPending <- FillMaxPending, MaxTime <- FillMaxTime, MaxMoves <- FillMaxMoves,
  now <- fills_now, moves_left <- fills_moves_left, pending <- fills_pending, pc <- fills_pc,
  evicted <- fills_evicted

Queue == INSTANCE QueuePosition WITH
  Prices <- SimPrices, MinTick <- SimMinTick, MaxTick <- SimMaxTick,
  Quantities <- SimQuantities, Latencies <- SimLatencies, MaxOrders <- SimMaxOrders,
  MaxTrades <- SimMaxTrades

Risk == INSTANCE RiskBreaker WITH
  Equities <- RiskEquities, InitialCapital <- RiskInitialCapital,
  ThresholdEquity <- RiskThresholdEquity, ThresholdPct <- RiskThresholdPct,
  MaxSnapshots <- RiskMaxSnapshots, MaxTime <- RiskMaxTime, MaxResets <- RiskMaxResets,
  now <- risk_now, evicted <- risk_evicted

Crash == INSTANCE FlashCrash WITH
  Prices <- CrashPrices, DropPct <- CrashDropPct, Window <- CrashWindow,
  Cooldown <- CrashCooldown, Latencies <- CrashLatencies, MaxHistory <- CrashMaxHistory,
  MaxTime <- CrashMaxTime, MaxTicks <- CrashMaxTicks, now <- crash_now

Grid == INSTANCE GridPricer WITH
  Markets <- GridMarkets, Hole <- GridHole, Bids <- GridBids, Biases <- GridBiases,
  BaseAllocation <- GridBaseAllocation, MaxPerSide <- GridMaxPerSide, Capital <- GridCapital,
  MaxMarkets <- GridMaxMarkets, MaxRefreshes <- GridMaxRefreshes, MaxChanges <- GridMaxChanges,
  pc <- grid_pc, size <- grid_size

Hedger == INSTANCE AutoHedger WITH
  Symbols <- HedgeSymbols, Prices <- HedgePrices, Notionals <- HedgeNotionals,
  MaxNotional <- HedgeMaxNotional, Dollar <- HedgeDollar, MaxHedges <- MaxHedges

Merger == INSTANCE TokenMerger WITH
  Conditions <- MergeConditions, Buys <- MergeBuys, Sells <- MergeSells,
  StartingUsdc <- MergeStartingUsdc, MaxUpdates <- MergeMaxUpdates, pending <- merger_pending

Env == INSTANCE MarketEnv WITH
  Mids <- EnvMids, InitialSpread <- EnvInitialSpread, MinSpread <- EnvMinSpread,
  MaxSpread <- EnvMaxSpread, InitialSize <- EnvInitialSize, InitialCash <- EnvInitialCash,
  MaxPosition <- EnvMaxPosition, MaxSteps <- EnvMaxSteps, MaxSizes <- EnvMaxSizes,
  MaxEpisodes <- EnvMaxEpisodes, size <- env_size

portfolio_vars == vars
feed_vars == <<feed_queue, books, worker, stats, sent, latest, missing, feed_losses>>
arb_vars == <<arb_now, oracle, asks, arb_moves_left, arb_pc, running, todo, found, arb_queue,
              told>>
fills_vars == <<fills_now, price, fills_moves_left, record, fills_pending, completed, fills_pc,
                round, start, held, finishing, warned, fills_evicted>>
queue_vars == <<orders, levels, filled_total, trades, traded>>
risk_vars == <<snapshots, peak, drawdown_start, triggered, breaker_peak, risk_now, resets,
               risk_evicted, high, shown, calls>>
crash_vars == <<crash_now, history, last_crash, in_crash, events, crashes, pulling, average,
                ticks, latency_sum, pulls, overlapped>>
grid_vars == <<entries, bids, flow, quotes, grid_pc, index, grid_size, share, read, results,
               refreshes, changes, churned, tried>>
hedger_vars == <<hedges, counter, metrics, exposure, promised>>
merger_vars == <<known, yes, no, merger_pending, merged, usdc, nonce, requests, updates, bought>>
env_vars == <<mid, position, cash, unrealized, spread, env_size, bid, ask, steps, episodes,
              sizes, total_reward, done, filled>>
all_vars == <<moves, portfolio_vars, feed_vars, arb_vars, fills_vars, queue_vars, risk_vars,
             crash_vars, grid_vars, hedger_vars, merger_vars, env_vars>>

MCInit ==
  /\ moves \in {"portfolio", "feed", "arb", "fills", "queue", "risk", "crash", "grid", "hedger",
             "merger", "env"}
  /\ Init
  /\ Feed!Init /\ Arb!Init /\ Fills!Init /\ Queue!Init /\ Risk!Init /\ Crash!Init /\ Grid!Init
  /\ Hedger!Init /\ Merger!Init /\ Env!Init
  /\ moves # "portfolio" => state.mode = "DRY_RUN"
  /\ moves # "fills" => price = 1000
  /\ moves # "env" => mid = 1000

PortfolioMoves ==
  /\ moves = "portfolio" /\ Next
  /\ UNCHANGED <<moves, feed_vars, arb_vars, fills_vars, queue_vars, risk_vars, crash_vars,
                 grid_vars, hedger_vars, merger_vars, env_vars>>

SniperFeedMoves ==
  /\ moves = "feed" /\ Feed!Next
  /\ UNCHANGED <<moves, portfolio_vars, arb_vars, fills_vars, queue_vars, risk_vars,
                 crash_vars, grid_vars, hedger_vars, merger_vars, env_vars>>

ArbitrageMoves ==
  /\ moves = "arb" /\ Arb!Next
  /\ UNCHANGED <<moves, portfolio_vars, feed_vars, fills_vars, queue_vars, risk_vars,
                 crash_vars, grid_vars, hedger_vars, merger_vars, env_vars>>

AdverseSelectionMoves ==
  /\ moves = "fills" /\ Fills!Next
  /\ UNCHANGED <<moves, portfolio_vars, feed_vars, arb_vars, queue_vars, risk_vars, crash_vars,
                 grid_vars, hedger_vars, merger_vars, env_vars>>

QueuePositionMoves ==
  /\ moves = "queue" /\ Queue!Next
  /\ UNCHANGED <<moves, portfolio_vars, feed_vars, arb_vars, fills_vars, risk_vars, crash_vars,
                 grid_vars, hedger_vars, merger_vars, env_vars>>

RiskBreakerMoves ==
  /\ moves = "risk" /\ Risk!Next
  /\ UNCHANGED <<moves, portfolio_vars, feed_vars, arb_vars, fills_vars, queue_vars,
                 crash_vars, grid_vars, hedger_vars, merger_vars, env_vars>>

FlashCrashMoves ==
  /\ moves = "crash" /\ Crash!Next
  /\ UNCHANGED <<moves, portfolio_vars, feed_vars, arb_vars, fills_vars, queue_vars, risk_vars,
                 grid_vars, hedger_vars, merger_vars, env_vars>>

GridPricerMoves ==
  /\ moves = "grid" /\ Grid!Next
  /\ UNCHANGED <<moves, portfolio_vars, feed_vars, arb_vars, fills_vars, queue_vars, risk_vars,
                 crash_vars, hedger_vars, merger_vars, env_vars>>

AutoHedgerMoves ==
  /\ moves = "hedger" /\ Hedger!Next
  /\ UNCHANGED <<moves, portfolio_vars, feed_vars, arb_vars, fills_vars, queue_vars, risk_vars,
                 crash_vars, grid_vars, merger_vars, env_vars>>

TokenMergerMoves ==
  /\ moves = "merger" /\ Merger!Next
  /\ UNCHANGED <<moves, portfolio_vars, feed_vars, arb_vars, fills_vars, queue_vars, risk_vars,
                 crash_vars, grid_vars, hedger_vars, env_vars>>

MarketEnvMoves ==
  /\ moves = "env" /\ Env!Next
  /\ UNCHANGED <<moves, portfolio_vars, feed_vars, arb_vars, fills_vars, queue_vars, risk_vars,
                 crash_vars, grid_vars, hedger_vars, merger_vars>>

MCNext ==
  \/ PortfolioMoves \/ SniperFeedMoves \/ ArbitrageMoves \/ AdverseSelectionMoves
  \/ QueuePositionMoves \/ RiskBreakerMoves \/ FlashCrashMoves \/ GridPricerMoves
  \/ AutoHedgerMoves \/ TokenMergerMoves \/ MarketEnvMoves

MCSpec == MCInit /\ [][MCNext]_all_vars

TradeSymmetry == Permutations(Trades)

-----------------------------------------------------------------------------
(* The properties, from the ones the modules state.  A part is checked in  *)
(* the behaviours it moves in; in the others it stays as it began.         *)

\* What a step of the portfolio engine may not do: an outcome leaves it in AUTONOMOUS mode
\* beyond the day's limit, or a promotion comes without the live wins behind it.  And the best
\* prices of a book never go back to an older message.
TradingSteps ==
  [][/\ moves = "portfolio" => OutcomeRespectsLimit /\ PromotionIsEarned
     /\ moves = "feed" => Feed!NeverBackwards]_all_vars

\* The sniper's queue: once it is empty every book shows the latest message that was not
\* dropped, and every message is processed, dropped, skipped or still on its way.
FeedInv == moves = "feed" => Feed!TypeOK /\ Feed!Converged /\ Feed!Accounted

\* An opportunity passed to a callback was sound when it was found, and callbacks hear of the
\* most profitable one first.
ArbitrageInv == moves = "arb" => Arb!TypeOK /\ Arb!OpportunityIsSound /\ Arb!BestFirst

\* A recorded fill is pending or completed, none is stranded half-measured, and each toxic one
\* is reported once.
AdverseInv ==
  moves = "fills" => Fills!TypeOK /\ Fills!FillsAccounted /\ Fills!NoneStranded /\ Fills!WarnedOnce

\* The simulated book lists the open orders, no order is ahead of where it really stands, and
\* fills are backed by trades.
QueueInv ==
  moves = "queue" =>
    /\ Queue!TypeOK
    /\ Queue!BookListsOpenOrders /\ Queue!PositionIsCautious /\ Queue!FillsAreBacked

\* The two emergency brakes: an armed breaker has seen no drawdown beyond its limits, and a
\* drop inside the window is a crash event, counted once per cooldown.
BrakesInv ==
  /\ moves = "risk" =>
       /\ Risk!TypeOK
       /\ Risk!ArmedMeansWithinLimits /\ Risk!MaxCoversCurrent /\ Risk!DrawdownStartsAfterPeak
  /\ moves = "crash" =>
       /\ Crash!TypeOK
       /\ Crash!DropIsCovered /\ Crash!EventsAreApart /\ Crash!AverageIsMean

\* The grids of all markets stay within the capital given, and a refresh visits every market
\* that was there all along.
GridInv == moves = "grid" => Grid!TypeOK /\ Grid!WithinCapital /\ Grid!VisitsAll

\* The three paper accounts add up: hedges and their fees, merged pairs, and the rewards of an
\* episode.
AccountsInv ==
  /\ moves = "hedger" => Hedger!TypeOK /\ Hedger!MetricsExplained /\ Hedger!HedgesOffset
  /\ moves = "merger" => Merger!TypeOK /\ Merger!MergesExplain
  /\ moves = "env" =>
       Env!TypeOK /\ Env!RewardsTelescope /\ Env!LongPnlIsExact /\ Env!QuotesAndLimits
=============================================================================
