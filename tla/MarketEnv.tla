----------------------------- MODULE MarketEnv ------------------------------
(***************************************************************************)
(* The market-making environment of src/src/rl_gym_env.py: an agent        *)
(* adjusts quotes around the mid price, the next mid price fills them, and *)
(* the reward is the change of the portfolio's value less a penalty for    *)
(* inventory.                                                              *)
(*                                                                         *)
(* Prices of quotes and money are in 1/20000 of a price unit, so that half *)
(* a spread in basis points is exact.  The penalty and the bonus for the   *)
(* spread are left out of the reward.                                      *)
(***************************************************************************)
EXTENDS Integers, FiniteSetsExt

CONSTANTS Mids,                  \* mid prices of market updates
          InitialSpread,         \* initial_spread_bps
          MinSpread, MaxSpread,  \* MIN_SPREAD_BPS, MAX_SPREAD_BPS
          InitialSize,           \* initial_size; a multiple of 10 if sizes change once
          InitialCash,           \* INITIAL_CAPITAL, in the unit of money
          MaxPosition,           \* MAX_POSITION
          MaxSteps,              \* the step limit of an episode
          MaxSizes, MaxEpisodes  \* bounds: size changes in an episode, episodes

VARIABLES mid,                   \* mid_price of _state
          position, cash, unrealized,   \* _position, _cash, _unrealized_pnl
          spread, size,          \* _current_spread_bps, _current_size
          bid, ask,              \* our quotes; 0 when pulled
          steps, episodes, sizes,
          total_reward,          \* of the episode
          done,                  \* what the last step() said
          filled                 \* history: the sides it filled

vars == <<mid, position, cash, unrealized, spread, size, bid, ask, steps, episodes, sizes,
          total_reward, done, filled>>

Actions == {"HOLD", "TIGHTEN_SPREAD", "WIDEN_SPREAD", "INCREASE_SIZE", "DECREASE_SIZE",
            "PULL_BIDS", "PULL_ASKS"}
Scale == 20000

Bid(price, width) == price * (Scale - width)
Ask(price, width) == price * (Scale + width)

\* _get_portfolio_value()
Value(price) == cash + position * price * Scale

TypeOK ==
  /\ mid \in Mids /\ spread \in MinSpread..MaxSpread
  /\ steps \in 0..MaxSteps /\ episodes \in 1..MaxEpisodes
  /\ done \in BOOLEAN

\* reset() of a new environment
Init ==
  /\ mid \in Mids
  /\ position = 0 /\ cash = InitialCash /\ unrealized = 0
  /\ spread = InitialSpread /\ size = InitialSize
  /\ bid = Bid(mid, InitialSpread) /\ ask = Ask(mid, InitialSpread)
  /\ steps = 0 /\ episodes = 1 /\ sizes = 0 /\ total_reward = 0
  /\ done = FALSE /\ filled = {}

\* reset()
Reset(price) ==
  /\ episodes < MaxEpisodes
  /\ episodes' = episodes + 1
  /\ mid' = price
  /\ position' = 0 /\ cash' = InitialCash /\ unrealized' = 0
  /\ spread' = InitialSpread /\ size' = InitialSize
  /\ bid' = Bid(price, InitialSpread) /\ ask' = Ask(price, InitialSpread)
  /\ steps' = 0 /\ sizes' = 0 /\ total_reward' = 0 /\ done' = FALSE /\ filled' = {}

-----------------------------------------------------------------------------
(* step()                                                                  *)

\* _apply_action(): the quotes are made again around the last mid price, but for a side that
\* is pulled.
ApplyAction(action) ==
  /\ spread' = CASE action = "TIGHTEN_SPREAD" -> Max({MinSpread, spread - 2})
                 [] action = "WIDEN_SPREAD" -> Min({MaxSpread, spread + 2})
                 [] OTHER -> spread
  /\ size' = CASE action = "INCREASE_SIZE" -> (size * 11) \div 10
               [] action = "DECREASE_SIZE" -> (size * 9) \div 10
               [] OTHER -> size
  /\ bid' = IF action = "PULL_BIDS" THEN 0 ELSE Bid(mid, spread')
  /\ ask' = IF action = "PULL_ASKS" THEN 0 ELSE Ask(mid, spread')

Distance(a, b) == IF a < b THEN b - a ELSE a - b

\* _simulate_fills(): what a quote that new_mid reached or crossed may do.  The probability of
\* a fill is the move over a thousandth of the quote; from there on it is certain.
Outcomes(quote, reached, new_mid) ==
  IF ~(quote > 0 /\ reached) \/ new_mid = mid THEN {FALSE}
  ELSE IF Distance(new_mid, mid) * 1000 * Scale >= quote THEN {TRUE} ELSE {TRUE, FALSE}

\* _process_fill(): what the fills bring
Proceeds(buys, sells) ==
  (IF sells THEN ask' * size' ELSE 0) - (IF buys THEN bid' * size' ELSE 0)

Fill(new_mid) ==
  \E buys \in Outcomes(bid', new_mid * Scale <= bid', new_mid),
     sells \in Outcomes(ask', new_mid * Scale >= ask', new_mid) :
    /\ position' = position + (IF buys THEN size' ELSE 0) - (IF sells THEN size' ELSE 0)
    /\ cash' = cash + Proceeds(buys, sells)
    /\ filled' = (IF buys THEN {"buy"} ELSE {}) \cup (IF sells THEN {"sell"} ELSE {})

\* _create_state(): the average entry price is (INITIAL_CAPITAL - cash) over the size of the
\* position, for a short one too.
Unrealized ==
  CASE position' > 0 -> mid' * Scale * position' - (InitialCash - cash')
    [] position' < 0 -> (InitialCash - cash') - mid' * Scale * (0 - position')
    [] OTHER -> 0

\* _check_done()
CheckDone ==
  \/ steps' >= MaxSteps
  \/ 2 * Value(mid)' < InitialCash
  \/ position' > MaxPosition \/ position' < 0 - MaxPosition

\* The value the reward starts from: at the mid price of the last state
PreviousValue(new_mid) == Value(mid)

\* step(); after done the agent calls reset().
Step(action, new_mid) ==
  /\ ~done
  /\ action \in {"INCREASE_SIZE", "DECREASE_SIZE"} => sizes < MaxSizes
  /\ sizes' = sizes + IF action \in {"INCREASE_SIZE", "DECREASE_SIZE"} THEN 1 ELSE 0
  /\ steps' = steps + 1
  /\ ApplyAction(action)
  /\ Fill(new_mid)
  /\ mid' = new_mid
  /\ unrealized' = Unrealized
  /\ total_reward' = total_reward + (Value(mid)' - PreviousValue(new_mid))
  /\ done' = CheckDone
  /\ UNCHANGED episodes

Next ==
  \E price \in Mids : Reset(price) \/ \E action \in Actions : Step(action, price)

Spec == Init /\ [][Next]_vars

-----------------------------------------------------------------------------
(* Properties                                                              *)

\* The rewards of an episode add up to what the portfolio gained in it, whatever was quoted,
\* pulled and filled (step(), get_episode_summary()).
RewardsTelescope == total_reward = Value(mid) - InitialCash

\* With a long position the unrealized P&L shown to the agent is the gain of the whole
\* portfolio (_create_state()).
LongPnlIsExact == position > 0 => unrealized = Value(mid) - InitialCash

\* A step fills one side only, and an episode that goes on is solvent and within its position
\* limit (_simulate_fills(), _check_done()).
QuotesAndLimits ==
  /\ filled # {"buy", "sell"}
  /\ bid > 0 /\ ask > 0 => bid < ask
  /\ ~done => 2 * Value(mid) >= InitialCash /\ position \in (0 - MaxPosition)..MaxPosition
=============================================================================
