----------------------------- MODULE Portfolio ------------------------------
(***************************************************************************)
(* The compounding engine (PortfolioEngine, src/src/portfolio.py) with its *)
(* daily loss limiter (DailyLossLimiter, src/src/security.py), as          *)
(* create_portfolio_engine() puts them together.                           *)
(*                                                                         *)
(* execute_opportunity() suspends while the executor waits for its rate    *)
(* limiter, so several calls, outcomes and mode changes interleave.  The   *)
(* balance is read without suspension: get_balance() calls a synchronous   *)
(* client.  A call is named after the trade it creates.  Money is in cents.*)
(***************************************************************************)
EXTENDS Integers, FiniteSets, Functions

CONSTANTS Trades,         \* calls of execute_opportunity()
          InitialBalance,
          LiveTestSize,   \* LIVE_TEST_SIZE
          RequiredWins,   \* REQUIRED_CONSECUTIVE_WINS
          DailyLimit,     \* daily_limit, positive
          Gain,           \* what a win pays on top of its cost
          ChainBalances,  \* external: what get_balance() may answer
          StartModes,     \* modes the engine is created with or set to
          Days,           \* bound: the days of the run
          MaxManual,      \* bound: calls of set_mode()
          MaxRestarts,    \* bound: crashes
          NoState         \* external: the state file is missing or not readable

Modes == {"DRY_RUN", "LIVE_TEST", "AUTONOMOUS"}

ASSUME PortfolioConstants ==
  /\ {InitialBalance, LiveTestSize, RequiredWins, DailyLimit, Gain, MaxManual, MaxRestarts}
       \subseteq Nat
  /\ DailyLimit > 0 /\ RequiredWins > 0
  /\ IsFiniteSet(Trades)
  /\ ChainBalances \subseteq Nat
  /\ StartModes \subseteq Modes
  /\ Days \subseteq Nat /\ Days # {}

VARIABLES
  state,     \* PortfolioState: mode, balance, streak, won, lost, total, profit
  pc,        \* where each call is: "idle", "submit", "end"
  trade,     \* the Trade records: mode, cost and outcome
  losses,    \* _losses of the limiter
  today,     \* external: date.today()
  file,      \* the saved state with its trades, or NoState
  live_wins, \* wins of live trades since the last loss or manual change (saved with
             \* the state it belongs to)
  manual, restarts

vars == <<state, pc, trade, losses, today, file, live_wins,
          manual, restarts>>

NoTrade == [mode |-> "DRY_RUN", cost |-> 0, profit |-> 0, outcome |-> "none"]
Outcomes == {"none", "pending", "win", "loss", "error"}
RecordedIn(tr) == {t \in Trades : tr[t].outcome \in {"win", "loss"}}
Recorded == RecordedIn(trade)
StateType == [mode : Modes, balance : Int, streak : Nat, won : Nat, lost : Nat, total : Nat,
              profit : Int]
TradesType == [Trades -> [mode : Modes, cost : Int, profit : Int, outcome : Outcomes]]

TypeOK ==
  /\ state \in StateType
  /\ pc \in [Trades -> {"idle", "submit", "end"}]
  /\ trade \in TradesType
  /\ losses \in [Days -> Nat]
  /\ today \in Days
  /\ file \in [state : StateType, trade : TradesType, live_wins : Nat] \cup {NoState}
  /\ live_wins \in Nat
  /\ manual \in 0..MaxManual
  /\ restarts \in 0..MaxRestarts

Fresh(mode) == [mode |-> mode, balance |-> InitialBalance, streak |-> 0, won |-> 0,
                lost |-> 0, total |-> 0, profit |-> 0]

Init ==
  /\ state \in {Fresh(mode) : mode \in StartModes}
  /\ pc = [t \in Trades |-> "idle"]
  /\ trade = [t \in Trades |-> NoTrade]
  /\ losses = [d \in Days |-> 0]
  /\ today \in {d \in Days : \A e \in Days : d <= e}
  /\ file = NoState
  /\ live_wins = 0
  /\ manual = 0
  /\ restarts = 0

-----------------------------------------------------------------------------
(* DailyLossLimiter                                                        *)

TradingAllowed(l) == l[today] < DailyLimit

WithLoss(l, amount) == IF amount <= 0 THEN l ELSE [l EXCEPT ![today] = @ + amount]

WithProfit(l, amount) ==
  IF amount <= 0 THEN l ELSE [l EXCEPT ![today] = IF @ > amount THEN @ - amount ELSE 0]

-----------------------------------------------------------------------------
(* execute_opportunity()                                                   *)

\* calculate_position_size(): one dollar, or 5% of the balance rounded to a cent,
\* half a cent either way (the product is a float).
PositionSizes(s) ==
  IF s.mode = "LIVE_TEST" THEN {LiveTestSize}
  ELSE {(5 * s.balance + 49) \div 100, (5 * s.balance + 50) \div 100}

Downgraded(s) == [s EXCEPT !.mode = "LIVE_TEST", !.streak = 0]

\* refresh_balance() with executor.get_balance(): the chain's answer, 0 when the
\* query failed, and the old balance only when the executor is not initialised.
Balances(s) == IF s.mode = "AUTONOMOUS" THEN ChainBalances \cup {0, s.balance} ELSE {s.balance}

\* From the size to the end of a dry run, to the limiter's refusal, or into the
\* executor.
Proceed(t, size, s) ==
  LET made == [mode |-> s.mode, cost |-> size, profit |-> 0, outcome |-> "none"]
  IN \/ /\ s.mode = "DRY_RUN"
        /\ trade' = [trade EXCEPT ![t] = [made EXCEPT !.outcome = "pending"]]
        /\ pc' = [pc EXCEPT ![t] = "end"]
        /\ state' = s
     \/ /\ s.mode # "DRY_RUN"
        /\ ~TradingAllowed(losses)
        /\ pc' = [pc EXCEPT ![t] = "end"]
        /\ state' = IF s.mode = "AUTONOMOUS" THEN Downgraded(s) ELSE s
        /\ UNCHANGED trade
     \/ /\ s.mode # "DRY_RUN"
        /\ TradingAllowed(losses)
        /\ trade' = [trade EXCEPT ![t] = made]
        /\ pc' = [pc EXCEPT ![t] = "submit"]
        /\ state' = s

Execute(t) ==
  /\ pc[t] = "idle"
  /\ \E b \in Balances(state) :
       LET s == [state EXCEPT !.balance = b]
       IN \E size \in PositionSizes(s) : Proceed(t, size, s)
  /\ UNCHANGED <<losses, today, file, live_wins, manual, restarts>>

\* execute_fok_order() returned: the engine does not look at the status.
Executed(t) ==
  /\ pc[t] = "submit"
  /\ trade' = [trade EXCEPT ![t].outcome = "pending"]
  /\ pc' = [pc EXCEPT ![t] = "end"]
  /\ UNCHANGED <<state, losses, today, file, live_wins, manual, restarts>>

\* execute_fok_order() raised (the executor is closed).
ExecuteRaised(t) ==
  /\ pc[t] = "submit"
  /\ trade' = [trade EXCEPT ![t].outcome = "error"]
  /\ pc' = [pc EXCEPT ![t] = "end"]
  /\ UNCHANGED <<state, losses, today, file, live_wins, manual,
                 restarts>>

-----------------------------------------------------------------------------
(* record_outcome() and the mode                                           *)

\* _check_mode_upgrade()
Upgraded(s) == IF s.mode = "LIVE_TEST" /\ s.streak >= RequiredWins
                 THEN [s EXCEPT !.mode = "AUTONOMOUS"] ELSE s

\* _check_mode_downgrade()
Checked(s, l) == IF s.mode = "AUTONOMOUS" /\ ~TradingAllowed(l) THEN Downgraded(s) ELSE s

Settle_Swapped(s, l) == Upgraded(Checked(s, l))

\* The two checks at the end of record_outcome().
Settle(s, l) == Checked(Upgraded(s), l)

Lose_KeepsStreak(s, cost) == [s EXCEPT !.lost = @ + 1, !.balance = @ - cost,
                                       !.profit = @ - cost, !.total = @ + 1]

Lose(s, cost) == [Lose_KeepsStreak(s, cost) EXCEPT !.streak = 0]

Win_NotInTotal(s, gain) == [s EXCEPT !.won = @ + 1, !.streak = @ + 1, !.balance = @ + gain,
                                     !.profit = @ + gain]

Win(s, gain) == [Win_NotInTotal(s, gain) EXCEPT !.total = @ + 1]

RecordWin(t) ==
  /\ trade[t].outcome = "pending"
  /\ trade' = [trade EXCEPT ![t].outcome = "win", ![t].profit = Gain]
  /\ losses' = WithProfit(losses, Gain)
  /\ state' = Settle(Win(state, Gain), losses')
  /\ live_wins' = IF trade[t].mode = "DRY_RUN" THEN live_wins ELSE live_wins + 1
  /\ UNCHANGED <<pc, today, file, manual, restarts>>

RecordLost(t) ==
  /\ trade[t].outcome = "pending"
  /\ trade' = [trade EXCEPT ![t].outcome = "loss", ![t].profit = -trade[t].cost]
  /\ losses' = WithLoss(losses, trade[t].cost)
  /\ state' = Settle(Lose(state, trade[t].cost), losses')
  /\ live_wins' = 0
  /\ UNCHANGED <<pc, today, file, manual, restarts>>

SetMode(mode) ==
  /\ manual < MaxManual
  /\ manual' = manual + 1
  /\ state' = [state EXCEPT !.mode = mode, !.streak = IF mode = state.mode THEN @ ELSE 0]
  /\ live_wins' = IF mode = state.mode THEN live_wins ELSE 0
  /\ UNCHANGED <<pc, trade, losses, today, file, restarts>>

-----------------------------------------------------------------------------
(* save_state(), load_state(), days and crashes                            *)

\* The trades of the finished calls, which is what _state.trades holds.
Listed(tr) == [t \in Trades |-> IF tr[t].outcome = "none" THEN NoTrade ELSE tr[t]]

SaveState ==
  /\ MaxRestarts > 0
  /\ file' = [state |-> state, trade |-> Listed(trade), live_wins |-> live_wins]
  /\ UNCHANGED <<state, pc, trade, losses, today, live_wins, manual,
                 restarts>>

\* The process dies, possibly while json.dump() writes into the truncated file, and
\* create_portfolio_engine() starts again: a new limiter, and the saved state if
\* it can be read.
Restart ==
  /\ restarts < MaxRestarts
  /\ restarts' = restarts + 1
  /\ file' \in {file, NoState}
  /\ \/ /\ file' # NoState
        /\ state' = file'.state
        /\ trade' = file'.trade
        /\ live_wins' = file'.live_wins
     \/ /\ file' = NoState
        /\ state' \in {Fresh(mode) : mode \in StartModes}
        /\ trade' = [t \in Trades |-> NoTrade]
        /\ live_wins' = 0
  /\ losses' = [d \in Days |-> 0]
  /\ pc' = [t \in Trades |-> IF pc[t] = "idle" THEN "idle" ELSE "end"]
  /\ UNCHANGED <<today, manual>>

NextDay ==
  /\ today + 1 \in Days
  /\ today' = today + 1
  /\ UNCHANGED <<state, pc, trade, losses, file, live_wins, manual,
                 restarts>>

Next ==
  \/ \E t \in Trades : \/ Execute(t) \/ Executed(t) \/ ExecuteRaised(t)
                       \/ RecordWin(t) \/ RecordLost(t)
  \/ \E mode \in StartModes : SetMode(mode)
  \/ SaveState \/ Restart \/ NextDay

Spec == Init /\ [][Next]_vars

-----------------------------------------------------------------------------
(* Properties                                                              *)

\* The counters agree with the trades they count, however calls and outcomes
\* interleave and whichever saved state a restart loads.
Counted ==
  /\ state.total = state.won + state.lost
  /\ state.streak <= state.won
  /\ state.total = Cardinality(Recorded)

Profits(tr) == [t \in Trades |-> tr[t].profit]

\* So does the profit.
Ledger == Counted /\ state.profit = SumFunctionOnSet(Profits(trade), Recorded)

\* The types (no day's losses below zero among them) and the ledger.
PortfolioInv == TypeOK /\ Ledger

\* An outcome never leaves the engine in AUTONOMOUS mode while the day's limit is
\* reached: not by a losing streak, and not by wins that arrive after it.
OutcomeRespectsLimit ==
  state'.total # state.total /\ state'.mode = "AUTONOMOUS" => losses'[today] < DailyLimit

\* "LIVE_TEST -> AUTONOMOUS: 3 consecutive wins" (PortfolioEngine), where LIVE_TEST is
\* for "network latency testing": the promotion has that many wins of live trades
\* behind it since the last loss or change of mode, across restarts from a saved
\* state.  Outcomes of dry-run trades count like any other, so the engine earns
\* this only while none of them has been recorded.
PromotionIsEarned ==
  /\ state.mode = "LIVE_TEST" /\ state'.mode = "AUTONOMOUS"
  /\ manual' = manual /\ restarts' = restarts
  /\ \A t \in Recorded' : trade[t].mode # "DRY_RUN"
  => live_wins' >= RequiredWins

=============================================================================
