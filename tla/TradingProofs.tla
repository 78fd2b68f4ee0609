--------------------------- MODULE TradingProofs ----------------------------
(***************************************************************************)
(* The parts of MCTrading that keep money and state: the portfolio engine, *)
(* the token merger, the hedging simulator, the environment of the         *)
(* learning agent, the drawdown breaker, the flash crash detector and the  *)
(* message pipeline of the sniper.                                         *)
(*                                                                         *)
(* Each has an invariant that its own steps keep and nobody else's step    *)
(* touches; the theorems at the end join them.  For the portfolio engine a *)
(* restart loads whatever was saved, so the invariant holds of the file as *)
(* well; and a call that has not begun is recorded neither in memory nor in*)
(* the file, so that its trade is counted once when it ends.               *)
(***************************************************************************)
EXTENDS MCTrading, DataLemmas

-----------------------------------------------------------------------------
(* The portfolio engine                                                     *)

\* A state agrees with its trades: the counters, the profit, and live wins behind the streak as
\* long as every recorded trade was live.
Books(s, tr, wins) ==
  /\ s.total = s.won + s.lost
  /\ s.streak <= s.won
  /\ s.total = Cardinality(RecordedIn(tr))
  /\ s.profit = SumFunctionOnSet(Profits(tr), RecordedIn(tr))
  /\ (\A t \in RecordedIn(tr) : tr[t].mode # "DRY_RUN") => s.streak <= wins

\* A trade that has not been submitted has no outcome, in memory or in the file.
Unrecorded ==
  \A t \in Trades :
    /\ pc[t] \in {"idle", "submit"} => trade[t].outcome = "none"
    /\ pc[t] = "idle" /\ file # NoState => file.trade[t].outcome = "none"

\* Inductive: what is in memory and what is in the file agree with the trades, each for itself.
IInv ==
  /\ TypeOK
  /\ Books(state, trade, live_wins)
  /\ file # NoState => Books(file.state, file.trade, file.live_wins)
  /\ Unrecorded

\* A new engine has counted nothing.
LEMMA FreshBooks ==
  ASSUME NEW mode \in StartModes
  PROVE  /\ Fresh(mode) \in StateType
         /\ Books(Fresh(mode), [t \in Trades |-> NoTrade], 0)
<1>1. RecordedIn([t \in Trades |-> NoTrade]) = {}
  BY DEF RecordedIn, NoTrade
<1>2. Cardinality({}) = 0
  BY FS_EmptySet
<1>3. mode \in Modes /\ InitialBalance \in Int
  BY PortfolioConstants
<1>4. Fresh(mode) \in StateType
  BY <1>3 DEF Fresh, StateType
<1>5. SumFunctionOnSet(Profits([t \in Trades |-> NoTrade]), {}) = 0
  BY SumEmpty
<1> QED BY <1>1, <1>2, <1>4, <1>5 DEF Fresh, Books

\* The first start finds no file and has counted nothing.
LEMMA PortfolioInit == Init => IInv
<1> SUFFICES ASSUME Init PROVE IInv
  OBVIOUS
<1>1. PICK mode \in StartModes : state = Fresh(mode)
  BY DEF Init
<1>2. Books(state, trade, live_wins) /\ state \in StateType
  BY <1>1, FreshBooks DEF Init
<1>3. trade \in TradesType
  BY DEF Init, TradesType, NoTrade, Modes, Outcomes
<1>4. TypeOK
  BY <1>2, <1>3, PortfolioConstants DEF Init, TypeOK
<1>5. file = NoState /\ Unrecorded
  BY DEF Init, Unrecorded, NoTrade
<1> QED BY <1>2, <1>4, <1>5 DEF IInv

\* The two checks at the end of record_outcome() move the mode and may end the streak.
LEMMA SettleFacts ==
  ASSUME NEW s \in StateType, NEW l
  PROVE  /\ Settle(s, l) \in StateType
         /\ Settle(s, l).won = s.won /\ Settle(s, l).lost = s.lost
         /\ Settle(s, l).total = s.total /\ Settle(s, l).profit = s.profit
         /\ Settle(s, l).streak \in {0, s.streak}
         /\ Settle(s, l).mode = "AUTONOMOUS" =>
              /\ TradingAllowed(l)
              /\ s.mode = "AUTONOMOUS" \/ s.streak >= RequiredWins
<1>1. /\ Upgraded(s) \in StateType
      /\ Upgraded(s).won = s.won /\ Upgraded(s).lost = s.lost
      /\ Upgraded(s).total = s.total /\ Upgraded(s).streak = s.streak
      /\ Upgraded(s).profit = s.profit
      /\ Upgraded(s).mode = "AUTONOMOUS" => s.mode = "AUTONOMOUS" \/ s.streak >= RequiredWins
  BY DEF Upgraded, StateType, Modes
<1> DEFINE u == Upgraded(s)
<1> HIDE DEF u
<1>2. CASE u.mode = "AUTONOMOUS" /\ ~TradingAllowed(l)
  <2>1. Settle(s, l) = [u EXCEPT !.mode = "LIVE_TEST", !.streak = 0]
    BY <1>2 DEF Settle, Checked, Downgraded, u
  <2>2. /\ u \in StateType /\ u.won = s.won /\ u.lost = s.lost /\ u.total = s.total
        /\ u.profit = s.profit
    BY <1>1 DEF u
  <2>3. [u EXCEPT !.mode = "LIVE_TEST", !.streak = 0] \in StateType
    BY <2>2 DEF StateType, Modes
  <2>4. /\ Settle(s, l).won = u.won /\ Settle(s, l).lost = u.lost
        /\ Settle(s, l).total = u.total /\ Settle(s, l).streak = 0
        /\ Settle(s, l).profit = u.profit
        /\ Settle(s, l).mode = "LIVE_TEST"
    BY <2>1, <2>2 DEF StateType
  <2> QED BY <2>1, <2>2, <2>3, <2>4
<1>3. CASE ~(u.mode = "AUTONOMOUS" /\ ~TradingAllowed(l))
  <2>1. Settle(s, l) = u
    BY <1>3 DEF Settle, Checked, u
  <2> QED BY <1>1, <1>3, <2>1 DEF u
<1> QED BY <1>2, <1>3

\* Recording the outcome of a pending trade makes it one of the recorded ones, for the first
\* time.
LEMMA OneMoreRecorded ==
  ASSUME TypeOK, NEW t \in Trades, trade[t].outcome = "pending",
         NEW tr \in TradesType, tr[t].outcome \in {"win", "loss"}, tr[t].mode = trade[t].mode,
         \A u \in Trades \ {t} : tr[u] = trade[u]
  PROVE  /\ RecordedIn(tr) = Recorded \cup {t}
         /\ Cardinality(RecordedIn(tr)) = Cardinality(Recorded) + 1
         /\ \A u \in RecordedIn(tr) : tr[u].mode = trade[u].mode
         /\ SumFunctionOnSet(Profits(tr), RecordedIn(tr)) =
              tr[t].profit + SumFunctionOnSet(Profits(trade), Recorded)
<1>1. RecordedIn(tr) = Recorded \cup {t} /\ t \notin Recorded
  BY DEF RecordedIn, Recorded
<1>2. IsFiniteSet(Recorded)
  <2>1. Recorded \subseteq Trades /\ IsFiniteSet(Trades)
    BY PortfolioConstants DEF Recorded, RecordedIn
  <2> QED BY <2>1, FS_Subset
<1>3. Cardinality(Recorded \cup {t}) = Cardinality(Recorded) + 1
  BY <1>1, <1>2, FS_AddElement
<1>4. SumFunctionOnSet(Profits(tr), RecordedIn(tr)) =
        tr[t].profit + SumFunctionOnSet(Profits(trade), Recorded)
  <2>1. Recorded \subseteq Trades
    BY DEF Recorded, RecordedIn
  <2>2. \A u \in Trades : Profits(tr)[u] = tr[u].profit /\ Profits(tr)[u] \in Int
    BY DEF Profits, TradesType
  <2>3. \A u \in Recorded : Profits(tr)[u] = Profits(trade)[u]
    BY <1>1, <2>1 DEF Profits
  <2>4. SumFunctionOnSet(Profits(tr), Recorded) = SumFunctionOnSet(Profits(trade), Recorded)
    BY <1>2, <2>3, SumAgree
  <2>5. SumFunctionOnSet(Profits(tr), Recorded \cup {t})
          = Profits(tr)[t] + SumFunctionOnSet(Profits(tr), Recorded)
    BY <1>1, <1>2, <2>1, <2>2, SumInsert
  <2> QED BY <1>1, <2>2, <2>4, <2>5
<1> QED BY <1>1, <1>3, <1>4 DEF Recorded, RecordedIn

\* What recording a win does to each counter.
LEMMA WinFacts ==
  ASSUME NEW s \in StateType
  PROVE  /\ Win(s, Gain) \in StateType
         /\ Win(s, Gain).won = s.won + 1 /\ Win(s, Gain).lost = s.lost
         /\ Win(s, Gain).total = s.total + 1 /\ Win(s, Gain).streak = s.streak + 1
         /\ Win(s, Gain).mode = s.mode /\ Win(s, Gain).profit = s.profit + Gain
<1> DEFINE w == Win_NotInTotal(s, Gain)
<1>1. /\ w \in StateType
      /\ w.won = s.won + 1 /\ w.lost = s.lost /\ w.total = s.total
      /\ w.streak = s.streak + 1 /\ w.mode = s.mode /\ w.profit = s.profit + Gain
  <2>1. /\ Gain \in Int /\ s.won + 1 \in Nat /\ s.streak + 1 \in Nat
        /\ s.balance + Gain \in Int /\ s.profit + Gain \in Int
    BY PortfolioConstants DEF StateType
  <2> QED BY <2>1 DEF Win_NotInTotal, StateType
<1>2. Win(s, Gain) = [w EXCEPT !.total = @ + 1]
  BY DEF Win
<1> HIDE DEF w
<1>3. w.total + 1 \in Nat
  BY <1>1 DEF StateType
<1> QED BY <1>1, <1>2, <1>3 DEF StateType

\* What recording a loss does to each counter.
LEMMA LoseFacts ==
  ASSUME NEW s \in StateType, NEW cost \in Int
  PROVE  /\ Lose(s, cost) \in StateType
         /\ Lose(s, cost).won = s.won /\ Lose(s, cost).lost = s.lost + 1
         /\ Lose(s, cost).total = s.total + 1 /\ Lose(s, cost).streak = 0
         /\ Lose(s, cost).mode = s.mode /\ Lose(s, cost).profit = s.profit - cost
<1> DEFINE w == Lose_KeepsStreak(s, cost)
<1>1. /\ w \in StateType
      /\ w.won = s.won /\ w.lost = s.lost + 1 /\ w.total = s.total + 1 /\ w.mode = s.mode
      /\ w.profit = s.profit - cost
  <2>1. /\ s.lost + 1 \in Nat /\ s.total + 1 \in Nat
        /\ s.balance - cost \in Int /\ s.profit - cost \in Int
    BY DEF StateType
  <2> QED BY <2>1 DEF Lose_KeepsStreak, StateType
<1>2. Lose(s, cost) = [w EXCEPT !.streak = 0]
  BY DEF Lose
<1> HIDE DEF w
<1> QED BY <1>1, <1>2 DEF StateType

\* record_outcome() of a trade that was won.
LEMMA RecordWinKeepsIInv ==
  ASSUME IInv, NEW t \in Trades, RecordWin(t)
  PROVE  IInv'
<1> USE DEF IInv
<1>1. /\ trade[t].outcome = "pending"
      /\ trade' = [trade EXCEPT ![t] = [trade[t] EXCEPT !.outcome = "win", !.profit = Gain]]
      /\ state' = Settle(Win(state, Gain), losses')
      /\ losses' = WithProfit(losses, Gain)
      /\ live_wins' = IF trade[t].mode = "DRY_RUN" THEN live_wins ELSE live_wins + 1
      /\ UNCHANGED <<pc, today, file, manual, restarts>>
  BY DEF RecordWin, TypeOK, TradesType
<1>2. /\ Win(state, Gain) \in StateType
      /\ Win(state, Gain).won = state.won + 1 /\ Win(state, Gain).lost = state.lost
      /\ Win(state, Gain).total = state.total + 1 /\ Win(state, Gain).streak = state.streak + 1
      /\ Win(state, Gain).profit = state.profit + Gain
  BY WinFacts DEF TypeOK
<1>3. /\ state' \in StateType /\ state'.won = state.won + 1 /\ state'.lost = state.lost
      /\ state'.total = state.total + 1 /\ state'.streak \in {0, state.streak + 1}
      /\ state'.profit = state.profit + Gain
  BY <1>1, <1>2, SettleFacts
<1>4. trade' \in TradesType
  <2>1. Gain \in Int /\ trade \in TradesType
    BY PortfolioConstants DEF TypeOK
  <2>2. [trade[t] EXCEPT !.outcome = "win", !.profit = Gain]
          \in [mode : Modes, cost : Int, profit : Int, outcome : Outcomes]
    BY <2>1 DEF TradesType, Outcomes
  <2> QED BY <1>1, <2>1, <2>2 DEF TradesType
<1>5. losses' \in [Days -> Nat]
  BY <1>1, PortfolioConstants DEF WithProfit, TypeOK
<1>6. live_wins' \in Nat /\ live_wins' >= live_wins
  BY <1>1 DEF TypeOK
<1>7. TypeOK'
  BY <1>1, <1>3, <1>4, <1>5, <1>6 DEF TypeOK
<1>8. /\ RecordedIn(trade') = Recorded \cup {t}
      /\ Cardinality(RecordedIn(trade')) = Cardinality(Recorded) + 1
      /\ \A u \in RecordedIn(trade') : trade'[u].mode = trade[u].mode
      /\ SumFunctionOnSet(Profits(trade'), RecordedIn(trade')) =
           Gain + SumFunctionOnSet(Profits(trade), Recorded)
  <2>1. /\ trade'[t].outcome = "win" /\ trade'[t].mode = trade[t].mode
        /\ trade'[t].profit = Gain
        /\ \A u \in Trades \ {t} : trade'[u] = trade[u]
    BY <1>1 DEF TypeOK, TradesType
  <2> QED BY <1>1, <1>4, <2>1, OneMoreRecorded
<1>9. Books(state', trade', live_wins')
  <2>1. /\ state.total = state.won + state.lost /\ state.streak <= state.won
        /\ state.total = Cardinality(Recorded)
        /\ state.profit = SumFunctionOnSet(Profits(trade), Recorded)
        /\ state.won \in Nat /\ state.lost \in Nat /\ state.streak \in Nat
        /\ state.profit \in Int /\ Gain \in Int
    BY PortfolioConstants DEF Books, Recorded, TypeOK, StateType
  <2>2. ASSUME \A u \in RecordedIn(trade') : trade'[u].mode # "DRY_RUN"
        PROVE  state'.streak <= live_wins'
    <3>1. trade[t].mode # "DRY_RUN" /\ \A u \in Recorded : trade[u].mode # "DRY_RUN"
      BY <1>8, <2>2
    <3>2. state.streak <= live_wins
      BY <3>1 DEF Books, Recorded
    <3>3. live_wins' = live_wins + 1 /\ live_wins \in Nat
      BY <1>1, <3>1 DEF TypeOK
    <3> QED BY <1>3, <2>1, <3>2, <3>3
  <2>3. state'.profit = SumFunctionOnSet(Profits(trade'), RecordedIn(trade'))
    BY <1>3, <1>8, <2>1
  <2> QED BY <1>3, <1>8, <2>1, <2>2, <2>3 DEF Books
<1>10. Unrecorded'
  BY <1>1 DEF Unrecorded, TypeOK, TradesType
<1> QED BY <1>1, <1>7, <1>9, <1>10

\* record_outcome() of a trade that was lost.
LEMMA RecordLostKeepsIInv ==
  ASSUME IInv, NEW t \in Trades, RecordLost(t)
  PROVE  IInv'
<1> USE DEF IInv
<1> DEFINE cost == trade[t].cost
<1>0. cost \in Int /\ -cost \in Int
  BY DEF TypeOK, TradesType
<1>1. /\ trade[t].outcome = "pending"
      /\ trade' = [trade EXCEPT ![t] = [trade[t] EXCEPT !.outcome = "loss", !.profit = -cost]]
      /\ state' = Settle(Lose(state, cost), losses')
      /\ losses' = WithLoss(losses, cost)
      /\ live_wins' = 0
      /\ UNCHANGED <<pc, today, file, manual, restarts>>
  BY DEF RecordLost, TypeOK, TradesType
<1> HIDE DEF cost
<1>2. /\ Lose(state, cost) \in StateType
      /\ Lose(state, cost).won = state.won /\ Lose(state, cost).lost = state.lost + 1
      /\ Lose(state, cost).total = state.total + 1 /\ Lose(state, cost).streak = 0
      /\ Lose(state, cost).profit = state.profit - cost
  BY <1>0, LoseFacts DEF TypeOK
<1>3. /\ state' \in StateType /\ state'.won = state.won /\ state'.lost = state.lost + 1
      /\ state'.total = state.total + 1 /\ state'.streak = 0
      /\ state'.profit = state.profit - cost
  BY <1>1, <1>2, SettleFacts
<1>4. trade' \in TradesType
  <2>1. trade \in TradesType
    BY DEF TypeOK
  <2>2. [trade[t] EXCEPT !.outcome = "loss", !.profit = -cost]
          \in [mode : Modes, cost : Int, profit : Int, outcome : Outcomes]
    BY <1>0, <2>1 DEF TradesType, Outcomes
  <2> QED BY <1>1, <2>1, <2>2 DEF TradesType
<1>5. losses' \in [Days -> Nat]
  BY <1>0, <1>1 DEF WithLoss, TypeOK
<1>6. TypeOK'
  BY <1>1, <1>3, <1>4, <1>5 DEF TypeOK
<1>7. /\ Cardinality(RecordedIn(trade')) = Cardinality(Recorded) + 1
      /\ SumFunctionOnSet(Profits(trade'), RecordedIn(trade')) =
           -cost + SumFunctionOnSet(Profits(trade), Recorded)
  <2>1. /\ trade'[t].outcome = "loss" /\ trade'[t].mode = trade[t].mode
        /\ trade'[t].profit = -cost
        /\ \A u \in Trades \ {t} : trade'[u] = trade[u]
    BY <1>1 DEF TypeOK, TradesType
  <2> QED BY <1>1, <1>4, <2>1, OneMoreRecorded
<1>8. Books(state', trade', live_wins')
  <2>1. /\ state.total = state.won + state.lost
        /\ state.total = Cardinality(Recorded)
        /\ state.profit = SumFunctionOnSet(Profits(trade), Recorded)
        /\ state.won \in Nat /\ state.lost \in Nat /\ state.profit \in Int
    BY DEF Books, Recorded, TypeOK, StateType
  <2>2. state'.profit = SumFunctionOnSet(Profits(trade'), RecordedIn(trade'))
    BY <1>0, <1>3, <1>7, <2>1
  <2> QED BY <1>1, <1>3, <1>7, <2>1, <2>2 DEF Books
<1>9. Unrecorded'
  BY <1>1 DEF Unrecorded, TypeOK, TradesType
<1> QED BY <1>1, <1>6, <1>8, <1>9

\* A state that has lost nothing but its mode, its balance or its streak agrees with the same
\* trades as before.
LEMMA BooksOfTheSame ==
  ASSUME NEW s \in StateType, NEW r \in StateType, NEW tr, NEW new, NEW wins \in Nat,
         NEW more \in Nat, Books(s, tr, wins),
         r.won = s.won, r.lost = s.lost, r.total = s.total, r.streak \in {0, s.streak},
         r.profit = s.profit,
         RecordedIn(new) = RecordedIn(tr),
         \A t \in RecordedIn(tr) : new[t].mode = tr[t].mode /\ new[t].profit = tr[t].profit,
         wins <= more \/ r.streak = 0
  PROVE  Books(r, new, more)
<1>1. RecordedIn(tr) \subseteq Trades
  BY DEF RecordedIn
<1>2. IsFiniteSet(RecordedIn(tr))
  BY <1>1, PortfolioConstants, FS_Subset
<1>3. \A t \in RecordedIn(tr) : Profits(new)[t] = Profits(tr)[t]
  BY <1>1 DEF Profits
<1>4. SumFunctionOnSet(Profits(new), RecordedIn(new)) = SumFunctionOnSet(Profits(tr), RecordedIn(tr))
  BY <1>2, <1>3, SumAgree
<1> QED BY <1>4 DEF Books, StateType

\* execute_opportunity(): refusals, the dry run, and the order that is submitted.
LEMMA ExecuteKeepsIInv ==
  ASSUME IInv, NEW t \in Trades, Execute(t)
  PROVE  IInv'
<1> USE DEF IInv
<1>1. PICK b \in Balances(state) : \E size \in PositionSizes([state EXCEPT !.balance = b]) :
                                    Proceed(t, size, [state EXCEPT !.balance = b])
  BY DEF Execute
<1> DEFINE s == [state EXCEPT !.balance = b]
<1>2. PICK size \in PositionSizes(s) : Proceed(t, size, s)
  BY <1>1
<1>3. pc[t] = "idle" /\ UNCHANGED <<losses, today, file, live_wins, manual, restarts>>
  BY DEF Execute
<1>4. /\ s \in StateType
      /\ s.won = state.won /\ s.lost = state.lost /\ s.total = state.total
      /\ s.streak = state.streak /\ s.profit = state.profit
  <2>1. b \in Int /\ state \in StateType
    BY PortfolioConstants DEF Balances, TypeOK, StateType
  <2> QED BY <2>1 DEF StateType
<1> HIDE DEF s
<1>5. size \in Int
  <2>1. s.balance \in Int /\ LiveTestSize \in Int
    BY <1>4, PortfolioConstants DEF StateType
  <2>2. (5 * s.balance + 49) \div 100 \in Int /\ (5 * s.balance + 50) \div 100 \in Int
    BY <2>1
  <2> QED BY <2>1, <2>2 DEF PositionSizes
<1>6. /\ state' \in StateType
      /\ state'.won = state.won /\ state'.lost = state.lost /\ state'.total = state.total
      /\ state'.streak \in {0, state.streak} /\ state'.profit = state.profit
  <2>1. state' = s \/ state' = [s EXCEPT !.mode = "LIVE_TEST", !.streak = 0]
    BY <1>2 DEF Proceed, Downgraded
  <2>2. [s EXCEPT !.mode = "LIVE_TEST", !.streak = 0] \in StateType
    BY <1>4 DEF StateType, Modes
  <2> QED BY <1>4, <2>1, <2>2 DEF StateType
<1>7. \E o \in {"none", "pending"} :
        \/ trade' = trade
        \/ trade' = [trade EXCEPT ![t] = [mode |-> s.mode, cost |-> size, profit |-> 0,
                                          outcome |-> o]]
  <2>1. CASE trade' = trade
    BY <2>1
  <2>2. CASE trade' = [trade EXCEPT ![t] = [mode |-> s.mode, cost |-> size, profit |-> 0,
                                            outcome |-> "none"]]
    BY <2>2
  <2>3. CASE trade' = [trade EXCEPT ![t] = [mode |-> s.mode, cost |-> size, profit |-> 0,
                                            outcome |-> "pending"]]
    BY <2>3
  <2> QED BY <1>2, <2>1, <2>2, <2>3 DEF Proceed
<1>8. trade' \in TradesType
  <2>1. s.mode \in Modes
    BY <1>4 DEF StateType
  <2> QED BY <1>5, <1>7, <2>1 DEF TypeOK, TradesType, Outcomes
<1>9. /\ RecordedIn(trade') = RecordedIn(trade)
      /\ \A u \in RecordedIn(trade) :
           trade'[u].mode = trade[u].mode /\ trade'[u].profit = trade[u].profit
  <2>1. trade[t].outcome = "none" /\ trade \in TradesType
    BY <1>3 DEF Unrecorded, TypeOK
  <2>2. \A u \in Trades \ {t} : trade'[u] = trade[u]
    BY <1>7, <2>1 DEF TradesType
  <2>3. trade'[t].outcome \in {"none", "pending"}
    BY <1>7, <2>1 DEF TradesType
  <2> QED BY <2>1, <2>2, <2>3 DEF RecordedIn
<1>10. /\ pc' \in [Trades -> {"idle", "submit", "end"}]
       /\ \A u \in Trades \ {t} : pc'[u] = pc[u] /\ trade'[u] = trade[u]
       /\ pc'[t] = "end" \/ (pc'[t] = "submit" /\ trade'[t].outcome = "none")
  <2>1. trade \in TradesType /\ pc \in [Trades -> {"idle", "submit", "end"}]
    BY DEF TypeOK
  <2>2. \A u \in Trades \ {t} : trade'[u] = trade[u]
    BY <1>7, <2>1 DEF TradesType
  <2>3. \/ pc' = [pc EXCEPT ![t] = "end"]
        \/ /\ pc' = [pc EXCEPT ![t] = "submit"]
           /\ trade' = [trade EXCEPT ![t] = [mode |-> s.mode, cost |-> size, profit |-> 0,
                                             outcome |-> "none"]]
    BY <1>2 DEF Proceed
  <2>4. pc' \in [Trades -> {"idle", "submit", "end"}]
    BY <2>1, <2>3
  <2>5. \A u \in Trades \ {t} : pc'[u] = pc[u]
    BY <2>1, <2>3
  <2>6. pc'[t] = "end" \/ (pc'[t] = "submit" /\ trade'[t].outcome = "none")
    BY <2>1, <2>3 DEF TradesType
  <2> QED BY <2>2, <2>4, <2>5, <2>6
<1>11. TypeOK'
  BY <1>3, <1>6, <1>8, <1>10 DEF TypeOK
<1>12. Books(state', trade', live_wins')
  BY <1>3, <1>6, <1>9, BooksOfTheSame DEF TypeOK
<1>13. Unrecorded'
  BY <1>3, <1>10 DEF Unrecorded
<1> QED BY <1>3, <1>11, <1>12, <1>13

\* The trade of a call that ends becomes pending or an error, neither of which is recorded.
LEMMA SubmittedKeepsIInv ==
  ASSUME IInv, NEW t \in Trades, Executed(t) \/ ExecuteRaised(t)
  PROVE  IInv'
<1> USE DEF IInv
<1>1. PICK o \in {"pending", "error"} :
        trade' = [trade EXCEPT ![t] = [trade[t] EXCEPT !.outcome = o]]
  BY DEF Executed, ExecuteRaised, TypeOK, TradesType
<1>2. /\ pc[t] = "submit" /\ pc' = [pc EXCEPT ![t] = "end"]
      /\ UNCHANGED <<state, losses, today, file, live_wins, manual, restarts>>
  BY DEF Executed, ExecuteRaised
<1>3. trade \in TradesType /\ trade[t].outcome = "none"
  BY <1>2 DEF TypeOK, Unrecorded
<1>4. trade' \in TradesType
  <2>1. [trade[t] EXCEPT !.outcome = o]
          \in [mode : Modes, cost : Int, profit : Int, outcome : Outcomes]
    BY <1>3 DEF TradesType, Outcomes
  <2> QED BY <1>1, <1>3, <2>1 DEF TradesType
<1>5. /\ RecordedIn(trade') = RecordedIn(trade)
      /\ \A u \in RecordedIn(trade) :
           trade'[u].mode = trade[u].mode /\ trade'[u].profit = trade[u].profit
  <2>1. trade'[t].outcome = o /\ \A u \in Trades \ {t} : trade'[u] = trade[u]
    BY <1>1, <1>3 DEF TradesType
  <2> QED BY <1>3, <2>1 DEF RecordedIn
<1>6. TypeOK'
  BY <1>2, <1>4 DEF TypeOK
<1>7. Books(state', trade', live_wins')
  BY <1>2, <1>5, BooksOfTheSame DEF TypeOK
<1>8. Unrecorded'
  BY <1>1, <1>2, <1>3 DEF Unrecorded, TypeOK, TradesType
<1> QED BY <1>2, <1>6, <1>7, <1>8

\* set_mode(), by hand.
LEMMA SetModeKeepsIInv ==
  ASSUME IInv, NEW mode \in StartModes, SetMode(mode)
  PROVE  IInv'
<1> USE DEF IInv
<1>1. /\ manual' = manual + 1 /\ manual < MaxManual
      /\ UNCHANGED <<pc, trade, losses, today, file, restarts>>
  BY DEF SetMode
<1>2. /\ state' \in StateType
      /\ state'.won = state.won /\ state'.lost = state.lost /\ state'.total = state.total
      /\ state'.profit = state.profit
      /\ \/ state'.streak = state.streak /\ live_wins' = live_wins
         \/ state'.streak = 0 /\ live_wins' = 0
  <2>1. mode \in Modes /\ state \in StateType
    BY PortfolioConstants DEF TypeOK
  <2>2. CASE mode = state.mode
    <3>1. state' = [state EXCEPT !.mode = mode, !.streak = state.streak] /\ live_wins' = live_wins
      BY <2>1, <2>2 DEF SetMode, StateType
    <3>2. [state EXCEPT !.mode = mode, !.streak = state.streak] \in StateType
      BY <2>1 DEF StateType
    <3> QED BY <2>1, <3>1, <3>2 DEF StateType
  <2>3. CASE mode # state.mode
    <3>1. state' = [state EXCEPT !.mode = mode, !.streak = 0] /\ live_wins' = 0
      BY <2>1, <2>3 DEF SetMode, StateType
    <3>2. [state EXCEPT !.mode = mode, !.streak = 0] \in StateType
      BY <2>1 DEF StateType
    <3> QED BY <2>1, <3>1, <3>2 DEF StateType
  <2> QED BY <2>2, <2>3
<1>3. live_wins' \in Nat
  BY <1>2 DEF TypeOK
<1>4. manual' \in 0..MaxManual
  BY <1>1, PortfolioConstants DEF TypeOK
<1>5. TypeOK'
  BY <1>1, <1>2, <1>3, <1>4 DEF TypeOK
<1>6. Books(state', trade', live_wins')
  <2>1. live_wins <= live_wins' \/ state'.streak = 0
    BY <1>2 DEF TypeOK
  <2> QED BY <1>1, <1>2, <1>3, <2>1, BooksOfTheSame DEF TypeOK
<1> QED BY <1>1, <1>5, <1>6 DEF Unrecorded

\* The file holds the state with its recorded trades.
LEMMA SaveKeepsIInv ==
  ASSUME IInv, SaveState
  PROVE  IInv'
<1> USE DEF IInv
<1>1. /\ file' = [state |-> state, trade |-> Listed(trade), live_wins |-> live_wins]
      /\ UNCHANGED <<state, pc, trade, losses, today, live_wins, manual, restarts>>
  BY DEF SaveState
<1>2. /\ Listed(trade) \in TradesType
      /\ RecordedIn(Listed(trade)) = RecordedIn(trade)
      /\ \A t \in RecordedIn(trade) :
           Listed(trade)[t].mode = trade[t].mode /\ Listed(trade)[t].profit = trade[t].profit
      /\ \A t \in Trades : trade[t].outcome = "none" => Listed(trade)[t].outcome = "none"
  <2>1. trade \in TradesType
    BY DEF TypeOK
  <2>2. NoTrade \in [mode : Modes, cost : Int, profit : Int, outcome : Outcomes]
    BY DEF NoTrade, Modes, Outcomes
  <2>3. \A t \in Trades : Listed(trade)[t] = IF trade[t].outcome = "none" THEN NoTrade
                                                                         ELSE trade[t]
    BY DEF Listed
  <2>4. Listed(trade) \in TradesType
    BY <2>1, <2>2 DEF Listed, TradesType
  <2>5. NoTrade.outcome = "none"
    BY DEF NoTrade
  <2> QED BY <2>3, <2>4, <2>5 DEF RecordedIn
<1>3. TypeOK'
  BY <1>1, <1>2 DEF TypeOK
<1>4. Books(file'.state, file'.trade, file'.live_wins)
  BY <1>1, <1>2, BooksOfTheSame DEF TypeOK
<1>5. Unrecorded'
  BY <1>1, <1>2 DEF Unrecorded
<1> QED BY <1>1, <1>3, <1>4, <1>5

\* A restart loads a file that agrees with its trades, or begins again with none.
LEMMA RestartKeepsIInv ==
  ASSUME IInv, Restart
  PROVE  IInv'
<1> USE DEF IInv
<1>1. /\ restarts' = restarts + 1 /\ restarts < MaxRestarts /\ file' \in {file, NoState}
      /\ losses' = [d \in Days |-> 0]
      /\ pc' = [t \in Trades |-> IF pc[t] = "idle" THEN "idle" ELSE "end"]
      /\ UNCHANGED <<today, manual>>
  BY DEF Restart
<1>2. /\ restarts' \in 0..MaxRestarts /\ losses' \in [Days -> Nat]
      /\ pc' \in [Trades -> {"idle", "submit", "end"}]
  BY <1>1, PortfolioConstants DEF TypeOK
<1>3. CASE file' # NoState
  <2>1. /\ file' = file /\ state' = file.state /\ trade' = file.trade
        /\ live_wins' = file.live_wins
    BY <1>1, <1>3 DEF Restart
  <2>2. file \in [state : StateType, trade : TradesType, live_wins : Nat]
    BY <1>3, <2>1 DEF TypeOK
  <2>3. TypeOK'
    BY <1>1, <1>2, <2>1, <2>2 DEF TypeOK
  <2>4. Books(state', trade', live_wins')
    BY <1>3, <2>1
  <2>5. Unrecorded'
    BY <1>1, <1>3, <2>1 DEF Unrecorded, TypeOK
  <2> QED BY <2>1, <2>3, <2>4, <2>5
<1>4. CASE file' = NoState
  <2>1. PICK mode \in StartModes : state' = Fresh(mode)
    BY <1>4 DEF Restart
  <2>2. trade' = [t \in Trades |-> NoTrade] /\ live_wins' = 0
    BY <1>4 DEF Restart
  <2>3. state' \in StateType /\ Books(state', trade', live_wins')
    BY <2>1, <2>2, FreshBooks
  <2>4. trade' \in TradesType /\ \A t \in Trades : trade'[t].outcome = "none"
    BY <2>2 DEF TradesType, NoTrade, Modes, Outcomes
  <2>5. TypeOK'
    BY <1>1, <1>2, <1>4, <2>2, <2>3, <2>4 DEF TypeOK
  <2>6. Unrecorded'
    BY <1>4, <2>4 DEF Unrecorded
  <2> QED BY <1>4, <2>3, <2>5, <2>6
<1> QED BY <1>3, <1>4

\* Every step of the engine.
LEMMA StepKeepsIInv ==
  ASSUME IInv, [Next]_vars
  PROVE  IInv'
<1>1. ASSUME NEW t \in Trades, Execute(t) PROVE IInv'
  BY <1>1, ExecuteKeepsIInv
<1>2. ASSUME NEW t \in Trades, Executed(t) \/ ExecuteRaised(t) PROVE IInv'
  BY <1>2, SubmittedKeepsIInv
<1>3. ASSUME NEW t \in Trades, RecordWin(t) PROVE IInv'
  BY <1>3, RecordWinKeepsIInv
<1>4. ASSUME NEW t \in Trades, RecordLost(t) PROVE IInv'
  BY <1>4, RecordLostKeepsIInv
<1>5. ASSUME NEW mode \in StartModes, SetMode(mode) PROVE IInv'
  BY <1>5, SetModeKeepsIInv
<1>6. CASE SaveState
  BY <1>6, SaveKeepsIInv
<1>7. CASE Restart
  BY <1>7, RestartKeepsIInv
<1>8. CASE NextDay
  BY <1>8 DEF NextDay, IInv, TypeOK, Unrecorded
<1>9. CASE UNCHANGED vars
  BY <1>9 DEF vars, IInv, TypeOK, Unrecorded
<1> QED BY <1>1, <1>2, <1>3, <1>4, <1>5, <1>6, <1>7, <1>8, <1>9 DEF Next

\* The invariant holds in every reachable state.
LEMMA PortfolioInvariant == Spec => []IInv
<1>1. IInv /\ [Next]_vars => IInv'
  BY StepKeepsIInv
<1> QED BY <1>1, PortfolioInit, PTL DEF Spec

\* However calls, outcomes, mode changes, saves and crashes interleave, the types hold (no
\* day's losses are negative) and the counters and the profit are those of the recorded trades.
THEOREM PortfolioLedger == Spec => []PortfolioInv
<1>1. IInv => PortfolioInv
  BY DEF IInv, Books, PortfolioInv, Ledger, Counted, Recorded
<1> QED BY <1>1, PortfolioInvariant, PTL

\* A step of the portfolio engine keeps to the limit.
LEMMA OutcomeStep ==
  ASSUME IInv, [Next]_vars
  PROVE  OutcomeRespectsLimit
<1> SUFFICES ASSUME state'.total # state.total, state'.mode = "AUTONOMOUS"
             PROVE  losses'[today] < DailyLimit
  BY DEF OutcomeRespectsLimit
<1> USE DEF IInv
<1>0. state \in StateType /\ today \in Days
  BY DEF TypeOK
<1>1. ASSUME NEW t \in Trades, RecordWin(t) PROVE losses'[today] < DailyLimit
  <2>1. state' = Settle(Win(state, Gain), losses') /\ Win(state, Gain) \in StateType
    BY <1>0, <1>1, WinFacts DEF RecordWin
  <2> QED BY <2>1, SettleFacts DEF TradingAllowed
<1>2. ASSUME NEW t \in Trades, RecordLost(t) PROVE losses'[today] < DailyLimit
  <2>1. trade[t].cost \in Int
    BY DEF TypeOK, TradesType
  <2>2. /\ state' = Settle(Lose(state, trade[t].cost), losses')
        /\ Lose(state, trade[t].cost) \in StateType
    BY <1>0, <1>2, <2>1, LoseFacts DEF RecordLost
  <2> QED BY <2>2, SettleFacts DEF TradingAllowed
<1>3. CASE Restart
  BY <1>0, <1>3, PortfolioConstants DEF Restart
<1>4. ASSUME NEW t \in Trades, Execute(t) PROVE FALSE
  <2>1. PICK b \in Balances(state) :
          \E size \in PositionSizes([state EXCEPT !.balance = b]) :
            Proceed(t, size, [state EXCEPT !.balance = b])
    BY <1>4 DEF Execute
  <2>2. PICK size \in PositionSizes([state EXCEPT !.balance = b]) :
          Proceed(t, size, [state EXCEPT !.balance = b])
    BY <2>1
  <2> QED BY <1>0, <2>2 DEF Proceed, Downgraded, StateType
<1>5. ASSUME NEW mode \in StartModes, SetMode(mode) PROVE FALSE
  BY <1>0, <1>5 DEF SetMode, StateType
<1> QED BY <1>1, <1>2, <1>3, <1>4, <1>5
        DEF Next, Executed, ExecuteRaised, SaveState, NextDay, vars

\* No outcome leaves the engine in AUTONOMOUS mode while the limit of the day is reached.
THEOREM PortfolioOutcomeRespectsLimit == Spec => [][OutcomeRespectsLimit]_vars
BY OutcomeStep, PortfolioInvariant, PTL DEF Spec

\* A step of the portfolio engine earns its promotion.
LEMMA PromotionStep ==
  ASSUME IInv, [Next]_vars
  PROVE  PromotionIsEarned
<1> SUFFICES ASSUME state.mode = "LIVE_TEST", state'.mode = "AUTONOMOUS",
                    manual' = manual, restarts' = restarts,
                    \A t \in Recorded' : trade[t].mode # "DRY_RUN"
             PROVE  live_wins' >= RequiredWins
  BY DEF PromotionIsEarned
<1> USE DEF IInv
<1>0. /\ state \in StateType /\ trade \in TradesType
      /\ live_wins \in Nat /\ RequiredWins \in Nat \ {0}
  BY PortfolioConstants DEF TypeOK
<1>1. ASSUME NEW t \in Trades, RecordWin(t) PROVE live_wins' >= RequiredWins
  <2>1. /\ state' = Settle(Win(state, Gain), losses') /\ Win(state, Gain) \in StateType
        /\ Win(state, Gain).mode = "LIVE_TEST"
        /\ Win(state, Gain).streak = state.streak + 1
    BY <1>0, <1>1, WinFacts DEF RecordWin
  <2>2. state.streak + 1 >= RequiredWins
    BY <2>1, SettleFacts
  <2>3. /\ trade'[t].outcome = "win"
        /\ \A u \in Trades \ {t} : trade'[u] = trade[u]
    BY <1>0, <1>1 DEF RecordWin, TradesType
  <2>4. t \in Recorded' /\ Recorded \subseteq Recorded'
    BY <2>3 DEF Recorded, RecordedIn
  <2>5. trade[t].mode # "DRY_RUN" /\ state.streak <= live_wins
    BY <2>4 DEF Books, Recorded
  <2>6. live_wins' = live_wins + 1
    BY <1>1, <2>5 DEF RecordWin
  <2>7. state.streak \in Nat
    BY <1>0 DEF StateType
  <2> QED BY <1>0, <2>2, <2>5, <2>6, <2>7
<1>2. ASSUME NEW t \in Trades, RecordLost(t) PROVE FALSE
  <2>1. trade[t].cost \in Int
    BY <1>0 DEF TradesType
  <2>2. /\ state' = Settle(Lose(state, trade[t].cost), losses')
        /\ Lose(state, trade[t].cost) \in StateType
        /\ Lose(state, trade[t].cost).streak = 0
        /\ Lose(state, trade[t].cost).mode = "LIVE_TEST"
    BY <1>0, <1>2, <2>1, LoseFacts DEF RecordLost
  <2>3. 0 >= RequiredWins
    BY <2>2, SettleFacts
  <2> QED BY <1>0, <2>3
<1>3. CASE Restart
  <2>1. restarts \in Nat /\ restarts' = restarts + 1
    BY <1>3, PortfolioConstants DEF Restart, TypeOK
  <2> QED BY <2>1
<1>4. ASSUME NEW t \in Trades, Execute(t) PROVE FALSE
  <2>1. PICK b \in Balances(state) :
          \E size \in PositionSizes([state EXCEPT !.balance = b]) :
            Proceed(t, size, [state EXCEPT !.balance = b])
    BY <1>4 DEF Execute
  <2>2. PICK size \in PositionSizes([state EXCEPT !.balance = b]) :
          Proceed(t, size, [state EXCEPT !.balance = b])
    BY <2>1
  <2> QED BY <1>0, <2>2 DEF Proceed, Downgraded, StateType
<1>5. ASSUME NEW mode \in StartModes, SetMode(mode) PROVE FALSE
  <2>1. manual \in Nat /\ manual' = manual + 1
    BY <1>5, PortfolioConstants DEF SetMode, TypeOK
  <2> QED BY <2>1
<1> QED BY <1>1, <1>2, <1>3, <1>4, <1>5
        DEF Next, Executed, ExecuteRaised, SaveState, NextDay, vars

\* A promotion to AUTONOMOUS has the required live wins behind it, also when they were won
\* before a restart, as long as no recorded trade was a dry run.
THEOREM PortfolioPromotionIsEarned == Spec => [][PromotionIsEarned]_vars
BY PromotionStep, PortfolioInvariant, PTL DEF Spec

-----------------------------------------------------------------------------
(* The token merger                                                        *)

\* An instance of a module has the library's operators under its own name.
LEMMA MergerLibrary ==
  ASSUME NEW f, NEW T
  PROVE  /\ Merger!SumFunctionOnSet(f, T) = SumFunctionOnSet(f, T)
         /\ Merger!Cardinality(T) = Cardinality(T)
         /\ Merger!Max(T) = Max(T) /\ Merger!Min(T) = Min(T)
<1>1. Merger!SumFunctionOnSet(f, T) = SumFunctionOnSet(f, T)
  BY DEF Merger!SumFunctionOnSet, Merger!FoldFunctionOnSet, Merger!MapThenFoldSet,
         SumFunctionOnSet, FoldFunctionOnSet, MapThenFoldSet
<1>2. Merger!Cardinality(T) = Cardinality(T)
  BY DEF Merger!Cardinality, Cardinality
<1>3. Merger!Max(T) = Max(T) /\ Merger!Min(T) = Min(T)
  BY DEF Merger!Max, Max, Merger!Min, Min
<1> QED BY <1>1, <1>2, <1>3

\* The entries of _merge_requests.
MergeRequest == [nonce : Nat, condition : MergeConditions, amount : Nat]

\* The requests for one of the conditions cs.
RequestsOf(cs) == {i \in DOMAIN requests : requests[i].condition \in cs}
AmountOf == [i \in DOMAIN requests |-> requests[i].amount]

\* Inductive: the requests and what was bought are of their types.
MergerIInv ==
  /\ Merger!TypeOK /\ Merger!MergesExplain
  /\ requests \in Seq(MergeRequest) /\ nonce \in Nat
  /\ bought \in [MergeConditions -> Int \X Int]

\* What the history of requests sums to is a whole amount.
LEMMA AmountsType ==
  ASSUME requests \in Seq(MergeRequest), NEW cs
  PROVE  /\ IsFiniteSet(RequestsOf(cs)) /\ Cardinality(RequestsOf(cs)) \in Nat
         /\ Merger!Amounts(cs) = SumFunctionOnSet(AmountOf, RequestsOf(cs))
         /\ Merger!Amounts(cs) \in Int
<1>1. DOMAIN requests = 1..Len(requests) /\ Len(requests) \in Nat
  OBVIOUS
<1>2. IsFiniteSet(RequestsOf(cs)) /\ Cardinality(RequestsOf(cs)) \in Nat
  <2>1. IsFiniteSet(1..Len(requests)) /\ RequestsOf(cs) \subseteq 1..Len(requests)
    BY <1>1, FS_Interval DEF RequestsOf
  <2> QED  BY <2>1, FS_Subset, FS_CardinalityType
<1>3. Merger!Amounts(cs) = SumFunctionOnSet(AmountOf, RequestsOf(cs))
  BY MergerLibrary DEF Merger!Amounts, AmountOf, RequestsOf
<1>4. \A i \in RequestsOf(cs) : AmountOf[i] \in Int
  <2>1. \A i \in DOMAIN requests : requests[i] \in MergeRequest
    OBVIOUS
  <2> QED  BY <2>1 DEF RequestsOf, AmountOf, MergeRequest
<1> QED BY <1>2, <1>3, <1>4, SumType

\* A request added counts towards the conditions it is one of, and only those.
LEMMA AmountsAppend ==
  ASSUME requests \in Seq(MergeRequest), NEW r \in MergeRequest,
         requests' = Append(requests, r), NEW cs
  PROVE  /\ Merger!Amounts(cs)' =
              Merger!Amounts(cs) + (IF r.condition \in cs THEN r.amount ELSE 0)
         /\ Cardinality(RequestsOf(cs))' =
              Cardinality(RequestsOf(cs)) + (IF r.condition \in cs THEN 1 ELSE 0)
<1> DEFINE n == Len(requests) + 1
           old == RequestsOf(cs)
           all == RequestsOf(cs)'
<1>1. /\ requests' \in Seq(MergeRequest) /\ DOMAIN requests' = 1..n
      /\ DOMAIN requests = 1..Len(requests) /\ Len(requests) \in Nat
      /\ requests'[n] = r /\ \A i \in DOMAIN requests : requests'[i] = requests[i]
  OBVIOUS
<1>2. n \notin old
  BY <1>1 DEF RequestsOf
<1>3. all = IF r.condition \in cs THEN old \cup {n} ELSE old
  BY <1>1 DEF RequestsOf
<1>4. /\ IsFiniteSet(old) /\ Cardinality(old) \in Nat
      /\ Merger!Amounts(cs) = SumFunctionOnSet(AmountOf, old)
      /\ Merger!Amounts(cs) \in Int
  BY AmountsType
<1>5. Merger!Amounts(cs)' = SumFunctionOnSet(AmountOf', all)
  <2>1. Merger!Amounts(cs)' = Merger!SumFunctionOnSet(AmountOf', all)
    BY DEF Merger!Amounts, AmountOf, RequestsOf
  <2> QED  BY <2>1, MergerLibrary
<1>6. \A i \in all : AmountOf'[i] \in Int
  <2>1. \A i \in DOMAIN requests' : requests'[i] \in MergeRequest
    BY <1>1
  <2> QED  BY <2>1 DEF RequestsOf, AmountOf, MergeRequest
<1>7. SumFunctionOnSet(AmountOf', old) = SumFunctionOnSet(AmountOf, old)
  <2>1. \A i \in old : AmountOf'[i] = AmountOf[i]
    BY <1>1 DEF RequestsOf, AmountOf
  <2> QED  BY <1>4, <2>1, SumAgree
<1>8. CASE r.condition \in cs
  <2>1. AmountOf'[n] = r.amount /\ r.amount \in Int
    BY <1>1 DEF AmountOf, MergeRequest
  <2>2. \A i \in old \cup {n} : AmountOf'[i] \in Int
    BY <1>3, <1>6, <1>8
  <2> HIDE DEF n, old, all
  <2>3. SumFunctionOnSet(AmountOf', old \cup {n}) = AmountOf'[n] + SumFunctionOnSet(AmountOf', old)
    BY <1>2, <1>4, <2>2, SumInsert
  <2>4. Cardinality(old \cup {n}) = Cardinality(old) + 1
    BY <1>2, <1>4, FS_AddElement
  <2>5. Merger!Amounts(cs)' = Merger!Amounts(cs) + r.amount
    BY <1>3, <1>4, <1>5, <1>7, <1>8, <2>1, <2>3
  <2>6. Cardinality(all) = Cardinality(old) + 1
    BY <1>3, <1>8, <2>4
  <2> QED  BY <1>8, <2>5, <2>6 DEF old, all
<1>9. CASE r.condition \notin cs
  <2> HIDE DEF n
  <2>1. all = old
    BY <1>3, <1>9
  <2>2. Merger!Amounts(cs)' = Merger!Amounts(cs)
    <3> HIDE DEF old, all
    <3> QED  BY <2>1, <1>4, <1>5, <1>7
  <2> QED  BY <1>4, <1>9, <2>1, <2>2
<1> QED BY <1>8, <1>9

\* Nothing is held and nothing merged at first.
LEMMA MergerStart ==
  ASSUME Merger!Init
  PROVE  MergerIInv
<1>1. requests = << >> /\ requests \in Seq(MergeRequest) /\ DOMAIN requests = {}
  BY DEF Merger!Init
<1>2. \A cs : RequestsOf(cs) = {}
  BY <1>1 DEF RequestsOf
<1>3. \A cs : Merger!Amounts(cs) = 0 /\ Cardinality(RequestsOf(cs)) = 0
  BY <1>1, <1>2, AmountsType, SumEmpty, FS_EmptySet
<1>4. Merger!MergesExplain
  <2>1. \A c \in MergeConditions :
          /\ bought[c] = <<yes[c] + merged[c], no[c] + merged[c]>>
          /\ Merger!Opportunity(c) \in {0, Merger!Mergeable(c)}
    BY DEF Merger!Init, Merger!Opportunity
  <2>2. \A c \in MergeConditions : {i \in DOMAIN requests : requests[i].condition = c} = {}
    BY <1>1
  <2>3. Merger!Cardinality({}) = 0
    BY MergerLibrary, FS_EmptySet
  <2>4. usdc = MergeStartingUsdc + Merger!Amounts(MergeConditions)
    BY <1>3, MergeConstants DEF Merger!Init
  <2>5. \A c \in MergeConditions : merged[c] = Merger!Amounts({c}) /\ merger_pending[c] = 0
    BY <1>3 DEF Merger!Init
  <2> QED  BY <1>1, <2>1, <2>2, <2>3, <2>4, <2>5 DEF Merger!MergesExplain
<1> QED BY <1>1, <1>4 DEF MergerIInv, Merger!Init, Merger!TypeOK

\* Of two balances the smaller can be merged; where both are the same, all of it.
LEMMA MergerOffer ==
  ASSUME NEW y \in Nat, NEW n \in Nat
  PROVE  /\ Merger!Min({y, n}) = IF y <= n THEN y ELSE n
         /\ y = n => Merger!Min({y, n}) = y
         /\ Merger!Max({0, y - n}) = IF n >= y THEN 0 ELSE y - n
         /\ Merger!Max({0, y + n}) = y + n
<1>1. y \in Int /\ n \in Int /\ 0 \in Int /\ y - n \in Int /\ y + n \in Int
  OBVIOUS
<1>2. Min({y, n}) = IF y <= n THEN y ELSE n
  BY <1>1, PairBounds
<1>3. Max({0, y - n}) = IF 0 >= y - n THEN 0 ELSE y - n
  BY <1>1, PairBounds
<1>4. Max({0, y + n}) = IF 0 >= y + n THEN 0 ELSE y + n
  BY <1>1, PairBounds
<1> QED BY <1>2, <1>3, <1>4, MergerLibrary

\* A delta leaves a whole balance.
LEMMA MergerClamped ==
  ASSUME NEW y \in Nat, NEW d \in Merger!Deltas
  PROVE  Merger!Clamped(y + d) \in Nat
<1>1. y + d \in Int /\ 0 \in Int
  BY MergeConstants DEF Merger!Deltas
<1>2. Max({0, y + d}) = IF 0 >= y + d THEN 0 ELSE y + d
  BY <1>1, PairBounds
<1> QED BY <1>1, <1>2, MergerLibrary DEF Merger!Clamped

\* update_inventory(): a purchase or a sale of either token.
LEMMA MergerUpdate ==
  ASSUME MergerIInv, NEW c \in MergeConditions,
         NEW yes_delta \in Merger!Deltas, NEW no_delta \in Merger!Deltas,
         Merger!UpdateInventory(c, yes_delta, no_delta)
  PROVE  MergerIInv'
<1>0. /\ yes \in [MergeConditions -> Nat] /\ no \in [MergeConditions -> Nat]
      /\ merger_pending \in [MergeConditions -> Nat] /\ merged \in [MergeConditions -> Nat]
      /\ bought \in [MergeConditions -> Int \X Int] /\ known \subseteq MergeConditions
  BY DEF MergerIInv, Merger!TypeOK
<1>1. /\ merger_pending' = merger_pending /\ merged' = merged /\ usdc' = usdc
      /\ nonce' = nonce /\ requests' = requests /\ known' = known \cup {c}
  BY DEF Merger!UpdateInventory
<1>2. /\ yes' = [yes EXCEPT ![c] = Merger!Clamped(yes[c] + yes_delta)]
      /\ no' = [no EXCEPT ![c] = Merger!Clamped(no[c] + no_delta)]
      /\ bought' = [bought EXCEPT ![c] = <<bought[c][1] + (yes'[c] - yes[c]),
                                           bought[c][2] + (no'[c] - no[c])>>]
  BY DEF Merger!UpdateInventory
<1>3. yes[c] \in Nat /\ no[c] \in Nat
  BY <1>0
<1>4. /\ Merger!Clamped(yes[c] + yes_delta) \in Nat
      /\ Merger!Clamped(no[c] + no_delta) \in Nat
  BY <1>3, MergerClamped
<1>5. yes' \in [MergeConditions -> Nat] /\ no' \in [MergeConditions -> Nat]
  BY <1>0, <1>2, <1>4
<1>6. bought' \in [MergeConditions -> Int \X Int]
  BY <1>0, <1>2, <1>3, <1>5
<1>7. \A d \in MergeConditions :
        /\ bought'[d] = <<yes'[d] + merged'[d], no'[d] + merged'[d]>>
        /\ Merger!Opportunity(d)' \in {0, Merger!Mergeable(d)'}
  <2> SUFFICES ASSUME NEW d \in MergeConditions
               PROVE  /\ bought'[d] = <<yes'[d] + merged'[d], no'[d] + merged'[d]>>
                      /\ Merger!Opportunity(d)' \in {0, Merger!Mergeable(d)'}
    OBVIOUS
  <2>1. bought[d] = <<yes[d] + merged[d], no[d] + merged[d]>>
    BY DEF MergerIInv, Merger!MergesExplain
  <2>2. yes[d] \in Nat /\ no[d] \in Nat /\ merged[d] \in Nat /\ yes'[d] \in Nat /\ no'[d] \in Nat
    BY <1>0, <1>5
  <2>3. bought'[d] = <<yes'[d] + merged'[d], no'[d] + merged'[d]>>
    <3>1. CASE d = c
      <4>1. bought'[d] = <<bought[d][1] + (yes'[d] - yes[d]), bought[d][2] + (no'[d] - no[d])>>
        BY <1>0, <1>2, <3>1
      <4>2. bought[d][1] = yes[d] + merged[d] /\ bought[d][2] = no[d] + merged[d]
        BY <2>1
      <4> QED  BY <1>1, <2>2, <4>1, <4>2
    <3>2. CASE d # c
      BY <1>0, <1>1, <1>2, <2>1, <3>2
    <3> QED  BY <3>1, <3>2
  <2>4. Merger!Opportunity(d)' \in {0, Merger!Mergeable(d)'}
    BY <2>2, MergerOffer DEF Merger!Opportunity, Merger!Mergeable
  <2> QED  BY <2>3, <2>4
<1>8. \A cs : Merger!Amounts(cs)' = Merger!Amounts(cs)
  BY <1>1 DEF Merger!Amounts
<1>9. Merger!MergesExplain'
  <2>1. \A d \in MergeConditions :
          /\ merged'[d] = Merger!Amounts({d})'
          /\ merger_pending'[d] =
               Merger!Cardinality({i \in DOMAIN requests' : requests'[i].condition = d})
    BY <1>1, <1>8 DEF MergerIInv, Merger!MergesExplain
  <2>2. usdc' = MergeStartingUsdc + Merger!Amounts(MergeConditions)'
    BY <1>1, <1>8 DEF MergerIInv, Merger!MergesExplain
  <2>3. \A i \in DOMAIN requests' : requests'[i].nonce = i /\ requests'[i].amount > 0
    BY <1>1 DEF MergerIInv, Merger!MergesExplain
  <2> QED  BY <1>7, <2>1, <2>2, <2>3 DEF Merger!MergesExplain
<1>10. Merger!TypeOK'
  BY <1>0, <1>1, <1>5 DEF MergerIInv, Merger!TypeOK
<1> QED BY <1>1, <1>6, <1>9, <1>10 DEF MergerIInv

\* simulate_merge(): the pair is burnt and the collateral credited.
LEMMA MergerMerge ==
  ASSUME MergerIInv, NEW c \in MergeConditions, Merger!SimulateMerge(c)
  PROVE  MergerIInv'
<1> DEFINE m == Merger!Mergeable(c)
           r == Merger!Payload(c, m)
<1>0. /\ yes \in [MergeConditions -> Nat] /\ no \in [MergeConditions -> Nat]
      /\ merger_pending \in [MergeConditions -> Nat] /\ merged \in [MergeConditions -> Nat]
      /\ bought \in [MergeConditions -> Int \X Int] /\ known \subseteq MergeConditions
      /\ requests \in Seq(MergeRequest) /\ nonce \in Nat /\ Len(requests) = nonce
  BY DEF MergerIInv, Merger!TypeOK
<1>1. yes[c] \in Nat /\ no[c] \in Nat /\ m = IF yes[c] <= no[c] THEN yes[c] ELSE no[c]
  BY <1>0, MergerOffer DEF Merger!Mergeable
<1>2. m \in Nat /\ m > 0 /\ m <= yes[c] /\ m <= no[c]
  BY <1>1 DEF Merger!SimulateMerge
<1>3. r \in MergeRequest /\ r.condition = c /\ r.amount = m /\ r.nonce = nonce + 1
  BY <1>0, <1>2 DEF Merger!Payload, MergeRequest
<1>4. /\ nonce' = nonce + 1 /\ requests' = Append(requests, r)
      /\ yes' = [yes EXCEPT ![c] = yes[c] - m] /\ no' = [no EXCEPT ![c] = no[c] - m]
      /\ merger_pending' = [merger_pending EXCEPT ![c] = merger_pending[c] + 1]
      /\ merged' = [merged EXCEPT ![c] = merged[c] + m]
      /\ usdc' = usdc + m /\ known' = known /\ bought' = bought
  BY DEF Merger!SimulateMerge
<1> HIDE DEF m, r
<1>5. /\ yes' \in [MergeConditions -> Nat] /\ no' \in [MergeConditions -> Nat]
      /\ merger_pending' \in [MergeConditions -> Nat] /\ merged' \in [MergeConditions -> Nat]
  <2>0. merger_pending[c] \in Nat /\ merged[c] \in Nat
    BY <1>0
  <2>1. /\ yes[c] - m \in Nat /\ no[c] - m \in Nat
        /\ merger_pending[c] + 1 \in Nat /\ merged[c] + m \in Nat
    <3>1. yes[c] \in Nat /\ no[c] \in Nat
      BY <1>1
    <3> QED  BY <1>2, <2>0, <3>1
  <2> QED  BY <1>0, <1>4, <2>1
<1>6. /\ requests' \in Seq(MergeRequest) /\ Len(requests') = nonce'
      /\ DOMAIN requests' = 1..(nonce + 1) /\ DOMAIN requests = 1..nonce
      /\ requests'[nonce + 1] = r /\ \A i \in 1..nonce : requests'[i] = requests[i]
  BY <1>0, <1>3, <1>4
<1>7. \A cs : /\ Merger!Amounts(cs)' = Merger!Amounts(cs) + (IF c \in cs THEN m ELSE 0)
              /\ Cardinality(RequestsOf(cs))' =
                   Cardinality(RequestsOf(cs)) + (IF c \in cs THEN 1 ELSE 0)
  BY <1>0, <1>3, <1>4, AmountsAppend
<1>8. \A cs : Merger!Amounts(cs) \in Int
  BY <1>0, AmountsType
<1>9. ASSUME NEW d \in MergeConditions
      PROVE  /\ bought'[d] = <<yes'[d] + merged'[d], no'[d] + merged'[d]>>
             /\ merged'[d] = Merger!Amounts({d})'
             /\ Merger!Opportunity(d)' \in {0, Merger!Mergeable(d)'}
             /\ merger_pending'[d] =
                  Merger!Cardinality({i \in DOMAIN requests' : requests'[i].condition = d})
  <2>1. /\ bought[d] = <<yes[d] + merged[d], no[d] + merged[d]>>
        /\ merged[d] = Merger!Amounts({d})
        /\ merger_pending[d] =
             Merger!Cardinality({i \in DOMAIN requests : requests[i].condition = d})
    BY DEF MergerIInv, Merger!MergesExplain
  <2>2. /\ yes[d] \in Nat /\ no[d] \in Nat /\ merged[d] \in Nat /\ yes'[d] \in Nat
        /\ no'[d] \in Nat /\ merger_pending[d] \in Nat
    BY <1>0, <1>5
  <2>3. bought'[d] = <<yes'[d] + merged'[d], no'[d] + merged'[d]>>
    <3>1. yes'[d] + merged'[d] = yes[d] + merged[d] /\ no'[d] + merged'[d] = no[d] + merged[d]
      <4>1. CASE d = c
        <5>1. yes'[d] = yes[d] - m /\ no'[d] = no[d] - m /\ merged'[d] = merged[d] + m
          BY <1>0, <1>4, <4>1
        <5> QED  BY <1>2, <2>2, <5>1
      <4>2. CASE d # c
        BY <1>0, <1>4, <4>2
      <4> QED  BY <4>1, <4>2
    <3> QED  BY <1>4, <2>1, <3>1
  <2>4. merged'[d] = Merger!Amounts({d})'
    <3>1. Merger!Amounts({d})' = Merger!Amounts({d}) + (IF c \in {d} THEN m ELSE 0)
      BY <1>7
    <3>2. merged'[d] = merged[d] + (IF c \in {d} THEN m ELSE 0)
      <4>1. CASE d = c
        BY <1>0, <1>4, <4>1
      <4>2. CASE d # c
        BY <1>0, <1>4, <2>2, <4>2
      <4> QED  BY <4>1, <4>2
    <3> QED  BY <2>1, <3>1, <3>2
  <2>5. Merger!Opportunity(d)' \in {0, Merger!Mergeable(d)'}
    BY <2>2, MergerOffer DEF Merger!Opportunity, Merger!Mergeable
  <2>6. merger_pending'[d] =
          Merger!Cardinality({i \in DOMAIN requests' : requests'[i].condition = d})
    <3>1. /\ {i \in DOMAIN requests : requests[i].condition = d} = RequestsOf({d})
          /\ {i \in DOMAIN requests' : requests'[i].condition = d} = RequestsOf({d})'
      BY DEF RequestsOf
    <3>2. Cardinality(RequestsOf({d}))' = Cardinality(RequestsOf({d})) + (IF c \in {d} THEN 1 ELSE 0)
      BY <1>7
    <3>3. merger_pending'[d] = merger_pending[d] + (IF c \in {d} THEN 1 ELSE 0)
      BY <1>0, <1>4, <2>2
    <3>4. merger_pending[d] = Cardinality(RequestsOf({d}))
      BY <2>1, <3>1, MergerLibrary
    <3>5. Merger!Cardinality(RequestsOf({d})') = Cardinality(RequestsOf({d})')
      BY MergerLibrary
    <3> QED  BY <3>1, <3>2, <3>3, <3>4, <3>5
  <2> QED  BY <2>3, <2>4, <2>5, <2>6
<1>10. usdc' = MergeStartingUsdc + Merger!Amounts(MergeConditions)'
  <2>1. usdc = MergeStartingUsdc + Merger!Amounts(MergeConditions)
    BY DEF MergerIInv, Merger!MergesExplain
  <2>2. Merger!Amounts(MergeConditions)' = Merger!Amounts(MergeConditions) + m
    <3>1. Merger!Amounts(MergeConditions)' =
            Merger!Amounts(MergeConditions) + (IF c \in MergeConditions THEN m ELSE 0)
      BY <1>7
    <3> QED  BY <3>1
  <2>3. Merger!Amounts(MergeConditions) \in Int /\ MergeStartingUsdc \in Int
    BY <1>8, MergeConstants
  <2> QED  BY <1>2, <1>4, <2>1, <2>2, <2>3
<1>11. \A i \in DOMAIN requests' : requests'[i].nonce = i /\ requests'[i].amount > 0
  <2>1. \A i \in 1..nonce : requests[i].nonce = i /\ requests[i].amount > 0
    BY <1>6 DEF MergerIInv, Merger!MergesExplain
  <2> QED  BY <1>0, <1>2, <1>3, <1>6, <2>1
<1>12. Merger!MergesExplain'
  BY <1>9, <1>10, <1>11 DEF Merger!MergesExplain
<1>13. Merger!TypeOK'
  BY <1>0, <1>4, <1>5, <1>6 DEF Merger!TypeOK
<1> QED BY <1>0, <1>4, <1>6, <1>12, <1>13 DEF MergerIInv

\* Every step of the merger.
LEMMA MergerPreserved ==
  ASSUME MergerIInv, Merger!Next
  PROVE  MergerIInv'
BY MergerUpdate, MergerMerge DEF Merger!Next

-----------------------------------------------------------------------------
(* The hedging simulator                                                   *)

\* The library as the hedging simulator names it.
LEMMA HedgerLibrary ==
  ASSUME NEW f, NEW T
  PROVE  /\ Hedger!SumFunctionOnSet(f, T) = SumFunctionOnSet(f, T)
         /\ Hedger!Cardinality(T) = Cardinality(T)
         /\ Hedger!Min(T) = Min(T)
<1>1. Hedger!SumFunctionOnSet(f, T) = SumFunctionOnSet(f, T)
  BY DEF Hedger!SumFunctionOnSet, Hedger!FoldFunctionOnSet, Hedger!MapThenFoldSet,
         SumFunctionOnSet, FoldFunctionOnSet, MapThenFoldSet
<1>2. Hedger!Cardinality(T) = Cardinality(T)
  BY DEF Hedger!Cardinality, Cardinality
<1>3. Hedger!Min(T) = Min(T)
  BY DEF Hedger!Min, Min
<1> QED BY <1>1, <1>2, <1>3

\* A hedge, its quantity bounded by the largest notional.
HedgeType == [symbol : HedgeSymbols, status : {"open", "closed"}, sign : {-1, 1},
              entry : Nat, exit : Nat, pnl : Int, fees : Int, quantity : 0..HedgeMaxNotional]
\* The running totals.
MetricsType == [hedges : Nat, closed : Nat, pnl : Int, fees : Int]

\* What the prices moved in favour of a hedge while it was open.
MovedBy(h) == h.sign * (h.exit - h.entry) * h.quantity * HedgeDollar
Movements(hs) == [h \in DOMAIN hs |-> MovedBy(hs[h])]
Closed == Hedger!Ids \ Hedger!Open

\* An open hedge with a price offsets its order.
Offsets(h) ==
  hedges[h].entry > 0 => hedges[h].sign * hedges[h].quantity * hedges[h].entry = -exposure[h]

\* The types, with every hedge up to the counter recorded.
HedgerTypes ==
  /\ counter \in 0..MaxHedges
  /\ hedges \in [Hedger!Ids -> HedgeType] /\ exposure \in [Hedger!Ids -> Int]
  /\ metrics \in MetricsType

\* Inductive: result and fees are the price movements of the closed hedges, and an open hedge offsets
\* the exposure it was opened for.
HedgerIInv ==
  /\ HedgerTypes
  /\ metrics.hedges = counter /\ metrics.closed = Cardinality(Closed)
  /\ metrics.pnl + metrics.fees = SumFunctionOnSet(Movements(hedges), Closed)
  /\ promised[1] = promised[2]
  /\ \A h \in Hedger!Open : Offsets(h)

\* The ids are finitely many, and so are the open and the closed ones.
LEMMA HedgeIds ==
  ASSUME HedgerTypes
  PROVE  /\ IsFiniteSet(Hedger!Ids) /\ IsFiniteSet(Hedger!Open) /\ IsFiniteSet(Closed)
         /\ Hedger!Open \subseteq Hedger!Ids /\ Hedger!Ids \ Closed = Hedger!Open
         /\ Cardinality(Closed) \in Nat
<1>1. IsFiniteSet(Hedger!Ids)
  BY FS_Interval DEF HedgerTypes, Hedger!Ids
<1>2. Hedger!Open \subseteq Hedger!Ids /\ Closed \subseteq Hedger!Ids
  BY DEF Hedger!Open, Closed
<1>3. Hedger!Ids \ Closed = Hedger!Open
  BY <1>2 DEF Closed
<1> QED BY <1>1, <1>2, <1>3, FS_Subset, FS_CardinalityType

\* What the prices moved is a whole amount.
LEMMA MovedByType ==
  ASSUME NEW h \in HedgeType
  PROVE  MovedBy(h) \in Int
<1>1. h.sign \in Int /\ h.exit - h.entry \in Int /\ h.quantity \in Int
  BY HedgeConstants DEF HedgeType
<1>2. h.sign * (h.exit - h.entry) \in Int
  BY <1>1
<1>3. h.sign * (h.exit - h.entry) * h.quantity \in Int
  BY <1>1, <1>2
<1> QED BY <1>3, HedgeConstants DEF MovedBy

\* No hedge yet.
LEMMA HedgerStart ==
  ASSUME Hedger!Init
  PROVE  HedgerIInv
<1>1. Hedger!Ids = {} /\ Hedger!Open = {} /\ Closed = {}
  BY DEF Hedger!Init, Hedger!Ids, Hedger!Open, Closed
<1>2. hedges \in [{} -> HedgeType] /\ exposure \in [{} -> Int]
  BY DEF Hedger!Init
<1>3. metrics \in MetricsType
  BY DEF Hedger!Init, MetricsType
<1>4. 0 \in 0..MaxHedges /\ counter = 0
  BY HedgeConstants DEF Hedger!Init
<1> QED
  BY <1>1, <1>2, <1>3, <1>4, SumEmpty, FS_EmptySet DEF Hedger!Init, HedgerIInv, HedgerTypes

\* What is hedged of a notional: whole units, whatever the price.
LEMMA HedgeCapped ==
  ASSUME NEW n \in HedgeNotionals
  PROVE  /\ Hedger!Capped(n) \in HedgeNotionals \cup {HedgeMaxNotional}
         /\ Hedger!Capped(n) \in 0..HedgeMaxNotional
<1>1. n \in Nat /\ HedgeMaxNotional \in Nat
  BY HedgeConstants
<1>2. Min({n, HedgeMaxNotional}) = IF n <= HedgeMaxNotional THEN n ELSE HedgeMaxNotional
  BY <1>1, PairBounds
<1> QED BY <1>1, <1>2, HedgerLibrary DEF Hedger!Capped

\* The capped notional is a whole number of units at each price.
LEMMA HedgeQuantity ==
  ASSUME NEW n \in HedgeNotionals, NEW p \in HedgePrices
  PROVE  /\ Hedger!Capped(n) \div p \in 0..HedgeMaxNotional
         /\ (Hedger!Capped(n) \div p) * p = Hedger!Capped(n)
<1> DEFINE k == Hedger!Capped(n)
<1>1. k \in HedgeNotionals \cup {HedgeMaxNotional} /\ k \in 0..HedgeMaxNotional
  BY HedgeCapped
<1>2. p \in Nat \ {0} /\ k \in Nat
  BY <1>1, HedgeConstants
<1>3. (k \div p) * p = k
  BY <1>1, HedgeConstants
<1>4. k \div p \in Int
  BY <1>2
<1>5. k \div p \in 0..k
  <2> HIDE DEF k
  <2> DEFINE q == k \div p
  <2>1. q \in Int /\ q * p = k
    BY <1>3, <1>4
  <2> HIDE DEF q
  <2>2. q \in 0..k
    BY <1>2, <2>1, Units
  <2> QED  BY <2>2 DEF q
<1> QED BY <1>1, <1>3, <1>5, HedgeConstants

\* create_hedge(): refused without a price, else the next id.
LEMMA HedgerCreate ==
  ASSUME HedgerIInv, NEW symbol \in HedgeSymbols, NEW up \in BOOLEAN,
         NEW notional \in HedgeNotionals, NEW p \in HedgePrices \cup {0},
         Hedger!CreateHedge(symbol, up, notional, p)
  PROVE  HedgerIInv'
<1> DEFINE n == counter + 1
           k == Hedger!Capped(notional)
           q == IF p > 0 THEN k \div p ELSE 0
           sign == IF up THEN -1 ELSE 1
           order == IF up THEN k ELSE -k
           r == [symbol |-> symbol, status |-> "open", sign |-> sign, entry |-> p, exit |-> 0,
                 pnl |-> 0, fees |-> k, quantity |-> q]
<1>0. /\ counter \in Nat /\ counter < MaxHedges /\ MaxHedges \in Nat
      /\ hedges \in [1..counter -> HedgeType] /\ exposure \in [1..counter -> Int]
      /\ metrics \in MetricsType
  BY HedgeConstants DEF HedgerIInv, HedgerTypes, Hedger!Ids, Hedger!CreateHedge
<1>1. /\ counter' = n /\ promised' = promised
      /\ hedges' = [h \in 1..n |-> IF h <= counter THEN hedges[h] ELSE r]
      /\ exposure' = [h \in 1..n |-> IF h <= counter THEN exposure[h] ELSE order]
      /\ metrics' = [metrics EXCEPT !.hedges = metrics.hedges + 1]
  BY DEF Hedger!CreateHedge
<1>2. k \in 0..HedgeMaxNotional /\ k \in Int /\ p \in Nat
  BY HedgeCapped, HedgeConstants
<1>3. q \in 0..HedgeMaxNotional /\ (p > 0 => q * p = k)
  <2>1. CASE p = 0
    BY <2>1, HedgeConstants
  <2>2. CASE p \in HedgePrices
    <3>1. p > 0
      BY <2>2, HedgeConstants
    <3>2. q = k \div p
      BY <3>1
    <3>3. k \div p \in 0..HedgeMaxNotional /\ (k \div p) * p = k
      BY <2>2, HedgeQuantity
    <3> HIDE DEF k, q
    <3> QED  BY <3>2, <3>3
  <2> QED  BY <2>1, <2>2
<1>4. p > 0 => sign * q * p = -order
  <2>1. q \in Int /\ sign \in {-1, 1}
    BY <1>3, HedgeConstants
  <2> SUFFICES ASSUME p > 0 PROVE sign * q * p = -order
    OBVIOUS
  <2>2. q * p = k
    BY <1>3
  <2>3. sign * q * p = sign * k
    <3> HIDE DEF sign, k, q
    <3>1. sign * q * p = sign * (q * p)
      BY <1>2, <2>1
    <3> QED BY <2>2, <3>1
  <2>4. CASE up
    <3>1. sign = -1 /\ order = k
      BY <2>4
    <3> HIDE DEF sign, k, q, order
    <3> QED  BY <1>2, <2>3, <3>1
  <2>5. CASE ~up
    <3>1. sign = 1 /\ order = -k
      BY <2>5
    <3> HIDE DEF sign, k, q, order
    <3> QED  BY <1>2, <2>3, <3>1
  <2> QED BY <2>4, <2>5
<1>5. r \in HedgeType
  BY <1>2, <1>3 DEF HedgeType
<1>6. order \in Int
  BY <1>2
<1>7. /\ r.status = "open" /\ r.entry = p /\ r.sign = sign /\ r.quantity = q
  OBVIOUS
<1> HIDE DEF k, q, sign, order, r
<1>8. /\ hedges' \in [1..n -> HedgeType] /\ exposure' \in [1..n -> Int]
      /\ hedges'[n] = r /\ exposure'[n] = order
      /\ \A h \in 1..counter : hedges'[h] = hedges[h] /\ exposure'[h] = exposure[h]
  BY <1>0, <1>1, <1>5, <1>6
<1>9. /\ Hedger!Ids = 1..counter /\ Hedger!Ids' = 1..n /\ 1..n = (1..counter) \cup {n}
      /\ n \notin 1..counter
  BY <1>0, <1>1 DEF Hedger!Ids
<1>10. Hedger!Open' = Hedger!Open \cup {n} /\ Closed' = Closed
  <2>1. Hedger!Open' = Hedger!Open \cup {n}
    BY <1>7, <1>8, <1>9 DEF Hedger!Open
  <2> QED  BY <1>9, <2>1 DEF Closed, Hedger!Open
<1>11. /\ metrics' \in MetricsType /\ metrics'.hedges = counter + 1
       /\ metrics'.closed = metrics.closed /\ metrics'.pnl = metrics.pnl
       /\ metrics'.fees = metrics.fees
  BY <1>0, <1>1 DEF MetricsType, HedgerIInv
<1>12. SumFunctionOnSet(Movements(hedges)', Closed) = SumFunctionOnSet(Movements(hedges), Closed)
  <2>1. \A h \in Closed : Movements(hedges)'[h] = Movements(hedges)[h]
    BY <1>0, <1>8, <1>9 DEF Movements, Closed
  <2> QED  BY <2>1, HedgeIds, SumAgree DEF HedgerIInv
<1>13. \A h \in Hedger!Open' : Offsets(h)'
  <2> SUFFICES ASSUME NEW h \in Hedger!Open \cup {n} PROVE Offsets(h)'
    BY <1>10
  <2>1. CASE h = n
    BY <1>4, <1>7, <1>8, <2>1 DEF Offsets
  <2>2. CASE h \in Hedger!Open
    BY <1>8, <1>9, <2>2 DEF Offsets, HedgerIInv, Hedger!Open
  <2> QED  BY <2>1, <2>2
<1>14. HedgerTypes'
  BY <1>0, <1>1, <1>8, <1>9, <1>11 DEF HedgerTypes
<1>15. /\ metrics'.hedges = counter' /\ metrics'.closed = Cardinality(Closed')
       /\ metrics'.pnl + metrics'.fees = SumFunctionOnSet(Movements(hedges)', Closed')
       /\ promised'[1] = promised'[2]
  BY <1>1, <1>10, <1>11, <1>12 DEF HedgerIInv
<1> QED BY <1>13, <1>14, <1>15 DEF HedgerIInv

\* Closing a hedge books what the prices moved as profit and fees.
LEMMA HedgeSettled ==
  ASSUME NEW h \in HedgeType, NEW p \in Nat
  PROVE  LET s == Hedger!Settled(h, p)
         IN  /\ s \in HedgeType /\ s.status = "closed"
             /\ s.pnl + s.fees = MovedBy(s)
             /\ MovedBy(s) = Hedger!RawPnl(h, p)
<1> DEFINE s == Hedger!Settled(h, p)
           paid == h.fees + p * h.quantity
           raw == Hedger!RawPnl(h, p)
<1>1. s = [h EXCEPT !.status = "closed", !.exit = p, !.fees = paid, !.pnl = raw - paid]
  BY DEF Hedger!Settled
<1>2. h.fees \in Int /\ h.quantity \in Int /\ h.sign \in Int /\ h.entry \in Int
  BY HedgeConstants DEF HedgeType
<1>3. paid \in Int
  <2>1. p * h.quantity \in Int
    BY <1>2
  <2> QED  BY <1>2, <2>1
<1>4. raw \in Int
  <2>1. h.sign * (p - h.entry) \in Int
    BY <1>2
  <2>2. h.sign * (p - h.entry) * h.quantity \in Int
    BY <1>2, <2>1
  <2> QED  BY <2>2, HedgeConstants DEF Hedger!RawPnl
<1>5. s.sign = h.sign /\ s.entry = h.entry /\ s.quantity = h.quantity /\ s.exit = p
  BY <1>1 DEF HedgeType
<1>6. MovedBy(s) = raw
  BY <1>5 DEF MovedBy, Hedger!RawPnl
<1> HIDE DEF paid, raw
<1>7. s.pnl = raw - paid /\ s.fees = paid /\ s.status = "closed"
  BY <1>1 DEF HedgeType
<1>8. s \in HedgeType
  <2>1. raw - paid \in Int
    BY <1>3, <1>4
  <2> DEFINE t == [h EXCEPT !.status = "closed", !.exit = p, !.fees = paid, !.pnl = raw - paid]
  <2>2. t \in HedgeType
    BY <1>3, <2>1 DEF HedgeType
  <2> HIDE DEF s, t
  <2> QED  BY <1>1, <2>2 DEF t
<1>9. s.pnl + s.fees = raw
  <2> HIDE DEF s
  <2> QED  BY <1>3, <1>4, <1>7
<1> HIDE DEF s
<1>10. s \in HedgeType /\ s.status = "closed" /\ s.pnl + s.fees = MovedBy(s) /\ MovedBy(s) = raw
  BY <1>6, <1>7, <1>8, <1>9
<1> QED  BY <1>10 DEF s, raw

\* The part of the invariant that does not speak of the promise.
HedgerBooks ==
  /\ HedgerTypes
  /\ metrics.hedges = counter /\ metrics.closed = Cardinality(Closed)
  /\ metrics.pnl + metrics.fees = SumFunctionOnSet(Movements(hedges), Closed)
  /\ \A h \in Hedger!Open : Offsets(h)

\* Closing any set of hedges moves result and fees by just their price movements.
LEMMA HedgerClose ==
  ASSUME HedgerBooks, NEW hs \in SUBSET Hedger!Open, NEW price_of \in [HedgeSymbols -> Nat],
         Hedger!Close(hs, price_of)
  PROVE  /\ HedgerBooks'
         /\ (metrics'.pnl - metrics.pnl) + (metrics'.fees - metrics.fees) =
              SumFunctionOnSet(
                [h \in hs |-> Hedger!RawPnl(hedges[h], Hedger!Price(h, price_of))], hs)
<1> DEFINE pnls == [h \in hs |-> hedges'[h].pnl]
           fees == [h \in hs |-> hedges'[h].fees]
           moved == Movements(hedges)'
           raws == [h \in hs |-> Hedger!RawPnl(hedges[h], Hedger!Price(h, price_of))]
<1>0. /\ counter \in 0..MaxHedges /\ metrics \in MetricsType
      /\ hedges \in [Hedger!Ids -> HedgeType] /\ exposure \in [Hedger!Ids -> Int]
  BY DEF HedgerBooks, HedgerTypes
<1>1. /\ counter' = counter /\ exposure' = exposure /\ Hedger!Ids' = Hedger!Ids
      /\ hedges' = [h \in Hedger!Ids |->
           IF h \in hs THEN Hedger!Settled(hedges[h], Hedger!Price(h, price_of)) ELSE hedges[h]]
  BY DEF Hedger!Close, Hedger!Ids
<1>2. /\ IsFiniteSet(Hedger!Ids) /\ IsFiniteSet(Hedger!Open) /\ IsFiniteSet(Closed)
      /\ Hedger!Open \subseteq Hedger!Ids /\ Cardinality(Closed) \in Nat
  BY HedgeIds DEF HedgerBooks
<1>3. IsFiniteSet(hs) /\ hs \subseteq Hedger!Ids /\ Cardinality(hs) \in Nat /\ hs \cap Closed = {}
  BY <1>2, FS_Subset, FS_CardinalityType DEF Closed
<1>4. metrics' = [metrics EXCEPT !.closed = metrics.closed + Cardinality(hs),
                                 !.pnl = metrics.pnl + SumFunctionOnSet(pnls, hs),
                                 !.fees = metrics.fees + SumFunctionOnSet(fees, hs)]
  BY HedgerLibrary DEF Hedger!Close
<1>5. ASSUME NEW h \in hs
      PROVE  /\ hedges'[h] \in HedgeType /\ hedges'[h].status = "closed"
             /\ hedges'[h].pnl + hedges'[h].fees = MovedBy(hedges'[h])
             /\ MovedBy(hedges'[h]) = raws[h]
  <2> DEFINE p == Hedger!Price(h, price_of)
  <2>1. hedges[h] \in HedgeType
    BY <1>0, <1>3
  <2>2. p \in Nat
    <3>1. hedges[h].symbol \in HedgeSymbols /\ hedges[h].entry \in Nat
      BY <2>1 DEF HedgeType
    <3> QED  BY <3>1 DEF Hedger!Price
  <2>3. hedges'[h] = Hedger!Settled(hedges[h], p)
    BY <1>1, <1>3
  <2>4. raws[h] = Hedger!RawPnl(hedges[h], p)
    OBVIOUS
  <2> HIDE DEF p, raws
  <2> QED  BY <2>1, <2>2, <2>3, <2>4, HedgeSettled
<1>6. \A h \in Hedger!Ids \ hs : hedges'[h] = hedges[h]
  BY <1>1
<1>7. hedges' \in [Hedger!Ids -> HedgeType]
  <2>1. \A h \in Hedger!Ids : hedges'[h] \in HedgeType
    BY <1>0, <1>5, <1>6
  <2>2. hedges' = [h \in Hedger!Ids |-> hedges'[h]]
    BY <1>1
  <2> QED  BY <2>1, <2>2
<1>8. Hedger!Open' = Hedger!Open \ hs /\ Closed' = Closed \cup hs
  <2>1. Hedger!Open' = Hedger!Open \ hs
    BY <1>1, <1>3, <1>5, <1>6 DEF Hedger!Open
  <2> QED  BY <1>1, <1>2, <1>3, <2>1 DEF Closed
<1>9. \A h \in hs : /\ pnls[h] \in Int /\ fees[h] \in Int /\ moved[h] \in Int
                    /\ moved[h] = pnls[h] + fees[h] /\ raws[h] = moved[h]
  <2> SUFFICES ASSUME NEW h \in hs
               PROVE  /\ pnls[h] \in Int /\ fees[h] \in Int /\ moved[h] \in Int
                      /\ moved[h] = pnls[h] + fees[h] /\ raws[h] = moved[h]
    OBVIOUS
  <2>1. pnls[h] = hedges'[h].pnl /\ fees[h] = hedges'[h].fees
    OBVIOUS
  <2>2. moved[h] = MovedBy(hedges'[h])
    BY <1>3, <1>7 DEF Movements
  <2>3. pnls[h] \in Int /\ fees[h] \in Int
    BY <1>5, <2>1 DEF HedgeType
  <2> HIDE DEF pnls, fees, moved, raws
  <2>4. moved[h] = pnls[h] + fees[h] /\ raws[h] = moved[h]
    BY <1>5, <2>1, <2>2
  <2> QED  BY <2>3, <2>4
<1>10. /\ SumFunctionOnSet(moved, hs) = SumFunctionOnSet(pnls, hs) + SumFunctionOnSet(fees, hs)
       /\ SumFunctionOnSet(raws, hs) = SumFunctionOnSet(moved, hs)
       /\ SumFunctionOnSet(pnls, hs) \in Int /\ SumFunctionOnSet(fees, hs) \in Int
  <2> HIDE DEF pnls, fees, moved, raws
  <2>1. SumFunctionOnSet(moved, hs) = SumFunctionOnSet(pnls, hs) + SumFunctionOnSet(fees, hs)
    BY <1>3, <1>9, SumAdd
  <2>2. SumFunctionOnSet(raws, hs) = SumFunctionOnSet(moved, hs)
    BY <1>3, <1>9, SumAgree
  <2>3. SumFunctionOnSet(pnls, hs) \in Int /\ SumFunctionOnSet(fees, hs) \in Int
    BY <1>3, <1>9, SumType
  <2> QED  BY <2>1, <2>2, <2>3
<1>11. \A h \in Closed : moved[h] = Movements(hedges)[h] /\ moved[h] \in Int
  <2> SUFFICES ASSUME NEW h \in Closed
               PROVE  moved[h] = Movements(hedges)[h] /\ moved[h] \in Int
    OBVIOUS
  <2>1. h \in Hedger!Ids /\ hedges'[h] = hedges[h] /\ hedges[h] \in HedgeType
    BY <1>0, <1>3, <1>6 DEF Closed
  <2> QED  BY <1>0, <1>7, <2>1, MovedByType DEF Movements
<1>12. SumFunctionOnSet(moved, Closed \cup hs) =
         SumFunctionOnSet(Movements(hedges), Closed) + SumFunctionOnSet(moved, hs)
  <2> HIDE DEF moved
  <2>1. SumFunctionOnSet(moved, Closed) = SumFunctionOnSet(Movements(hedges), Closed)
    BY <1>2, <1>11, SumAgree
  <2>2. \A h \in Closed \cup hs : moved[h] \in Int
    BY <1>9, <1>11
  <2>3. Closed \cap hs = {}
    BY <1>3
  <2>4. SumFunctionOnSet(moved, Closed \cup hs) =
          SumFunctionOnSet(moved, Closed) + SumFunctionOnSet(moved, hs)
    BY <1>2, <1>3, <2>2, <2>3, SumUnion
  <2> QED  BY <2>1, <2>4
<1> DEFINE a == SumFunctionOnSet(pnls, hs)
           b == SumFunctionOnSet(fees, hs)
<1>13. a \in Int /\ b \in Int /\ SumFunctionOnSet(moved, hs) = a + b
       /\ SumFunctionOnSet(raws, hs) = a + b
  BY <1>10
<1>14. metrics' = [metrics EXCEPT !.closed = metrics.closed + Cardinality(hs),
                                  !.pnl = metrics.pnl + a, !.fees = metrics.fees + b]
  BY <1>4
<1> HIDE DEF pnls, fees, moved, raws, a, b
<1>15. /\ metrics.pnl \in Int /\ metrics.fees \in Int /\ metrics.closed \in Nat
       /\ metrics'.pnl = metrics.pnl + a /\ metrics'.fees = metrics.fees + b
       /\ metrics'.closed = metrics.closed + Cardinality(hs)
       /\ metrics'.hedges = metrics.hedges
  BY <1>0, <1>14 DEF MetricsType
<1>16. metrics' \in MetricsType
  <2>1. metrics.pnl + a \in Int /\ metrics.fees + b \in Int
        /\ metrics.closed + Cardinality(hs) \in Nat
    BY <1>3, <1>13, <1>15
  <2> QED  BY <1>0, <1>14, <2>1 DEF MetricsType
<1>17. metrics'.closed = Cardinality(Closed')
  <2>1. Cardinality(Closed \cup hs) = Cardinality(Closed) + Cardinality(hs)
    <3>1. Closed \cap hs = {}
      BY <1>3
    <3>2. Cardinality(Closed \cap hs) = 0
      BY <3>1, FS_EmptySet
    <3>3. Cardinality(Closed \cup hs) =
            Cardinality(Closed) + Cardinality(hs) - Cardinality(Closed \cap hs)
      BY <1>2, <1>3, FS_Union
    <3> QED  BY <1>2, <1>3, <3>2, <3>3
  <2> QED  BY <1>8, <1>15, <2>1 DEF HedgerBooks
<1>18. metrics'.pnl + metrics'.fees = SumFunctionOnSet(moved, Closed')
  <2>1. metrics.pnl + metrics.fees = SumFunctionOnSet(Movements(hedges), Closed)
    BY DEF HedgerBooks
  <2>2. SumFunctionOnSet(moved, Closed') = (metrics.pnl + metrics.fees) + (a + b)
    BY <1>8, <1>12, <1>13, <2>1
  <2> QED  BY <1>13, <1>15, <2>2
<1>19. \A h \in Hedger!Open' : Offsets(h)'
  BY <1>1, <1>2, <1>6, <1>8 DEF HedgerBooks, Offsets
<1>20. HedgerTypes'
  BY <1>0, <1>1, <1>7, <1>16 DEF HedgerTypes
<1>21. (metrics'.pnl - metrics.pnl) + (metrics'.fees - metrics.fees) = SumFunctionOnSet(raws, hs)
  BY <1>13, <1>15
<1>22. metrics'.hedges = counter'
  BY <1>1, <1>15 DEF HedgerBooks
<1>23. HedgerBooks'
  BY <1>17, <1>18, <1>19, <1>20, <1>22 DEF HedgerBooks, moved
<1> QED  BY <1>21, <1>23 DEF raws

\* Every step of the simulator.
LEMMA HedgerPreserved ==
  ASSUME HedgerIInv, Hedger!Next
  PROVE  HedgerIInv'
<1>0. HedgerBooks
  BY DEF HedgerIInv, HedgerBooks
<1>1. ASSUME NEW s \in HedgeSymbols, NEW up \in BOOLEAN, NEW n \in HedgeNotionals,
             NEW p \in HedgePrices \cup {0}, Hedger!CreateHedge(s, up, n, p)
      PROVE  HedgerIInv'
  BY <1>1, HedgerCreate
<1>2. ASSUME NEW h \in Hedger!Open, NEW p \in HedgePrices, Hedger!CloseHedge(h, p)
      PROVE  HedgerIInv'
  <2> DEFINE hs == {h} \cap Hedger!Open
             price_of == [s \in HedgeSymbols |-> p]
  <2>1. Hedger!Close(hs, price_of) /\ promised' = promised
    BY <1>2 DEF Hedger!CloseHedge
  <2>2. hs \in SUBSET Hedger!Open /\ price_of \in [HedgeSymbols -> Nat]
    BY HedgeConstants
  <2> HIDE DEF hs, price_of
  <2>3. HedgerBooks'
    BY <1>0, <2>1, <2>2, HedgerClose
  <2> QED  BY <2>1, <2>3 DEF HedgerIInv, HedgerBooks
<1>3. ASSUME NEW price_of \in [HedgeSymbols -> HedgePrices \cup {0}],
             Hedger!CloseAllHedges(price_of)
      PROVE  HedgerIInv'
  <2>1. price_of \in [HedgeSymbols -> Nat]
    <3>1. HedgePrices \cup {0} \subseteq Nat
      BY HedgeConstants
    <3> QED  BY <3>1
  <2>2. Hedger!Close(Hedger!Open, price_of)
    BY <1>3 DEF Hedger!CloseAllHedges
  <2>3. /\ HedgerBooks'
        /\ (metrics'.pnl - metrics.pnl) + (metrics'.fees - metrics.fees) =
             SumFunctionOnSet([h \in Hedger!Open |->
               Hedger!RawPnl(hedges[h], Hedger!Price(h, price_of))], Hedger!Open)
    BY <1>0, <2>1, <2>2, HedgerClose
  <2>4. Hedger!UnrealizedPnl(price_of) =
          (metrics'.pnl - metrics.pnl) + (metrics'.fees - metrics.fees)
    BY <2>3, HedgerLibrary DEF Hedger!UnrealizedPnl
  <2>5. promised' = <<Hedger!UnrealizedPnl(price_of),
                      (metrics'.pnl - metrics.pnl) + (metrics'.fees - metrics.fees)>>
    BY <1>3 DEF Hedger!CloseAllHedges
  <2> QED  BY <2>3, <2>4, <2>5 DEF HedgerIInv, HedgerBooks
<1> QED BY <1>1, <1>2, <1>3 DEF Hedger!Next

\* The invariant is as strong as the properties the run checks.
LEMMA HedgerProperties ==
  ASSUME HedgerIInv
  PROVE  Hedger!TypeOK /\ Hedger!MetricsExplained /\ Hedger!HedgesOffset
<1>0. /\ HedgerTypes /\ hedges \in [Hedger!Ids -> HedgeType]
      /\ exposure \in [Hedger!Ids -> Int]
  BY DEF HedgerIInv, HedgerTypes
<1>1. /\ IsFiniteSet(Hedger!Open) /\ IsFiniteSet(Closed) /\ Hedger!Open \subseteq Hedger!Ids
  BY <1>0, HedgeIds
<1>2. Hedger!TypeOK
  <2>1. \A h \in Hedger!Ids : hedges[h] \in HedgeType
    BY <1>0
  <2>2. \A h \in Hedger!Ids : /\ hedges[h].symbol \in HedgeSymbols
                              /\ hedges[h].status \in {"open", "closed"}
                              /\ hedges[h].quantity \in 0..HedgeMaxNotional
    BY <2>1 DEF HedgeType
  <2> QED  BY <1>0, <2>2 DEF HedgerTypes, Hedger!TypeOK
<1>3. Hedger!MetricsExplained
  <2> DEFINE moved == [h \in Closed |-> hedges[h].sign * (hedges[h].exit - hedges[h].entry)
                                          * hedges[h].quantity * HedgeDollar]
  <2>1. \A h \in Closed : moved[h] = Movements(hedges)[h]
    BY <1>0 DEF Movements, MovedBy, Closed
  <2>2. SumFunctionOnSet(moved, Closed) = SumFunctionOnSet(Movements(hedges), Closed)
    <3> HIDE DEF moved
    <3> QED  BY <1>1, <2>1, SumAgree
  <2>3. Hedger!SumFunctionOnSet(moved, Closed) = SumFunctionOnSet(moved, Closed)
    BY HedgerLibrary
  <2>4. Hedger!Cardinality(Closed) = Cardinality(Closed)
    BY HedgerLibrary
  <2>5. metrics.pnl + metrics.fees = Hedger!SumFunctionOnSet(moved, Closed)
    <3> HIDE DEF moved
    <3> QED  BY <2>2, <2>3 DEF HedgerIInv
  <2>6. metrics.hedges = counter /\ metrics.closed = Hedger!Cardinality(Closed)
    BY <2>4 DEF HedgerIInv
  <2> QED  BY <2>5, <2>6 DEF Hedger!MetricsExplained, Closed
<1>4. Hedger!HedgesOffset
  <2> DEFINE priced == {h \in Hedger!Open : hedges[h].entry > 0}
             nowhere == [s \in HedgeSymbols |-> 0]
             delta == [h \in priced |->
                        hedges[h].sign * hedges[h].quantity * Hedger!Price(h, nowhere)]
  <2>1. IsFiniteSet(priced) /\ priced \subseteq Hedger!Ids
    BY <1>1, FS_Subset
  <2>2. \A h \in priced : delta[h] \in Int /\ exposure[h] \in Int /\ delta[h] + exposure[h] = 0
    <3> SUFFICES ASSUME NEW h \in priced
                 PROVE  delta[h] \in Int /\ exposure[h] \in Int /\ delta[h] + exposure[h] = 0
      OBVIOUS
    <3>1. hedges[h] \in HedgeType /\ exposure[h] \in Int /\ h \in Hedger!Open
      BY <1>0, <2>1
    <3>2. Hedger!Price(h, nowhere) = hedges[h].entry
      BY <3>1 DEF HedgeType, Hedger!Price
    <3>3. hedges[h].sign * hedges[h].quantity * hedges[h].entry = -exposure[h]
      BY <3>1 DEF HedgerIInv, Offsets
    <3>4. delta[h] = -exposure[h]
      BY <3>2, <3>3
    <3> HIDE DEF delta
    <3> QED  BY <3>1, <3>4
  <2>3. Hedger!NetDelta(nowhere, priced) = SumFunctionOnSet(delta, priced)
    BY HedgerLibrary DEF Hedger!NetDelta
  <2>4. SumFunctionOnSet(delta, priced) = -SumFunctionOnSet(exposure, priced)
    <3> HIDE DEF delta, priced
    <3> QED  BY <2>1, <2>2, SumCancel
  <2>5. Hedger!SumFunctionOnSet(exposure, priced) = SumFunctionOnSet(exposure, priced)
    BY HedgerLibrary
  <2>6. Hedger!NetDelta(nowhere, priced) = -Hedger!SumFunctionOnSet(exposure, priced)
    <3> HIDE DEF delta, priced, nowhere
    <3> QED  BY <2>3, <2>4, <2>5
  <2> QED  BY <2>6 DEF Hedger!HedgesOffset, HedgerIInv
<1> QED BY <1>2, <1>3, <1>4

-----------------------------------------------------------------------------
(* The environment of the learning agent                                   *)

\* What an episode of the environment keeps: the three accounts, quotes that do not cross, and
\* an episode that goes on within its limits.
EnvIInv ==
  /\ Env!TypeOK /\ Env!RewardsTelescope /\ Env!LongPnlIsExact /\ Env!QuotesAndLimits
  /\ position \in Int /\ cash \in Int /\ env_size \in Int
  /\ ~done => steps < EnvMaxSteps

\* A positive bid is below a positive ask.
LEMMA QuotesApart ==
  ASSUME NEW p \in Nat \ {0}, NEW w \in Nat \ {0}
  PROVE  /\ Env!Bid(p, w) \in Int /\ Env!Ask(p, w) \in Int
         /\ Env!Bid(p, w) < Env!Ask(p, w)
<1>1. p * w \in Nat \ {0}
  BY ProductPositive
<1>2. p * (20000 - w) = p * 20000 - p * w /\ p * (20000 + w) = p * 20000 + p * w
  OBVIOUS
<1>3. p * 20000 \in Int
  OBVIOUS
<1> QED BY <1>1, <1>2, <1>3 DEF Env!Bid, Env!Ask, Env!Scale

\* The first episode starts with no position.
LEMMA EnvStart ==
  ASSUME Env!Init PROVE EnvIInv
<1>1. mid \in Nat \ {0} /\ bid \in Int /\ ask \in Int /\ bid < ask
  BY EnvConstants, QuotesApart DEF Env!Init
<1>2. Env!Value(mid) = EnvInitialCash
  BY <1>1, EnvConstants DEF Env!Init, Env!Value, Env!Scale
<1>3. Env!TypeOK
  <2>1. 0 \in 0..EnvMaxSteps /\ 1 \in 1..EnvMaxEpisodes
    BY EnvConstants
  <2> QED  BY <2>1, EnvConstants DEF Env!Init, Env!TypeOK
<1> QED
  BY <1>1, <1>2, <1>3, EnvConstants DEF Env!Init, EnvIInv, Env!RewardsTelescope,
    Env!LongPnlIsExact, Env!QuotesAndLimits

\* The library as the environment names it.
LEMMA EnvLibrary ==
  ASSUME NEW T
  PROVE  Env!Max(T) = Max(T) /\ Env!Min(T) = Min(T)
BY DEF Env!Max, Max, Env!Min, Min

\* An action makes quotes around the last mid price that do not cross.
LEMMA EnvQuotes ==
  ASSUME EnvIInv, NEW action, Env!ApplyAction(action)
  PROVE  /\ spread' \in EnvMinSpread..EnvMaxSpread /\ env_size' \in Int
         /\ bid' \in Int /\ ask' \in Int
         /\ bid' > 0 /\ ask' > 0 => bid' < ask'
<1>0. spread \in EnvMinSpread..EnvMaxSpread /\ mid \in Nat \ {0} /\ env_size \in Int
  BY EnvConstants DEF EnvIInv, Env!TypeOK
<1>1. spread' \in EnvMinSpread..EnvMaxSpread
  <2>1. /\ Env!Max({EnvMinSpread, spread - 2}) \in EnvMinSpread..EnvMaxSpread
        /\ Env!Min({EnvMaxSpread, spread + 2}) \in EnvMinSpread..EnvMaxSpread
    <3>1. /\ EnvMinSpread \in Int /\ spread - 2 \in Int /\ EnvMaxSpread \in Int
          /\ spread + 2 \in Int
      BY <1>0, EnvConstants
    <3>2. Env!Max({EnvMinSpread, spread - 2}) =
            IF EnvMinSpread >= spread - 2 THEN EnvMinSpread ELSE spread - 2
      BY <3>1, PairBounds, EnvLibrary
    <3>3. Env!Min({EnvMaxSpread, spread + 2}) =
            IF EnvMaxSpread <= spread + 2 THEN EnvMaxSpread ELSE spread + 2
      BY <3>1, PairBounds, EnvLibrary
    <3> QED  BY <1>0, <3>2, <3>3, EnvConstants
  <2> QED  BY <1>0, <2>1 DEF Env!ApplyAction
<1>2. env_size' \in Int
  <2>1. (env_size * 11) \div 10 \in Int /\ (env_size * 9) \div 10 \in Int
    BY <1>0
  <2> QED  BY <1>0, <2>1 DEF Env!ApplyAction
<1>3. spread' \in Nat \ {0}
  BY <1>1, EnvConstants
<1>4. /\ Env!Bid(mid, spread') \in Int /\ Env!Ask(mid, spread') \in Int
      /\ Env!Bid(mid, spread') < Env!Ask(mid, spread')
  BY <1>0, <1>3, QuotesApart
<1>5. bid' \in {0, Env!Bid(mid, spread')} /\ ask' \in {0, Env!Ask(mid, spread')}
  BY DEF Env!ApplyAction
<1> QED BY <1>1, <1>2, <1>4, <1>5

\* Money in and out of one fill is an integer.
LEMMA EnvMoney ==
  ASSUME bid' \in Int, ask' \in Int, env_size' \in Int, NEW buys, NEW sells
  PROVE  Env!Proceeds(buys, sells) \in Int
<1>1. bid' * env_size' \in Int /\ ask' * env_size' \in Int
  BY ProductType
<1> QED BY <1>1 DEF Env!Proceeds

\* The value of integers is an integer.
LEMMA EnvValueType ==
  ASSUME NEW p \in Int, NEW c \in Int, NEW m \in Int
  PROVE  /\ c + p * m * 20000 \in Int
         /\ m * 20000 * p - (EnvInitialCash - c) = (c + p * m * 20000) - EnvInitialCash
<1>1. m * 20000 * p = p * m * 20000 /\ p * m * 20000 \in Int
  OBVIOUS
<1> QED BY <1>1, EnvConstants

\* step(): the action, the fills and the reward.
LEMMA EnvStep ==
  ASSUME EnvIInv, NEW new_mid \in EnvMids, NEW action \in Env!Actions,
         Env!Step(action, new_mid)
  PROVE  EnvIInv'
<1>0. /\ mid \in Nat \ {0} /\ new_mid \in Nat \ {0} /\ mid' = new_mid
      /\ position \in Int /\ cash \in Int /\ ~done
      /\ steps \in Nat /\ steps < EnvMaxSteps /\ steps' = steps + 1
      /\ episodes \in 1..EnvMaxEpisodes /\ episodes' = episodes
  BY EnvConstants DEF EnvIInv, Env!TypeOK, Env!Step
<1>1. /\ spread' \in EnvMinSpread..EnvMaxSpread /\ env_size' \in Int
      /\ bid' \in Int /\ ask' \in Int
      /\ bid' > 0 /\ ask' > 0 => bid' < ask'
  BY EnvQuotes DEF Env!Step
<1>2. Env!Fill(new_mid)
  BY DEF Env!Step
<1>3. PICK buys \in Env!Outcomes(bid', new_mid * Env!Scale <= bid', new_mid),
           sells \in Env!Outcomes(ask', new_mid * Env!Scale >= ask', new_mid) :
        /\ position' = position + (IF buys THEN env_size' ELSE 0)
                                - (IF sells THEN env_size' ELSE 0)
        /\ cash' = cash + Env!Proceeds(buys, sells)
        /\ filled' = (IF buys THEN {"buy"} ELSE {}) \cup (IF sells THEN {"sell"} ELSE {})
  BY <1>2 DEF Env!Fill
<1>4. buys \in BOOLEAN /\ sells \in BOOLEAN
  BY ZenonT(60) DEF Env!Outcomes
<1>5. ~(buys /\ sells)
  <2> SUFFICES ASSUME buys = TRUE, sells = TRUE PROVE FALSE
    BY <1>4
  <2>1. bid' > 0 /\ new_mid * Env!Scale <= bid'
    BY DEF Env!Outcomes
  <2>2. ask' > 0 /\ new_mid * Env!Scale >= ask'
    BY DEF Env!Outcomes
  <2>3. new_mid * Env!Scale \in Int
    BY <1>0 DEF Env!Scale
  <2> QED  BY <1>1, <2>1, <2>2, <2>3
<1>6. position' \in Int /\ cash' \in Int
  BY <1>0, <1>1, <1>3, EnvMoney
<1>7. Env!Value(mid) \in Int /\ Env!Value(mid)' \in Int
  BY <1>0, <1>6, EnvValueType DEF Env!Value, Env!Scale
<1>8. Env!RewardsTelescope'
  <2>1. total_reward' = total_reward + (Env!Value(mid)' - Env!Value(mid))
    BY DEF Env!Step, Env!PreviousValue
  <2> QED  BY <1>7, <2>1, EnvConstants DEF EnvIInv, Env!RewardsTelescope
<1>9. Env!LongPnlIsExact'
  <2> SUFFICES ASSUME position' > 0
               PROVE  unrealized' = Env!Value(mid)' - EnvInitialCash
    BY DEF Env!LongPnlIsExact
  <2>1. unrealized' = mid' * 20000 * position' - (EnvInitialCash - cash')
    BY <1>6 DEF Env!Step, Env!Unrealized, Env!Scale
  <2>2. mid' * 20000 * position' - (EnvInitialCash - cash') =
          (cash' + position' * mid' * 20000) - EnvInitialCash
    BY <1>0, <1>6, EnvValueType
  <2> QED  BY <2>1, <2>2 DEF Env!Value, Env!Scale
<1>10. done' = Env!CheckDone
  BY DEF Env!Step
<1>11. Env!QuotesAndLimits'
  <2>1. filled' # {"buy", "sell"}
    <3>1. filled' \in {{"buy"}, {"sell"}, {}}
      BY <1>3, <1>4, <1>5
    <3> QED  BY <3>1
  <2>2. ~done' => /\ 2 * Env!Value(mid)' >= EnvInitialCash
                  /\ position' \in (0 - EnvMaxPosition)..EnvMaxPosition
    BY <1>6, <1>7, <1>10, EnvConstants DEF Env!CheckDone
  <2> QED  BY <1>1, <2>1, <2>2 DEF Env!QuotesAndLimits
<1>12. Env!TypeOK' /\ (~done' => steps' < EnvMaxSteps)
  BY <1>0, <1>1, <1>10, EnvConstants DEF Env!CheckDone, Env!TypeOK
<1> QED
  BY <1>1, <1>6, <1>8, <1>9, <1>11, <1>12 DEF EnvIInv

\* reset(): a new episode.
LEMMA EnvReset ==
  ASSUME EnvIInv, NEW new_mid \in EnvMids, Env!Reset(new_mid)
  PROVE  EnvIInv'
<1>1. mid' \in Nat \ {0} /\ bid' \in Int /\ ask' \in Int /\ bid' < ask'
  BY EnvConstants, QuotesApart DEF Env!Reset
<1>2. Env!Value(mid)' = EnvInitialCash
  BY <1>1, EnvConstants DEF Env!Reset, Env!Value, Env!Scale
<1>3. Env!TypeOK'
  <2>1. 0 \in 0..EnvMaxSteps /\ episodes' \in 1..EnvMaxEpisodes
    BY EnvConstants DEF EnvIInv, Env!TypeOK, Env!Reset
  <2> QED  BY <2>1, EnvConstants DEF Env!Reset, Env!TypeOK
<1>4. /\ Env!RewardsTelescope' /\ Env!LongPnlIsExact'
  BY <1>2, EnvConstants DEF Env!Reset, Env!RewardsTelescope, Env!LongPnlIsExact
<1>5. Env!QuotesAndLimits'
  BY <1>1, <1>2, EnvConstants DEF Env!Reset, Env!QuotesAndLimits
<1> QED
  BY <1>3, <1>4, <1>5, EnvConstants DEF EnvIInv, Env!Reset

\* Every step of the environment.
LEMMA EnvPreserved ==
  ASSUME EnvIInv, Env!Next
  PROVE  EnvIInv'
BY EnvStep, EnvReset DEF Env!Next

-----------------------------------------------------------------------------
(* The drawdown breaker                                                    *)

\* The library as the breaker names it.
LEMMA RiskLibrary ==
  ASSUME NEW T
  PROVE  Risk!Max(T) = Max(T)
BY DEF Risk!Max, Max

\* The entries of the equity curve.
Snapshot == [equity : RiskEquities, time : Nat]

\* The breaker remembers the highest equity it saw; the calculator's peak is above every
\* snapshot, and one of them or the initial capital until the window has lost one.
RiskIInv ==
  /\ Risk!TypeOK /\ Risk!ArmedMeansWithinLimits
  /\ snapshots \in Seq(Snapshot)
  /\ high = breaker_peak
  /\ calls \in Nat /\ (triggered = << >> => calls <= resets)
  /\ \A i \in DOMAIN snapshots : snapshots[i].equity <= peak
  /\ RiskInitialCapital <= peak
  /\ ~risk_evicted => peak \in {RiskInitialCapital} \cup {snapshots[j].equity : j \in DOMAIN snapshots}
  /\ drawdown_start = 0 /\ snapshots # << >> => snapshots[Len(snapshots)].equity = peak

\* Until the window has lost a snapshot the largest drawdown is measured from the peak.
LEMMA RiskProperties ==
  ASSUME RiskIInv
  PROVE  /\ Risk!TypeOK /\ Risk!ArmedMeansWithinLimits
         /\ Risk!MaxCoversCurrent /\ Risk!DrawdownStartsAfterPeak
<1> DEFINE n == Len(snapshots)
<1>1. /\ snapshots \in Seq(Snapshot) /\ n \in Nat /\ DOMAIN snapshots = 1..n
      /\ peak \in RiskEquities \cup {RiskInitialCapital}
  BY DEF RiskIInv, Risk!TypeOK
<1>2. \A i \in 1..n : snapshots[i].equity \in Nat /\ snapshots[i].equity <= peak
  <2>1. \A i \in 1..n : snapshots[i] \in Snapshot
    BY <1>1
  <2> QED  BY <1>1, <2>1, RiskConstants DEF Snapshot, RiskIInv
<1>3. Risk!MaxCoversCurrent
  <2> SUFFICES ASSUME snapshots # << >>, ~risk_evicted
               PROVE  \E d \in Risk!Drawdowns : Risk!NotLess(d, Risk!CurrentDrawdown)
    BY DEF Risk!MaxCoversCurrent
  <2>1. n \in 1..n
    BY <1>1
  <2> DEFINE T == {RiskInitialCapital} \cup {snapshots[j].equity : j \in 1..n}
  <2>2. T \in SUBSET Int
    BY <1>2, RiskConstants
  <2>3. peak \in T /\ \A x \in T : x <= peak
    BY <1>1, <1>2, RiskConstants DEF RiskIInv
  <2>4. Risk!RunningPeak(n) = peak
    <3>1. Max(T) = peak
      <4> HIDE DEF T
      <4> QED  BY <2>2, <2>3, ExtremeIs
    <3> QED  BY <3>1, RiskLibrary DEF Risk!RunningPeak
  <2>5. Risk!CurrentDrawdown \in Risk!Drawdowns
    BY <1>1, <2>1, <2>4 DEF Risk!Drawdowns, Risk!CurrentDrawdown
  <2>6. Risk!NotLess(Risk!CurrentDrawdown, Risk!CurrentDrawdown)
    <3>1. peak \in Int /\ snapshots[n].equity \in Int
      BY <1>1, <1>2, <2>1, RiskConstants
    <3>2. (peak - snapshots[n].equity) * peak \in Int
      BY <3>1
    <3> QED  BY <3>2 DEF Risk!NotLess, Risk!CurrentDrawdown
  <2> QED  BY <2>5, <2>6
<1>4. Risk!DrawdownStartsAfterPeak
  BY <1>1, <1>2 DEF Risk!DrawdownStartsAfterPeak, RiskIInv
<1> QED BY <1>3, <1>4 DEF RiskIInv

\* The types of the breaker's variables, out of the invariant.
LEMMA RiskTypes ==
  ASSUME RiskIInv
  PROVE  /\ snapshots \in Seq(Snapshot) /\ Len(snapshots) \in Nat
         /\ Len(snapshots) <= RiskMaxSnapshots
         /\ peak \in RiskEquities \cup {RiskInitialCapital}
         /\ breaker_peak \in RiskEquities \cup {RiskInitialCapital} /\ high = breaker_peak
         /\ peak \in Nat /\ breaker_peak \in Nat
         /\ drawdown_start \in 0..risk_now /\ risk_now \in 0..RiskMaxTime
         /\ resets \in 0..RiskMaxResets /\ calls \in Nat
<1>1. /\ peak \in RiskEquities \cup {RiskInitialCapital}
      /\ breaker_peak \in RiskEquities \cup {RiskInitialCapital}
  BY DEF RiskIInv, Risk!TypeOK
<1>2. peak \in Nat /\ breaker_peak \in Nat
  BY <1>1, RiskConstants
<1>3. snapshots \in Seq(Snapshot) /\ Len(snapshots) \in Nat
  BY DEF RiskIInv
<1> QED BY <1>1, <1>2, <1>3 DEF RiskIInv, Risk!TypeOK

\* What is assumed of its constants.
LEMMA RiskBounds ==
  /\ RiskThresholdEquity \in Nat /\ RiskThresholdPct \in Nat /\ RiskMaxSnapshots \in Nat
  /\ RiskMaxTime \in Nat /\ RiskMaxResets \in Nat /\ RiskInitialCapital \in Nat
  /\ RiskEquities \subseteq Nat
BY RiskConstants

\* An armed breaker at the initial capital.
LEMMA RiskStart ==
  ASSUME Risk!Init
  PROVE  RiskIInv
<1>1. snapshots = << >> /\ snapshots \in Seq(Snapshot) /\ DOMAIN snapshots = {} /\ Len(snapshots) = 0
  BY DEF Risk!Init
<1> QED
  BY <1>1, RiskConstants DEF Risk!Init, RiskIInv, Risk!TypeOK, Risk!ArmedMeansWithinLimits

\* record_snapshot(): the curve, its peak and its drawdowns.
LEMMA RiskRecord ==
  ASSUME RiskIInv, NEW equity \in RiskEquities, Risk!RecordSnapshot(equity)
  PROVE  RiskIInv'
<1> DEFINE s == [equity |-> equity, time |-> risk_now + 1]
           all == Append(snapshots, s)
           n == Len(snapshots)
<1>0. /\ snapshots \in Seq(Snapshot) /\ n \in Nat /\ n <= RiskMaxSnapshots
      /\ {peak, breaker_peak, high} \subseteq RiskEquities \cup {RiskInitialCapital}
      /\ drawdown_start \in 0..risk_now /\ risk_now \in 0..RiskMaxTime
      /\ RiskMaxSnapshots \in Nat /\ RiskMaxTime \in Nat
      /\ peak \in Nat /\ RiskInitialCapital \in Nat /\ equity \in Nat
  BY RiskTypes, RiskBounds
<1>1. /\ risk_now < RiskMaxTime /\ risk_now' = risk_now + 1
      /\ snapshots' = IF Len(all) > RiskMaxSnapshots THEN Tail(all) ELSE all
      /\ risk_evicted' = (risk_evicted \/ Len(all) > RiskMaxSnapshots)
      /\ \/ equity > peak /\ peak' = equity /\ drawdown_start' = 0
         \/ /\ equity <= peak /\ peak' = peak
            /\ drawdown_start' = IF drawdown_start = 0 THEN risk_now + 1 ELSE drawdown_start
      /\ UNCHANGED <<triggered, breaker_peak, resets, high, shown, calls>>
  BY DEF Risk!RecordSnapshot
<1>2. s \in Snapshot
  BY <1>0 DEF Snapshot
<1>3. /\ all \in Seq(Snapshot) /\ Len(all) = n + 1 /\ DOMAIN all = 1..(n + 1)
      /\ all[n + 1] = s /\ \A i \in 1..n : all[i] = snapshots[i]
  BY <1>0, <1>2
<1>4. peak' \in Nat /\ peak <= peak' /\ equity <= peak'
      /\ peak' \in RiskEquities \cup {RiskInitialCapital}
  BY <1>0, <1>1
<1>5. \A i \in 1..(n + 1) : all[i].equity <= peak'
  <2>1. \A i \in 1..n : snapshots[i].equity \in Nat /\ snapshots[i].equity <= peak
    <3>1. \A i \in 1..n : snapshots[i] \in Snapshot
      BY <1>0
    <3>2. \A i \in 1..n : snapshots[i].equity \in Nat
      BY <3>1, RiskBounds DEF Snapshot
    <3>3. \A i \in DOMAIN snapshots : snapshots[i].equity <= peak
      BY DEF RiskIInv
    <3> QED  BY <1>0, <3>2, <3>3
  <2>2. all[n + 1].equity = equity
    BY <1>3
  <2> QED  BY <1>0, <1>3, <1>4, <2>1, <2>2
<1>6. drawdown_start' = 0 => equity = peak'
  BY <1>0, <1>1
<1>7. CASE Len(all) > RiskMaxSnapshots
  <2>1. snapshots' = Tail(all) /\ risk_evicted' = TRUE
    BY <1>1, <1>7
  <2>2. /\ snapshots' \in Seq(Snapshot) /\ Len(snapshots') = n /\ DOMAIN snapshots' = 1..n
        /\ \A i \in 1..n : snapshots'[i] = all[i + 1]
    <3> HIDE DEF all, s
    <3> QED  BY <1>0, <1>3, <2>1
  <2>3. \A i \in DOMAIN snapshots' : snapshots'[i].equity <= peak'
    <3>1. \A i \in 1..n : i + 1 \in 1..(n + 1)
      BY <1>0
    <3> HIDE DEF all, s, n
    <3> QED  BY <1>5, <2>2, <3>1
  <2>4. snapshots' # << >> => snapshots'[Len(snapshots')].equity = equity
    <3>1. snapshots' # << >> => n \in 1..n
      BY <1>0, <2>2
    <3>2. n \in 1..n => snapshots'[n] = s
      <4> HIDE DEF all, s
      <4> QED  BY <1>0, <1>3, <2>2
    <3> QED  BY <2>2, <3>1, <3>2
  <2> HIDE DEF all, s, n
  <2>5. Risk!TypeOK'
    BY <1>0, <1>1, <1>4, <2>2 DEF RiskIInv, Risk!TypeOK
  <2> QED  BY <1>0, <1>1, <1>4, <1>6, <2>1, <2>2, <2>3, <2>4, <2>5
           DEF RiskIInv, Risk!ArmedMeansWithinLimits
<1>8. CASE ~(Len(all) > RiskMaxSnapshots)
  <2>1. snapshots' = all /\ (risk_evicted => risk_evicted') /\ n + 1 <= RiskMaxSnapshots
    <3>1. Len(all) = n + 1
      BY <1>3
    <3> HIDE DEF all, n
    <3>2. n + 1 <= RiskMaxSnapshots
      BY <1>0, <1>8, <3>1
    <3>3. snapshots' = all
      BY <1>1, <1>8
    <3>4. risk_evicted => risk_evicted'
      BY <1>1, Zenon
    <3> QED  BY <3>2, <3>3, <3>4
  <2>2. snapshots'[Len(snapshots')].equity = equity
    BY <1>3, <2>1
  <2>3. ~risk_evicted => peak' \in {RiskInitialCapital} \cup {all[j].equity : j \in 1..(n + 1)}
    <3> SUFFICES ASSUME ~risk_evicted
                 PROVE  peak' \in {RiskInitialCapital} \cup {all[j].equity : j \in 1..(n + 1)}
      OBVIOUS
    <3>1. CASE peak' = equity
      <4>1. n + 1 \in 1..(n + 1) /\ all[n + 1].equity = equity
        BY <1>0, <1>3
      <4> QED  BY <3>1, <4>1
    <3>2. CASE peak' = peak
      <4>1. peak \in {RiskInitialCapital} \cup {snapshots[j].equity : j \in 1..n}
        BY <1>0 DEF RiskIInv
      <4>2. \A j \in 1..n : j \in 1..(n + 1) /\ all[j] = snapshots[j]
        BY <1>0, <1>3
      <4> HIDE DEF all, n
      <4> QED  BY <3>2, <4>1, <4>2
    <3> QED  BY <1>1, <3>1, <3>2
  <2> HIDE DEF all, s
  <2>4. Risk!TypeOK'
    BY <1>0, <1>1, <1>3, <1>4, <2>1 DEF RiskIInv, Risk!TypeOK
  <2>5. snapshots' \in Seq(Snapshot) /\ DOMAIN snapshots' = 1..(n + 1)
    BY <1>3, <2>1
  <2>6. \A i \in DOMAIN snapshots' : snapshots'[i].equity <= peak'
    BY <1>5, <2>1, <2>5
  <2>7. ~risk_evicted' => peak' \in {RiskInitialCapital}
                                      \cup {snapshots'[j].equity : j \in DOMAIN snapshots'}
    BY <2>1, <2>3, <2>5
  <2>8. Risk!ArmedMeansWithinLimits'
    BY <1>1 DEF RiskIInv, Risk!ArmedMeansWithinLimits
  <2>9. RiskInitialCapital <= peak'
    BY <1>0, <1>4 DEF RiskIInv
  <2>10. /\ high' = breaker_peak' /\ calls' \in Nat /\ (triggered' = << >> => calls' <= resets')
    BY <1>1 DEF RiskIInv
  <2>11. drawdown_start' = 0 /\ snapshots' # << >> => snapshots'[Len(snapshots')].equity = peak'
    BY <1>6, <2>2
  <2> QED  BY <2>4, <2>5, <2>6, <2>7, <2>8, <2>9, <2>10, <2>11 DEF RiskIInv
<1> QED BY <1>7, <1>8

\* check(): a new peak, a trip, or nothing.
LEMMA RiskCheck ==
  ASSUME RiskIInv, NEW equity \in RiskEquities, Risk!Check(equity)
  PROVE  RiskIInv'
<1>0. /\ {peak, breaker_peak, high} \subseteq RiskEquities \cup {RiskInitialCapital}
      /\ breaker_peak \in Nat /\ equity \in Nat /\ high = breaker_peak
      /\ drawdown_start \in 0..risk_now /\ risk_now \in 0..RiskMaxTime
      /\ RiskMaxTime \in Nat /\ resets \in Nat /\ calls \in Nat
      /\ RiskThresholdEquity \in Nat
  BY RiskTypes, RiskBounds
<1>1. /\ risk_now < RiskMaxTime /\ risk_now' = risk_now + 1
      /\ UNCHANGED <<snapshots, peak, drawdown_start, resets, risk_evicted>>
  BY DEF Risk!Check
<1>2. CASE triggered # << >> /\ UNCHANGED <<triggered, breaker_peak, high, shown, calls>>
  <2>1. Risk!TypeOK'
    BY <1>0, <1>1, <1>2 DEF RiskIInv, Risk!TypeOK
  <2> QED  BY <1>1, <1>2, <2>1 DEF RiskIInv, Risk!ArmedMeansWithinLimits
<1>3. CASE triggered = << >> /\ ~UNCHANGED <<triggered, breaker_peak, high, shown, calls>>
  <2>1. /\ breaker_peak' = Risk!Max({breaker_peak, equity})
        /\ high' = Risk!Max({high, equity}) /\ shown' = equity
    BY <1>3 DEF Risk!Check, Risk!NewPeak
  <2>2. /\ high' = breaker_peak' /\ breaker_peak' \in RiskEquities \cup {RiskInitialCapital}
    BY <1>0, <2>1, PairBounds, RiskLibrary
  <2>3. /\ calls' \in Nat /\ calls' <= 1 + resets
        /\ triggered' \in {<< >>} \cup (RiskEquities \X {"equity", "drawdown"})
        /\ triggered' = << >> => /\ calls' <= resets /\ equity >= RiskThresholdEquity
                                 /\ (breaker_peak' - equity) * 100 < RiskThresholdPct * breaker_peak'
    <3>0. calls <= resets
      BY <1>3 DEF RiskIInv
    <3>1. CASE \E why \in {"equity", "drawdown"} : Risk!Trigger(equity, why)
      BY <1>0, <3>0, <3>1 DEF Risk!Trigger
    <3>2. CASE /\ equity >= RiskThresholdEquity
               /\ (breaker_peak' - equity) * 100 < RiskThresholdPct * breaker_peak'
               /\ triggered' = triggered /\ calls' = calls
      BY <1>0, <1>3, <3>0, <3>2
    <3> QED  BY <1>3, <3>1, <3>2 DEF Risk!Check
  <2>4. Risk!TypeOK'
    BY <1>0, <1>1, <2>2, <2>3 DEF RiskIInv, Risk!TypeOK
  <2>5. Risk!ArmedMeansWithinLimits'
    BY <1>1, <2>1, <2>2, <2>3 DEF Risk!ArmedMeansWithinLimits
  <2> QED  BY <1>1, <2>2, <2>3, <2>4, <2>5 DEF RiskIInv
<1>4. CASE UNCHANGED <<triggered, breaker_peak, high, shown, calls>>
  <2>1. Risk!TypeOK'
    BY <1>0, <1>1, <1>4 DEF RiskIInv, Risk!TypeOK
  <2> QED  BY <1>1, <1>4, <2>1 DEF RiskIInv, Risk!ArmedMeansWithinLimits
<1> QED BY <1>2, <1>3, <1>4 DEF Risk!Check

\* reset(): the breaker is armed again and keeps its peak.
LEMMA RiskReset ==
  ASSUME RiskIInv, Risk!Reset
  PROVE  RiskIInv'
<1>1. /\ resets \in Nat /\ resets < RiskMaxResets /\ RiskMaxResets \in Nat /\ resets' = resets + 1
      /\ triggered' = << >> /\ shown' = 0 /\ calls \in Nat /\ calls <= 1 + resets
      /\ UNCHANGED <<snapshots, peak, drawdown_start, breaker_peak, risk_now, risk_evicted, high,
                     calls>>
  BY RiskConstants DEF Risk!Reset, RiskIInv, Risk!TypeOK, Risk!ArmedMeansWithinLimits
<1>2. Risk!TypeOK'
  BY <1>1 DEF RiskIInv, Risk!TypeOK
<1>3. Risk!ArmedMeansWithinLimits' /\ calls' <= resets'
  BY <1>1 DEF Risk!ArmedMeansWithinLimits
<1> QED BY <1>1, <1>2, <1>3 DEF RiskIInv

\* Every step of the breaker.
LEMMA RiskPreserved ==
  ASSUME RiskIInv, Risk!Next
  PROVE  RiskIInv'
BY RiskRecord, RiskCheck, RiskReset DEF Risk!Next

\* Steps of the other parts.
LEMMA RiskStutter ==
  ASSUME RiskIInv, UNCHANGED risk_vars
  PROVE  RiskIInv'
BY DEF risk_vars, RiskIInv, Risk!TypeOK, Risk!ArmedMeansWithinLimits

-----------------------------------------------------------------------------
(* The flash crash detector                                                *)

\* The library as the detector names it.
LEMMA CrashLibrary ==
  ASSUME NEW T
  PROVE  Crash!Min(T) = Min(T)
BY DEF Crash!Min, Min

\* The entries of the price buffer, and the crash events.
PriceTick == [price : CrashPrices, time : Nat]
CrashEvent == [time : Nat, severity : Crash!Severities \ {"MINOR"}]

\* The last event is what the cooldown counts from; without an overlap every crash but the one
\* whose orders are being withdrawn is in the average.
CrashIInv ==
  /\ Crash!TypeOK /\ Crash!DropIsCovered /\ Crash!EventsAreApart
  /\ history \in Seq(PriceTick) /\ events \in Seq(CrashEvent)
  /\ crash_now \in Nat /\ last_crash \in Nat
  /\ events # << >> => events[Len(events)].time = last_crash
  /\ in_crash => Len(history) >= 2
  /\ crashes \in Nat /\ pulls \in Nat /\ latency_sum \in Nat
  /\ average.num \in Int /\ average.den \in Nat
  /\ ~overlapped => /\ pulling <= 1 /\ pulls + pulling = crashes
                    /\ average.num * pulls = latency_sum * average.den

\* What is assumed of its constants.
LEMMA CrashBounds ==
  /\ CrashPrices \subseteq Nat /\ CrashLatencies \subseteq Nat
  /\ CrashDropPct \in Nat /\ CrashDropPct > 0 /\ CrashWindow \in Nat
  /\ CrashMaxHistory \in Nat /\ CrashMaxHistory > 0
  /\ CrashMaxTime \in Nat /\ CrashMaxTicks \in Nat
  /\ CrashCooldown \in Nat /\ CrashCooldown > 0
BY CrashConstants

\* Empty buffers.
LEMMA CrashStart ==
  ASSUME Crash!Init
  PROVE  CrashIInv
<1>1. /\ history = << >> /\ history \in Seq(PriceTick) /\ Len(history) = 0
      /\ events = << >> /\ events \in Seq(CrashEvent) /\ DOMAIN events = {} /\ Len(events) = 0
  BY DEF Crash!Init
<1>2. /\ average.num = 0 /\ average.den = 1 /\ pulls = 0 /\ latency_sum = 0
  BY DEF Crash!Init
<1>3. average.num * pulls = latency_sum * average.den
  BY <1>2
<1>4. crash_now \in CrashCooldown..CrashCooldown + CrashMaxTime /\ crash_now \in Nat
  BY CrashBounds DEF Crash!Init
<1>5. Crash!TypeOK
  <2>1. pulling \in 0..crashes /\ average.den > 0
    BY <1>2 DEF Crash!Init
  <2>2. Len(history) <= CrashMaxHistory
    BY <1>1, CrashBounds
  <2>3. in_crash \in BOOLEAN
    BY DEF Crash!Init
  <2> QED  BY <1>1, <1>4, <2>1, <2>2, <2>3 DEF Crash!TypeOK
<1> QED
  BY <1>1, <1>2, <1>3, <1>4, <1>5
     DEF Crash!Init, CrashIInv, Crash!DropIsCovered, Crash!EventsAreApart

\* A fall beyond a whole percent is never minor.
LEMMA SeverityIs ==
  ASSUME NEW price_now \in Nat, NEW first \in Nat, Crash!Crashed(price_now, first)
  PROVE  Crash!Severity(first - price_now, first) \in Crash!Severities \ {"MINOR"}
<1> DEFINE drop == (first - price_now) * 100
<1>1. drop \in Int /\ first \in Nat
  OBVIOUS
<1>2. CrashDropPct * first >= first
  <2>1. CrashDropPct \in Nat /\ CrashDropPct >= 1
    BY CrashBounds
  <2> QED  BY <2>1
<1>3. CrashDropPct * first \in Int /\ drop > CrashDropPct * first
  BY CrashBounds DEF Crash!Crashed
<1>4. drop >= first
  <2> HIDE DEF drop
  <2> QED  BY <1>1, <1>2, <1>3
<1>5. drop >= 5 * first \/ (drop >= 2 * first /\ drop < 5 * first) \/ drop < 2 * first
  <2> HIDE DEF drop
  <2> QED  BY <1>1
<1> QED BY <1>4, <1>5 DEF Crash!Severity, Crash!Severities

\* What the price just added makes of the buffer.
LEMMA Pushed ==
  ASSUME NEW h \in Seq(PriceTick), Len(h) <= CrashMaxHistory, NEW t \in PriceTick
  PROVE  LET g == Crash!Push(h, t)
         IN  /\ g \in Seq(PriceTick) /\ Len(g) \in Nat /\ Len(g) <= CrashMaxHistory
             /\ Len(g) >= 1 /\ Len(g) >= Len(h) /\ g[Len(g)] = t
<1> DEFINE g == Crash!Push(h, t)
           n == Len(h)
<1>0. n \in Nat /\ CrashMaxHistory \in Nat /\ CrashMaxHistory > 0 /\ n <= CrashMaxHistory
  BY CrashBounds
<1>1. CASE n = CrashMaxHistory
  <2>1. g = Append(Tail(h), t)
    BY <1>1 DEF Crash!Push
  <2> DEFINE k == Tail(h)
  <2>2. k \in Seq(PriceTick) /\ Len(k) = n - 1
    <3>1. h # << >>
      BY <1>0, <1>1
    <3> QED  BY <3>1
  <2> HIDE DEF g, k
  <2>3. g = Append(k, t)
    BY <2>1 DEF k
  <2>4. g \in Seq(PriceTick) /\ Len(g) = Len(k) + 1 /\ g[Len(k) + 1] = t
    BY <2>2, <2>3
  <2>5. Len(g) = n
    BY <1>0, <2>2, <2>4
  <2>6. g[Len(g)] = t
    BY <2>4
  <2> HIDE DEF n
  <2>7. /\ g \in Seq(PriceTick) /\ Len(g) \in Nat /\ Len(g) <= CrashMaxHistory
        /\ Len(g) >= 1 /\ Len(g) >= n /\ g[Len(g)] = t
    BY <1>0, <1>1, <2>4, <2>5, <2>6
  <2> QED  BY <2>7 DEF g, n
<1>2. CASE n # CrashMaxHistory
  <2>1. g = Append(h, t)
    BY <1>2 DEF Crash!Push
  <2> HIDE DEF g
  <2>2. g \in Seq(PriceTick) /\ Len(g) = n + 1 /\ g[n + 1] = t
    BY <2>1
  <2>3. g[Len(g)] = t
    BY <2>2
  <2> HIDE DEF n
  <2>4. /\ g \in Seq(PriceTick) /\ Len(g) \in Nat /\ Len(g) <= CrashMaxHistory
        /\ Len(g) >= 1 /\ Len(g) >= n /\ g[Len(g)] = t
    BY <1>0, <1>2, <2>2, <2>3
  <2> QED  BY <2>4 DEF g, n
<1> QED BY <1>1, <1>2

\* An event more than a cooldown after the last one keeps events apart.
LEMMA EventAdded ==
  ASSUME CrashIInv, NEW e \in CrashEvent, events' = Append(events, e),
         e.time - last_crash >= CrashCooldown
  PROVE  /\ events' \in Seq(CrashEvent) /\ Crash!EventsAreApart'
         /\ events' # << >> /\ events'[Len(events')] = e
<1> DEFINE n == Len(events)
<1>1. /\ events \in Seq(CrashEvent) /\ n \in Nat
      /\ events # << >> => events[n].time = last_crash
      /\ \A i \in 2..n : events[i].time - events[i - 1].time >= CrashCooldown
  BY DEF CrashIInv, Crash!EventsAreApart
<1>2. /\ events' \in Seq(CrashEvent) /\ Len(events') = n + 1 /\ events'[n + 1] = e
      /\ \A i \in 1..n : events'[i] = events[i]
  BY <1>1
<1>3. ASSUME NEW i \in 2..(n + 1)
      PROVE  events'[i].time - events'[i - 1].time >= CrashCooldown
  <2>1. CASE i = n + 1
    <3>1. n >= 1 /\ i - 1 = n /\ n \in 1..n /\ events # << >>
      BY <1>1, <2>1
    <3>2. events'[i] = e /\ events'[i - 1] = events[n]
      BY <1>2, <2>1, <3>1
    <3> QED  BY <1>1, <3>1, <3>2
  <2>2. CASE i # n + 1
    <3>1. i \in 2..n /\ i \in 1..n /\ i - 1 \in 1..n
      BY <1>1, <2>2
    <3> QED  BY <1>1, <1>2, <3>1
  <2> QED  BY <2>1, <2>2
<1>4. Crash!EventsAreApart'
  BY <1>2, <1>3 DEF Crash!EventsAreApart
<1>5. events'[Len(events')] = e /\ events' # << >>
  BY <1>1, <1>2
<1> QED BY <1>2, <1>4, <1>5

\* add_price(): the tick, the fall it completes, and the event of it.
LEMMA CrashAddPrice ==
  ASSUME CrashIInv, NEW p \in CrashPrices, Crash!AddPrice(p)
  PROVE  CrashIInv'
<1> DEFINE t == [price |-> p, time |-> crash_now]
           h == Crash!Push(history, t)
           first == Crash!StartTick(h).price
           settled == crash_now - last_crash >= CrashCooldown
<1>0. /\ crash_now \in CrashCooldown..CrashCooldown + CrashMaxTime /\ crash_now \in Nat
      /\ last_crash \in Nat /\ p \in Nat /\ crashes \in Nat /\ pulling \in 0..crashes
      /\ Len(history) <= CrashMaxHistory /\ history \in Seq(PriceTick) /\ Len(history) \in Nat
      /\ in_crash \in BOOLEAN
  BY CrashBounds DEF CrashIInv, Crash!TypeOK
<1>1. /\ history' = h /\ crash_now' = crash_now /\ average' = average
      /\ latency_sum' = latency_sum /\ pulls' = pulls
  BY DEF Crash!AddPrice
<1>2. t \in PriceTick
  BY <1>0 DEF PriceTick
<1>3. /\ h \in Seq(PriceTick) /\ Len(h) \in Nat /\ Len(h) <= CrashMaxHistory
      /\ Len(h) >= 1 /\ Len(h) >= Len(history) /\ h[Len(h)] = t
  BY <1>0, <1>2, Pushed
<1>4. \/ /\ Len(h) < 2 \/ ~settled
         /\ UNCHANGED <<last_crash, in_crash, events, crashes, pulling, overlapped>>
      \/ /\ Len(h) >= 2 /\ settled /\ ~Crash!Crashed(p, first) /\ in_crash' = FALSE
         /\ UNCHANGED <<last_crash, events, crashes, pulling, overlapped>>
      \/ /\ Len(h) >= 2 /\ settled /\ Crash!Crashed(p, first) /\ in_crash' = TRUE
         /\ last_crash' = crash_now
         /\ events' = Append(events, [time |-> crash_now,
                                      severity |-> Crash!Severity(first - p, first)])
         /\ crashes' = crashes + 1 /\ pulling' = pulling + 1
         /\ overlapped' = (overlapped \/ pulling > 0)
  <2>1. crash_now - last_crash < CrashCooldown <=> ~settled
    BY <1>0, CrashBounds
  <2> HIDE DEF settled
  <2> QED  BY <2>1 DEF Crash!AddPrice, settled
<1>5. h[Len(h)].time = crash_now /\ h[Len(h)].price = p
  BY <1>3
<1> DEFINE windowed == {i \in DOMAIN h : h[i].time >= crash_now - CrashWindow}
<1>6. first = h[Crash!Min(windowed)].price
  BY DEF Crash!StartTick, Crash!InWindow
<1>7. windowed # {} /\ windowed \subseteq 1..Len(h)
  <2>1. Len(h) \in DOMAIN h /\ DOMAIN h = 1..Len(h)
    <3> HIDE DEF h
    <3> QED  BY <1>3
  <2>2. crash_now >= crash_now - CrashWindow
    BY <1>0, CrashBounds
  <2> HIDE DEF h
  <2> QED  BY <1>5, <2>1, <2>2
<1>8. first \in Nat /\ (Len(h) < 2 => first = p)
  <2> HIDE DEF h, first
  <2> DEFINE m == Min(windowed)
  <2>1. m \in windowed
    <3>1. windowed \in SUBSET Nat
      <4> HIDE DEF windowed
      <4> QED  BY <1>3, <1>7
    <3> HIDE DEF windowed
    <3> QED  BY <1>7, <3>1, MinIn
  <2>2. m \in 1..Len(h)
    <3> HIDE DEF windowed
    <3> QED  BY <1>7, <2>1
  <2>3. first = h[m].price
    <3> HIDE DEF windowed
    <3> QED  BY <1>6, CrashLibrary
  <2>4. h[m] \in PriceTick
    <3> HIDE DEF m
    <3> QED  BY <1>3, <2>2
  <2>5. first \in Nat
    BY <2>3, <2>4, CrashBounds DEF PriceTick
  <2>6. Len(h) < 2 => m = Len(h)
    <3> HIDE DEF m
    <3> QED  BY <1>3, <2>2
  <2> QED  BY <1>5, <2>3, <2>5, <2>6
<1> DEFINE recent == last_crash' > 0 /\ crash_now - last_crash' < CrashCooldown
<1>9. windowed = {i \in DOMAIN history' : history'[i].time >=
                    history'[Len(history')].time - CrashWindow}
  <2> HIDE DEF h
  <2> QED  BY <1>1, <1>5
<1> HIDE DEF t, h, first, windowed
<1>10. Crash!DropIsCovered' <=> (Crash!Crashed(p, first) => recent) /\ (in_crash' => recent)
  <2>1. history' # << >>
    BY <1>1, <1>3
  <2>2. /\ history'[Crash!Min(windowed)].price = first
        /\ history'[Len(history')].time = crash_now /\ history'[Len(history')].price = p
    BY <1>1, <1>5, <1>6
  <2> QED  BY <2>1, <2>2, <1>9 DEF Crash!DropIsCovered
<1>11. crash_now - 0 >= CrashCooldown /\ crash_now > 0
  BY <1>0, CrashBounds
<1>12. CASE /\ Len(h) < 2 \/ ~settled
            /\ UNCHANGED <<last_crash, in_crash, events, crashes, pulling, overlapped>>
  <2>1. CASE ~settled
    <3>1. recent
      BY <1>0, <1>11, <1>12, <2>1, CrashBounds
    <3> QED  BY <1>0, <1>1, <1>3, <1>10, <1>12, <3>1
             DEF CrashIInv, Crash!TypeOK, Crash!EventsAreApart
  <2>2. CASE Len(h) < 2
    <3>1. first = p
      BY <1>8, <2>2
    <3>2. ~Crash!Crashed(p, first)
      <4>1. CrashDropPct * p \in Nat /\ (p - p) * 100 = 0
        BY <1>0, CrashBounds
      <4> QED  BY <3>1, <4>1 DEF Crash!Crashed
    <3>3. ~in_crash
      BY <1>0, <1>3, <2>2 DEF CrashIInv
    <3>4. Crash!DropIsCovered'
      BY <1>10, <1>12, <3>2, <3>3
    <3> QED  BY <1>0, <1>1, <1>3, <1>12, <3>3, <3>4
             DEF CrashIInv, Crash!TypeOK, Crash!EventsAreApart
  <2> QED  BY <1>12, <2>1, <2>2
<1>13. CASE /\ ~Crash!Crashed(p, first) /\ in_crash' = FALSE
            /\ UNCHANGED <<last_crash, events, crashes, pulling, overlapped>>
  <2>1. Crash!DropIsCovered'
    BY <1>10, <1>13
  <2> QED  BY <1>0, <1>1, <1>3, <1>13, <2>1 DEF CrashIInv, Crash!TypeOK, Crash!EventsAreApart
<1>14. CASE /\ Len(h) >= 2 /\ settled /\ Crash!Crashed(p, first) /\ in_crash' = TRUE
            /\ last_crash' = crash_now
            /\ events' = Append(events, [time |-> crash_now,
                                         severity |-> Crash!Severity(first - p, first)])
            /\ crashes' = crashes + 1 /\ pulling' = pulling + 1
            /\ overlapped' = (overlapped \/ pulling > 0)
  <2> DEFINE e == [time |-> crash_now, severity |-> Crash!Severity(first - p, first)]
  <2>1. e \in CrashEvent /\ e.time = crash_now
    <3>1. Crash!Severity(first - p, first) \in Crash!Severities \ {"MINOR"}
      BY <1>0, <1>8, <1>14, SeverityIs
    <3> QED  BY <1>0, <3>1 DEF CrashEvent
  <2>2. /\ events' \in Seq(CrashEvent) /\ Crash!EventsAreApart'
        /\ events' # << >> /\ events'[Len(events')] = e
    <3> HIDE DEF e
    <3>1. events' = Append(events, e)
      BY <1>14 DEF e
    <3> QED  BY <1>14, <2>1, <3>1, EventAdded
  <2>3. recent
    BY <1>0, <1>11, <1>14, CrashBounds
  <2>4. Crash!DropIsCovered'
    BY <1>10, <2>3
  <2>5. pulling' \in 0..crashes' /\ crashes' \in Nat
    BY <1>0, <1>14
  <2>6. ~overlapped' => /\ pulling' <= 1 /\ pulls' + pulling' = crashes'
                        /\ average'.num * pulls' = latency_sum' * average'.den
    <3> SUFFICES ASSUME ~overlapped'
                 PROVE  /\ pulling' <= 1 /\ pulls' + pulling' = crashes'
                        /\ average'.num * pulls' = latency_sum' * average'.den
      OBVIOUS
    <3>1. ~overlapped /\ ~(pulling > 0)
      BY <1>14
    <3>2. pulling = 0 /\ pulls \in Nat /\ pulls + pulling = crashes
      BY <1>0, <3>1 DEF CrashIInv
    <3>3. average.num * pulls = latency_sum * average.den
      BY <3>1 DEF CrashIInv
    <3>4. pulling' <= 1 /\ pulls' + pulling' = crashes'
      BY <1>0, <1>1, <1>14, <3>2
    <3> QED  BY <1>1, <3>3, <3>4
  <2> HIDE DEF e
  <2>7. Crash!TypeOK'
    <3>1. \A i \in DOMAIN events' : events'[i] \in CrashEvent
      BY <2>2
    <3>2. \A i \in DOMAIN events' : events'[i].severity \in Crash!Severities \ {"MINOR"}
      BY <3>1 DEF CrashEvent
    <3> QED  BY <1>0, <1>1, <1>3, <1>14, <2>5, <3>2 DEF CrashIInv, Crash!TypeOK
  <2>8. events'[Len(events')].time = last_crash'
    BY <1>14, <2>1, <2>2
  <2>9. /\ history' \in Seq(PriceTick) /\ Len(history') >= 2
    BY <1>1, <1>3, <1>14
  <2>10. /\ crash_now' \in Nat /\ last_crash' \in Nat
         /\ pulls' \in Nat /\ latency_sum' \in Nat /\ average'.num \in Int /\ average'.den \in Nat
    BY <1>0, <1>1, <1>14 DEF CrashIInv
  <2> QED  BY <2>2, <2>4, <2>5, <2>6, <2>7, <2>8, <2>9, <2>10 DEF CrashIInv
<1> QED BY <1>4, <1>12, <1>13, <1>14

\* The pull of the quotes ends and its latency enters the mean.
LEMMA CrashPulled ==
  ASSUME CrashIInv, NEW l \in CrashLatencies, Crash!Pulled(l)
  PROVE  CrashIInv'
<1>0. /\ l \in Nat /\ crashes \in Nat /\ pulling \in 0..crashes /\ pulling > 0
      /\ average.num \in Int /\ average.den \in Nat /\ average.den > 0
      /\ latency_sum \in Nat /\ pulls \in Nat
  BY CrashBounds DEF CrashIInv, Crash!TypeOK, Crash!Pulled
<1>1. /\ pulling' = pulling - 1 /\ latency_sum' = latency_sum + l /\ pulls' = pulls + 1
      /\ average' = [num |-> average.num * (crashes - 1) + l * average.den,
                     den |-> average.den * crashes]
      /\ UNCHANGED <<crash_now, history, last_crash, in_crash, events, crashes, ticks, overlapped>>
  BY DEF Crash!Pulled
<1>2. /\ average'.num = average.num * (crashes - 1) + l * average.den
      /\ average'.den = average.den * crashes
  BY <1>1
<1>3. crashes > 0 /\ pulling' \in 0..crashes
  BY <1>0, <1>1
<1>4. average'.den \in Nat /\ average'.den > 0
  <2>1. average.den * crashes \in Nat \ {0}
    BY <1>0, <1>3
  <2> QED  BY <1>2, <2>1
<1>5. average'.num \in Int
  <2>1. average.num * (crashes - 1) \in Int /\ l * average.den \in Int
    BY <1>0
  <2> QED  BY <1>2, <2>1
<1>6. ~overlapped => /\ pulling' <= 1 /\ pulls' + pulling' = crashes
                     /\ average'.num * pulls' = latency_sum' * average'.den
  <2> SUFFICES ASSUME ~overlapped
               PROVE  /\ pulling' <= 1 /\ pulls' + pulling' = crashes
                      /\ average'.num * pulls' = latency_sum' * average'.den
    OBVIOUS
  <2>1. pulling <= 1 /\ pulls + pulling = crashes
        /\ average.num * pulls = latency_sum * average.den
    BY DEF CrashIInv
  <2>2. pulling = 1 /\ pulls = crashes - 1
    BY <1>0, <2>1
  <2>3. (average.num * (crashes - 1) + l * average.den) * crashes =
          (latency_sum + l) * (average.den * crashes)
    BY <1>0, <2>1, <2>2, MeanStep
  <2>4. pulls' = crashes
    BY <1>0, <1>1, <2>2
  <2>5. average'.num * pulls' = latency_sum' * average'.den
    BY <1>1, <1>2, <2>3, <2>4
  <2> QED  BY <1>0, <1>1, <2>2, <2>4, <2>5
<1>7. Crash!TypeOK'
  BY <1>1, <1>3, <1>4 DEF CrashIInv, Crash!TypeOK
<1> QED BY <1>0, <1>1, <1>4, <1>5, <1>6, <1>7
        DEF CrashIInv, Crash!DropIsCovered, Crash!EventsAreApart

\* A crash of another symbol.
LEMMA CrashOthers ==
  ASSUME CrashIInv, Crash!OtherCrash
  PROVE  CrashIInv'
<1>1. /\ crashes \in Nat /\ pulling \in 0..crashes
      /\ crashes' = crashes + 1 /\ pulling' = pulling + 1
      /\ overlapped' = (overlapped \/ pulling > 0)
      /\ UNCHANGED <<crash_now, history, last_crash, in_crash, events, average, latency_sum, pulls>>
  BY DEF CrashIInv, Crash!TypeOK, Crash!OtherCrash
<1>2. pulling' \in 0..crashes' /\ crashes' \in Nat
  BY <1>1
<1>3. ~overlapped' => /\ pulling' <= 1 /\ pulls' + pulling' = crashes'
                      /\ average'.num * pulls' = latency_sum' * average'.den
  <2> SUFFICES ASSUME ~overlapped'
               PROVE  /\ pulling' <= 1 /\ pulls' + pulling' = crashes'
                      /\ average'.num * pulls' = latency_sum' * average'.den
    OBVIOUS
  <2>1. ~overlapped /\ ~(pulling > 0)
    BY <1>1
  <2>2. pulling = 0 /\ pulls \in Nat /\ pulls + pulling = crashes
        /\ average.num * pulls = latency_sum * average.den
    BY <1>1, <2>1 DEF CrashIInv
  <2> QED  BY <1>1, <2>2
<1>4. Crash!TypeOK'
  BY <1>1, <1>2 DEF CrashIInv, Crash!TypeOK
<1> QED BY <1>1, <1>2, <1>3, <1>4 DEF CrashIInv, Crash!DropIsCovered, Crash!EventsAreApart

\* The end of a crash state, and time.
LEMMA CrashQuiet ==
  ASSUME CrashIInv, Crash!ResetCrashState \/ Crash!Tick
  PROVE  CrashIInv'
<1>1. /\ crash_now \in CrashCooldown..CrashCooldown + CrashMaxTime /\ crash_now \in Nat
      /\ crash_now' \in CrashCooldown..CrashCooldown + CrashMaxTime /\ crash_now' \in Nat
      /\ in_crash' \in BOOLEAN /\ (in_crash' => in_crash)
      /\ UNCHANGED <<history, last_crash, events, crashes, pulling, average, latency_sum, pulls,
                     overlapped>>
  <2>0. /\ crash_now \in CrashCooldown..CrashCooldown + CrashMaxTime /\ crash_now \in Nat
        /\ in_crash \in BOOLEAN
    BY DEF CrashIInv, Crash!TypeOK
  <2>1. CASE Crash!ResetCrashState
    BY <2>0, <2>1 DEF Crash!ResetCrashState
  <2>2. CASE Crash!Tick
    <3>1. /\ crash_now < CrashCooldown + CrashMaxTime /\ crash_now' = crash_now + 1
          /\ UNCHANGED <<history, last_crash, in_crash, events, crashes, pulling, average,
                         latency_sum, pulls, overlapped>>
      BY <2>2 DEF Crash!Tick
    <3> QED  BY <2>0, <3>1, CrashBounds
  <2> QED  BY <2>1, <2>2
<1>2. Crash!TypeOK'
  BY <1>1 DEF CrashIInv, Crash!TypeOK
<1>3. Crash!DropIsCovered'
  BY <1>1 DEF CrashIInv, Crash!DropIsCovered
<1> QED BY <1>1, <1>2, <1>3 DEF CrashIInv, Crash!EventsAreApart

\* Every step of the detector.
LEMMA CrashPreserved ==
  ASSUME CrashIInv, Crash!Next
  PROVE  CrashIInv'
BY CrashAddPrice, CrashPulled, CrashOthers, CrashQuiet DEF Crash!Next

\* Steps of the other parts.
LEMMA CrashStutter ==
  ASSUME CrashIInv, UNCHANGED crash_vars
  PROVE  CrashIInv'
BY DEF crash_vars, CrashIInv, Crash!TypeOK, Crash!DropIsCovered, Crash!EventsAreApart

\* The mean that is reported is the mean of the latencies.
LEMMA CrashProperties ==
  ASSUME CrashIInv
  PROVE  Crash!AverageIsMean
BY DEF CrashIInv, Crash!AverageIsMean

-----------------------------------------------------------------------------
(* The message pipeline of the sniper                                      *)

\* The extremes the instance uses are those of the library.
LEMMA FeedLibrary ==
  ASSUME NEW T
  PROVE  Feed!Max(T) = Max(T) /\ Feed!Min(T) = Min(T)
BY DEF Feed!Max, Max, Feed!Min, Min

\* What is assumed of the pipeline's constants.
LEMMA FeedBounds ==
  /\ FeedPrices \subseteq Nat /\ \A p \in FeedPrices : p > 0
  /\ IsFiniteSet(FeedPrices)
  /\ FeedMaxQueue \in Nat /\ FeedMaxQueue > 0 /\ FeedListeners \in Nat
BY FeedConstants

\* Messages, levels and books.
FeedMessage == UNION {Feed!Messages(id) : id \in Nat \ {0}}
Level == [price : FeedPrices \cup {0}, id : Nat]
FeedBook == [bid : Level, ask : Level, updates : Nat]

\* A message changes the book of a token.
Touches(m, t) == m.kind # "other" /\ m.token = t

\* The book shows the best prices of the message.
Shows(b, m) ==
  /\ m.bids # {} => b.bid.price = Max(m.bids)
  /\ m.asks # {} => b.ask.price = Min(m.asks)

\* No level of the book is from a message after that number.
NoYounger(b, id) == b.bid.id <= id /\ b.ask.id <= id

\* The messages wait in the order they came in, each younger than all the books.
FeedOrder ==
  /\ \A i, j \in 1..Len(feed_queue) : i < j => feed_queue[i].id < feed_queue[j].id
  /\ \A i \in 1..Len(feed_queue) : feed_queue[i].id <= sent
  /\ \A t \in DOMAIN books : NoYounger(books[t], sent)
  /\ \A t \in DOMAIN books : \A i \in 1..Len(feed_queue) : NoYounger(books[t], feed_queue[i].id)

\* The last full message of a token waits with nothing for the token behind it, or nothing for
\* the token waits and its book shows it.
Waits(t) ==
  \E i \in 1..Len(feed_queue) :
    feed_queue[i] = latest[t] /\ \A j \in i+1..Len(feed_queue) : ~Touches(feed_queue[j], t)

\* No message about the token waits, and its book shows the latest one.
Shown(t) ==
  /\ \A i \in 1..Len(feed_queue) : ~Touches(feed_queue[i], t)
  /\ t \in DOMAIN books /\ Shows(books[t], latest[t])

\* Inductive: the latest message about a token still waits or is shown, and the queue is in the order
\* of arrival.
FeedIInv ==
  /\ feed_queue \in Seq(FeedMessage) /\ Len(feed_queue) <= FeedMaxQueue
  /\ DOMAIN books \subseteq FeedTokens /\ \A t \in DOMAIN books : books[t] \in FeedBook
  /\ worker \in 0..FeedListeners
  /\ stats \in [received: Nat, processed: Nat, applied: Nat]
  /\ sent \in Nat /\ missing \in Nat
  /\ Feed!Accounted
  /\ FeedOrder
  /\ DOMAIN latest = FeedTokens
  /\ \A t \in FeedTokens : latest[t].kind = "book" =>
       /\ latest[t] \in FeedMessage /\ latest[t].token = t
       /\ Waits(t) \/ Shown(t)

\* What the fields of a message can be.
LEMMA MessageFields ==
  ASSUME NEW m \in FeedMessage
  PROVE  /\ m.id \in Nat /\ m.id > 0 /\ m.kind \in {"book", "best", "single", "other"}
         /\ m.kind # "other" => m.token \in FeedTokens
         /\ m.kind \in {"book", "best"} => m.bids \in SUBSET FeedPrices
         /\ m.kind = "book" => m.asks \in SUBSET FeedPrices
         /\ m.kind = "single" => m.price \in FeedPrices /\ m.side \in {"buy", "sell"}
<1>1. PICK id \in Nat \ {0} : m \in Feed!Messages(id)
  BY DEF FeedMessage
<1> DEFINE Full == [id: {id}, kind: {"book"}, token: FeedTokens, bids: {{}, FeedPrices},
                    asks: {{}, FeedPrices} \cup {{p} : p \in FeedPrices}]
           BestOnly == [id: {id}, kind: {"best"}, token: FeedTokens,
                        bids: {{p} : p \in FeedPrices}]
           OneSide == [id: {id}, kind: {"single"}, token: FeedTokens, side: {"buy", "sell"},
                       price: FeedPrices]
           Other == [id: {id}, kind: {"other"}]
<1>2. m \in Full \/ m \in BestOnly \/ m \in OneSide \/ m \in Other
  BY <1>1 DEF Feed!Messages
<1>3. CASE m \in Full
  BY <1>3
<1>4. CASE m \in BestOnly
  BY <1>4
<1>5. CASE m \in OneSide
  BY <1>5
<1>6. CASE m \in Other
  BY <1>6
<1> QED BY <1>2, <1>3, <1>4, <1>5, <1>6

\* The best of a side of a message is one of the prices.
LEMMA BestPrice ==
  ASSUME NEW T \in SUBSET FeedPrices, T # {}
  PROVE  Max(T) \in FeedPrices /\ Min(T) \in FeedPrices
<1>1. T \in SUBSET Nat /\ IsFiniteSet(T)
  BY FeedBounds, FS_Subset
<1> QED BY <1>1, MaxIn, MinIn

\* What replacing a level leaves.
LEMMA Replaced ==
  ASSUME NEW l \in Level, NEW best \in FeedPrices, NEW id \in Nat, l.id <= id
  PROVE  /\ Feed!Replace(l, best, id) \in Level
         /\ Feed!Replace(l, best, id).price = best
         /\ l.id <= Feed!Replace(l, best, id).id /\ Feed!Replace(l, best, id).id <= id
BY DEF Feed!Replace, Level

\* A level of a book, and a new one.
LEMMA WithLevel ==
  ASSUME NEW b \in FeedBook, NEW l \in Level
  PROVE  /\ [b EXCEPT !.bid = l] \in FeedBook /\ [b EXCEPT !.ask = l] \in FeedBook
         /\ [b EXCEPT !.bid = l].bid = l /\ [b EXCEPT !.bid = l].ask = b.ask
         /\ [b EXCEPT !.ask = l].ask = l /\ [b EXCEPT !.ask = l].bid = b.bid
BY DEF FeedBook

\* A message no older than the book leaves a book between the two, which shows a full message.
LEMMA HandledBook ==
  ASSUME NEW b \in FeedBook, NEW m \in FeedMessage, m.kind # "other", NoYounger(b, m.id)
  PROVE  /\ Feed!Handled(b, m) \in FeedBook
         /\ b.bid.id <= Feed!Handled(b, m).bid.id /\ b.ask.id <= Feed!Handled(b, m).ask.id
         /\ NoYounger(Feed!Handled(b, m), m.id)
         /\ m.kind = "book" => Shows(Feed!Handled(b, m), m)
<1>0. /\ b.bid \in Level /\ b.ask \in Level /\ b.bid.id \in Nat /\ b.ask.id \in Nat
      /\ b.bid.id <= m.id /\ b.ask.id <= m.id /\ m.id \in Nat
  BY MessageFields DEF FeedBook, Level, NoYounger
<1>1. CASE m.kind = "single"
  <2> DEFINE l == [price |-> m.price, id |-> m.id]
  <2>1. l \in Level /\ l.id = m.id
    BY <1>0, <1>1, MessageFields DEF Level
  <2>2. Feed!Handled(b, m) = Feed!Single(b, m)
    BY <1>1 DEF Feed!Handled
  <2> HIDE DEF l
  <2>3. CASE m.side = "buy"
    <3>1. PICK x \in {l, b.bid} : Feed!Single(b, m) = [b EXCEPT !.bid = x]
      <4>1. Feed!Single(b, m) = [b EXCEPT !.bid = IF m.price >= b.bid.price THEN l ELSE b.bid]
        BY <2>3 DEF Feed!Single, l, FeedBook
      <4> QED  BY <4>1
    <3>2. x \in Level /\ b.bid.id <= x.id /\ x.id <= m.id
      BY <1>0, <2>1, <3>1
    <3>3. /\ Feed!Handled(b, m) \in FeedBook
          /\ Feed!Handled(b, m).bid = x /\ Feed!Handled(b, m).ask = b.ask
      <4> DEFINE y == [b EXCEPT !.bid = x]
      <4>1. y \in FeedBook /\ y.bid = x /\ y.ask = b.ask
        BY <3>2 DEF FeedBook
      <4>2. Feed!Handled(b, m) = y
        BY <2>2, <3>1
      <4> HIDE DEF y
      <4> QED  BY <4>1, <4>2
    <3>4. b.ask.id <= b.ask.id
      BY <1>0
    <3> QED  BY <1>0, <1>1, <3>2, <3>3, <3>4 DEF NoYounger
  <2>4. CASE m.side # "buy"
    <3>1. PICK x \in {l, b.ask} : Feed!Single(b, m) = [b EXCEPT !.ask = x]
      <4>1. Feed!Single(b, m) = [b EXCEPT !.ask = IF b.ask = Feed!NoLevel \/ m.price <= b.ask.price
                                                  THEN l ELSE b.ask]
        BY <2>4 DEF Feed!Single, l, FeedBook
      <4> QED  BY <4>1
    <3>2. x \in Level /\ b.ask.id <= x.id /\ x.id <= m.id
      BY <1>0, <2>1, <3>1
    <3>3. /\ Feed!Handled(b, m) \in FeedBook
          /\ Feed!Handled(b, m).ask = x /\ Feed!Handled(b, m).bid = b.bid
      <4> DEFINE y == [b EXCEPT !.ask = x]
      <4>1. y \in FeedBook /\ y.ask = x /\ y.bid = b.bid
        BY <3>2 DEF FeedBook
      <4>2. Feed!Handled(b, m) = y
        BY <2>2, <3>1
      <4> HIDE DEF y
      <4> QED  BY <4>1, <4>2
    <3>4. b.bid.id <= b.bid.id
      BY <1>0
    <3> QED  BY <1>0, <1>1, <3>2, <3>3, <3>4 DEF NoYounger
  <2> QED  BY <2>3, <2>4
<1> DEFINE c == Feed!WithBid(b, m)
<1>2. ASSUME m.kind \in {"book", "best"}
      PROVE  /\ c \in FeedBook /\ b.bid.id <= c.bid.id /\ c.bid.id <= m.id /\ c.ask = b.ask
             /\ m.bids # {} => c.bid.price = Max(m.bids)
  <2>1. m.bids \in SUBSET FeedPrices
    BY <1>2, MessageFields
  <2>2. CASE m.bids = {}
    BY <1>0, <2>2 DEF Feed!WithBid
  <2>3. CASE m.bids # {}
    <3> DEFINE x == Feed!Replace(b.bid, Max(m.bids), m.id)
    <3>1. x \in Level /\ x.price = Max(m.bids) /\ b.bid.id <= x.id /\ x.id <= m.id
      BY <1>0, <2>1, <2>3, BestPrice, Replaced
    <3>2. c = [b EXCEPT !.bid = x]
      BY <2>3, FeedLibrary DEF Feed!WithBid, FeedBook
    <3> HIDE DEF c, x
    <3> QED  BY <1>0, <3>1, <3>2, WithLevel
  <2> QED  BY <2>2, <2>3
<1> HIDE DEF c
<1>3. CASE m.kind = "best"
  <2>1. Feed!Handled(b, m) = c
    BY <1>3 DEF Feed!Handled, c
  <2> QED  BY <1>0, <1>2, <1>3, <2>1 DEF NoYounger
<1>4. CASE m.kind = "book"
  <2>1. Feed!Handled(b, m) = Feed!WithAsk(c, m)
    BY <1>4 DEF Feed!Handled, c
  <2>2. m.asks \in SUBSET FeedPrices
    BY <1>4, MessageFields
  <2>3. c \in FeedBook /\ c.ask = b.ask /\ b.bid.id <= c.bid.id /\ c.bid.id <= m.id
        /\ (m.bids # {} => c.bid.price = Max(m.bids))
    BY <1>2, <1>4
  <2>4. CASE m.asks = {}
    <3>1. Feed!WithAsk(c, m) = c
      BY <2>4 DEF Feed!WithAsk
    <3> QED  BY <1>0, <2>1, <2>3, <2>4, <3>1 DEF NoYounger, Shows
  <2>5. CASE m.asks # {}
    <3> DEFINE x == Feed!Replace(c.ask, Min(m.asks), m.id)
    <3>1. x \in Level /\ x.price = Min(m.asks) /\ b.ask.id <= x.id /\ x.id <= m.id
      BY SMTT(30), <1>0, <2>2, <2>3, <2>5, BestPrice, Replaced
    <3>2. Feed!WithAsk(c, m) = [c EXCEPT !.ask = x]
      BY <2>5, <2>3, FeedLibrary DEF Feed!WithAsk, FeedBook
    <3> HIDE DEF x
    <3>3. /\ Feed!Handled(b, m) \in FeedBook
          /\ Feed!Handled(b, m).ask = x /\ Feed!Handled(b, m).bid = c.bid
      <4> DEFINE y == [c EXCEPT !.ask = x]
      <4>1. y \in FeedBook /\ y.ask = x /\ y.bid = c.bid
        BY <2>3, <3>1 DEF FeedBook
      <4>2. Feed!Handled(b, m) = y
        BY <2>1, <3>2
      <4> HIDE DEF y
      <4> QED  BY <4>1, <4>2
    <3> QED  BY <1>0, <2>3, <3>1, <3>3 DEF NoYounger, Shows
  <2> QED  BY <2>4, <2>5
<1> QED BY <1>1, <1>3, <1>4, MessageFields

\* Nothing received.
LEMMA FeedStart ==
  ASSUME Feed!Init
  PROVE  FeedIInv
<1>1. /\ feed_queue = << >> /\ feed_queue \in Seq(FeedMessage) /\ Len(feed_queue) = 0
      /\ books = << >> /\ DOMAIN books = {}
  BY DEF Feed!Init
<1>2. \A t \in FeedTokens : latest[t].kind = "none"
  BY DEF Feed!Init, Feed!NoMessage
<1>3. Feed!Accounted
  <2>1. Feed!Len(feed_queue) = 0
    BY <1>1 DEF Feed!Len
  <2> QED  BY <2>1 DEF Feed!Init, Feed!Accounted
<1> QED BY <1>1, <1>2, <1>3, FeedBounds DEF Feed!Init, FeedIInv, FeedOrder

\* A message comes in: d is what the full queue lost for it.
LEMMA FeedReceive ==
  ASSUME FeedIInv, NEW m \in Feed!Messages(sent + 1), Feed!Receive(m)
  PROVE  FeedIInv'
<1> DEFINE n == Len(feed_queue)
           full == n = FeedMaxQueue
           d == IF full THEN 1 ELSE 0
<1>0. /\ feed_queue \in Seq(FeedMessage) /\ n \in Nat /\ n <= FeedMaxQueue /\ sent \in Nat
      /\ FeedMaxQueue \in Nat /\ FeedMaxQueue > 0 /\ d \in 0..1 /\ d <= n /\ n - d \in Nat
      /\ n - d + 1 <= FeedMaxQueue
  BY FeedBounds DEF FeedIInv
<1>1. m \in FeedMessage /\ m.id = sent + 1
  <2>1. sent + 1 \in Nat \ {0}
    BY <1>0
  <2> QED  BY <2>1 DEF FeedMessage, Feed!Messages
<1>2. /\ feed_queue' \in Seq(FeedMessage) /\ Len(feed_queue') = n - d + 1
      /\ \A i \in 1..n - d : feed_queue'[i] = feed_queue[i + d]
      /\ feed_queue'[n - d + 1] = m
  <2>1. CASE full
    <3>1. feed_queue' = Append(Tail(feed_queue), m)
      BY <1>0, <2>1 DEF Feed!Receive, Feed!Put
    <3>2. Tail(feed_queue) \in Seq(FeedMessage) /\ Len(Tail(feed_queue)) = n - 1
          /\ \A i \in 1..n - 1 : Tail(feed_queue)[i] = feed_queue[i + 1]
      BY <1>0, <2>1
    <3> QED  BY <1>0, <1>1, <2>1, <3>1, <3>2
  <2>2. CASE ~full
    <3>1. feed_queue' = Append(feed_queue, m)
      BY <1>0, <2>2 DEF Feed!Receive, Feed!Put
    <3> QED  BY <1>0, <1>1, <2>2, <3>1
  <2> QED  BY <2>1, <2>2
<1>3. /\ sent' = sent + 1 /\ missing' = missing + d
      /\ stats' = [stats EXCEPT !.received = @ + 1]
      /\ UNCHANGED <<books, worker>>
  BY <1>0 DEF Feed!Receive, FeedIInv
<1>4. /\ DOMAIN latest' = FeedTokens
      /\ \A t \in FeedTokens :
           \/ Touches(m, t) /\ latest'[t] = m
           \/ ~Touches(m, t) /\ latest'[t] = Feed!NoMessage
           \/ ~Touches(m, t) /\ latest'[t] = latest[t] /\ (full => latest[t] # feed_queue[1])
  <2> DEFINE kept == [t \in FeedTokens |-> IF full /\ latest[t] = Head(feed_queue)
                                          THEN Feed!NoMessage ELSE latest[t]]
  <2>1. latest' = IF m.kind = "other" THEN kept ELSE [kept EXCEPT ![m.token] = m]
    BY DEF Feed!Receive
  <2>2. full => Head(feed_queue) = feed_queue[1]
    BY <1>0
  <2>3. \A t \in FeedTokens : \/ kept[t] = Feed!NoMessage
                              \/ kept[t] = latest[t] /\ (full => latest[t] # feed_queue[1])
    BY <2>2
  <2>4. CASE m.kind = "other"
    BY <2>1, <2>3, <2>4 DEF Touches
  <2>5. CASE m.kind # "other"
    <3>1. m.token \in FeedTokens
      BY <1>1, <2>5, MessageFields
    <3>2. latest' = [kept EXCEPT ![m.token] = m]
      BY <2>1, <2>5
    <3>3. DOMAIN latest' = FeedTokens /\ latest'[m.token] = m
          /\ \A t \in FeedTokens : t # m.token => latest'[t] = kept[t]
      BY <3>1, <3>2
    <3> HIDE DEF kept
    <3> QED  BY <2>3, <2>5, <3>3 DEF Touches
  <2> QED  BY <2>4, <2>5
<1> HIDE DEF d
<1>5. stats' \in [received: Nat, processed: Nat, applied: Nat]
      /\ stats'.received = stats.received + 1 /\ stats'.processed = stats.processed
  BY <1>3 DEF FeedIInv
<1>6. Feed!Accounted'
  <2>1. stats.received = stats.processed + n + missing + (IF worker > 0 THEN 1 ELSE 0)
    BY DEF FeedIInv, Feed!Accounted
  <2>2. stats.received \in Nat /\ stats.processed \in Nat /\ missing \in Nat
    BY DEF FeedIInv
  <2> DEFINE w == IF worker > 0 THEN 1 ELSE 0
  <2>3. w \in 0..1
    OBVIOUS
  <2>4. (IF worker' > 0 THEN 1 ELSE 0) = w
    BY <1>3
  <2>5. stats.received = stats.processed + n + missing + w
    BY <2>1
  <2> HIDE DEF w, n
  <2>6. stats.received + 1 = stats.processed + ((n - d) + 1) + (missing + d) + w
    BY <1>0, <2>2, <2>3, <2>5
  <2>7. stats'.received = stats'.processed + Len(feed_queue') + missing'
                            + (IF worker' > 0 THEN 1 ELSE 0)
    BY <1>2, <1>3, <1>5, <2>4, <2>6
  <2> QED  BY <2>7 DEF Feed!Accounted
<1>7. FeedOrder'
  <2>1. \A i \in 1..n - d : i + d \in 1..n
    BY <1>0
  <2>2. \A i \in 1..n : feed_queue[i].id \in Nat /\ feed_queue[i].id <= sent
    <3>1. \A i \in 1..n : feed_queue[i] \in FeedMessage
      BY <1>0
    <3> QED  BY <3>1, MessageFields DEF FeedIInv, FeedOrder
  <2>3. \A i \in 1..n - d : feed_queue'[i].id \in Nat /\ feed_queue'[i].id <= sent
    BY <1>2, <2>1, <2>2
  <2>4. feed_queue'[n - d + 1].id = sent + 1
    BY <1>1, <1>2
  <2>5. \A i \in 1..n - d + 1 : i \in 1..n - d \/ i = n - d + 1
    BY <1>0
  <2>6. \A i, j \in 1..n - d : i < j => feed_queue'[i].id < feed_queue'[j].id
    <3> SUFFICES ASSUME NEW i \in 1..n - d, NEW j \in 1..n - d, i < j
                 PROVE  feed_queue'[i].id < feed_queue'[j].id
      OBVIOUS
    <3>1. i + d \in 1..n /\ j + d \in 1..n /\ i + d < j + d
      BY <1>0
    <3>2. feed_queue[i + d].id < feed_queue[j + d].id
      BY <3>1 DEF FeedIInv, FeedOrder
    <3> QED  BY <1>2, <3>2
  <2>7. \A i, j \in 1..n - d + 1 : i < j => feed_queue'[i].id < feed_queue'[j].id
    BY <1>0, <2>3, <2>4, <2>5, <2>6
  <2>8. \A t \in DOMAIN books : NoYounger(books[t], sent) /\ books[t] \in FeedBook
    BY DEF FeedIInv, FeedOrder
  <2>9. \A t \in DOMAIN books : NoYounger(books[t], sent + 1)
    BY <1>0, <2>8 DEF NoYounger, FeedBook, Level
  <2>10. ASSUME NEW t \in DOMAIN books, NEW i \in 1..n - d + 1
         PROVE  NoYounger(books[t], feed_queue'[i].id)
    <3>1. CASE i \in 1..n - d
      <4>1. NoYounger(books[t], feed_queue[i + d].id)
        BY <2>1, <3>1 DEF FeedIInv, FeedOrder
      <4> QED  BY <1>2, <3>1, <4>1
    <3>2. CASE i = n - d + 1
      BY <2>4, <2>9, <3>2
    <3> QED  BY <2>5, <3>1, <3>2
  <2>11. \A i \in 1..n - d + 1 : feed_queue'[i].id <= sent + 1
    BY <1>0, <2>3, <2>4, <2>5
  <2> QED  BY <1>2, <1>3, <2>7, <2>9, <2>10, <2>11 DEF FeedOrder
<1>8. ASSUME NEW t \in FeedTokens, latest'[t].kind = "book"
      PROVE  /\ latest'[t] \in FeedMessage /\ latest'[t].token = t
             /\ Waits(t)' \/ Shown(t)'
  <2>1. CASE latest'[t] = m /\ Touches(m, t)
    <3>1. \A j \in n - d + 2..Len(feed_queue') : FALSE
      BY <1>0, <1>2
    <3>2. n - d + 1 \in 1..Len(feed_queue') /\ n - d + 1 + 1 = n - d + 2
      BY <1>0, <1>2
    <3>3. Waits(t)'
      BY <1>2, <2>1, <3>1, <3>2 DEF Waits
    <3> QED  BY <1>1, <2>1, <3>3 DEF Touches
  <2>2. CASE ~(latest'[t] = m /\ Touches(m, t))
    <3>1. latest'[t] = latest[t] /\ (full => latest[t] # feed_queue[1]) /\ ~Touches(m, t)
      BY <1>4, <1>8, <2>2 DEF Feed!NoMessage
    <3>2. latest[t] \in FeedMessage /\ latest[t].token = t /\ (Waits(t) \/ Shown(t))
      BY <1>8, <3>1 DEF FeedIInv
    <3>3. CASE Waits(t)
      <4>1. PICK i \in 1..n : /\ feed_queue[i] = latest[t]
                              /\ \A j \in i+1..n : ~Touches(feed_queue[j], t)
        BY <3>3 DEF Waits
      <4>2. i - d \in 1..n - d
        <5>1. CASE full
          <6>1. i # 1
            BY <3>1, <4>1, <5>1
          <6> QED  BY <1>0, <4>1, <5>1, <6>1 DEF d
        <5>2. CASE ~full
          BY <1>0, <5>2 DEF d
        <5> QED  BY <5>1, <5>2
      <4>3. feed_queue'[i - d] = latest'[t]
        <5>1. (i - d) + d = i
          BY <1>0
        <5>2. feed_queue'[i - d] = feed_queue[(i - d) + d]
          BY <1>2, <4>2
        <5> QED  BY <3>1, <4>1, <5>1, <5>2
      <4>4. ASSUME NEW j \in (i - d)+1..n - d + 1
            PROVE  ~Touches(feed_queue'[j], t)
        <5>1. CASE j = n - d + 1
          BY <1>2, <3>1, <5>1
        <5>2. CASE j # n - d + 1
          <6>1. j \in 1..n - d /\ j + d \in i+1..n
            BY <1>0, <4>2, <5>2
          <6> QED  BY <1>2, <4>1, <6>1
        <5> QED  BY <5>1, <5>2
      <4>5. i - d \in 1..Len(feed_queue')
        BY <1>0, <1>2, <4>2
      <4>6. Waits(t)'
        BY <1>2, <4>3, <4>4, <4>5 DEF Waits
      <4> QED  BY <3>1, <3>2, <4>6
    <3>4. CASE Shown(t)
      <4>1. ASSUME NEW j \in 1..n - d + 1 PROVE ~Touches(feed_queue'[j], t)
        <5>1. CASE j = n - d + 1
          BY <1>2, <3>1, <5>1
        <5>2. CASE j # n - d + 1
          <6>1. j \in 1..n - d /\ j + d \in 1..n
            BY <1>0, <5>2
          <6> QED  BY <1>2, <3>4, <6>1 DEF Shown
        <5> QED  BY <5>1, <5>2
      <4>2. Shown(t)'
        BY <1>2, <1>3, <3>1, <3>4, <4>1 DEF Shown
      <4> QED  BY <3>1, <3>2, <4>2
    <3> QED  BY <3>2, <3>3, <3>4
  <2> QED  BY <2>1, <2>2
<1>9. Len(feed_queue') <= FeedMaxQueue
  BY <1>0, <1>2
<1>10. sent' \in Nat /\ missing' \in Nat
  BY <1>0, <1>3 DEF FeedIInv
<1> QED BY <1>2, <1>3, <1>4, <1>5, <1>6, <1>7, <1>8, <1>9, <1>10 DEF FeedIInv

\* The processor leaves the books of other tokens alone, and brings that of the message's token
\* no further than the message.
LEMMA BooksAfter ==
  ASSUME FeedIInv, NEW m \in FeedMessage, UNCHANGED sent,
         \A t \in DOMAIN books : NoYounger(books[t], m.id),
         \/ m.kind = "other" /\ UNCHANGED books
         \/ m.kind # "other" /\ (Feed!Apply(m) \/ Feed!ApplyRaises(m))
  PROVE  /\ DOMAIN books \subseteq DOMAIN books' /\ DOMAIN books' \subseteq FeedTokens
         /\ \A t \in DOMAIN books' : books'[t] \in FeedBook
         /\ \A t \in DOMAIN books' : \/ t \in DOMAIN books /\ books'[t] = books[t]
                                     \/ Touches(m, t) /\ NoYounger(books'[t], m.id)
         /\ \A t \in DOMAIN books : /\ books[t].bid.id <= books'[t].bid.id
                                    /\ books[t].ask.id <= books'[t].ask.id
         /\ \A t \in FeedTokens : Touches(m, t) /\ m.kind = "book" =>
              t \in DOMAIN books' /\ Shows(books'[t], m)
         /\ \A t \in DOMAIN books : ~Touches(m, t) => books'[t] = books[t]
<1>0. /\ DOMAIN books \subseteq FeedTokens /\ \A t \in DOMAIN books : books[t] \in FeedBook
      /\ \A t \in DOMAIN books : books[t].bid.id \in Nat /\ books[t].ask.id \in Nat
  BY DEF FeedIInv, FeedBook, Level
<1>1. CASE m.kind = "other" /\ UNCHANGED books
  BY <1>0, <1>1 DEF Touches
<1>2. CASE m.kind # "other" /\ (Feed!Apply(m) \/ Feed!ApplyRaises(m))
  <2> DEFINE k == m.token
             b == Feed!BookOf(m)
             h == Feed!Handled(b, m)
  <2>1. k \in FeedTokens /\ m.id \in Nat
    BY <1>2, MessageFields
  <2>2. b \in FeedBook /\ NoYounger(b, m.id) /\ (k \in DOMAIN books => b = books[k])
    <3>1. CASE k \in DOMAIN books
      BY <1>0, <3>1 DEF Feed!BookOf
    <3>2. CASE k \notin DOMAIN books
      BY <2>1, <3>2
         DEF Feed!BookOf, Feed!NoBook, Feed!NoLevel, FeedBook, Level, NoYounger
    <3> QED  BY <3>1, <3>2
  <2>3. /\ h \in FeedBook /\ b.bid.id <= h.bid.id /\ b.ask.id <= h.ask.id
        /\ NoYounger(h, m.id) /\ (m.kind = "book" => Shows(h, m))
    BY <1>2, <2>2, HandledBook
  <2>4. PICK x : /\ books' = [t \in DOMAIN books \cup {k} |-> IF t = k THEN x ELSE books[t]]
                 /\ x \in {h, [h EXCEPT !.updates = @ + 1]}
    BY <1>2 DEF Feed!Apply, Feed!ApplyRaises
  <2>5. x \in FeedBook /\ x.bid = h.bid /\ x.ask = h.ask
    <3>1. CASE x = h
      BY <2>3, <3>1
    <3>2. CASE x = [h EXCEPT !.updates = @ + 1]
      <4>1. h \in FeedBook
        BY <2>3
      <4> HIDE DEF h
      <4> QED  BY <3>2, <4>1 DEF FeedBook
    <3> QED  BY <2>4, <3>1, <3>2
  <2> HIDE DEF h, b
  <2>6. NoYounger(x, m.id) /\ (m.kind = "book" => Shows(x, m))
    BY <2>3, <2>5 DEF NoYounger, Shows
  <2>7. k \in DOMAIN books => books[k].bid.id <= x.bid.id /\ books[k].ask.id <= x.ask.id
    BY <2>2, <2>3, <2>5
  <2>8. DOMAIN books' = DOMAIN books \cup {k} /\ books'[k] = x
        /\ \A t \in DOMAIN books : t # k => books'[t] = books[t]
    BY <2>4
  <2>9. \A t : Touches(m, t) <=> t = k
    BY <1>2 DEF Touches
  <2>10. \A t \in DOMAIN books : /\ books[t].bid.id <= books'[t].bid.id
                              /\ books[t].ask.id <= books'[t].ask.id
    <3> SUFFICES ASSUME NEW t \in DOMAIN books
                 PROVE  /\ books[t].bid.id <= books'[t].bid.id
                        /\ books[t].ask.id <= books'[t].ask.id
      OBVIOUS
    <3>1. CASE t = k
      BY <2>7, <2>8, <3>1
    <3>2. CASE t # k
      BY <1>0, <2>8, <3>2
    <3> QED  BY <3>1, <3>2
  <2> HIDE DEF k
  <2> QED  BY <1>0, <2>1, <2>5, <2>6, <2>8, <2>9, <2>10
<1> QED BY <1>1, <1>2

\* What the processor takes from the queue.
LEMMA FeedTaken ==
  ASSUME FeedIInv, feed_queue # << >>
  PROVE  LET m == Head(feed_queue)
             n == Len(feed_queue)
         IN /\ n \in Nat /\ n > 0 /\ m = feed_queue[1] /\ m \in FeedMessage
            /\ Tail(feed_queue) \in Seq(FeedMessage) /\ Len(Tail(feed_queue)) = n - 1
            /\ \A i \in 1..n - 1 : i + 1 \in 2..n /\ Tail(feed_queue)[i] = feed_queue[i + 1]
            /\ \A t \in DOMAIN books : NoYounger(books[t], m.id)
            /\ m.id <= sent /\ m.id \in Nat
            /\ \A i \in 2..n : m.id < feed_queue[i].id /\ feed_queue[i].id \in Nat
<1>1. feed_queue \in Seq(FeedMessage) /\ Len(feed_queue) \in Nat /\ Len(feed_queue) > 0
  BY DEF FeedIInv
<1>2. /\ Head(feed_queue) = feed_queue[1] /\ Head(feed_queue) \in FeedMessage
      /\ Tail(feed_queue) \in Seq(FeedMessage) /\ Len(Tail(feed_queue)) = Len(feed_queue) - 1
      /\ \A i \in 1..Len(feed_queue) - 1 :
           i + 1 \in 2..Len(feed_queue) /\ Tail(feed_queue)[i] = feed_queue[i + 1]
  BY <1>1
<1>3. 1 \in 1..Len(feed_queue) /\ \A i \in 2..Len(feed_queue) : i \in 1..Len(feed_queue) /\ 1 < i
  BY <1>1
<1>4. \A i \in 1..Len(feed_queue) : feed_queue[i].id \in Nat
  BY <1>1, MessageFields
<1>5. /\ \A t \in DOMAIN books : NoYounger(books[t], feed_queue[1].id)
      /\ feed_queue[1].id <= sent
      /\ \A i \in 2..Len(feed_queue) : feed_queue[1].id < feed_queue[i].id
  BY <1>3 DEF FeedIInv, FeedOrder
<1> QED BY <1>1, <1>2, <1>3, <1>4, <1>5

\* The statistics with two of their counters replaced.
LEMMA StatsWith ==
  ASSUME stats \in [received: Nat, processed: Nat, applied: Nat], NEW a \in Nat, NEW q \in Nat
  PROVE  LET s == [stats EXCEPT !.applied = a, !.processed = q]
         IN /\ s \in [received: Nat, processed: Nat, applied: Nat]
            /\ s.received = stats.received /\ s.processed = q
OBVIOUS

\* _process_loop() takes a message and applies it; no book goes back to an older one.
LEMMA FeedProcess ==
  ASSUME FeedIInv, Feed!Process
  PROVE  FeedIInv' /\ Feed!NeverBackwards
<1> DEFINE m == Head(feed_queue)
           n == Len(feed_queue)
<1>0. /\ n \in Nat /\ n > 0 /\ m = feed_queue[1] /\ m \in FeedMessage
      /\ Tail(feed_queue) \in Seq(FeedMessage) /\ Len(Tail(feed_queue)) = n - 1
      /\ \A i \in 1..n - 1 : i + 1 \in 2..n /\ Tail(feed_queue)[i] = feed_queue[i + 1]
      /\ \A t \in DOMAIN books : NoYounger(books[t], m.id)
      /\ m.id <= sent /\ m.id \in Nat
      /\ \A i \in 2..n : m.id < feed_queue[i].id /\ feed_queue[i].id \in Nat
  BY FeedTaken DEF Feed!Process
<1>1. /\ worker = 0 /\ feed_queue' = Tail(feed_queue)
      /\ UNCHANGED <<sent, latest, feed_losses>>
      /\ \/ m.kind \in {"book", "single"} /\ Feed!Apply(m)
         \/ m.kind = "best" /\ Feed!ApplyRaises(m)
         \/ /\ m.kind = "other" /\ stats' = [stats EXCEPT !.processed = @ + 1]
            /\ UNCHANGED <<books, worker, missing>>
  BY DEF Feed!Process
<1> HIDE DEF m
<1>2. /\ DOMAIN books \subseteq DOMAIN books' /\ DOMAIN books' \subseteq FeedTokens
      /\ \A t \in DOMAIN books' : books'[t] \in FeedBook
      /\ \A t \in DOMAIN books' : \/ t \in DOMAIN books /\ books'[t] = books[t]
                                  \/ Touches(m, t) /\ NoYounger(books'[t], m.id)
      /\ \A t \in DOMAIN books : /\ books[t].bid.id <= books'[t].bid.id
                                 /\ books[t].ask.id <= books'[t].ask.id
      /\ \A t \in DOMAIN books : ~Touches(m, t) => books'[t] = books[t]
      /\ \A t \in FeedTokens : Touches(m, t) /\ m.kind = "book" =>
           t \in DOMAIN books' /\ Shows(books'[t], m)
  BY <1>0, <1>1, BooksAfter
<1>3. /\ worker' \in 0..FeedListeners /\ missing' \in Nat
      /\ stats' \in [received: Nat, processed: Nat, applied: Nat]
      /\ stats'.received = stats.received
      /\ stats'.processed + missing' + (IF worker' > 0 THEN 1 ELSE 0)
           = stats.processed + missing + 1
  <2>0. /\ worker = 0 /\ missing \in Nat /\ FeedListeners \in Nat
        /\ stats \in [received: Nat, processed: Nat, applied: Nat]
    BY <1>1, FeedBounds DEF FeedIInv
  <2>1. CASE m.kind \in {"book", "single"} /\ Feed!Apply(m)
    <3>1. missing' = missing
      BY <2>1 DEF Feed!Apply
    <3>2. \/ FeedListeners > 0 /\ worker' = FeedListeners
             /\ stats' = [stats EXCEPT !.applied = @ + 1]
          \/ worker' = worker
             /\ stats' = [stats EXCEPT !.applied = @ + 1, !.processed = @ + 1]
          \/ worker' = worker
             /\ stats' = [stats EXCEPT !.applied = @, !.processed = @ + 1]
      BY <2>1 DEF Feed!Apply
    <3>3. CASE FeedListeners > 0 /\ worker' = FeedListeners
               /\ stats' = [stats EXCEPT !.applied = @ + 1]
      BY <2>0, <3>1, <3>3
    <3>4. CASE worker' = worker /\ stats' = [stats EXCEPT !.applied = @ + 1, !.processed = @ + 1]
      <4> DEFINE s == [stats EXCEPT !.applied = @ + 1, !.processed = @ + 1]
      <4>1. /\ s \in [received: Nat, processed: Nat, applied: Nat]
            /\ s.received = stats.received /\ s.processed = stats.processed + 1
        BY <2>0, stats.applied + 1 \in Nat, stats.processed + 1 \in Nat, StatsWith
      <4>2. stats' = s /\ worker' = 0
        BY <2>0, <3>4
      <4>3. (IF worker' > 0 THEN 1 ELSE 0) = 0
        BY <4>2
      <4>4. stats.processed \in Nat
        BY <2>0
      <4> HIDE DEF s
      <4> QED  BY <2>0, <3>1, <4>1, <4>2, <4>3, <4>4
    <3>5. CASE worker' = worker /\ stats' = [stats EXCEPT !.applied = @, !.processed = @ + 1]
      <4> DEFINE s == [stats EXCEPT !.applied = @, !.processed = @ + 1]
      <4>1. /\ s \in [received: Nat, processed: Nat, applied: Nat]
            /\ s.received = stats.received /\ s.processed = stats.processed + 1
        BY <2>0, stats.applied \in Nat, stats.processed + 1 \in Nat, StatsWith
      <4>2. stats' = s /\ worker' = 0
        BY <2>0, <3>5
      <4>3. (IF worker' > 0 THEN 1 ELSE 0) = 0
        BY <4>2
      <4>4. stats.processed \in Nat
        BY <2>0
      <4> HIDE DEF s
      <4> QED  BY <2>0, <3>1, <4>1, <4>2, <4>3, <4>4
    <3> QED  BY <3>2, <3>3, <3>4, <3>5
  <2>2. CASE m.kind = "best" /\ Feed!ApplyRaises(m)
    BY <2>0, <2>2 DEF Feed!ApplyRaises
  <2>3. CASE m.kind = "other" /\ stats' = [stats EXCEPT !.processed = @ + 1]
             /\ UNCHANGED <<books, worker, missing>>
    BY <2>0, <2>3
  <2> QED  BY <1>1, <2>1, <2>2, <2>3
<1>4. Feed!Accounted'
  <2>1. stats.received = stats.processed + n + missing + 0
    BY <1>1 DEF FeedIInv, Feed!Accounted
  <2>2. stats.received \in Nat /\ stats.processed \in Nat /\ missing \in Nat
    BY DEF FeedIInv
  <2> DEFINE w == IF worker' > 0 THEN 1 ELSE 0
  <2>3. w \in 0..1 /\ stats'.processed \in Nat /\ missing' \in Nat
    BY <1>3
  <2>4. stats'.received = stats.received /\ stats'.processed + missing' + w = stats.processed + missing + 1
    BY <1>3
  <2>5. Len(feed_queue') = n - 1
    BY <1>0, <1>1
  <2>6. n \in Nat /\ n > 0
    BY <1>0
  <2> HIDE DEF w, n
  <2>7. stats.processed + n + missing = stats'.processed + (n - 1) + missing' + w
    BY <2>2, <2>3, <2>4, <2>6
  <2>8. stats'.received = stats'.processed + Len(feed_queue') + missing' + w
    BY <2>1, <2>2, <2>4, <2>5, <2>6, <2>7
  <2> QED  BY <2>8 DEF Feed!Accounted, w
<1>5. FeedOrder'
  <2>1. \A i, j \in 1..n - 1 : i < j => feed_queue'[i].id < feed_queue'[j].id
    <3> SUFFICES ASSUME NEW i \in 1..n - 1, NEW j \in 1..n - 1, i < j
                 PROVE  feed_queue'[i].id < feed_queue'[j].id
      OBVIOUS
    <3>1. i + 1 \in 1..n /\ j + 1 \in 1..n /\ i + 1 < j + 1
      BY <1>0
    <3>2. feed_queue[i + 1].id < feed_queue[j + 1].id
      BY <3>1 DEF FeedIInv, FeedOrder
    <3> QED  BY <1>0, <1>1, <3>2
  <2>2. ASSUME NEW i \in 1..n - 1 PROVE feed_queue'[i].id <= sent
    <3>1. i + 1 \in 1..n /\ feed_queue'[i] = feed_queue[i + 1]
      BY <1>0, <1>1
    <3> QED  BY <3>1 DEF FeedIInv, FeedOrder
  <2>3. ASSUME NEW t \in DOMAIN books' PROVE NoYounger(books'[t], sent)
    <3>1. books'[t].bid.id \in Nat /\ books'[t].ask.id \in Nat /\ sent \in Nat
      BY <1>2 DEF FeedBook, Level, FeedIInv
    <3>2. CASE t \in DOMAIN books /\ books'[t] = books[t]
      BY <3>2 DEF FeedIInv, FeedOrder
    <3>3. CASE NoYounger(books'[t], m.id)
      BY <1>0, <3>1, <3>3 DEF NoYounger
    <3> QED  BY <1>2, <3>2, <3>3
  <2>4. ASSUME NEW t \in DOMAIN books', NEW i \in 1..n - 1
        PROVE  NoYounger(books'[t], feed_queue'[i].id)
    <3>1. books'[t].bid.id \in Nat /\ books'[t].ask.id \in Nat
      BY <1>2 DEF FeedBook, Level
    <3>2. i + 1 \in 2..n /\ feed_queue'[i] = feed_queue[i + 1]
      BY <1>0, <1>1
    <3>3. NoYounger(books'[t], m.id)
      BY <1>0, <1>2
    <3> QED  BY <1>0, <3>1, <3>2, <3>3 DEF NoYounger
  <2> QED  BY <1>0, <1>1, <2>1, <2>2, <2>3, <2>4 DEF FeedOrder
<1>6. ASSUME NEW t \in FeedTokens, latest'[t].kind = "book"
      PROVE  /\ latest'[t] \in FeedMessage /\ latest'[t].token = t
             /\ Waits(t)' \/ Shown(t)'
  <2>1. /\ latest'[t] = latest[t] /\ latest[t].kind = "book"
        /\ latest[t] \in FeedMessage /\ latest[t].token = t /\ (Waits(t) \/ Shown(t))
    BY <1>1, <1>6 DEF FeedIInv
  <2>2. CASE Waits(t)
    <3>1. PICK i \in 1..n : /\ feed_queue[i] = latest[t]
                            /\ \A j \in i+1..n : ~Touches(feed_queue[j], t)
      BY <2>2 DEF Waits
    <3>2. CASE i = 1
      <4>1. m = latest[t] /\ Touches(m, t) /\ m.kind = "book"
        BY <1>0, <2>1, <3>1, <3>2 DEF Touches
      <4>2. t \in DOMAIN books' /\ Shows(books'[t], m)
        BY <1>2, <4>1
      <4>3. \A j \in 1..n - 1 : ~Touches(feed_queue'[j], t)
        BY <1>0, <1>1, <3>1, <3>2
      <4>4. Shown(t)'
        BY <1>0, <1>1, <2>1, <4>1, <4>2, <4>3 DEF Shown
      <4> QED  BY <2>1, <4>4
    <3>3. CASE i # 1
      <4>1. i - 1 \in 1..n - 1 /\ feed_queue'[i - 1] = feed_queue[i]
        <5>1. i - 1 \in 1..n - 1 /\ (i - 1) + 1 = i
          BY <1>0, <3>3
        <5>2. feed_queue'[i - 1] = feed_queue[(i - 1) + 1]
          BY <1>0, <1>1, <5>1
        <5> QED  BY <5>1, <5>2
      <4>2. ASSUME NEW j \in (i - 1)+1..n - 1 PROVE ~Touches(feed_queue'[j], t)
        <5>1. j \in 1..n - 1 /\ j + 1 \in i+1..n
          BY <1>0, <3>3
        <5> QED  BY <1>0, <1>1, <3>1, <5>1
      <4>3. Waits(t)'
        BY <1>0, <1>1, <2>1, <3>1, <4>1, <4>2 DEF Waits
      <4> QED  BY <2>1, <4>3
    <3> QED  BY <3>2, <3>3
  <2>3. CASE Shown(t)
    <3>1. ~Touches(m, t) /\ \A j \in 1..n - 1 : ~Touches(feed_queue'[j], t)
      <4>1. 1 \in 1..n /\ \A j \in 1..n - 1 : j + 1 \in 1..n
        BY <1>0
      <4> QED  BY <1>0, <1>1, <2>3, <4>1 DEF Shown
    <3>2. t \in DOMAIN books' /\ books'[t] = books[t]
      BY <1>2, <2>3, <3>1 DEF Shown
    <3>3. Shown(t)'
      BY <1>0, <1>1, <2>1, <2>3, <3>1, <3>2 DEF Shown
    <3> QED  BY <2>1, <3>3
  <2> QED  BY <2>1, <2>2, <2>3
<1>7. Feed!NeverBackwards
  BY <1>2 DEF Feed!NeverBackwards, FeedBook, Level, FeedIInv
<1>8. Len(feed_queue') \in Nat /\ Len(feed_queue') <= FeedMaxQueue
  BY <1>0, <1>1, FeedBounds DEF FeedIInv
<1> QED BY <1>0, <1>1, <1>2, <1>3, <1>4, <1>5, <1>6, <1>7, <1>8 DEF FeedIInv

\* The queue and the history of a token's last message are as before.
LEMMA FeedSame ==
  ASSUME FeedIInv, UNCHANGED <<feed_queue, sent>>, NEW t \in FeedTokens,
         t \in DOMAIN books => t \in DOMAIN books' /\ books'[t] = books[t],
         latest'[t] = latest[t], latest'[t].kind = "book"
  PROVE  /\ latest'[t] \in FeedMessage /\ latest'[t].token = t
         /\ Waits(t)' \/ Shown(t)'
BY DEF FeedIInv, Waits, Shown

\* A callback returns, or the connection is lost and made again.
LEMMA FeedOthers ==
  ASSUME FeedIInv, Feed!CallbackDone \/ Feed!Reconnect
  PROVE  FeedIInv'
<1>0. /\ worker \in 0..FeedListeners /\ FeedListeners \in Nat /\ missing \in Nat
      /\ stats \in [received: Nat, processed: Nat, applied: Nat]
      /\ Len(feed_queue) \in Nat
      /\ stats.received = stats.processed + Len(feed_queue) + missing
                            + (IF worker > 0 THEN 1 ELSE 0)
  BY FeedBounds DEF FeedIInv, Feed!Accounted
<1>1. /\ worker' \in 0..FeedListeners /\ missing' \in Nat
      /\ stats' \in [received: Nat, processed: Nat, applied: Nat]
      /\ Feed!Accounted'
      /\ UNCHANGED <<feed_queue, books, sent, latest>>
  <2>1. CASE Feed!CallbackDone
    <3>1. /\ worker > 0 /\ worker' = worker - 1
          /\ UNCHANGED <<feed_queue, books, sent, latest, missing>>
      BY <2>1 DEF Feed!CallbackDone
    <3>2. CASE worker = 1
      <4>1. stats' = [stats EXCEPT !.processed = @ + 1]
        BY <2>1, <3>2 DEF Feed!CallbackDone
      <4>2. worker' = 0
        BY <3>1, <3>2
      <4> QED  BY <1>0, <3>1, <3>2, <4>1, <4>2 DEF Feed!Accounted
    <3>3. CASE worker # 1
      <4>1. stats' = stats
        BY <1>0, <2>1, <3>3 DEF Feed!CallbackDone
      <4>2. worker' > 0 /\ worker' \in 0..FeedListeners
        BY <1>0, <3>1, <3>3
      <4> QED  BY <1>0, <3>1, <4>1, <4>2 DEF Feed!Accounted
    <3> QED  BY <3>2, <3>3
  <2>2. CASE Feed!Reconnect
    <3>1. worker' = 0 /\ missing' = missing + (IF worker > 0 THEN 1 ELSE 0)
          /\ UNCHANGED <<feed_queue, books, stats, sent, latest>>
      BY <1>0, <2>2 DEF Feed!Reconnect
    <3> QED  BY <1>0, <3>1 DEF Feed!Accounted
  <2> QED  BY <2>1, <2>2
<1>2. FeedOrder'
  BY <1>1 DEF FeedIInv, FeedOrder
<1> QED BY <1>1, <1>2, FeedSame DEF FeedIInv

\* unsubscribe() drops the book of a token.
LEMMA FeedForget ==
  ASSUME FeedIInv, NEW k \in FeedTokens, Feed!Forget(k)
  PROVE  FeedIInv'
<1>1. /\ books' = [u \in DOMAIN books \ {k} |-> books[u]]
      /\ latest' = [latest EXCEPT ![k] = Feed!NoMessage]
      /\ UNCHANGED <<feed_queue, worker, stats, sent, missing>>
  BY DEF Feed!Forget
<1>2. DOMAIN books' \subseteq DOMAIN books /\ \A u \in DOMAIN books' : books'[u] = books[u]
  BY <1>1
<1>3. /\ DOMAIN latest' = FeedTokens /\ latest'[k] = Feed!NoMessage
      /\ \A t \in FeedTokens : t # k => latest'[t] = latest[t]
  BY <1>1 DEF FeedIInv
<1>4. ASSUME NEW t \in FeedTokens, latest'[t].kind = "book"
      PROVE  /\ latest'[t] \in FeedMessage /\ latest'[t].token = t
             /\ Waits(t)' \/ Shown(t)'
  <2>1. t # k
    BY <1>3, <1>4 DEF Feed!NoMessage
  <2>2. t \in DOMAIN books => t \in DOMAIN books' /\ books'[t] = books[t]
    BY <1>1, <2>1
  <2> QED  BY <1>1, <1>3, <1>4, <2>1, <2>2, FeedSame
<1>5. FeedOrder'
  BY <1>1, <1>2 DEF FeedIInv, FeedOrder
<1>6. Feed!Accounted'
  BY <1>1 DEF FeedIInv, Feed!Accounted
<1> QED BY <1>1, <1>2, <1>3, <1>4, <1>5, <1>6 DEF FeedIInv

\* Every step of the pipeline.
LEMMA FeedPreserved ==
  ASSUME FeedIInv, Feed!Next
  PROVE  FeedIInv'
BY FeedReceive, FeedProcess, FeedOthers, FeedForget DEF Feed!Next

\* Steps of the other parts.
LEMMA FeedStutter ==
  ASSUME FeedIInv, UNCHANGED feed_vars
  PROVE  FeedIInv'
BY DEF feed_vars, FeedIInv, FeedOrder, Feed!Accounted, Waits, Shown

\* The books only go on.
LEMMA FeedSteps ==
  ASSUME FeedIInv, Feed!Next \/ UNCHANGED feed_vars
  PROVE  Feed!NeverBackwards
<1>1. \A t \in DOMAIN books : books[t].bid.id \in Nat /\ books[t].ask.id \in Nat
  BY DEF FeedIInv, FeedBook, Level
<1>2. CASE \A t \in DOMAIN books \cap DOMAIN books' : books'[t] = books[t]
  BY <1>1, <1>2 DEF Feed!NeverBackwards
<1>3. CASE \E m \in Feed!Messages(sent + 1) : Feed!Receive(m)
  BY <1>2, <1>3 DEF Feed!Receive
<1>4. CASE Feed!CallbackDone \/ Feed!Reconnect \/ UNCHANGED feed_vars
  BY <1>2, <1>4 DEF Feed!CallbackDone, Feed!Reconnect, feed_vars
<1>5. CASE \E t \in FeedTokens : Feed!Forget(t)
  BY <1>2, <1>5 DEF Feed!Forget
<1> QED BY <1>3, <1>4, <1>5, FeedProcess DEF Feed!Next

\* What the run checks follows.
LEMMA FeedProperties ==
  ASSUME FeedIInv
  PROVE  Feed!TypeOK /\ Feed!Converged /\ Feed!Accounted
<1>1. ASSUME NEW t \in DOMAIN books
      PROVE  /\ books[t].bid.id <= sent /\ books[t].ask.id <= sent
             /\ {books[t].bid.price, books[t].ask.price} \subseteq FeedPrices \cup {0}
  BY DEF FeedIInv, FeedOrder, NoYounger, FeedBook, Level
<1>2. Feed!TypeOK
  BY <1>1 DEF FeedIInv, Feed!TypeOK
<1>3. ASSUME feed_queue = << >>, NEW t \in FeedTokens, latest[t].kind = "book"
      PROVE  t \in DOMAIN books /\ Shows(books[t], latest[t])
  <2>1. \A i \in 1..Len(feed_queue) : FALSE
    BY <1>3
  <2>2. ~Waits(t)
    BY <2>1 DEF Waits
  <2> QED  BY <1>3, <2>2 DEF FeedIInv, Shown
<1>4. Feed!Converged
  BY <1>3, FeedLibrary DEF Feed!Converged, Shows
<1> QED BY <1>2, <1>4 DEF FeedIInv

-----------------------------------------------------------------------------
(* The parts together                                                      *)

\* A step moves the part it is about and leaves the others alone.
LEMMA OneMoves ==
  ASSUME [MCNext]_all_vars
  PROVE  /\ [Next]_vars
         /\ Feed!Next \/ UNCHANGED feed_vars
         /\ Arb!Next \/ UNCHANGED arb_vars
         /\ Fills!Next \/ UNCHANGED fills_vars
         /\ Queue!Next \/ UNCHANGED queue_vars
         /\ Grid!Next \/ UNCHANGED grid_vars
         /\ Risk!Next \/ UNCHANGED risk_vars
         /\ Crash!Next \/ UNCHANGED crash_vars
         /\ Hedger!Next \/ UNCHANGED hedger_vars
         /\ Merger!Next \/ UNCHANGED merger_vars
         /\ Env!Next \/ UNCHANGED env_vars
<1>1. CASE UNCHANGED all_vars
  BY <1>1 DEF all_vars, portfolio_vars
<1>2. CASE MCNext
  BY <1>2 DEF MCNext, portfolio_vars, PortfolioMoves, SniperFeedMoves, ArbitrageMoves, AdverseSelectionMoves,
    QueuePositionMoves, RiskBreakerMoves, FlashCrashMoves, GridPricerMoves, AutoHedgerMoves,
    TokenMergerMoves, MarketEnvMoves
<1> QED BY <1>1, <1>2

\* Steps of the other parts leave the hedges alone.
LEMMA HedgerStutter ==
  ASSUME HedgerIInv, UNCHANGED hedger_vars
  PROVE  HedgerIInv'
BY DEF hedger_vars, HedgerIInv, HedgerTypes, Hedger!Ids, Hedger!Open, Closed, Movements, Offsets

\* Steps of the other parts leave the inventory alone.
LEMMA MergerStutter ==
  ASSUME MergerIInv, UNCHANGED merger_vars
  PROVE  MergerIInv'
BY ZenonT(60) DEF merger_vars, MergerIInv, Merger!TypeOK, Merger!MergesExplain, Merger!Amounts,
       Merger!Opportunity, Merger!Mergeable

\* Steps of the other parts leave the environment alone.
LEMMA EnvStutter ==
  ASSUME EnvIInv, UNCHANGED env_vars
  PROVE  EnvIInv'
BY DEF env_vars, EnvIInv, Env!TypeOK, Env!RewardsTelescope, Env!LongPnlIsExact,
       Env!QuotesAndLimits, Env!Value

\* The three paper accounts add up, for every price, size and number of steps: hedges and their
\* fees, merged pairs, and the rewards of an episode.
THEOREM TradingAccounts == MCSpec => []AccountsInv
<1> DEFINE Inv == HedgerIInv /\ MergerIInv /\ EnvIInv
<1>1. MCInit => Inv
  BY HedgerStart, MergerStart, EnvStart DEF MCInit
<1>2. Inv /\ [MCNext]_all_vars => Inv'
  BY OneMoves, HedgerPreserved, HedgerStutter, MergerPreserved, MergerStutter, EnvPreserved,
     EnvStutter
<1>3. Inv => AccountsInv
  BY HedgerProperties DEF AccountsInv, MergerIInv, EnvIInv
<1> HIDE DEF Inv
<1> QED BY <1>1, <1>2, <1>3, PTL DEF MCSpec

\* The two emergency brakes, for every threshold, window, cooldown and price: an armed breaker has
\* seen no drawdown beyond its limits, and a fall inside the window is a crash event, counted once
\* per cooldown.
THEOREM TradingBrakes == MCSpec => []BrakesInv
<1> DEFINE Inv == RiskIInv /\ CrashIInv
<1>1. MCInit => Inv
  BY RiskStart, CrashStart DEF MCInit
<1>2. Inv /\ [MCNext]_all_vars => Inv'
  BY OneMoves, RiskPreserved, RiskStutter, CrashPreserved, CrashStutter
<1>3. Inv => BrakesInv
  BY RiskProperties, CrashProperties DEF BrakesInv, CrashIInv
<1> HIDE DEF Inv
<1> QED BY <1>1, <1>2, <1>3, PTL DEF MCSpec

\* The sniper's queue, for any size of it and any number of callbacks, lost connections and
\* messages: once it is empty every book shows the latest message that was not dropped, and every
\* message is accounted for.
THEOREM TradingFeed == MCSpec => []FeedInv
<1>1. MCInit => FeedIInv
  BY FeedStart DEF MCInit
<1>2. FeedIInv /\ [MCNext]_all_vars => FeedIInv'
  BY OneMoves, FeedPreserved, FeedStutter
<1>3. FeedIInv => FeedInv
  BY FeedProperties DEF FeedInv
<1> QED BY <1>1, <1>2, <1>3, PTL DEF MCSpec

\* What no step may do, for every value of the constants: leave the portfolio engine AUTONOMOUS
\* beyond the day's limit, promote it unearned, or take a book back to an older message.
THEOREM TradingStepwise == MCSpec => TradingSteps
<1> DEFINE Step == /\ moves = "portfolio" => OutcomeRespectsLimit /\ PromotionIsEarned
                   /\ moves = "feed" => Feed!NeverBackwards
<1>1. MCInit => IInv /\ FeedIInv
  BY PortfolioInit, FeedStart DEF MCInit
<1>2. IInv /\ FeedIInv /\ [MCNext]_all_vars => IInv' /\ FeedIInv'
  BY OneMoves, StepKeepsIInv, FeedPreserved, FeedStutter
<1>3. IInv /\ FeedIInv /\ [MCNext]_all_vars => Step
  BY OneMoves, OutcomeStep, PromotionStep, FeedSteps
<1>4. (MCSpec => [][Step]_all_vars) => (MCSpec => TradingSteps)
  BY DEF TradingSteps
<1> HIDE DEF Step
<1>5. MCSpec => [][Step]_all_vars
  BY <1>1, <1>2, <1>3, PTL DEF MCSpec
<1> QED BY <1>4, <1>5
=============================================================================
