--------------------------- MODULE CapitalTracker ---------------------------
(***************************************************************************)
(* The capital tracker (CapitalVelocityTracker,                            *)
(* src/src/capital_tracker.py): YES and NO shares per condition, and       *)
(* merges of pairs of them into Paper-USDC.                                *)
(*                                                                         *)
(* check_and_execute_merge() holds _merge_lock while it sleeps and while   *)
(* it awaits the callback; trades are recorded meanwhile, and the caller   *)
(* may be cancelled at both places.  Shares are counted in hundredths, the *)
(* tolerance and the least amount of a merge; at exactly the tolerance the *)
(* comparison of floats can fall either way.                               *)
(***************************************************************************)
EXTENDS Integers, Sequences, FiniteSets, Functions

CONSTANTS Conditions,   \* condition ids
          Callers,      \* tasks that call check_and_execute_merge(), once each
          Amounts,      \* shares of one trade
          StartingUsdc, \* starting_usdc, in hundredths
          Tolerance,    \* tolerance
          MaxTrades,    \* bound: trades recorded
          NoCaller      \* the lock is free

VARIABLES
  shares,   \* _positions: condition |-> side |-> shares; a missing one holds none
  usdc,     \* _paper_usdc
  history,  \* _merge_history
  lock,     \* _merge_lock
  pc,       \* each caller: "idle", "waits", "merging", "callback", "end"
  local,    \* its condition_id, mergeable_shares and balance_before
  bought,   \* all the shares recorded
  trades

vars == <<shares, usdc, history, lock, pc, local, bought, trades>>
Sides == {"YES", "NO"}

TypeOK ==
  /\ shares \in [Conditions -> [Sides -> Nat]]
  /\ usdc \in Nat
  /\ history \in Seq([condition: Conditions, merged: Nat, before: Nat, after: Nat])
  /\ lock \in Callers \cup {NoCaller}
  /\ pc \in [Callers -> {"idle", "waits", "merging", "callback", "end"}]
  /\ local \in [Callers -> [condition: Conditions, merged: Nat, before: Nat]]
  /\ bought \in [Conditions -> [Sides -> Nat]]
  /\ trades \in 0..MaxTrades

Init ==
  /\ shares = [c \in Conditions |-> [s \in Sides |-> 0]]
  /\ bought = shares
  /\ usdc = StartingUsdc
  /\ history = << >>
  /\ lock = NoCaller
  /\ pc = [k \in Callers |-> "idle"]
  /\ local = [k \in Callers |-> [condition |-> CHOOSE c \in Conditions : TRUE, merged |-> 0,
                                 before |-> 0]]
  /\ trades = 0

-----------------------------------------------------------------------------
\* record_trade()
RecordTrade(c, side, n) ==
  /\ trades < MaxTrades
  /\ trades' = trades + 1
  /\ shares' = [shares EXCEPT ![c][side] = @ + n]
  /\ bought' = [bought EXCEPT ![c][side] = @ + n]
  /\ UNCHANGED <<usdc, history, lock, pc, local>>

Difference(c) ==
  LET d == shares[c]["YES"] - shares[c]["NO"] IN IF d < 0 THEN -d ELSE d

\* mergeable_shares
Mergeable(c) == IF shares[c]["YES"] < shares[c]["NO"] THEN shares[c]["YES"] ELSE shares[c]["NO"]

\* check_and_execute_merge(): nothing to merge
NoMerge(k) ==
  LET c == local[k].condition IN
  /\ Difference(c) >= Tolerance \/ shares[c]["YES"] < 1
  /\ pc' = [pc EXCEPT ![k] = "end"]
  /\ UNCHANGED <<lock, local>>

\* It takes the amount and the balance with it into the sleep.
BeginMerge(k) ==
  LET c == local[k].condition IN
  /\ Difference(c) <= Tolerance /\ shares[c]["YES"] >= 1
  /\ local' = [local EXCEPT ![k].merged = Mergeable(c), ![k].before = usdc]
  /\ pc' = [pc EXCEPT ![k] = "merging"]
  /\ lock' = k

\* check_and_execute_merge(c)
Call(k, c) ==
  /\ pc[k] = "idle"
  /\ pc' = [pc EXCEPT ![k] = "waits"]
  /\ local' = [local EXCEPT ![k].condition = c]
  /\ UNCHANGED <<shares, usdc, history, lock, bought, trades>>

Locked_Unlocked(k) ==
  /\ pc[k] = "waits"
  /\ NoMerge(k) \/ BeginMerge(k)
  /\ UNCHANGED <<shares, usdc, history, bought, trades>>

\* The lock is free: check.
Locked(k) ==
  /\ pc[k] = "waits"
  /\ lock = NoCaller
  /\ NoMerge(k) \/ BeginMerge(k)
  /\ UNCHANGED <<shares, usdc, history, bought, trades>>

\* recalculate_balance()
UsdcAfter(merged) == usdc + merged

\* After the sleep: balance, event, position, history; then the callback.
MergeEnds(k) ==
  LET c == local[k].condition  n == local[k].merged IN
  /\ pc[k] = "merging"
  /\ usdc' = UsdcAfter(n)
  /\ history' = Append(history, [condition |-> c, merged |-> n, before |-> local[k].before,
                                 after |-> usdc'])
  /\ shares' = [shares EXCEPT ![c] = [s \in Sides |-> @[s] - n]]
  /\ pc' = [pc EXCEPT ![k] = "callback"]
  /\ UNCHANGED <<lock, local, bought, trades>>

\* The callback returns, raises or is cancelled; or the sleep is cancelled.
Leave(k) ==
  /\ pc[k] \in {"callback", "merging"}
  /\ pc' = [pc EXCEPT ![k] = "end"]
  /\ lock' = NoCaller
  /\ UNCHANGED <<shares, usdc, history, local, bought, trades>>

Next ==
  \/ \E c \in Conditions, s \in Sides, n \in Amounts : RecordTrade(c, s, n)
  \/ \E k \in Callers, c \in Conditions : Call(k, c)
  \/ \E k \in Callers : Locked(k) \/ MergeEnds(k) \/ Leave(k)

Spec == Init /\ [][Next]_vars

-----------------------------------------------------------------------------
(* Properties                                                              *)

MergedOf(c) ==
  LET n == [i \in DOMAIN history |-> IF history[i].condition = c THEN history[i].merged ELSE 0]
  IN SumFunction(n)

\* Whatever is recorded during a merge, and wherever its caller is cancelled, every share
\* recorded is still held or was merged, once.
SharesConserved ==
  \A c \in Conditions, s \in Sides : bought[c][s] = shares[c][s] + MergedOf(c)

\* "Each merged pair converts to 1 USDC" (recalculate_balance()): every event shows its own
\* merge and no other between its two balances, and together they explain the balance.
BalanceExplained ==
  /\ \A i \in DOMAIN history :
       /\ history[i].after = history[i].before + history[i].merged
       /\ history[i].before = IF i = 1 THEN StartingUsdc ELSE history[i - 1].after
  /\ usdc = IF history = << >> THEN StartingUsdc ELSE history[Len(history)].after

=============================================================================
