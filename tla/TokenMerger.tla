----------------------------- MODULE TokenMerger ----------------------------
(***************************************************************************)
(* The paper token merger (src/src/token_merger.py): an inventory of YES   *)
(* and NO shares per condition, pairs of which are merged back into USDC   *)
(* through a simulated relayer.  simulate_merge() is a coroutine that      *)
(* never suspends.                                                         *)
(*                                                                         *)
(* Shares are whole.  Of the relayer payload the model keeps what tells    *)
(* two requests apart: nonce, condition and amount.                        *)
(***************************************************************************)
EXTENDS Integers, Sequences, FiniteSetsExt, Functions

CONSTANTS Conditions,
          Buys, Sells,           \* sizes of deltas up and down
          StartingUsdc,          \* paper_usdc_balance
          MaxUpdates             \* bound: calls of update_inventory()

VARIABLES known,                 \* conditions in _inventory
          yes, no,               \* yes_shares, no_shares
          pending, merged,       \* pending_merges, total_merged
          usdc, nonce,           \* _paper_usdc, _transaction_nonce
          requests,              \* _merge_history: nonce, condition and amount of the payload
          updates,
          bought                 \* history: net shares that came in, <<yes, no>> per condition

vars == <<known, yes, no, pending, merged, usdc, nonce, requests, updates, bought>>

TypeOK ==
  /\ known \subseteq Conditions
  /\ yes \in [Conditions -> Nat] /\ no \in [Conditions -> Nat]
  /\ pending \in [Conditions -> Nat] /\ merged \in [Conditions -> Nat]
  /\ Len(requests) = nonce

Init ==
  /\ known = {} /\ usdc = StartingUsdc /\ nonce = 0 /\ requests = << >> /\ updates = 0
  /\ yes = [c \in Conditions |-> 0] /\ no = [c \in Conditions |-> 0]
  /\ pending = [c \in Conditions |-> 0] /\ merged = [c \in Conditions |-> 0]
  /\ bought = [c \in Conditions |-> <<0, 0>>]

Deltas == Buys \cup {0 - s : s \in Sells} \cup {0}
Clamped(shares) == Max({0, shares})

\* update_inventory(): selling more than is held leaves nothing.
UpdateInventory(c, yes_delta, no_delta) ==
  /\ updates < MaxUpdates
  /\ updates' = updates + 1
  /\ known' = known \cup {c}
  /\ yes' = [yes EXCEPT ![c] = Clamped(@ + yes_delta)]
  /\ no' = [no EXCEPT ![c] = Clamped(@ + no_delta)]
  /\ bought' = [bought EXCEPT ![c] = <<@[1] + yes'[c] - yes[c], @[2] + no'[c] - no[c]>>]
  /\ UNCHANGED <<pending, merged, usdc, nonce, requests>>

\* check_merge_opportunity(): only an inventory that is balanced is offered, in whole.
Opportunity(c) == IF c \in known /\ yes[c] > 0 /\ yes[c] = no[c] THEN yes[c] ELSE 0

\* mergeable_amount(): simulate_merge() merges what pairs up, balanced or not.
Mergeable(c) == Min({yes[c], no[c]})

\* generate_relayer_payload() and _encode_merge_call()
Payload(c, amount) == [nonce |-> nonce + 1, condition |-> c, amount |-> amount]

\* simulate_merge(); pending_merges is never reduced again.
SimulateMerge(c) ==
  /\ c \in known /\ Mergeable(c) > 0
  /\ nonce' = nonce + 1
  /\ requests' = Append(requests, Payload(c, Mergeable(c)))
  /\ yes' = [yes EXCEPT ![c] = @ - Mergeable(c)] /\ no' = [no EXCEPT ![c] = @ - Mergeable(c)]
  /\ pending' = [pending EXCEPT ![c] = @ + 1]
  /\ merged' = [merged EXCEPT ![c] = @ + Mergeable(c)]
  /\ usdc' = usdc + Mergeable(c)
  /\ UNCHANGED <<known, updates, bought>>

Next ==
  \E c \in Conditions :
    \/ SimulateMerge(c)
    \/ \E yes_delta, no_delta \in Deltas : UpdateInventory(c, yes_delta, no_delta)

Spec == Init /\ [][Next]_vars

-----------------------------------------------------------------------------
(* Properties                                                              *)

Amounts(cs) == SumFunctionOnSet([i \in DOMAIN requests |-> requests[i].amount],
                               {i \in DOMAIN requests : requests[i].condition \in cs})

\* Shares that came in are held or were merged, pair by pair; the requests with their nonces
\* explain the balance and the totals; and what check_merge_opportunity() offers is what a
\* merge would take (update_inventory(), simulate_merge()).
MergesExplain ==
  /\ \A c \in Conditions :
       /\ bought[c] = <<yes[c] + merged[c], no[c] + merged[c]>>
       /\ merged[c] = Amounts({c}) /\ Opportunity(c) \in {0, Mergeable(c)}
       /\ pending[c] = Cardinality({i \in DOMAIN requests : requests[i].condition = c})
  /\ usdc = StartingUsdc + Amounts(Conditions)
  /\ \A i \in DOMAIN requests : requests[i].nonce = i /\ requests[i].amount > 0
=============================================================================
