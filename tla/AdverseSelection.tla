-------------------------- MODULE AdverseSelection --------------------------
(***************************************************************************)
(* The adverse selection tracker (src/src/adverse_selection_tracker.py):   *)
(* fills wait in a bounded table until their last horizon has passed, one  *)
(* task looks at them every second, and its callbacks let other tasks run. *)
(*                                                                         *)
(* Of the four horizons two are kept, one minute (where a fill is          *)
(* classified) and five minutes (where it is complete); the other two only *)
(* store a price.  Prices are whole numbers, averages are left out.        *)
(***************************************************************************)
EXTENDS Integers, Sequences, FiniteSets, SequencesExt, Functions

CONSTANTS MaxFills,              \* bound: fills recorded
          Prices,                \* of the oracle, positive
          Premium,               \* fill price minus oracle price, both sides' bad luck
          OneMinute, FiveMinutes,
          ToxicBps,              \* MODERATE_THRESHOLD: from here on a fill is toxic
          MaxPending,            \* max_pending_fills
          MaxTime, MaxMoves      \* bounds: time, price changes

VARIABLES now, price, moves_left,
          record,                \* FillRecord of the fills recorded so far
          pending, completed,    \* _pending_fills, _completed_fills, in order
          pc,                    \* _tracking_loop()
          round, start, held,    \* fills still to look at, time of the round, price in use
          finishing,             \* fills_to_complete
          warned,                \* history: fills passed to on_toxic_flow_detected
          evicted                \* history: whether the table overflowed

vars == <<now, price, moves_left, record, pending, completed, pc, round, start, held, finishing,
          warned, evicted>>

\* fill ids, numbered as they come
Fills == 1..MaxFills

TypeOK ==
  /\ DOMAIN record \subseteq Fills
  /\ Range(pending) \cup Range(completed) \cup Range(round) \cup Range(finishing) \subseteq DOMAIN record
  /\ Len(pending) <= MaxPending
  /\ pc \in {"top", "walk", "toxic", "complete", "notify", "sleep", "off"}
  /\ warned \in [Fills -> Nat]

Init ==
  /\ now = 0 /\ price \in Prices /\ moves_left = MaxMoves
  /\ record = << >>
  /\ pending = << >> /\ completed = << >>
  /\ pc = "top" /\ round = << >> /\ start = 0 /\ held = price /\ finishing = << >>
  /\ warned = [f \in Fills |-> 0]
  /\ evicted = FALSE

-----------------------------------------------------------------------------
Remaining(f) == RemoveAt(pending, CHOOSE i \in DOMAIN pending : pending[i] = f)

Cleanup_Keeps(table) ==
  /\ pending' = table
  /\ completed' = Append(completed, Head(table))

\* _cleanup_old_fills(): the oldest fill beyond the limit counts as completed.
Cleanup(table) ==
  /\ pending' = Tail(table)
  /\ completed' = Append(completed, Head(table))

Fill(side, complete) ==
  [side |-> side, time |-> now, at |-> price, p1m |-> 0, p5m |-> 0, is_complete |-> complete]

\* record_fill()
RecordFill(f, side) ==
  /\ f = Cardinality(DOMAIN record) + 1
  /\ LET table == Append(pending, f)
         all == [g \in DOMAIN record \cup {f} |->
                   IF g = f THEN Fill(side, FALSE) ELSE record[g]]
     IN \/ /\ Len(table) <= MaxPending
           /\ pending' = table
           /\ record' = all
           /\ UNCHANGED <<completed, evicted>>
        \/ /\ Len(table) > MaxPending
           /\ Cleanup(table)
           /\ record' = [all EXCEPT ![Head(table)].is_complete = TRUE]
           /\ evicted' = TRUE
  /\ UNCHANGED <<now, price, moves_left, pc, round, start, held, finishing, warned>>

-----------------------------------------------------------------------------
(* _tracking_loop()                                                        *)

\* _calculate_mtm(), per share
Mtm(r, p) == IF r.side = "buy" THEN p - (r.at + Premium) ELSE r.at - Premium - p

\* _calculate_adverse_selection_bps(), times the price at the fill
Bps(r, p) == (IF r.side = "buy" THEN r.at - p ELSE p - r.at) * 10000

\* _classify_toxicity(): TOXIC or HIGHLY_TOXIC; the size of the move counts in both directions.
IsToxic(r, p) == Mtm(r, p) < 0 /\ (Bps(r, p) >= ToxicBps * r.at \/ Bps(r, p) <= -(ToxicBps * r.at))

StartRound ==
  /\ pc = "top"
  /\ start' = now
  /\ round' = pending
  /\ finishing' = << >>
  /\ pc' = "walk"
  /\ UNCHANGED <<now, price, moves_left, record, pending, completed, held, warned, evicted>>

Due(f, horizon) == start - record[f].time >= horizon

\* The five-minute part of the loop body, with the price read before the callback
Complete5m(r, f, p) ==
  IF Due(f, FiveMinutes) /\ r.p5m = 0
  THEN /\ record' = [record EXCEPT ![f] = [r EXCEPT !.p5m = p, !.is_complete = TRUE]]
       /\ finishing' = Append(finishing, f)
  ELSE record' = [record EXCEPT ![f] = r] /\ UNCHANGED finishing

\* The loop body for one fill, up to _handle_toxic_flow() if it is toxic
Look ==
  /\ pc = "walk" /\ round # << >>
  /\ held' = price
  /\ LET f == Head(round)
         first == Due(f, OneMinute) /\ record[f].p1m = 0
         r == IF first THEN [record[f] EXCEPT !.p1m = price] ELSE record[f]
     IN \/ /\ first /\ IsToxic(r, price)
           /\ record' = [record EXCEPT ![f] = r]
           /\ warned' = [warned EXCEPT ![f] = @ + 1]
           /\ pc' = "toxic"
           /\ UNCHANGED <<round, finishing>>
        \/ /\ ~(first /\ IsToxic(r, price))
           /\ Complete5m(r, f, price)
           /\ round' = Tail(round)
           /\ UNCHANGED <<warned, pc>>
  /\ UNCHANGED <<now, price, moves_left, pending, completed, start, evicted>>

\* on_toxic_flow_detected is over, whether it returned or raised.
Warned ==
  /\ pc = "toxic"
  /\ Complete5m(record[Head(round)], Head(round), held)
  /\ round' = Tail(round)
  /\ pc' = "walk"
  /\ UNCHANGED <<now, price, moves_left, pending, completed, start, held, warned, evicted>>

\* The fill moves to the completed ones and on_fill_complete is awaited; a fill that was
\* evicted meanwhile raises KeyError, which ends the round.
Finish ==
  /\ pc = "complete" /\ finishing # << >>
  /\ LET f == Head(finishing) IN
       \/ /\ f \in Range(pending)
          /\ pending' = Remaining(f)
          /\ completed' = Append(completed, f)
          /\ pc' = "notify"
       \/ /\ f \notin Range(pending)
          /\ pc' = "sleep"
          /\ UNCHANGED <<pending, completed>>
  /\ finishing' = Tail(finishing)
  /\ UNCHANGED <<now, price, moves_left, record, round, start, held, warned, evicted>>

\* Every fill was looked at, on_fill_complete is over, the round or its sleep is over.
Proceed ==
  /\ \/ pc = "walk" /\ round = << >> /\ pc' = "complete"
     \/ pc = "notify" /\ pc' = "complete"
     \/ pc = "complete" /\ finishing = << >> /\ pc' = "sleep"
     \/ pc = "sleep" /\ pc' = "top"
  /\ UNCHANGED <<now, price, moves_left, record, pending, completed, round, start, held, finishing,
                 warned, evicted>>

\* stop() cancels the task where it waits.
Stop ==
  /\ pc \in {"toxic", "notify", "sleep"}
  /\ pc' = "off"
  /\ UNCHANGED <<now, price, moves_left, record, pending, completed, round, start, held, finishing,
                 warned, evicted>>

Tick ==
  /\ now < MaxTime
  /\ now' = now + 1
  /\ UNCHANGED <<price, moves_left, record, pending, completed, pc, round, start, held, finishing,
                 warned, evicted>>

PriceMoves(p) ==
  /\ moves_left > 0 /\ p # price
  /\ moves_left' = moves_left - 1
  /\ price' = p
  /\ UNCHANGED <<now, record, pending, completed, pc, round, start, held, finishing, warned,
                 evicted>>

Next ==
  \/ \E f \in Fills, side \in {"buy", "sell"} : RecordFill(f, side)
  \/ StartRound \/ Look \/ Warned \/ Finish \/ Proceed \/ Stop \/ Tick
  \/ \E p \in Prices : PriceMoves(p)

Spec == Init /\ [][Next]_vars

-----------------------------------------------------------------------------
(* Properties                                                              *)

\* A recorded fill is pending or completed, and once: neither the eviction of old fills nor a
\* round that ends in an error loses one or counts one twice (record_fill(), _tracking_loop()).
FillsAccounted ==
  \A f \in DOMAIN record :
    Cardinality({i \in DOMAIN pending : pending[i] = f})
      + Cardinality({i \in DOMAIN completed : completed[i] = f}) = 1

\* A fill whose horizons are over leaves the table in its round; only an overflow of the table
\* during a callback can strand one there.
NoneStranded ==
  \A f \in Range(pending) : record[f].is_complete => f \in Range(finishing) \/ evicted

\* A fill is reported as toxic at most once, over any number of rounds.
WarnedOnce == \A f \in Fills : warned[f] <= 1
=============================================================================
