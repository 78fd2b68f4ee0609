----------------------------- MODULE SniperFeed -----------------------------
(***************************************************************************)
(* The data path of the sniper (src/src/sniper.py): the receiver puts the  *)
(* exchange's messages into a bounded queue, the processor derives the     *)
(* best bid and ask of each token from them and tells the callbacks.       *)
(*                                                                         *)
(* A level is its price and the number of the message it came from (0: no  *)
(* level yet); sizes and times are left out.  A message that carries one   *)
(* price per side (format 1) and one that carries lists (format 2) are     *)
(* both sets of prices.  The connection itself is module Sniper.           *)
(***************************************************************************)
EXTENDS Integers, Sequences, FiniteSets, FiniteSetsExt

CONSTANTS Tokens,
          Prices,         \* positive
          MaxQueue,       \* max_queue_size
          Listeners,      \* number of update callbacks
          MaxMessages,    \* bound: messages of the exchange
          MaxLosses       \* bound: connections lost and tokens unsubscribed

VARIABLES queue,          \* _message_queue
          books,          \* _books: a function on the tracked tokens
          worker,         \* _process_loop(): the callbacks still to be told, 0 when it waits
          stats,          \* SniperStats
          sent,           \* number of the last message
          latest,         \* history: the last message of each token, unless it was dropped
          missing,        \* history: messages that never count as processed
          losses

vars == <<queue, books, worker, stats, sent, latest, missing, losses>>

NoLevel == [price |-> 0, id |-> 0]
NoBook == [bid |-> NoLevel, ask |-> NoLevel, updates |-> 0]
NoMessage == [kind |-> "none"]

\* "book" stands for the messages with best prices or lists, "best" for those whose
\* second side cannot be parsed, "single" for one price of one side, "other" for
\* subscription replies, heartbeats and what is no JSON.
Messages(id) ==
       [id: {id}, kind: {"book"}, token: Tokens, bids: {{}, Prices},
        asks: {{}, Prices} \cup {{p} : p \in Prices}]
  \cup [id: {id}, kind: {"best"}, token: Tokens, bids: {{p} : p \in Prices}]
  \cup [id: {id}, kind: {"single"}, token: Tokens, side: {"buy", "sell"}, price: Prices]
  \cup [id: {id}, kind: {"other"}]

TypeOK ==
  /\ Len(queue) <= MaxQueue
  /\ DOMAIN books \subseteq Tokens
  /\ \A t \in DOMAIN books : /\ books[t].bid.id <= sent /\ books[t].ask.id <= sent
                             /\ {books[t].bid.price, books[t].ask.price} \subseteq Prices \cup {0}
  /\ worker \in 0..Listeners
  /\ stats \in [received: Nat, processed: Nat, applied: Nat]

Init ==
  /\ queue = << >>
  /\ books = << >>
  /\ worker = 0
  /\ stats = [received |-> 0, processed |-> 0, applied |-> 0]
  /\ sent = 0
  /\ latest = [t \in Tokens |-> NoMessage]
  /\ missing = 0
  /\ losses = 0

-----------------------------------------------------------------------------
Put_DropsNewest(q, m) == IF Len(q) < MaxQueue THEN Append(q, m) ELSE q

\* put_nowait(), dropping the oldest message of a full queue
Put(q, m) == Append(IF Len(q) < MaxQueue THEN q ELSE Tail(q), m)

\* _receive_loop()
Receive(m) ==
  /\ sent < MaxMessages
  /\ sent' = sent + 1
  /\ queue' = Put(queue, m)
  /\ missing' = IF Len(queue) < MaxQueue THEN missing ELSE missing + 1
  /\ LET kept == [t \in Tokens |-> IF Len(queue) = MaxQueue /\ latest[t] = Head(queue)
                                   THEN NoMessage ELSE latest[t]]
     IN latest' = IF m.kind = "other" THEN kept ELSE [kept EXCEPT ![m.token] = m]
  /\ stats' = [stats EXCEPT !.received = @ + 1]
  /\ UNCHANGED <<books, worker, losses>>

-----------------------------------------------------------------------------
(* _handle_book_update()                                                   *)

\* The book of the message's token, made if need be.
BookOf(m) == IF m.token \in DOMAIN books THEN books[m.token] ELSE NoBook

\* Formats 1 and 2: the best price replaces the level if it is another one.
Replace(level, best, id) == IF level.price = best THEN level ELSE [price |-> best, id |-> id]

WithBid(b, m) == IF m.bids = {} THEN b ELSE [b EXCEPT !.bid = Replace(@, Max(m.bids), m.id)]
WithAsk(b, m) == IF m.asks = {} THEN b ELSE [b EXCEPT !.ask = Replace(@, Min(m.asks), m.id)]

\* Format 3: a price at least as good as the best one becomes the best one.
Single(b, m) ==
  LET level == [price |-> m.price, id |-> m.id] IN
  IF m.side = "buy" THEN [b EXCEPT !.bid = IF m.price >= @.price THEN level ELSE @]
  ELSE [b EXCEPT !.ask = IF @ = NoLevel \/ m.price <= @.price THEN level ELSE @]

\* The book after the message; of a "best" message only the bid is readable.
Handled(b, m) ==
  CASE m.kind = "single" -> Single(b, m)
    [] m.kind = "book"   -> WithAsk(WithBid(b, m), m)
    [] m.kind = "best"   -> WithBid(b, m)

\* A new best price counts as an update and goes to the callbacks.
Apply(m) ==
  LET after == Handled(BookOf(m), m)
      updated == after # BookOf(m)
      counted == IF updated THEN [after EXCEPT !.updates = @ + 1] ELSE after
  IN /\ books' = [t \in DOMAIN books \cup {m.token} |-> IF t = m.token THEN counted ELSE books[t]]
     /\ \/ /\ updated /\ Listeners > 0
           /\ worker' = Listeners
           /\ stats' = [stats EXCEPT !.applied = @ + 1]
        \/ /\ ~updated \/ Listeners = 0
           /\ stats' = [stats EXCEPT !.applied = IF updated THEN @ + 1 ELSE @, !.processed = @ + 1]
           /\ UNCHANGED worker
     /\ UNCHANGED missing

\* The ask of a "best" message raises: the book stays as it is by then, with the bid changed
\* but not counted, and nobody is told; _process_loop() goes on.
ApplyRaises(m) ==
  /\ books' = [t \in DOMAIN books \cup {m.token} |-> IF t = m.token THEN Handled(BookOf(m), m)
                                                     ELSE books[t]]
  /\ missing' = missing + 1
  /\ UNCHANGED <<worker, stats>>

\* _process_loop() and _process_message() for the next message
Process ==
  /\ worker = 0
  /\ queue # << >>
  /\ LET m == Head(queue) IN
       \/ m.kind \in {"book", "single"} /\ Apply(m)
       \/ m.kind = "best" /\ ApplyRaises(m)
       \/ /\ m.kind = "other"
          /\ stats' = [stats EXCEPT !.processed = @ + 1]
          /\ UNCHANGED <<books, worker, missing>>
  /\ queue' = Tail(queue)
  /\ UNCHANGED <<sent, latest, losses>>

\* _notify_update(): a callback is over, whether it returned or raised.
CallbackDone ==
  /\ worker > 0
  /\ worker' = worker - 1
  /\ stats' = [stats EXCEPT !.processed = IF worker = 1 THEN @ + 1 ELSE @]
  /\ UNCHANGED <<queue, books, sent, latest, missing, losses>>

\* The connection is lost: run() cancels the processor, in a callback too, and starts it
\* again; the queue stays.
Reconnect ==
  /\ losses < MaxLosses
  /\ losses' = losses + 1
  /\ missing' = IF worker > 0 THEN missing + 1 ELSE missing
  /\ worker' = 0
  /\ UNCHANGED <<queue, books, stats, sent, latest>>

\* unsubscribe() forgets the book; messages still queued make it again.
Forget(t) ==
  /\ losses < MaxLosses
  /\ t \in DOMAIN books
  /\ losses' = losses + 1
  /\ books' = [u \in DOMAIN books \ {t} |-> books[u]]
  /\ latest' = [latest EXCEPT ![t] = NoMessage]
  /\ UNCHANGED <<queue, worker, stats, sent, missing>>

Next ==
  \/ \E m \in Messages(sent + 1) : Receive(m)
  \/ Process \/ CallbackDone \/ Reconnect
  \/ \E t \in Tokens : Forget(t)

Spec == Init /\ [][Next]_vars

-----------------------------------------------------------------------------
(* Properties                                                              *)

\* Once the queue is drained a token shows the best prices of its last full message, whatever
\* was dropped from the full queue, cancelled or unreadable before (_receive_loop(),
\* _handle_book_update()); only newer messages, of other tokens too, can push it out.
Converged ==
  queue = << >> =>
    \A t \in Tokens : latest[t].kind = "book" =>
      /\ t \in DOMAIN books
      /\ latest[t].bids # {} => books[t].bid.price = Max(latest[t].bids)
      /\ latest[t].asks # {} => books[t].ask.price = Min(latest[t].asks)

\* Every message received is processed, queued, with the callbacks, or was dropped, cut off by
\* a lost connection or unreadable, exactly once (SniperStats).
Accounted ==
  stats.received = stats.processed + Len(queue) + missing + (IF worker > 0 THEN 1 ELSE 0)

\* Neither side of a tracked book ever goes back to an older message, over reconnections and
\* full queues (_process_loop()).
NeverBackwards ==
  \A t \in DOMAIN books \cap DOMAIN books' :
    books'[t].bid.id >= books[t].bid.id /\ books'[t].ask.id >= books[t].ask.id

=============================================================================
