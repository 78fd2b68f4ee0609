---------------------------- MODULE BinanceFeed -----------------------------
(***************************************************************************)
(* The Binance stream of the simulator (src/src/binance_ws.py): connect()  *)
(* reconnects for ever until close(), depth snapshots replace the book of  *)
(* a symbol and its imbalance, trades go to a bounded buffer, and every    *)
(* message is passed to callbacks before the next one is read.             *)
(*                                                                         *)
(* A snapshot is the pair of volumes on its two sides; a ticker only goes  *)
(* to its callback.  The socket is external: it opens, fails, delivers and *)
(* closes as the network likes.                                            *)
(***************************************************************************)
EXTENDS Integers, Sequences, FiniteSets

CONSTANTS Symbols,               \* the symbols subscribed to
          Strangers,             \* other symbols a message may carry
          Volumes,               \* volumes of a side of a snapshot
          MaxTrades,             \* maxlen of a trade buffer
          MaxMessages, MaxOutages    \* bounds

VARIABLES pc,                    \* connect(): where it waits, "off" before and after
          running,               \* _running
          sock,                  \* the connection of connect(): "none", "open" or "closed"
          ws,                    \* _ws: "none", or the "current" or an "old" connection
          closer,                \* close(): "no", the connection whose close() it awaits, "done"
          books, ofi,            \* _order_books, _last_ofi
          buffer,                \* _trade_buffer: numbers of trades
          calls,                 \* callbacks of the message in hand still to be made
          messages, outages

vars == <<pc, running, sock, ws, closer, books, ofi, buffer, calls, messages, outages>>

Empty == [bid |-> 0, ask |-> 0]

TypeOK ==
  /\ pc \in {"off", "handshake", "stream", "callback", "sleep"}
  /\ running \in BOOLEAN
  /\ sock \in {"none", "open", "closed"} /\ ws \in {"none", "current", "old"}
  /\ closer \in {"no", "current", "old", "done"}
  /\ books \in [Symbols -> [bid: Volumes \cup {0}, ask: Volumes \cup {0}]]
  /\ DOMAIN ofi \subseteq Symbols
  /\ \A s \in Symbols : Len(buffer[s]) <= MaxTrades
  /\ calls \in 0..2

Init ==
  /\ pc = "off" /\ running = FALSE /\ sock = "none" /\ ws = "none" /\ closer = "no"
  /\ books = [s \in Symbols |-> Empty]
  /\ ofi = << >>
  /\ buffer = [s \in Symbols |-> << >>]
  /\ calls = 0 /\ messages = 0 /\ outages = 0

data == <<books, ofi, buffer>>

-----------------------------------------------------------------------------
(* connect()                                                               *)

Connect ==
  /\ pc = "off" /\ closer = "no"
  /\ running' = TRUE
  /\ pc' = "handshake"
  /\ UNCHANGED <<sock, ws, closer, data, calls, messages, outages>>

Connected ==
  /\ pc = "handshake"
  /\ sock' = "open" /\ ws' = "current"
  /\ pc' = "stream"
  /\ UNCHANGED <<running, closer, data, calls, messages, outages>>

\* The handshake fails: five seconds of sleep, unless the feed was closed.
HandshakeFails ==
  /\ pc = "handshake" /\ outages < MaxOutages
  /\ outages' = outages + 1
  /\ pc' = IF running THEN "sleep" ELSE "off"
  /\ UNCHANGED <<running, sock, ws, closer, data, calls, messages>>

\* The connection is lost: a second of sleep; the data stays.  A close that is no error ends
\* the iteration without a pause.
ConnectionEnds ==
  /\ pc = "stream"
  /\ \/ sock = "closed" /\ UNCHANGED outages
     \/ sock = "open" /\ outages < MaxOutages /\ outages' = outages + 1
  /\ sock' = "none"
  /\ ws' = IF ws = "current" THEN "old" ELSE ws
  /\ \/ running /\ pc' \in {"sleep", "handshake"}
     \/ ~running /\ pc' = "off"
  /\ UNCHANGED <<running, closer, data, calls, messages>>

Awake ==
  /\ pc = "sleep"
  /\ pc' = IF running THEN "handshake" ELSE "off"
  /\ UNCHANGED <<running, sock, ws, closer, data, calls, messages, outages>>

-----------------------------------------------------------------------------
(* _process_message()                                                      *)

Received_Always == pc = "stream" /\ sock = "open" /\ messages < MaxMessages
Received == pc = "stream" /\ sock = "open" /\ running /\ messages < MaxMessages

\* After close() the next message ends the loop, and the connection with it.
MessageAfterClose ==
  /\ pc = "stream" /\ sock = "open" /\ ~running
  /\ sock' = "none" /\ ws' = IF ws = "current" THEN "old" ELSE ws
  /\ pc' = "off"
  /\ UNCHANGED <<running, closer, data, calls, messages, outages>>

Imbalance(book) == [num |-> book.bid - book.ask, den |-> book.bid + book.ask]

\* _handle_depth(): on_depth and on_ofi_update are awaited one after the other.
Depth(s, bid, ask) ==
  /\ Received
  /\ messages' = messages + 1
  /\ \/ /\ s \in Symbols
        /\ books' = [books EXCEPT ![s] = [bid |-> bid, ask |-> ask]]
        /\ ofi' = [t \in DOMAIN ofi \cup {s} |-> IF t = s THEN Imbalance(books'[s]) ELSE ofi[t]]
        /\ calls' = 2 /\ pc' = "callback"
     \/ s \notin Symbols /\ UNCHANGED <<books, ofi, calls, pc>>
  /\ UNCHANGED <<running, sock, ws, closer, buffer, outages>>

Trim(trades) == IF Len(trades) > MaxTrades THEN Tail(trades) ELSE trades

\* _handle_trade(): trades of unknown symbols only go to on_trade.
TradeMessage(s) ==
  /\ Received
  /\ messages' = messages + 1
  /\ buffer' = IF s \in Symbols THEN [buffer EXCEPT ![s] = Trim(Append(@, messages'))] ELSE buffer
  /\ calls' = 1 /\ pc' = "callback"
  /\ UNCHANGED <<running, sock, ws, closer, books, ofi, outages>>

\* _handle_ticker()
Ticker ==
  /\ Received
  /\ messages' = messages + 1
  /\ calls' = 1 /\ pc' = "callback"
  /\ UNCHANGED <<running, sock, ws, closer, data, outages>>

\* _safe_callback(): a callback returned or raised.
CallbackDone ==
  /\ pc = "callback"
  /\ calls' = calls - 1
  /\ pc' = IF calls = 1 THEN "stream" ELSE "callback"
  /\ UNCHANGED <<running, sock, ws, closer, data, messages, outages>>

-----------------------------------------------------------------------------
\* close(): it awaits the closing handshake of the connection it finds, if it finds one; while
\* connect() is in its handshake that is no connection or the last one.
Close ==
  /\ closer = "no" /\ pc # "off"
  /\ running' = FALSE
  /\ closer' = IF ws = "none" THEN "done" ELSE ws
  /\ UNCHANGED <<pc, sock, ws, data, calls, messages, outages>>

CloseReturns ==
  /\ closer \in {"current", "old"}
  /\ sock' = IF closer = "current" /\ sock = "open" THEN "closed" ELSE sock
  /\ closer' = "done" /\ ws' = "none"
  /\ UNCHANGED <<pc, running, data, calls, messages, outages>>

Next ==
  \/ Connect \/ Connected \/ HandshakeFails \/ ConnectionEnds \/ Awake
  \/ MessageAfterClose \/ Ticker \/ CallbackDone \/ Close \/ CloseReturns
  \/ \E s \in Symbols \cup Strangers : TradeMessage(s) \/ \E b, a \in Volumes : Depth(s, b, a)

\* What goes on by itself: the handshake ends, sleeps and callbacks end, a closed connection is
\* noticed, and the streams, which tick all the time, deliver another message.
Progress ==
  \/ Connected \/ HandshakeFails \/ Awake \/ CallbackDone \/ MessageAfterClose \/ CloseReturns
  \/ sock = "closed" /\ ConnectionEnds

Spec == Init /\ [][Next]_vars /\ WF_vars(Progress)

-----------------------------------------------------------------------------
(* Properties                                                              *)

\* From close() on no message changes a book, an imbalance or a buffer (connect()).
QuietAfterClose == closer # "no" => UNCHANGED data

\* close() ends connect() in the end, also when it comes during a handshake and finds no
\* connection it could close.
CloseEndsConnect == closer = "done" ~> pc = "off"

=============================================================================
