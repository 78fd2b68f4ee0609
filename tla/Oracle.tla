------------------------------- MODULE Oracle -------------------------------
(***************************************************************************)
(* The Binance price oracle (BinanceOracle, src/src/oracle.py) as the      *)
(* service of main.py runs it: the connection loop with its reconnects,    *)
(* disconnect() and cancellation from outside, and the rolling window of   *)
(* one symbol.  A price is reduced to the time it was received.            *)
(***************************************************************************)
EXTENDS Integers, Sequences

CONSTANTS MaxAttempts,    \* _max_reconnect_attempts
          RollingWindow,  \* _rolling_window, in ticks
          MaxTime,        \* bound: ticks
          MaxMessages,    \* bound: prices received
          MaxOutages      \* bound: connections that are made and lost

VARIABLES
  pc,         \* connect(): "off", "handshake", "stream", "backoff", "ended"
  running,    \* _running
  connected,  \* _connected
  attempts,   \* _reconnect_attempts
  ws,         \* the socket: "none", "open", "closed"
  closing,    \* disconnect(): "idle", "closing", "done"
  asked,      \* disconnect() or a cancellation has been asked for
  failures,   \* failed connections since the last one that was made
  prices,     \* _prices of the symbol
  now,        \* external: the wall clock
  messages, outages

vars == <<pc, running, connected, attempts, ws, closing, asked, failures, prices, now, messages,
          outages>>
feed == <<prices, now, messages>>

TypeOK ==
  /\ pc \in {"off", "handshake", "stream", "backoff", "ended"}
  /\ running \in BOOLEAN /\ connected \in BOOLEAN /\ asked \in BOOLEAN
  /\ attempts \in 0..(MaxAttempts + 1)
  /\ ws \in {"none", "open", "closed"}
  /\ closing \in {"idle", "closing", "done"}
  /\ failures \in 0..(MaxAttempts + 1)
  /\ prices \in Seq(0..MaxTime)
  /\ now \in 0..MaxTime /\ messages \in 0..MaxMessages /\ outages \in 0..MaxOutages

Init ==
  /\ pc = "off"
  /\ running = FALSE /\ connected = FALSE /\ asked = FALSE
  /\ attempts = 0
  /\ ws = "none"
  /\ closing = "idle"
  /\ failures = 0
  /\ prices = << >>
  /\ now = 0 /\ messages = 0 /\ outages = 0

-----------------------------------------------------------------------------
(* connect()                                                               *)

Connect ==
  /\ pc = "off"
  /\ running' = TRUE
  /\ pc' = "handshake"
  /\ UNCHANGED <<connected, attempts, ws, closing, asked, failures, feed, outages>>

HandshakeOk_KeepsAttempts ==
  /\ pc = "handshake"
  /\ pc' = "stream"
  /\ ws' = "open"
  /\ connected' = TRUE
  /\ failures' = 0
  /\ UNCHANGED <<running, attempts, closing, asked, feed, outages>>

\* _connect_and_stream() has its socket.
HandshakeOk ==
  /\ pc = "handshake"
  /\ pc' = "stream"
  /\ ws' = "open"
  /\ connected' = TRUE
  /\ attempts' = 0
  /\ failures' = 0
  /\ UNCHANGED <<running, closing, asked, feed, outages>>

\* What the handlers of connect() do after an error: nothing more when it is not
\* running, else _handle_reconnect().
HandleReconnect ==
  \/ /\ ~running
     /\ pc' = "ended"
     /\ UNCHANGED <<running, attempts>>
  \/ /\ running
     /\ attempts' = attempts + 1
     /\ \/ attempts' > MaxAttempts /\ running' = FALSE /\ pc' = "ended"
        \/ attempts' <= MaxAttempts /\ pc' = "backoff" /\ UNCHANGED running

HandshakeFails ==
  /\ pc = "handshake"
  /\ connected' = FALSE
  /\ failures' = failures + 1
  /\ HandleReconnect
  /\ UNCHANGED <<ws, closing, asked, feed, outages>>

\* The stream breaks: ConnectionClosed or another error.
StreamFails ==
  /\ pc = "stream"
  /\ outages < MaxOutages
  /\ outages' = outages + 1
  /\ ws' = "closed"
  /\ connected' = FALSE
  /\ failures' = failures + 1
  /\ HandleReconnect
  /\ UNCHANGED <<closing, asked, feed>>

\* The socket is closed in good order, by the server or by disconnect(): the
\* iteration just ends and connect() goes round its loop.
StreamEnds ==
  /\ pc = "stream"
  /\ \/ closing = "closing" /\ UNCHANGED outages
     \/ closing # "closing" /\ outages < MaxOutages /\ outages' = outages + 1
  /\ ws' = "closed"
  /\ pc' = IF running THEN "handshake" ELSE "ended"
  /\ UNCHANGED <<running, connected, attempts, closing, asked, failures, feed>>

BackoffEnds ==
  /\ pc = "backoff"
  /\ pc' = IF running THEN "handshake" ELSE "ended"
  /\ UNCHANGED <<running, connected, attempts, ws, closing, asked, failures, feed, outages>>

\* The task is cancelled while connecting or streaming: connect() swallows it.
CancelledInStream ==
  /\ pc \in {"handshake", "stream"}
  /\ asked' = TRUE
  /\ running' = FALSE
  /\ ws' = IF pc = "stream" THEN "closed" ELSE ws
  /\ pc' = "ended"
  /\ UNCHANGED <<connected, attempts, closing, failures, feed, outages>>

\* Cancelled in _handle_reconnect(): it leaves connect() and run_oracle_service() calls
\* close(), for which there is nothing left to do but the flags.
CancelledInBackoff ==
  /\ pc = "backoff"
  /\ asked' = TRUE
  /\ running' = FALSE
  /\ connected' = FALSE
  /\ pc' = "ended"
  /\ UNCHANGED <<attempts, ws, closing, failures, feed, outages>>

-----------------------------------------------------------------------------
(* disconnect()                                                            *)

Disconnect ==
  /\ closing = "idle" /\ pc # "off"
  /\ asked' = TRUE
  /\ running' = FALSE
  /\ \/ ws = "open" /\ closing' = "closing" /\ UNCHANGED connected
     \/ ws # "open" /\ closing' = "done" /\ connected' = FALSE
  /\ UNCHANGED <<pc, attempts, ws, failures, feed, outages>>

\* ws.close() is back: the socket is closed.
DisconnectEnds ==
  /\ closing = "closing"
  /\ ws = "closed"
  /\ closing' = "done"
  /\ connected' = FALSE
  /\ UNCHANGED <<pc, running, attempts, ws, asked, failures, feed, outages>>

-----------------------------------------------------------------------------
(* The rolling window                                                      *)

Pruned_OnlyFirst(p) == IF p # << >> /\ p[1] < now - RollingWindow THEN Tail(p) ELSE p

\* _prune_old_entries(): drop entries from the left while they are old.
Pruned(p) ==
  LET kept == {i \in 1..Len(p) : p[i] >= now - RollingWindow}
  IN IF kept = {} THEN << >>
     ELSE SubSeq(p, CHOOSE i \in kept : \A j \in kept : i <= j, Len(p))

\* _handle_message() with a ticker: _update_price().
Message ==
  /\ pc = "stream"
  /\ messages < MaxMessages
  /\ messages' = messages + 1
  /\ prices' = Pruned(Append(prices, now))
  /\ UNCHANGED <<pc, running, connected, attempts, ws, closing, asked, failures, now, outages>>

\* get_rolling_average() or get_price_momentum()
RollingAverage ==
  /\ prices' = Pruned(prices)
  /\ UNCHANGED <<pc, running, connected, attempts, ws, closing, asked, failures, now, messages,
                 outages>>

Tick ==
  /\ now < MaxTime
  /\ now' = now + 1
  /\ UNCHANGED <<pc, running, connected, attempts, ws, closing, asked, failures, prices,
                 messages, outages>>

Next ==
  \/ Connect \/ HandshakeOk \/ HandshakeFails \/ StreamFails \/ StreamEnds \/ BackoffEnds
  \/ CancelledInStream \/ CancelledInBackoff \/ Disconnect \/ DisconnectEnds
  \/ Message \/ RollingAverage \/ Tick

Spec == Init /\ [][Next]_vars

-----------------------------------------------------------------------------
(* Properties                                                              *)

\* "Handles auto-reconnection with exponential backoff" (connect()): unless it is told to
\* stop, the oracle ends only after MaxAttempts + 1 failures without a connection in between.
GivesUpOnlyAfterMax == pc = "ended" /\ ~asked => failures = MaxAttempts + 1

\* "Remove entries older than rolling window" (_prune_old_entries()): what an update or
\* an average leaves is all within the window, after any gap in the stream.
AverageInWindow ==
  prices' # prices => \A i \in 1..Len(prices') : prices'[i] >= now - RollingWindow

=============================================================================
