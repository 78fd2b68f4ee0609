------------------------------ MODULE MCSniper ------------------------------
(***************************************************************************)
(* The two WebSocket clients that must survive lost connections and stop   *)
(* when they are told to: the sniper with two tokens, two callers and two  *)
(* lost connections, and the Binance stream with one symbol.  They share   *)
(* nothing; `moves` names the one a behaviour is about.                    *)
(***************************************************************************)
EXTENDS Sniper

VARIABLES moves,
          pc, opened, sock, link, stopper, depth, ofi, buffer, calls, messages, outages

Stream == INSTANCE BinanceFeed WITH
  Symbols <- {"BTC"}, Strangers <- {"X"}, Volumes <- {1, 2}, MaxTrades <- 1, MaxMessages <- 2,
  MaxOutages <- 2, running <- opened, ws <- link, closer <- stopper, books <- depth

stream_vars == <<pc, opened, sock, link, stopper, depth, ofi, buffer, calls, messages, outages>>
all_vars == <<moves, vars, stream_vars>>

SniperOnly(A) == moves = "sniper" /\ A /\ UNCHANGED <<moves, stream_vars>>
StreamOnly(A) == moves = "stream" /\ A /\ UNCHANGED <<moves, vars>>

MCInit == moves \in {"sniper", "stream"} /\ Init /\ Stream!Init

MCNext == SniperOnly(Next) \/ StreamOnly(Stream!Next)

MCSpec == MCInit /\ [][MCNext]_all_vars

\* Each client is scheduled fairly in the behaviours that are about it.
MCFairSpec ==
  /\ MCSpec
  /\ moves = "sniper" => Fairness
  /\ WF_all_vars(StreamOnly(Stream!Progress))

-----------------------------------------------------------------------------
(* The properties of both                                                  *)

\* A queued token is taken out of the queue once the socket is up again, and the two clients
\* stop when they are told to: disconnect() ends run(), and close() ends connect(), also when
\* it comes during a handshake and finds no connection it could close.
ClientsEnd == PendingIsFlushed /\ DisconnectStopsRun /\ Stream!CloseEndsConnect

\* The Binance stream keeps its types, and once close() was called no message that is still on
\* its way changes a book, a trade buffer or the last imbalance.
StreamQuiet == [][Stream!TypeOK /\ Stream!QuietAfterClose]_all_vars
=============================================================================
