------------------------------- MODULE Sniper -------------------------------
(***************************************************************************)
(* PolymarketSniper (src/src/sniper.py): one WebSocket, the sets of tokens *)
(* the client believes it is subscribed to, and the tasks that share them. *)
(*                                                                         *)
(* asyncio runs one task at a time and switches only where a coroutine     *)
(* really suspends, so every action below is the code between two          *)
(* suspension points of one task:                                          *)
(*   - run(): connect, flush the pending subscriptions, wait for the       *)
(*     worker tasks, back off, start over;                                 *)
(*   - the callers of subscribe() and unsubscribe() (the asset loops and   *)
(*     the terminal monitors), which hold _subscription_lock while their   *)
(*     frame is being sent;                                                *)
(*   - the receive and process workers;                                    *)
(*   - one caller of disconnect()/close() (the orchestrator's cleanup).    *)
(* The exchange's side of the socket is external: server_subs is the set   *)
(* of tokens it streams on the connection that is open now.                *)
(***************************************************************************)
EXTENDS Naturals, FiniteSets

CONSTANTS Tokens,     \* token ids of the markets
          Callers,    \* tasks that call subscribe() and unsubscribe()
          None,       \* no lock holder
          MaxDelay,   \* RECONNECT_MAX_DELAY / RECONNECT_BASE_DELAY
          MaxDrops,   \* bound: how often the link or the heartbeat fails
          Cancels     \* scope: may a caller be cancelled inside unsubscribe()?

ASSUME ConstantsAssumption == /\ None \notin Callers
                              /\ MaxDelay \in Nat \ {0}
                              /\ MaxDrops \in Nat
                              /\ Cancels \in BOOLEAN

VARIABLES
  state,                 \* _state: ConnectionState
  ws,                    \* _ws: "none", "open", or "closed" (object kept, link dead)
  subscribed_tokens,     \* _subscribed_tokens
  pending_subscriptions, \* _pending_subscriptions
  books,                 \* keys of _books
  queued,                \* tokens with a message waiting in _message_queue
  lock,                  \* holder of _subscription_lock
  call,                  \* what each caller is doing
  run_pc,                \* where run() is suspended
  flushing,              \* run()'s local list `pending`, while it is being sent
  reconnect_delay,       \* _reconnect_delay in units of RECONNECT_BASE_DELAY
  closer,                \* progress of the external disconnect()
  drops,                 \* failures so far (bounded by MaxDrops)
  server_subs            \* external: what the exchange streams on this socket

conn_vars == <<state, ws, server_subs>>
sub_vars == <<subscribed_tokens, pending_subscriptions, books>>
loop_vars == <<run_pc, flushing, reconnect_delay>>
vars == <<conn_vars, sub_vars, loop_vars, closer, queued, lock, call, drops>>

\* _running and _should_reconnect: disconnect() clears both before anything else.
running == closer = "no"

ConnectionState == {"disconnected", "connecting", "connected", "reconnecting"}
RunPC == {"top", "connecting", "pending", "flush", "wait", "cancelling",
          "backoff", "closing", "done"}

Idle == [op |-> "idle", tokens |-> {}]
Calls == [op : {"idle", "sub", "sub_broken", "unsub"}, tokens : SUBSET Tokens]
Subscribing(c) == call[c].op \in {"sub", "sub_broken"}

TypeOK ==
  /\ state \in ConnectionState
  /\ ws \in {"none", "open", "closed"}
  /\ subscribed_tokens \in SUBSET Tokens
  /\ pending_subscriptions \in SUBSET Tokens
  /\ books \in SUBSET Tokens
  /\ queued \in SUBSET Tokens
  /\ lock \in Callers \cup {None}
  /\ call \in [Callers -> Calls]
  /\ run_pc \in RunPC
  /\ flushing \in SUBSET Tokens
  /\ reconnect_delay \in 1..MaxDelay
  /\ closer \in {"no", "cancelled", "done"}
  /\ drops \in 0..MaxDrops
  /\ server_subs \in SUBSET Tokens

Init ==
  /\ state = "disconnected"
  /\ ws = "none"
  /\ subscribed_tokens = {}
  /\ pending_subscriptions = {}
  /\ books = {}
  /\ queued = {}
  /\ lock = None
  /\ call = [c \in Callers |-> Idle]
  /\ run_pc = "top"
  /\ flushing = {}
  /\ reconnect_delay = 1
  /\ closer = "no"
  /\ drops = 0
  /\ server_subs = {}

-----------------------------------------------------------------------------
(* Sending a frame: the socket takes it in order; a dead link swallows it. *)

\* External: the exchange starts streaming the tokens of a subscribe frame.
Deliver(tokens) == IF ws = "open" THEN server_subs \cup tokens ELSE server_subs

\* External: the exchange stops streaming the tokens of an unsubscribe frame.
Withdraw(tokens) == IF ws = "open" THEN server_subs \ tokens ELSE server_subs

\* The socket ends: a subscribe frame still being sent on it may raise later.
Broken == [c \in Callers |-> IF call[c].op = "sub"
                             THEN [call[c] EXCEPT !.op = "sub_broken"] ELSE call[c]]

\* "if self._state == CONNECTED and self._ws": the frame is sent right away,
\* on a socket whose link may already be dead.
CanSend == state = "connected" /\ ws # "none"

-----------------------------------------------------------------------------
(* subscribe() and unsubscribe()                                           *)

\* Every token is already subscribed, or the set is empty: nothing happens.
NewTokens(tokens) == tokens \ subscribed_tokens

\* subscribe(): books are created first, then the frame goes out (the caller
\* suspends in send() holding the lock) or the tokens are queued.
Subscribe(c, tokens) ==
  /\ call[c] = Idle
  /\ lock = None
  /\ NewTokens(tokens) # {}
  /\ books' = books \cup NewTokens(tokens)
  /\ \/ /\ CanSend
        /\ lock' = c
        /\ call' = [call EXCEPT ![c] = [op |-> "sub", tokens |-> NewTokens(tokens)]]
        /\ server_subs' = Deliver(NewTokens(tokens))
        /\ UNCHANGED pending_subscriptions
     \/ /\ ~CanSend
        /\ pending_subscriptions' = pending_subscriptions \cup NewTokens(tokens)
        /\ UNCHANGED <<lock, call, server_subs>>
  /\ UNCHANGED <<state, ws, subscribed_tokens, loop_vars, closer, queued, drops>>

\* send() of subscribe() returns: only now are the tokens recorded.
SubscribeSent(c) ==
  /\ Subscribing(c)
  /\ subscribed_tokens' = subscribed_tokens \cup call[c].tokens
  /\ lock' = None
  /\ call' = [call EXCEPT ![c] = Idle]
  /\ UNCHANGED <<conn_vars, pending_subscriptions, books, loop_vars, closer,
                 queued, drops>>

\* send() of subscribe() raises on a dead link; the lock is released and the
\* exception goes to the caller.
SubscribeFailed(c) ==
  /\ call[c].op = "sub_broken"
  /\ lock' = None
  /\ call' = [call EXCEPT ![c] = Idle]
  /\ UNCHANGED <<conn_vars, sub_vars, loop_vars, closer, queued, drops>>

TokensToRemove(tokens) == tokens \cap subscribed_tokens

\* Tail of unsubscribe(): forget the tokens and their books.
Forget(tokens) ==
  /\ subscribed_tokens' = subscribed_tokens \ tokens
  /\ books' = books \ tokens

Unsubscribe_NoFrame(c, tokens) ==
  /\ call[c] = Idle
  /\ lock = None
  /\ TokensToRemove(tokens) # {}
  /\ Forget(TokensToRemove(tokens))
  /\ UNCHANGED <<conn_vars, pending_subscriptions, loop_vars, closer, queued, lock,
                 call, drops>>

\* unsubscribe(): tokens that are not in _subscribed_tokens are ignored.
Unsubscribe(c, tokens) ==
  /\ call[c] = Idle
  /\ lock = None
  /\ TokensToRemove(tokens) # {}
  /\ \/ /\ CanSend
        /\ lock' = c
        /\ call' = [call EXCEPT ![c] = [op |-> "unsub", tokens |-> TokensToRemove(tokens)]]
        /\ server_subs' = Withdraw(TokensToRemove(tokens))
        /\ UNCHANGED <<subscribed_tokens, books>>
     \/ /\ ~CanSend
        /\ Forget(TokensToRemove(tokens))
        /\ UNCHANGED <<lock, call, server_subs>>
  /\ UNCHANGED <<state, ws, pending_subscriptions, loop_vars, closer, queued, drops>>

\* send() of unsubscribe() returns or fails (_send_unsubscription swallows the
\* error): the tokens are forgotten either way.
UnsubscribeSent(c) ==
  /\ call[c].op = "unsub"
  /\ Forget(call[c].tokens)
  /\ lock' = None
  /\ call' = [call EXCEPT ![c] = Idle]
  /\ UNCHANGED <<conn_vars, pending_subscriptions, loop_vars, closer, queued, drops>>

\* The caller (a terminal monitor) is cancelled inside send(): CancelledError
\* is not swallowed, so the frame is out but nothing is forgotten.
UnsubscribeCancelled(c) ==
  /\ Cancels
  /\ call[c].op = "unsub"
  /\ lock' = None
  /\ call' = [call EXCEPT ![c] = Idle]
  /\ UNCHANGED <<conn_vars, sub_vars, loop_vars, closer, queued, drops>>

-----------------------------------------------------------------------------
(* run()                                                                   *)

\* Top of the loop: connect() marks CONNECTING and awaits websockets.connect.
Connect ==
  /\ run_pc = "top"
  /\ running
  /\ state # "connected"
  /\ state' = "connecting"
  /\ run_pc' = "connecting"
  /\ UNCHANGED <<ws, server_subs, sub_vars, flushing, reconnect_delay, closer,
                 queued, lock, call, drops>>

\* A fresh socket: the exchange streams nothing on it yet.
ConnectOk ==
  /\ run_pc = "connecting"
  /\ ws' = "open"
  /\ server_subs' = {}
  /\ state' = "connected"
  /\ reconnect_delay' = 1
  /\ run_pc' = "pending"
  /\ UNCHANGED <<sub_vars, flushing, closer, queued, lock, call, drops>>

\* connect() returned False: _handle_reconnect(), which returns at once when
\* disconnect() has cleared _should_reconnect.
ConnectFailed ==
  /\ run_pc = "connecting"
  /\ drops < MaxDrops
  /\ drops' = drops + 1
  /\ state' = IF running THEN "reconnecting" ELSE "disconnected"
  /\ run_pc' = IF running THEN "backoff" ELSE "top"
  /\ UNCHANGED <<ws, server_subs, sub_vars, flushing, reconnect_delay, closer,
                 queued, lock, call>>

FlushPending_Skipped ==
  /\ run_pc = "pending"
  /\ run_pc' = "wait"
  /\ UNCHANGED <<conn_vars, sub_vars, flushing, reconnect_delay, closer, queued,
                 lock, call, drops>>

\* Process pending subscriptions: taken and cleared under the lock, sent
\* outside it.
FlushPending ==
  /\ run_pc = "pending"
  /\ \/ /\ pending_subscriptions # {}
        /\ lock = None
        /\ flushing' = pending_subscriptions
        /\ pending_subscriptions' = {}
        /\ server_subs' = Deliver(pending_subscriptions)
        /\ run_pc' = "flush"
     \/ /\ pending_subscriptions = {}
        /\ run_pc' = "wait"
        /\ UNCHANGED <<flushing, pending_subscriptions, server_subs>>
  /\ UNCHANGED <<state, ws, subscribed_tokens, books, reconnect_delay, closer,
                 queued, lock, call, drops>>

\* The send returned: the tokens are recorded and the workers start.
FlushSent ==
  /\ run_pc = "flush"
  /\ subscribed_tokens' = subscribed_tokens \cup flushing
  /\ flushing' = {}
  /\ run_pc' = "wait"
  /\ UNCHANGED <<conn_vars, pending_subscriptions, books, reconnect_delay, closer,
                 queued, lock, call, drops>>

\* _handle_reconnect(), or the end of the loop when disconnect() was called.
StartReconnect ==
  /\ state' = IF running THEN "reconnecting" ELSE state
  /\ run_pc' = IF running THEN "backoff" ELSE "top"

\* The send raised: the tokens are in neither set any more.
FlushFailed ==
  /\ run_pc = "flush"
  /\ ws # "open"
  /\ flushing' = {}
  /\ StartReconnect
  /\ UNCHANGED <<ws, server_subs, sub_vars, reconnect_delay, closer, queued,
                 lock, call, drops>>

\* External: the link dies; the exchange forgets the subscriptions.
LinkDown ==
  /\ ws = "open"
  /\ drops < MaxDrops
  /\ drops' = drops + 1
  /\ ws' = "closed"
  /\ server_subs' = {}
  /\ call' = Broken
  /\ UNCHANGED <<state, sub_vars, loop_vars, closer, queued, lock>>

\* _receive_loop sees ConnectionClosed; run() cancels the other workers.
ReceiveClosed ==
  /\ run_pc = "wait"
  /\ ws = "closed"
  /\ state' = "disconnected"
  /\ run_pc' = "cancelling"
  /\ UNCHANGED <<ws, server_subs, sub_vars, flushing, reconnect_delay, closer,
                 queued, lock, call, drops>>

\* The heartbeat ends the wait (timeout, or its ping fails): the state is
\* still CONNECTED and the socket may be alive.
HeartbeatFailed ==
  /\ run_pc = "wait"
  /\ ws # "none"
  /\ drops < MaxDrops
  /\ drops' = drops + 1
  /\ run_pc' = "cancelling"
  /\ UNCHANGED <<conn_vars, sub_vars, flushing, reconnect_delay, closer, queued,
                 lock, call>>

\* disconnect() cancelled the workers, or they see _running = False.
WorkersStopped ==
  /\ run_pc = "wait"
  /\ ~running
  /\ run_pc' = "cancelling"
  /\ UNCHANGED <<conn_vars, sub_vars, flushing, reconnect_delay, closer, queued,
                 lock, call, drops>>

\* The workers are gone.
WorkersCancelled ==
  /\ run_pc = "cancelling"
  /\ StartReconnect
  /\ UNCHANGED <<ws, server_subs, sub_vars, flushing, reconnect_delay, closer,
                 queued, lock, call, drops>>

Least(a, b) == IF a < b THEN a ELSE b

\* End of the backoff sleep: the delay doubles and the old socket is closed.
BackoffOver ==
  /\ run_pc = "backoff"
  /\ reconnect_delay' = Least(reconnect_delay * 2, MaxDelay)
  /\ ws' = "none"
  /\ server_subs' = {}
  /\ call' = Broken
  /\ run_pc' = "top"
  /\ UNCHANGED <<state, sub_vars, flushing, closer, queued, lock, drops>>

\* The loop ends; run() calls disconnect() itself and awaits ws.close().
RunExit ==
  /\ run_pc = "top"
  /\ ~running
  /\ run_pc' = "closing"
  /\ UNCHANGED <<conn_vars, sub_vars, flushing, reconnect_delay, closer, queued,
                 lock, call, drops>>

\* The tail of disconnect(): the socket is closed and dropped.
CloseSocket ==
  /\ ws' = "none"
  /\ server_subs' = {}
  /\ call' = Broken
  /\ state' = "disconnected"

\* The last step of run().
RunClosed ==
  /\ run_pc = "closing"
  /\ CloseSocket
  /\ run_pc' = "done"
  /\ UNCHANGED <<sub_vars, flushing, reconnect_delay, closer, queued, lock, drops>>

-----------------------------------------------------------------------------
(* disconnect() called by the orchestrator while run() is still active     *)

DisconnectCalled ==
  /\ closer = "no"
  /\ closer' = "cancelled"
  /\ UNCHANGED <<conn_vars, sub_vars, loop_vars, queued, lock, call, drops>>

DisconnectDone ==
  /\ closer = "cancelled"
  /\ CloseSocket
  /\ closer' = "done"
  /\ UNCHANGED <<sub_vars, loop_vars, queued, lock, drops>>

-----------------------------------------------------------------------------
(* Workers                                                                 *)

\* _receive_loop queues an update the exchange sent.
Receive(t) ==
  /\ run_pc = "wait"
  /\ running
  /\ t \in server_subs \ queued
  /\ queued' = queued \cup {t}
  /\ UNCHANGED <<conn_vars, sub_vars, loop_vars, closer, lock, call, drops>>

\* _process_loop takes a token's last waiting message; _handle_book_update
\* creates the book when there is none.
Process(t) ==
  /\ run_pc = "wait"
  /\ running
  /\ t \in queued
  /\ queued' = queued \ {t}
  /\ books' = books \cup {t}
  /\ UNCHANGED <<conn_vars, subscribed_tokens, pending_subscriptions, loop_vars,
                 closer, lock, call, drops>>

-----------------------------------------------------------------------------
(* The specification                                                       *)

RunStep ==
  \/ Connect \/ ConnectOk \/ ConnectFailed
  \/ FlushPending \/ FlushSent \/ FlushFailed
  \/ ReceiveClosed \/ WorkersStopped \/ WorkersCancelled
  \/ BackoffOver \/ RunExit \/ RunClosed

CallStep(c) ==
  \/ \E tokens \in SUBSET Tokens : Subscribe(c, tokens) \/ Unsubscribe(c, tokens)
  \/ SubscribeSent(c) \/ SubscribeFailed(c)
  \/ UnsubscribeSent(c) \/ UnsubscribeCancelled(c)

Next ==
  \/ RunStep
  \/ \E c \in Callers : CallStep(c)
  \/ LinkDown \/ HeartbeatFailed
  \/ DisconnectCalled \/ DisconnectDone
  \/ \E t \in Tokens : Receive(t) \/ Process(t)

Spec == Init /\ [][Next]_vars

\* The event loop keeps running every ready task; sends and closes return; an
\* asyncio.Lock is granted in FIFO order, so run() gets _subscription_lock.
Fairness ==
  /\ WF_vars(RunStep)
  /\ SF_vars(FlushPending)
  /\ WF_vars(DisconnectDone)
  /\ \A c \in Callers : WF_vars(SubscribeSent(c) \/ SubscribeFailed(c) \/ UnsubscribeSent(c))

FairSpec == Spec /\ Fairness

-----------------------------------------------------------------------------
(* Properties                                                              *)

\* Tokens the client knows it asked for, counting the frames under way.
Known == {t \in Tokens : \/ t \in subscribed_tokens \cup flushing
                         \/ \E c \in Callers : Subscribing(c) /\ t \in call[c].tokens}

\* While CONNECTED, the exchange never streams a token the client has lost track
\* of: whatever the interleaving of subscribe(), unsubscribe(), the pending flush
\* of run() and reconnects, a streamed token is in _subscribed_tokens or its
\* subscribe frame is still being sent.
StreamedIsKnown == state = "connected" => server_subs \subseteq Known

\* A queued subscription is never stranded: run() flushes the pending set only
\* right after it connects, so while it then waits on a CONNECTED socket the
\* set must stay empty.
PendingNotStranded ==
  run_pc = "wait" /\ state = "connected" /\ running => pending_subscriptions = {}

\* When run() has returned, no socket is left open and nothing is streamed,
\* even when connect() succeeded after disconnect() had already finished.
NoSocketAfterStop ==
  run_pc = "done" => ws = "none" /\ server_subs = {} /\ state = "disconnected"

\* The three together: what is streamed is known, nothing queued is stranded, and nothing is
\* left open after the stop.
SniperSafe == StreamedIsKnown /\ PendingNotStranded /\ NoSocketAfterStop

\* A token queued while the socket is down is taken out of the queue once the
\* socket is up again, unless the sniper is being stopped.
PendingIsFlushed ==
  \A t \in Tokens : (t \in pending_subscriptions /\ running)
                        ~> (t \notin pending_subscriptions \/ ~running)

\* disconnect() stops run(), wherever run() was suspended.
DisconnectStopsRun == ~running ~> run_pc = "done"

\* "Auto-reconnect with exponential backoff" and "Get set of currently
\* subscribed tokens" (sniper.py): while the connection is up and quiet, the
\* exchange streams every subscribed token that has an order book, so the
\* prices get_best_ask() serves for it are live.
SubscribedIsStreamed ==
  /\ run_pc = "wait"
  /\ state = "connected"
  /\ ws = "open"
  /\ \A c \in Callers : call[c] = Idle
  => subscribed_tokens \cap books \subseteq server_subs

-----------------------------------------------------------------------------
(* The inductive invariant behind the three safety properties              *)

\* A dead or absent socket streams nothing.
OnlyOpenSocketStreams == ws # "open" => server_subs = {}

\* A caller suspended in send() holds the lock, and nobody else does.
LockHolderIsCalling == \A c \in Callers : call[c] # Idle <=> lock = c

\* A frame caught on a socket that ended: nothing is streamed until its caller
\* lets go of the lock, since every new frame needs the lock.
BrokenMeansSilent == \A c \in Callers : call[c].op = "sub_broken" => server_subs = {}

\* What an unsubscribe() under way withdrew stays withdrawn until it is done.
WithdrawnStaysOut ==
  \A c \in Callers : call[c].op = "unsub" => server_subs \cap call[c].tokens = {}

\* disconnect() clears _running before it touches the socket, so a running loop
\* past connect() still has its socket object.
RunningHasSocket ==
  run_pc \in {"pending", "flush", "wait", "cancelling"} /\ running => ws # "none"

\* PendingNotStranded from the moment the pending set is taken.
PendingTaken ==
  run_pc \in {"flush", "wait"} /\ state = "connected" /\ running
    => pending_subscriptions = {}

\* run()'s local list holds tokens only while it is being sent.
FlushingWhileSending == run_pc # "flush" => flushing = {}

SniperInv ==
  /\ TypeOK
  /\ OnlyOpenSocketStreams
  /\ LockHolderIsCalling
  /\ BrokenMeansSilent
  /\ WithdrawnStaysOut
  /\ RunningHasSocket
  /\ PendingTaken
  /\ FlushingWhileSending
  /\ StreamedIsKnown
  /\ NoSocketAfterStop

=============================================================================
