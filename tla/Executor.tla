------------------------------ MODULE Executor ------------------------------
(***************************************************************************)
(* ZeroFeeExecutor.execute_fok_order() (src/src/executor.py) as the        *)
(* orchestrator calls it (_execute_opportunity() in src/src/main.py):      *)
(* validation, the fee check, and up to MAX_RETRIES attempts to sign and   *)
(* post one Fill-or-Kill order.                                            *)
(*                                                                         *)
(* The CLOB client is synchronous: an attempt blocks the event loop, and   *)
(* the only suspension is the backoff sleep between two attempts.  Calls   *)
(* of several monitors and a close() therefore interleave exactly there.   *)
(* The exchange is external: a posted order is filled or not, and its      *)
(* reply arrives or is lost.                                               *)
(***************************************************************************)
EXTENDS Naturals

CONSTANTS Calls,           \* calls of execute_fok_order(), each for one market
          MaxRetries,      \* MAX_RETRIES
          MaxBackoff       \* MAX_BACKOFF / INITIAL_BACKOFF

ASSUME ExecutorConstants ==
  /\ MaxRetries \in Nat \ {0}
  /\ MaxBackoff \in Nat \ {0}

VARIABLES
  client,      \* _client and _initialized
  pc,          \* where each call is
  attempt,     \* attempts that failed so far
  backoff,     \* the next sleep
  reported,      \* status of the ExecutionResult
  counted,     \* calls that _execute_opportunity() added to _total_trades
  posts,       \* external: orders of the call that reached the exchange
  fills,       \* external: orders of the call that the exchange filled
  lost         \* external: calls that did not learn of a fill

order_vars == <<pc, attempt, reported, counted, posts, fills, lost>>
executor_vars == <<client, order_vars, backoff>>

ExecutionStatus == {"pending", "submitted", "filled", "partial", "cancelled",
                    "rejected", "error"}

ExecutorTypeOK ==
  /\ client \in {"open", "closed"}
  /\ pc \in [Calls -> {"idle", "sleep", "done", "cancelled"}]
  /\ attempt \in [Calls -> 0..MaxRetries]
  /\ backoff \in [Calls -> 1..MaxBackoff]
  /\ reported \in [Calls -> ExecutionStatus]
  /\ counted \subseteq Calls
  /\ posts \in [Calls -> Nat]
  /\ fills \in [Calls -> Nat]
  /\ lost \subseteq Calls

\* After initialize().
ExecutorInit ==
  /\ client = "open"
  /\ pc = [c \in Calls |-> "idle"]
  /\ attempt = [c \in Calls |-> 0]
  /\ backoff = [c \in Calls |-> 1]
  /\ reported = [c \in Calls |-> "pending"]
  /\ counted = {}
  /\ posts = [c \in Calls |-> 0]
  /\ fills = [c \in Calls |-> 0]
  /\ lost = {}

-----------------------------------------------------------------------------
(* What the exchange answers                                               *)

StatusMap_DefaultSubmitted(reply) ==
  CASE reply = "live" -> "submitted"
    [] reply \in {"matched", "filled"} -> "filled"
    [] reply \in {"partial", "cancelled", "rejected"} -> reply
    [] OTHER -> "submitted"

\* status_map of _parse_order_response().
StatusMap(reply) ==
  CASE reply = "live" -> "submitted"
    [] reply \in {"matched", "filled"} -> "filled"
    [] reply \in {"partial", "cancelled", "rejected"} -> reply
    [] OTHER -> "pending"

\* External: replies for a FOK order that was filled and for one that was not.
\* "malformed" makes _parse_order_response() fail.
FilledReplies == {"matched", "filled", "malformed"}
UnfilledReplies == {"cancelled", "rejected", "unmatched", "malformed"}

-----------------------------------------------------------------------------
(* One attempt                                                             *)

\* execute_fok_order() returned r: the orchestrator counts a trade.
Return(c, r) ==
  /\ pc' = [pc EXCEPT ![c] = "done"]
  /\ reported' = [reported EXCEPT ![c] = r]
  /\ counted' = IF r \in {"filled", "submitted"} THEN counted \cup {c} ELSE counted

\* An exception in attempt number attempt[c]: sleep, or give up.
AttemptRaised(c) ==
  /\ attempt' = [attempt EXCEPT ![c] = @ + 1]
  /\ \/ /\ attempt[c] + 1 < MaxRetries
        /\ pc' = [pc EXCEPT ![c] = "sleep"]
        /\ UNCHANGED <<reported, counted>>
     \/ /\ attempt[c] + 1 >= MaxRetries
        /\ Return(c, "error")

\* The order reached the exchange.
Posted(c) == posts' = [posts EXCEPT ![c] = @ + 1]

\* The exchange filled the order and says so; a reply that cannot be parsed
\* becomes an error result, without a retry.
AttemptFilled(c) ==
  /\ Posted(c)
  /\ fills' = [fills EXCEPT ![c] = @ + 1]
  /\ \E reply \in FilledReplies :
       /\ Return(c, IF reply = "malformed" THEN "error" ELSE StatusMap(reply))
       /\ lost' = IF reply = "malformed" THEN lost \cup {c} ELSE lost
  /\ UNCHANGED attempt

AttemptUnfilled(c) ==
  /\ Posted(c)
  /\ \E reply \in UnfilledReplies :
       Return(c, IF reply = "malformed" THEN "error" ELSE StatusMap(reply))
  /\ UNCHANGED <<fills, attempt, lost>>

\* The reply is lost (timeout, dropped connection): filled or not, the client
\* sees an exception.
AttemptLost(c) ==
  /\ Posted(c)
  /\ \/ fills' = [fills EXCEPT ![c] = @ + 1] /\ lost' = lost \cup {c}
     \/ UNCHANGED <<fills, lost>>
  /\ AttemptRaised(c)

\* create_order() raised, or post_order() never reached the exchange.
AttemptNotPosted(c) ==
  /\ AttemptRaised(c)
  /\ UNCHANGED <<posts, fills, lost>>

OnlineAttempt(c) ==
  \/ AttemptFilled(c) \/ AttemptUnfilled(c)
  \/ AttemptLost(c) \/ AttemptNotPosted(c)

Attempt_IgnoresClose(c) == OnlineAttempt(c)

\* close() set _client to None: create_order fails with AttributeError, which
\* the retry loop catches like any other exception.
Attempt(c) ==
  \/ client = "open" /\ OnlineAttempt(c)
  \/ client = "closed" /\ AttemptNotPosted(c)

-----------------------------------------------------------------------------
(* execute_fok_order()                                                     *)

\* Invalid token, price, size or side: an error result, nothing is posted.
ExecuteInvalid(c) ==
  /\ pc[c] = "idle"
  /\ client = "open"
  /\ Return(c, "error")
  /\ UNCHANGED <<client, attempt, posts, fills, lost, backoff>>

\* _ensure_initialized() raises after close(); the orchestrator logs it.
ExecuteClosed(c) ==
  /\ pc[c] = "idle"
  /\ client = "closed"
  /\ Return(c, "error")
  /\ UNCHANGED <<client, attempt, posts, fills, lost, backoff>>

\* verify_zero_fee() only logs a fee, and a fee that cannot be queried counts
\* as zero; whatever it says, the first attempt follows without suspension.
Execute(c) ==
  /\ pc[c] = "idle"
  /\ client = "open"
  /\ Attempt(c)
  /\ UNCHANGED <<client, backoff>>

NextBackoff(b) == IF b * 2 < MaxBackoff THEN b * 2 ELSE MaxBackoff

Retry_SameAttempt(c) ==
  /\ pc[c] = "sleep"
  /\ backoff' = [backoff EXCEPT ![c] = NextBackoff(@)]
  /\ attempt' = [attempt EXCEPT ![c] = 1]
  /\ UNCHANGED <<client, pc, reported, counted, posts, fills, lost>>

\* The backoff is over: the next attempt.
Retry(c) ==
  /\ pc[c] = "sleep"
  /\ backoff' = [backoff EXCEPT ![c] = NextBackoff(@)]
  /\ Attempt(c)
  /\ UNCHANGED client

\* The monitor that made the call is cancelled while it sleeps.
CallCancelled(c) ==
  /\ pc[c] = "sleep"
  /\ pc' = [pc EXCEPT ![c] = "cancelled"]
  /\ UNCHANGED <<client, attempt, reported, counted, posts, fills, lost, backoff>>

\* close()
Close ==
  /\ client = "open"
  /\ client' = "closed"
  /\ UNCHANGED <<order_vars, backoff>>

CallStep(c) == ExecuteInvalid(c) \/ ExecuteClosed(c) \/ Execute(c) \/ Retry(c)
               \/ CallCancelled(c)

ExecutorNext == Close \/ \E c \in Calls : CallStep(c)

ExecutorSpec == ExecutorInit /\ [][ExecutorNext]_executor_vars

\* A sleep ends and the event loop resumes its task.
ExecutorFairSpec == ExecutorSpec /\ \A c \in Calls : WF_executor_vars(Retry(c))

-----------------------------------------------------------------------------
(* Properties                                                              *)

\* A trade that _execute_opportunity() counts, with its profit, is one the
\* exchange really filled, after whatever retries and replies.
CountedIsBacked == \A c \in counted : fills[c] > 0

\* After close() no order reaches the exchange, although calls asleep between
\* two attempts wake up and try again.
NoPostAfterClose == [][client = "closed" => posts' = posts]_executor_vars

\* Retries are safe for a call that learns of its fills, whatever else fails
\* and however often: its order is filled at most once, and exactly when the
\* call reports it.
ReliableMeansOnce ==
  \A c \in Calls \ lost : /\ fills[c] <= 1
                          /\ fills[c] = 1 <=> (pc[c] = "done" /\ reported[c] = "filled")

\* A call that is backing off ends: the retry loop terminates.
RetriesEnd == \A c \in Calls : pc[c] = "sleep" ~> pc[c] \in {"done", "cancelled"}

\* "FOK orders are either fully filled immediately or cancelled"
\* (execute_fok_order()): one call buys its position at most once.
FilledOnce == \A c \in Calls : fills[c] <= 1

-----------------------------------------------------------------------------
(* The inductive invariant                                                 *)

\* A call posts at most once per attempt and fills at most once per post.
PostsFollowAttempts ==
  \A c \in Calls : /\ fills[c] <= posts[c]
                   /\ posts[c] <= attempt[c] + 1
                   /\ pc[c] # "done" => posts[c] <= attempt[c]
                   /\ pc[c] = "idle" => attempt[c] = 0
                   /\ pc[c] \in {"idle", "sleep"} => attempt[c] < MaxRetries
                   /\ reported[c] # "pending" => pc[c] = "done"

\* What retries may never break: a call posts and fills within its attempts, a counted trade
\* was filled, and a call that learns of its fills is filled at most once, exactly when it
\* reports it.
ExecutorInv ==
  /\ ExecutorTypeOK
  /\ PostsFollowAttempts
  /\ CountedIsBacked
  /\ \A c \in Calls : c \in counted => pc[c] = "done"
  /\ ReliableMeansOnce

=============================================================================
