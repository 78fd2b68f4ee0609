----------------------------- MODULE Overwatch ------------------------------
(***************************************************************************)
(* RateLimitOverwatch of src/src/rate_limiter.py: the buckets' throttle    *)
(* levels, the status computed from them after every acquire() and the     *)
(* callbacks told about it.  A bucket is reduced to its level (TokenBucket *)
(* models how a level comes about).                                        *)
(*                                                                         *)
(* _notify_callbacks() walks the list by position and may suspend in every *)
(* callback, while other tasks register and unregister.                    *)
(***************************************************************************)
EXTENDS Integers, Sequences, SequencesExt

CONSTANTS Buckets,     \* the buckets, in the order of the dictionary
          Callbacks,   \* throttle callbacks
          Tasks,       \* tasks that acquire()
          MaxChanges   \* bound: calls of register_ and unregister_callback()

VARIABLES
  level,      \* throttle_level of each bucket
  callbacks,  \* _callbacks
  pc,         \* each task: "idle", "notify", "await", "end"
  pos,        \* its position in the list
  status,     \* the level it tells
  due,        \* callbacks registered since its notification began, and before
  told,       \* callbacks it has called, in order
  changes

vars == <<level, callbacks, pc, pos, status, due, told, changes>>

Levels == <<"NORMAL", "WARNING", "CRITICAL", "COOLDOWN">>
Names == Range(Buckets)

TypeOK ==
  /\ level \in [Names -> Range(Levels)]
  /\ callbacks \in Seq(Callbacks)
  /\ pc \in [Tasks -> {"idle", "notify", "await", "end"}]
  /\ pos \in [Tasks -> Nat \ {0}]
  /\ status \in [Tasks -> Range(Levels)]
  /\ due \in [Tasks -> SUBSET Callbacks]
  /\ told \in [Tasks -> Seq(Callbacks)]
  /\ changes \in 0..MaxChanges

Init ==
  /\ level = [b \in Names |-> "NORMAL"]
  /\ callbacks \in {<< >>} \cup {SetToSeq(C) : C \in SUBSET Callbacks}
  /\ pc = [t \in Tasks |-> "idle"]
  /\ pos = [t \in Tasks |-> 1]
  /\ status = [t \in Tasks |-> "NORMAL"]
  /\ due = [t \in Tasks |-> {}]
  /\ told = [t \in Tasks |-> << >>]
  /\ changes = 0

-----------------------------------------------------------------------------

\* One round of the loop in get_throttle_status().
Worse(worst, l) ==
  CASE l = "COOLDOWN" -> l
    [] l = "CRITICAL" -> IF worst # "COOLDOWN" THEN l ELSE worst
    [] l = "WARNING"  -> IF worst = "NORMAL" THEN l ELSE worst
    [] OTHER          -> worst

\* get_throttle_status().level
ThrottleStatus(lv) == FoldLeft(LAMBDA worst, b : Worse(worst, lv[b]), "NORMAL", Buckets)

\* acquire() on a bucket, which leaves it at some level; callbacks are told of anything
\* that is not normal.
Acquire(t, b) ==
  /\ pc[t] = "idle"
  /\ \E l \in Range(Levels) : level' = [level EXCEPT ![b] = l]
  /\ status' = [status EXCEPT ![t] = ThrottleStatus(level')]
  /\ pc' = [pc EXCEPT ![t] = IF ThrottleStatus(level') = "NORMAL" THEN "end" ELSE "notify"]
  /\ due' = [due EXCEPT ![t] = Range(callbacks)]
  /\ UNCHANGED <<callbacks, pos, told, changes>>

\* The next callback is called; it returns (or raises, which is logged), or is awaited.
NotifyNext(t) ==
  /\ pc[t] = "notify"
  /\ pos[t] <= Len(callbacks)
  /\ told' = [told EXCEPT ![t] = Append(@, callbacks[pos[t]])]
  /\ \/ pos' = [pos EXCEPT ![t] = @ + 1] /\ UNCHANGED pc
     \/ pc' = [pc EXCEPT ![t] = "await"] /\ UNCHANGED pos
  /\ UNCHANGED <<level, callbacks, status, due, changes>>

Awaited_SkipsOne(t) ==
  /\ pc[t] = "await"
  /\ pc' = [pc EXCEPT ![t] = "notify"]
  /\ pos' = [pos EXCEPT ![t] = @ + 2]
  /\ UNCHANGED <<level, callbacks, status, due, told, changes>>

Awaited(t) ==
  /\ pc[t] = "await"
  /\ pc' = [pc EXCEPT ![t] = "notify"]
  /\ pos' = [pos EXCEPT ![t] = @ + 1]
  /\ UNCHANGED <<level, callbacks, status, due, told, changes>>

NotifyEnds(t) ==
  /\ pc[t] = "notify"
  /\ pos[t] > Len(callbacks)
  /\ pc' = [pc EXCEPT ![t] = "end"]
  /\ UNCHANGED <<level, callbacks, pos, status, due, told, changes>>

\* The other tasks run only while nobody is between two callbacks.
Suspended == \A t \in Tasks : pc[t] # "notify"

Registered(c) == Append(callbacks, c)

RegisterCallback(c) ==
  /\ Suspended
  /\ changes < MaxChanges
  /\ c \notin Range(callbacks)
  /\ callbacks' = Registered(c)
  /\ changes' = changes + 1
  /\ UNCHANGED <<level, pc, pos, status, due, told>>

UnregisterCallback(c) ==
  /\ Suspended
  /\ changes < MaxChanges
  /\ \E k \in 1..Len(callbacks) : callbacks[k] = c /\ callbacks' = RemoveAt(callbacks, k)
  /\ due' = [t \in Tasks |-> due[t] \ {c}]
  /\ changes' = changes + 1
  /\ UNCHANGED <<level, pc, pos, status, told>>

Next ==
  \/ \E t \in Tasks : \/ Suspended /\ \E b \in Names : Acquire(t, b)
                      \/ NotifyNext(t) \/ NotifyEnds(t)
                      \/ Suspended /\ Awaited(t)
  \/ \E c \in Callbacks : RegisterCallback(c) \/ UnregisterCallback(c)

Spec == Init /\ [][Next]_vars

-----------------------------------------------------------------------------
(* Properties                                                              *)

\* A callback that stays registered during a notification is told once, however the list
\* changes while other callbacks are awaited.
ToldOnce ==
  \A t \in Tasks : \A i, j \in 1..Len(told[t]) :
    i # j /\ told[t][i] = told[t][j] => told[t][i] \notin due[t]

\* "Notify all registered callbacks of throttle status" (_notify_callbacks()): the walk by
\* position skips a callback that stays registered only when another one leaves
\* the list meanwhile, one for one.
EveryoneIsTold ==
  \A t \in Tasks : pc[t] = "end" /\ status[t] # "NORMAL" =>
    Cardinality(due[t] \ Range(told[t])) <= changes

=============================================================================
