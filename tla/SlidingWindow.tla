---------------------------- MODULE SlidingWindow ----------------------------
(***************************************************************************)
(* What the RateLimiter of src/src/security.py promises its callers, with  *)
(* no deque, lock or sleep: calls are let through one by one, and the next *)
(* one only when the call MaxCalls before it is at least TimeWindow ago.   *)
(***************************************************************************)
EXTENDS Integers, Sequences

CONSTANTS MaxCalls, TimeWindow

VARIABLES
  now,     \* the time
  grants   \* when calls were let through, in order

vars == <<now, grants>>

Init == now = 0 /\ grants = << >>

\* The last MaxCalls calls do not all lie within the window that ends now.
HasRoom ==
  Len(grants) >= MaxCalls => grants[Len(grants) - MaxCalls + 1] + TimeWindow <= now

Grant ==
  /\ HasRoom
  /\ grants' = Append(grants, now)
  /\ UNCHANGED now

Pass ==
  /\ now' > now
  /\ UNCHANGED grants

Next == Grant \/ Pass

Spec == Init /\ [][Next]_vars
=============================================================================
