------------------------------ MODULE Scanner -------------------------------
(***************************************************************************)
(* The market scanner (src/src/scanner.py) of one asset: the queries by    *)
(* slug with their retries, the two fallbacks, the time window, the        *)
(* polling mode, and run_continuous(), which reports new markets.          *)
(*                                                                         *)
(* Market k covers the k-th five-minute interval and ends at k * Interval. *)
(* What a reply contains is the market or nothing; JSON, names and time    *)
(* formats are left out, and so are the statistics with the transition log *)
(* of the polling mode.  Time moves while requests back off, while the     *)
(* callback runs and while the loop sleeps.                                *)
(***************************************************************************)
EXTENDS Integers, FiniteSets, FiniteSetsExt

CONSTANTS Interval,              \* length of a market: 300 s
          Ahead,                 \* intervals queried: range(5)
          MinLeft, MaxLeft,      \* min_time_seconds, max_time_seconds
          Cruising, Terminal,    \* the two phase thresholds
          Listed,                \* the markets the API knows, a set of positive numbers
          MaxRetries,            \* max_retries
          MaxBackoff,            \* bound: how long the slug queries of a scan take, with retries
          MaxNow, MaxFailures    \* bounds: time, requests and callbacks that fail

VARIABLES now, pc, running,
          since,                 \* time of the slugs of this scan
          request,               \* the requests of this scan: attempts made, Found or Nothing
          markets,               \* result of the scan
          seen,                  \* _seen_markets
          mode,                  \* _polling_mode
          failures,
          reported,              \* history: how often a market went to the callback
          hidden                 \* history: scans that lost a market of the window

vars == <<now, pc, running, since, request, markets, seen, mode, failures,
          reported, hidden>>

Found == -1
Nothing == -2
Phases == {"DISCOVERY", "CRUISING", "TERMINAL"}

TypeOK ==
  /\ now \in 0..MaxNow /\ since \in 0..now
  /\ pc \in {"scan", "slugs", "listing", "search", "report", "callback", "sleep", "closed"}
  /\ running \in BOOLEAN
  /\ \A s \in DOMAIN request : request[s] \in {Found, Nothing} \cup 0..MaxRetries - 1
  /\ markets \subseteq Listed /\ seen \subseteq Listed
  /\ mode \in Phases
  /\ failures \in 0..MaxFailures
  /\ reported \in [Listed -> Nat] /\ hidden \in [Listed -> Nat]

Init ==
  /\ now = 0 /\ since = 0
  /\ pc = "scan" /\ running = TRUE
  /\ request = << >>
  /\ markets = {} /\ seen = {}
  /\ mode = "DISCOVERY"
  /\ failures = 0
  /\ reported = [k \in Listed |-> 0] /\ hidden = [k \in Listed |-> 0]

-----------------------------------------------------------------------------
\* The markets whose slugs _get_5m_markets_by_slug() makes at time t
Slugs(t) == {t \div Interval + 1 + d : d \in 0..Ahead - 1}

\* The window test of _parse_market()
InWindow(k) == LET left == k * Interval - now IN MinLeft <= left /\ left <= MaxLeft

get_phase_for_expiry(left) ==
  IF left < Terminal THEN "TERMINAL" ELSE IF left <= Cruising THEN "CRUISING" ELSE "DISCOVERY"

\* update_polling_mode(), only called with markets
update_polling_mode(found) ==
  mode' = get_phase_for_expiry(Min({k * Interval - now : k \in found}))

\* scan_markets() from the slugs on
StartScan ==
  /\ pc = "scan" /\ running
  /\ since' = now
  /\ request' = [s \in Slugs(now) |-> 0]
  /\ pc' = "slugs"
  /\ UNCHANGED <<now, running, markets, seen, mode, failures, reported, hidden>>

Waiting == {s \in DOMAIN request : request[s] \notin {Found, Nothing}}

\* _request_with_retry(): status 200, with or without a market
Answered(s) ==
  /\ pc = "slugs" /\ s \in Waiting
  /\ request' = [request EXCEPT ![s] = IF s \in Listed THEN Found ELSE Nothing]
  /\ UNCHANGED <<now, pc, running, since, markets, seen, mode, failures,
                 reported, hidden>>

\* A status other than 200 and 429 ends the request at once.
Refused(s) ==
  /\ pc = "slugs" /\ s \in Waiting
  /\ failures < MaxFailures
  /\ failures' = failures + 1
  /\ request' = [request EXCEPT ![s] = Nothing]
  /\ UNCHANGED <<now, pc, running, since, markets, seen, mode, reported, hidden>>

\* Status 429, a network error or a timeout: the next attempt, or none after the last
Failed(s) ==
  /\ pc = "slugs" /\ s \in Waiting
  /\ failures < MaxFailures
  /\ failures' = failures + 1
  /\ request' = [request EXCEPT ![s] = IF @ = MaxRetries - 1 THEN Nothing ELSE @ + 1]
  /\ UNCHANGED <<now, pc, running, since, markets, seen, mode, reported, hidden>>

\* The markets of a finished scan: each condition id once, soonest first (a set of markets
\* here); the polling mode only changes when there are any.
Finish(found) ==
  /\ markets' = found
  /\ hidden' = [k \in Listed |-> hidden[k] + IF InWindow(k) /\ k \notin found THEN 1 ELSE 0]
  /\ pc' = "report"
  /\ \/ found # {} /\ update_polling_mode(found)
     \/ found = {} /\ UNCHANGED mode

Replies == {s \in DOMAIN request : request[s] = Found}

\* All requests are over: what is in the window, or the fallbacks of _get_all_markets() (the
\* general listing, if nothing came back) and scan_markets() (the search terms)
SlugsDone ==
  /\ pc = "slugs" /\ Waiting = {}
  /\ LET found == {k \in Replies : InWindow(k)} IN
       \/ found # {} /\ Finish(found)
       \/ /\ found = {}
          /\ pc' = IF Replies = {} THEN "listing" ELSE "search"
          /\ UNCHANGED <<markets, hidden, mode>>
  /\ UNCHANGED <<now, running, since, request, seen, failures, reported>>

\* The listing usually leaves the five-minute markets out.
ListingDone(some) ==
  /\ pc = "listing"
  /\ LET found == {k \in some : InWindow(k)} IN
       \/ found # {} /\ Finish(found)
       \/ found = {} /\ pc' = "search" /\ UNCHANGED <<markets, hidden, mode>>
  /\ UNCHANGED <<now, running, since, request, seen, failures, reported>>

SearchDone(some) ==
  /\ pc = "search"
  /\ Finish({k \in some : InWindow(k)})
  /\ UNCHANGED <<now, running, since, request, seen, failures, reported>>

-----------------------------------------------------------------------------
(* run_continuous()                                                        *)

Forgotten_All(old) == {}

\* The cleanup of _seen_markets keeps what the scan found.
Forgotten(old) == old \cap markets

\* New markets are marked as seen before the callback is awaited.
Report ==
  /\ pc = "report"
  /\ LET new == markets \ seen IN
       \/ /\ new # {}
          /\ seen' = seen \cup new
          /\ reported' = [k \in Listed |-> reported[k] + IF k \in new THEN 1 ELSE 0]
          /\ pc' = "callback"
       \/ /\ new = {}
          /\ seen' = Forgotten(seen)
          /\ pc' = "sleep"
          /\ UNCHANGED reported
  /\ UNCHANGED <<now, running, since, request, markets, mode, failures, hidden>>

CallbackReturns ==
  /\ pc = "callback"
  /\ seen' = Forgotten(seen)
  /\ pc' = "sleep"
  /\ UNCHANGED <<now, running, since, request, markets, mode, failures,
                 reported, hidden>>

\* A callback that raises skips the cleanup of the seen markets.
CallbackRaises ==
  /\ pc = "callback"
  /\ failures < MaxFailures
  /\ failures' = failures + 1
  /\ pc' = "sleep"
  /\ UNCHANGED <<now, running, since, request, markets, seen, mode, reported, hidden>>

\* The sleep is over; the loop ends in close() once it was stopped.
WakeUp ==
  /\ pc = "sleep"
  /\ pc' = IF running THEN "scan" ELSE "closed"
  /\ request' = << >>
  /\ UNCHANGED <<now, running, since, markets, seen, mode, failures, reported,
                 hidden>>

\* stop()
Stop ==
  /\ running /\ pc # "scan"
  /\ running' = FALSE
  /\ UNCHANGED <<now, pc, since, request, markets, seen, mode, failures,
                 reported, hidden>>

\* Time passes where the code waits; the slug queries take at most MaxBackoff.
Tick ==
  /\ now < MaxNow
  /\ pc = "slugs" => now < since + MaxBackoff
  /\ pc \in {"slugs", "listing", "search", "callback", "sleep"}
  /\ now' = now + 1
  /\ UNCHANGED <<pc, running, since, request, markets, seen, mode, failures,
                 reported, hidden>>

Next ==
  \/ StartScan \/ SlugsDone \/ Report \/ CallbackReturns \/ CallbackRaises \/ WakeUp \/ Stop
  \/ Tick
  \/ \E s \in DOMAIN request : Answered(s) \/ Refused(s) \/ Failed(s)
  \/ \E some \in {{}, Listed} : ListingDone(some) \/ SearchDone(some)

Spec == Init /\ [][Next]_vars

-----------------------------------------------------------------------------
(* Properties                                                              *)

\* A scan whose requests were all answered has lost no market of the time window, although
\* the slugs were made before the retries and the window is judged after them.  Only a scan
\* that finds nothing misses a market: one that came into the window while it waited for the
\* fallbacks (_get_5m_markets_by_slug(), _parse_market(), scan_markets()).
NothingOverlooked ==
  pc = "report" /\ (\A s \in DOMAIN request : s \in Listed => request[s] = Found) =>
    \A k \in Listed : InWindow(k) =>
      k \in markets \/ (markets = {} /\ k * Interval - since > MaxLeft)

\* A market goes to the callback again only after a scan that failed to find it: what leaves
\* the window never comes back, and the cleanup of the seen markets forgets nothing too early
\* (run_continuous()).
ReportedOnce == \A k \in Listed : reported[k] <= 1 + hidden[k]

\* A market of the window that the last scan found was reported (run_continuous()).
FoundIsReported == pc \in {"callback", "sleep"} => \A k \in markets : reported[k] > 0

=============================================================================
