--------------------------- MODULE ServicesProofs ---------------------------
(***************************************************************************)
(* The services of MCServices beside the transports: the capital tracker,  *)
(* the shutdown handler, the audit log, the oracle, the throttling         *)
(* overwatch, the scanner, the configuration reloader, the archiver and    *)
(* the error log.                                                          *)
(*                                                                         *)
(* Each has an invariant that its own steps keep and nobody else's step    *)
(* touches; the theorems at the end join them.                             *)
(***************************************************************************)
EXTENDS MCServices, DataLemmas

-----------------------------------------------------------------------------
(* The capital tracker                                                     *)

\* Who holds the lock is merging or in its callback, and nobody else is.
LockIsHeld == \A k \in Callers : merger[k] \in {"merging", "callback"} <=> lock = k

\* What a caller took with it into the sleep is still there: the shares, since only the holder
\* of the lock takes any, and the balance.
StillThere ==
  \A k \in Callers : merger[k] = "merging" =>
    /\ \A s \in {"YES", "NO"} : local[k].merged <= shares[local[k].condition][s]
    /\ local[k].before = usdc

\* Inductive.
CapitalIInv ==
  /\ Capital!TypeOK /\ LockIsHeld /\ StillThere
  /\ Capital!SharesConserved /\ Capital!BalanceExplained

\* An instance of a module has the library's operators under its own name.
LEMMA CapitalLibrary ==
  ASSUME NEW f
  PROVE  Capital!SumFunction(f) = SumFunctionOnSet(f, DOMAIN f)
BY DEF Capital!SumFunction, Capital!SumFunctionOnSet, Capital!FoldFunctionOnSet,
       Capital!MapThenFoldSet, SumFunctionOnSet, FoldFunctionOnSet, MapThenFoldSet

\* What the merges of a history took of a condition, one by one.
MergesOf(h, c) == [i \in DOMAIN h |-> IF h[i].condition = c THEN h[i].merged ELSE 0]

\* The merge events of the history.
MergeEvent == [condition: Conditions, merged: Nat, before: Nat, after: Nat]

\* One more merge adds its shares to those merged.
LEMMA MergedMore ==
  ASSUME NEW h \in Seq(MergeEvent), NEW e \in MergeEvent, NEW c
  PROVE  SumFunctionOnSet(MergesOf(Append(h, e), c), DOMAIN Append(h, e))
           = SumFunctionOnSet(MergesOf(h, c), DOMAIN h)
             + (IF e.condition = c THEN e.merged ELSE 0)
<1> DEFINE f == MergesOf(h, c)
           g == MergesOf(Append(h, e), c)
           n == Len(h)
<1>1. /\ n \in Nat /\ DOMAIN h = 1..n /\ DOMAIN Append(h, e) = 1..(n + 1)
      /\ Append(h, e)[n + 1] = e /\ \A i \in 1..n : Append(h, e)[i] = h[i]
  BY DEF MergeEvent
<1>2. /\ 1..(n + 1) = (1..n) \cup {n + 1} /\ n + 1 \notin 1..n
  BY <1>1
<1>3. /\ \A i \in 1..n : g[i] = f[i]
      /\ g[n + 1] = IF e.condition = c THEN e.merged ELSE 0
  BY <1>1, <1>2 DEF MergesOf
<1>4. \A i \in 1..n : h[i] \in MergeEvent
  BY <1>1
<1>5. /\ \A i \in 1..n : f[i] \in Int
      /\ e.merged \in Int
  BY <1>1, <1>4 DEF MergesOf, MergeEvent
<1>6. \A i \in (1..n) \cup {n + 1} : g[i] \in Int
  BY <1>3, <1>5
<1>7. IsFiniteSet(1..n)
  BY <1>1, FS_Interval
<1> HIDE DEF f, g, n
<1>8. SumFunctionOnSet(g, (1..n) \cup {n + 1}) = g[n + 1] + SumFunctionOnSet(g, 1..n)
  BY <1>2, <1>6, <1>7, SumInsert
<1>9. SumFunctionOnSet(g, 1..n) = SumFunctionOnSet(f, 1..n)
  BY <1>3, <1>7, SumAgree
<1>10. SumFunctionOnSet(f, 1..n) \in Int
  BY <1>5, <1>7, SumType
<1>11. DOMAIN h = 1..n /\ DOMAIN Append(h, e) = (1..n) \cup {n + 1}
  BY <1>1, <1>2
<1>12. /\ SumFunctionOnSet(g, DOMAIN Append(h, e)) = g[n + 1] + SumFunctionOnSet(f, DOMAIN h)
       /\ SumFunctionOnSet(f, DOMAIN h) \in Int
  BY <1>8, <1>9, <1>10, <1>11, Zenon
<1>13. g[n + 1] = (IF e.condition = c THEN e.merged ELSE 0) /\ g[n + 1] \in Int
  BY <1>3, <1>6
<1> DEFINE sum == SumFunctionOnSet(f, DOMAIN h)
<1>14. SumFunctionOnSet(g, DOMAIN Append(h, e)) = g[n + 1] + sum /\ sum \in Int
  BY <1>12
<1> HIDE DEF sum
<1>15. SumFunctionOnSet(g, DOMAIN Append(h, e)) = sum + g[n + 1]
  BY <1>13, <1>14
<1> QED
  BY <1>13, <1>15, Zenon DEF f, g, sum

\* What was merged of a condition so far.
LEMMA MergedIs ==
  ASSUME NEW c, Capital!TypeOK
  PROVE  /\ Capital!MergedOf(c) = SumFunctionOnSet(MergesOf(history, c), DOMAIN history)
         /\ Capital!MergedOf(c) \in Int
<1>1. Capital!MergedOf(c) = Capital!SumFunction(MergesOf(history, c))
  BY DEF Capital!MergedOf, MergesOf
<1>2. DOMAIN MergesOf(history, c) = DOMAIN history
  BY DEF MergesOf
<1>3. /\ DOMAIN history = 1..Len(history) /\ Len(history) \in Nat
      /\ \A i \in DOMAIN history : history[i].merged \in Nat
  <2>1. history \in Seq(MergeEvent)
    BY DEF Capital!TypeOK, MergeEvent
  <2>2. \A i \in DOMAIN history : history[i] \in MergeEvent
    BY <2>1
  <2> QED BY <2>1, <2>2 DEF MergeEvent
<1>4. IsFiniteSet(DOMAIN history)
  BY <1>3, FS_Interval
<1>5. \A i \in DOMAIN history : MergesOf(history, c)[i] \in Int
  BY <1>3 DEF MergesOf
<1> QED
  BY <1>1, <1>2, <1>4, <1>5, CapitalLibrary, SumType

\* The tracker starts without shares.
LEMMA CapitalStart == Capital!Init => CapitalIInv
<1> SUFFICES ASSUME Capital!Init PROVE CapitalIInv
  OBVIOUS
<1>1. Capital!TypeOK
  BY ServiceConstants DEF Capital!Init, Capital!TypeOK, Capital!Sides
<1>2. LockIsHeld /\ StillThere
  BY ServiceConstants DEF Capital!Init, LockIsHeld, StillThere
<1>3. \A c : Capital!MergedOf(c) = 0
  <2> SUFFICES ASSUME NEW c PROVE Capital!MergedOf(c) = 0
    OBVIOUS
  <2>1. DOMAIN history = {}
    BY DEF Capital!Init
  <2> QED BY <1>1, <2>1, MergedIs, SumEmpty
<1>4. Capital!SharesConserved
  BY <1>3 DEF Capital!Init, Capital!SharesConserved, Capital!Sides
<1>5. Capital!BalanceExplained
  BY DEF Capital!Init, Capital!BalanceExplained
<1> QED BY <1>1, <1>2, <1>4, <1>5 DEF CapitalIInv

\* A trade adds to what is held and to what was ever bought.
LEMMA CapitalTrade ==
  ASSUME CapitalIInv, NEW c \in Conditions, NEW side \in Capital!Sides, NEW n \in Amounts,
         Capital!RecordTrade(c, side, n)
  PROVE  CapitalIInv'
<1> USE DEF CapitalIInv
<1>1. /\ shares' = [shares EXCEPT ![c][side] = @ + n]
      /\ bought' = [bought EXCEPT ![c][side] = @ + n]
      /\ UNCHANGED <<usdc, history, lock, merger, local>>
  BY DEF Capital!RecordTrade
<1>2. n \in Nat /\ trades' \in 0..MaxTrades
  BY ServiceConstants DEF Capital!RecordTrade, Capital!TypeOK
<1>3. Capital!TypeOK'
  <2>1. /\ shares[c][side] + n \in Nat /\ bought[c][side] + n \in Nat
        /\ shares[c] \in [Capital!Sides -> Nat] /\ bought[c] \in [Capital!Sides -> Nat]
    BY <1>2 DEF Capital!TypeOK
  <2>2. shares' \in [Conditions -> [Capital!Sides -> Nat]]
    BY <1>1, <2>1 DEF Capital!TypeOK
  <2>3. bought' \in [Conditions -> [Capital!Sides -> Nat]]
    BY <1>1, <2>1 DEF Capital!TypeOK
  <2> QED BY <1>1, <1>2, <2>2, <2>3 DEF Capital!TypeOK
<1>4. ASSUME NEW d \in Conditions, NEW s \in Capital!Sides
      PROVE  /\ shares[d][s] \in Nat /\ bought[d][s] \in Nat
             /\ shares'[d][s] = shares[d][s] + (IF d = c /\ s = side THEN n ELSE 0)
             /\ bought'[d][s] = bought[d][s] + (IF d = c /\ s = side THEN n ELSE 0)
  <2>1. shares \in [Conditions -> [Capital!Sides -> Nat]]
    BY DEF Capital!TypeOK
  <2>2. bought \in [Conditions -> [Capital!Sides -> Nat]]
    BY DEF Capital!TypeOK
  <2>3. shares'[d][s] = shares[d][s] + (IF d = c /\ s = side THEN n ELSE 0) /\ shares[d][s] \in Nat
    BY <1>1, <1>2, <2>1
  <2>4. bought'[d][s] = bought[d][s] + (IF d = c /\ s = side THEN n ELSE 0) /\ bought[d][s] \in Nat
    BY <1>1, <1>2, <2>2
  <2> QED BY <2>3, <2>4
<1>5. \A k \in Callers : local[k].condition \in Conditions /\ local[k].merged \in Nat
  BY DEF Capital!TypeOK
<1>6. \A k \in Callers : local' = local /\ merger' = merger /\ usdc' = usdc /\ lock' = lock
  BY <1>1
<1>7. StillThere'
  <2> SUFFICES ASSUME NEW k \in Callers, merger[k] = "merging", NEW s \in {"YES", "NO"}
               PROVE  /\ local[k].merged <= shares'[local[k].condition][s]
                      /\ local[k].before = usdc
    BY <1>6 DEF StillThere
  <2>1. local[k].merged <= shares[local[k].condition][s] /\ local[k].before = usdc
    BY DEF StillThere
  <2> QED BY <1>2, <1>4, <1>5, <2>1 DEF Capital!Sides
<1>8. LockIsHeld'
  BY <1>6 DEF LockIsHeld
<1>9. ASSUME NEW d \in Conditions PROVE Capital!MergedOf(d)' = Capital!MergedOf(d)
  BY <1>1 DEF Capital!MergedOf
<1>10. Capital!SharesConserved'
  <2> SUFFICES ASSUME NEW d \in Conditions, NEW s \in Capital!Sides
               PROVE  bought'[d][s] = shares'[d][s] + Capital!MergedOf(d)'
    BY DEF Capital!SharesConserved
  <2>1. Capital!MergedOf(d) \in Int
    BY MergedIs
  <2>2. bought[d][s] = shares[d][s] + Capital!MergedOf(d)
    BY DEF Capital!SharesConserved
  <2> QED BY <1>2, <1>4, <1>9, <2>1, <2>2
<1>11. Capital!BalanceExplained'
  BY <1>1 DEF Capital!BalanceExplained
<1> QED BY <1>3, <1>7, <1>8, <1>10, <1>11

\* A caller that begins, finds nothing to merge, takes the lock or leaves moves no shares.
LEMMA CapitalCaller ==
  ASSUME CapitalIInv, NEW k \in Callers,
         (\E c \in Conditions : Capital!Call(k, c)) \/ Capital!Locked(k) \/ Capital!Leave(k)
  PROVE  CapitalIInv'
<1> USE DEF CapitalIInv
<1>0. UNCHANGED <<shares, usdc, history, bought, trades>>
  BY DEF Capital!Call, Capital!Locked, Capital!Leave
<1>1. Capital!TypeOK' /\ LockIsHeld' /\ StillThere'
  <2>1. CASE \E c \in Conditions : Capital!Call(k, c)
    <3>1. PICK c \in Conditions : Capital!Call(k, c)
      BY <2>1
    <3>2. /\ merger[k] = "idle" /\ merger' = [merger EXCEPT ![k] = "waits"]
          /\ local' = [local EXCEPT ![k].condition = c] /\ lock' = lock
      BY <3>1 DEF Capital!Call
    <3>3. Capital!TypeOK'
      BY <1>0, <3>2 DEF Capital!TypeOK
    <3>4. \A j \in Callers : merger'[j] = (IF j = k THEN "waits" ELSE merger[j])
      BY <3>2 DEF Capital!TypeOK
    <3>5. \A j \in Callers : j # k => local'[j] = local[j]
      BY <3>2 DEF Capital!TypeOK
    <3> QED BY <1>0, <3>2, <3>3, <3>4, <3>5 DEF LockIsHeld, StillThere
  <2>2. CASE Capital!Locked(k) /\ Capital!NoMerge(k)
    <3>1. /\ merger[k] = "waits" /\ merger' = [merger EXCEPT ![k] = "end"]
          /\ local' = local /\ lock' = lock
      BY <2>2 DEF Capital!Locked, Capital!NoMerge
    <3>2. Capital!TypeOK'
      BY <1>0, <3>1 DEF Capital!TypeOK
    <3>3. \A j \in Callers : merger'[j] = (IF j = k THEN "end" ELSE merger[j])
      BY <3>1 DEF Capital!TypeOK
    <3> QED BY <1>0, <3>1, <3>2, <3>3 DEF LockIsHeld, StillThere
  <2>3. CASE Capital!Locked(k) /\ Capital!BeginMerge(k)
    <3> DEFINE c == local[k].condition
               n == Capital!Mergeable(c)
    <3>1. /\ merger[k] = "waits" /\ lock = NoCaller /\ lock' = k
          /\ merger' = [merger EXCEPT ![k] = "merging"]
          /\ local' = [local EXCEPT ![k].merged = n, ![k].before = usdc]
      BY <2>3 DEF Capital!Locked, Capital!BeginMerge
    <3>2. c \in Conditions
      BY DEF Capital!TypeOK
    <3>3. \A s \in {"YES", "NO"} : shares[c][s] \in Nat
      BY <3>2 DEF Capital!TypeOK, Capital!Sides
    <3>4. n \in Nat /\ \A s \in {"YES", "NO"} : n <= shares[c][s]
      BY <3>3 DEF Capital!Mergeable
    <3> HIDE DEF n
    <3>5. Capital!TypeOK'
      BY <1>0, <3>1, <3>4 DEF Capital!TypeOK
    <3>6. \A j \in Callers : merger'[j] = (IF j = k THEN "merging" ELSE merger[j])
      BY <3>1 DEF Capital!TypeOK
    <3>7. /\ local'[k].merged = n /\ local'[k].before = usdc /\ local'[k].condition = c
          /\ \A j \in Callers : j # k => local'[j] = local[j]
      BY <3>1 DEF Capital!TypeOK
    <3>8. \A j \in Callers : merger[j] \notin {"merging", "callback"}
      BY <3>1, ServiceConstants DEF LockIsHeld
    <3>9. LockIsHeld'
      BY <3>1, <3>6, <3>8 DEF LockIsHeld
    <3>10. StillThere'
      BY <1>0, <3>4, <3>6, <3>7, <3>8 DEF StillThere
    <3> QED BY <3>5, <3>9, <3>10
  <2>4. CASE Capital!Leave(k)
    <3>1. /\ merger[k] \in {"callback", "merging"} /\ merger' = [merger EXCEPT ![k] = "end"]
          /\ local' = local /\ lock' = NoCaller
      BY <2>4 DEF Capital!Leave
    <3>2. Capital!TypeOK'
      BY <1>0, <3>1 DEF Capital!TypeOK
    <3>3. \A j \in Callers : merger'[j] = (IF j = k THEN "end" ELSE merger[j])
      BY <3>1 DEF Capital!TypeOK
    <3>4. LockIsHeld'
      BY <3>1, <3>3, ServiceConstants DEF LockIsHeld
    <3> QED BY <1>0, <3>1, <3>2, <3>3, <3>4 DEF StillThere
  <2> QED BY <2>1, <2>2, <2>3, <2>4 DEF Capital!Locked
<1>2. ASSUME NEW d \in Conditions PROVE Capital!MergedOf(d)' = Capital!MergedOf(d)
  BY <1>0 DEF Capital!MergedOf
<1>3. Capital!SharesConserved'
  BY <1>0, <1>2 DEF Capital!SharesConserved
<1>4. Capital!BalanceExplained'
  BY <1>0 DEF Capital!BalanceExplained
<1> QED BY <1>1, <1>3, <1>4

\* The end of a merge: what the caller saw before its sleep is still there, so it takes the
\* shares it saw and its event starts at the balance of the one before.
LEMMA CapitalMerge ==
  ASSUME CapitalIInv, NEW k \in Callers, Capital!MergeEnds(k)
  PROVE  CapitalIInv'
<1> USE DEF CapitalIInv
<1> DEFINE c == local[k].condition
           n == local[k].merged
           e == [condition |-> c, merged |-> n, before |-> usdc, after |-> usdc + n]
<1>1. /\ c \in Conditions /\ n \in Nat /\ usdc \in Nat /\ merger[k] = "merging"
      /\ history \in Seq(MergeEvent) /\ local[k].before = usdc
  BY DEF Capital!TypeOK, MergeEvent, Capital!MergeEnds, StillThere
<1>2. \A s \in Capital!Sides : shares[c][s] \in Nat /\ n <= shares[c][s]
  BY <1>1 DEF Capital!TypeOK, StillThere, Capital!Sides
<1>3. /\ usdc' = usdc + n /\ history' = Append(history, e)
      /\ shares' = [shares EXCEPT ![c] = [s \in Capital!Sides |-> shares[c][s] - n]]
      /\ merger' = [merger EXCEPT ![k] = "callback"]
      /\ UNCHANGED <<lock, local, bought, trades>>
  BY <1>1 DEF Capital!MergeEnds, Capital!UsdcAfter, Capital!TypeOK
<1>4. e \in MergeEvent
  BY <1>1 DEF MergeEvent
<1>5. \A d \in Conditions, s \in Capital!Sides :
        /\ shares[d][s] \in Nat
        /\ shares'[d][s] = shares[d][s] - (IF c = d THEN n ELSE 0)
  BY <1>1, <1>3 DEF Capital!TypeOK
<1>6. Capital!TypeOK'
  <2>1. shares' \in [Conditions -> [Capital!Sides -> Nat]]
    <3>1. [s \in Capital!Sides |-> shares[c][s] - n] \in [Capital!Sides -> Nat]
      BY <1>1, <1>2
    <3> QED BY <1>1, <1>3, <3>1 DEF Capital!TypeOK
  <2>2. history' \in Seq(MergeEvent)
    BY <1>1, <1>3, <1>4
  <2> QED BY <1>1, <1>3, <2>1, <2>2 DEF Capital!TypeOK, MergeEvent
<1>7. \A j \in Callers : merger'[j] = (IF j = k THEN "callback" ELSE merger[j])
  BY <1>3 DEF Capital!TypeOK
<1>8. LockIsHeld'
  BY <1>1, <1>3, <1>7 DEF LockIsHeld
<1>9. StillThere'
  BY <1>1, <1>7, <1>8 DEF LockIsHeld, StillThere
<1> HIDE DEF e
<1>10. ASSUME NEW d \in Conditions
       PROVE  /\ Capital!MergedOf(d)' = Capital!MergedOf(d) + (IF c = d THEN n ELSE 0)
              /\ Capital!MergedOf(d) \in Int
  <2>1. Capital!MergedOf(d)' = Capital!SumFunction(MergesOf(history', d))
    BY DEF Capital!MergedOf, MergesOf
  <2>2. DOMAIN MergesOf(history', d) = DOMAIN history'
    BY DEF MergesOf
  <2>3. Capital!MergedOf(d)' = SumFunctionOnSet(MergesOf(Append(history, e), d),
                                                DOMAIN Append(history, e))
    BY <1>3, <2>1, <2>2, CapitalLibrary
  <2>4. e.condition = c /\ e.merged = n
    BY DEF e
  <2> QED BY <1>1, <1>4, <2>3, <2>4, MergedMore, MergedIs
<1>11. Capital!SharesConserved'
  <2> SUFFICES ASSUME NEW d \in Conditions, NEW s \in Capital!Sides
               PROVE  bought[d][s] = shares'[d][s] + Capital!MergedOf(d)'
    BY <1>3 DEF Capital!SharesConserved
  <2>1. bought[d][s] = shares[d][s] + Capital!MergedOf(d)
    BY DEF Capital!SharesConserved
  <2> QED BY <1>1, <1>5, <1>10, <2>1
<1>12. Capital!BalanceExplained'
  <2> DEFINE l == Len(history)
  <2>1. /\ l \in Nat /\ Len(history') = l + 1 /\ DOMAIN history' = 1..(l + 1) /\ DOMAIN history = 1..l
        /\ history'[l + 1] = e /\ \A i \in 1..l : history'[i] = history[i]
    BY <1>1, <1>3, <1>4
  <2>2. e.before = usdc /\ e.after = usdc + n /\ e.merged = n
    BY DEF e
  <2>3. usdc = IF l = 0 THEN StartingUsdc ELSE history[l].after
    BY <1>1, <2>1 DEF Capital!BalanceExplained
  <2>4. ASSUME NEW i \in 1..(l + 1)
        PROVE  /\ history'[i].after = history'[i].before + history'[i].merged
               /\ history'[i].before = IF i = 1 THEN StartingUsdc ELSE history'[i - 1].after
    <3>1. CASE i \in 1..l
      <4>1. i # 1 => history'[i - 1] = history[i - 1]
        BY <2>1, <3>1
      <4> QED BY <2>1, <3>1, <4>1 DEF Capital!BalanceExplained
    <3>2. CASE i = l + 1
      <4>1. l # 0 => history'[i - 1] = history[l]
        BY <2>1, <3>2
      <4> QED BY <2>1, <2>2, <2>3, <3>2, <4>1
    <3> QED BY <2>1, <3>1, <3>2
  <2>5. history' # << >> /\ usdc' = history'[Len(history')].after
    BY <1>3, <2>1, <2>2
  <2> QED BY <2>1, <2>4, <2>5 DEF Capital!BalanceExplained
<1> QED BY <1>6, <1>8, <1>9, <1>11, <1>12

\* Every step of the tracker.
LEMMA CapitalPreserved ==
  ASSUME CapitalIInv, Capital!Next
  PROVE  CapitalIInv'
BY CapitalTrade, CapitalCaller, CapitalMerge DEF Capital!Next

\* Steps of the other services.
LEMMA CapitalStutter ==
  ASSUME CapitalIInv, UNCHANGED capital_vars
  PROVE  CapitalIInv'
<1> USE DEF capital_vars, CapitalIInv
<1>1. Capital!TypeOK' /\ LockIsHeld' /\ StillThere'
  BY DEF Capital!TypeOK, LockIsHeld, StillThere
<1>2. \A c : Capital!MergedOf(c)' = Capital!MergedOf(c)
  BY DEF Capital!MergedOf
<1>3. Capital!SharesConserved'
  BY <1>2 DEF Capital!SharesConserved
<1>4. Capital!BalanceExplained'
  BY DEF Capital!BalanceExplained
<1> QED BY <1>1, <1>3, <1>4

-----------------------------------------------------------------------------
(* The shutdown handler                                                    *)

\* This handler's shutdown has begun, and is perhaps over.
Begun(h) == handler[h] \in {"cleanup", "done"}

\* It has started this cleanup.
Started(h, c) == Begun(h) /\ \E i \in 1..index[h] : tasks[i] = c

\* A signal has one handler, and one that has not begun has started nothing.
HandlersBegin ==
  \A h \in Shutdown!Handlers : /\ handler[h] # "none" => h <= signals
                               /\ ~Begun(h) => index[h] = 0

\* At most one handler gets past the check of the flag.
OneBegun ==
  \A g, h \in Shutdown!Handlers : Begun(h) => requested /\ (Begun(g) => g = h)

\* The cleanups that have been started are the ones up to that handler's position.
StartedRan ==
  \A c \in Cleanups : ran[c] = IF \E h \in Shutdown!Handlers : Started(h, c) THEN 1 ELSE 0

\* Inductive.
ShutdownIInv ==
  /\ Shutdown!TypeOK /\ Once(tasks) /\ HandlersBegin /\ OneBegun /\ StartedRan

\* Nothing has been registered, and no signal received.
LEMMA ShutdownStart == Shutdown!Init => ShutdownIInv
<1> SUFFICES ASSUME Shutdown!Init PROVE ShutdownIInv
  OBVIOUS
<1>1. Shutdown!TypeOK
  <2>1. tasks \in Seq(Cleanups) /\ Len(tasks) = 0 /\ 0 \in 0..0
    BY DEF Shutdown!Init
  <2>2. index \in [Shutdown!Handlers -> 0..Len(tasks)]
    BY <2>1 DEF Shutdown!Init
  <2>3. signals \in 0..MaxSignals
    BY ServiceConstants DEF Shutdown!Init
  <2> QED BY <2>1, <2>2, <2>3 DEF Shutdown!Init, Shutdown!TypeOK
<1>2. \A h \in Shutdown!Handlers : ~Begun(h)
  BY DEF Shutdown!Init, Begun
<1>3. Once(tasks)
  BY DEF Shutdown!Init, Once
<1>4. StartedRan
  BY <1>2 DEF Shutdown!Init, StartedRan, Started
<1> QED
  BY <1>1, <1>2, <1>3, <1>4 DEF Shutdown!Init, ShutdownIInv, HandlersBegin, OneBegun

\* A cleanup that is registered is behind every handler's position.
LEMMA ShutdownRegister ==
  ASSUME ShutdownIInv, NEW c \in Cleanups, Shutdown!RegisterCleanup(c)
  PROVE  ShutdownIInv'
<1> USE DEF ShutdownIInv
<1>1. /\ tasks \in Seq(Cleanups) /\ tasks' = Append(tasks, c) /\ c \notin In(tasks)
      /\ UNCHANGED <<loop, requested, active_orders, handler, index, ran, signals>>
  BY DEF Shutdown!RegisterCleanup, Shutdown!Range, In, Shutdown!TypeOK
<1>2. tasks' \in Seq(Cleanups) /\ Len(tasks') = Len(tasks) + 1 /\ Once(tasks')
  BY <1>1, AppendedIn, Zenon
<1>3. \A i \in 1..Len(tasks) : tasks'[i] = tasks[i]
  BY <1>1
<1>4. \A h \in Shutdown!Handlers : index[h] \in 0..Len(tasks)
  BY DEF Shutdown!TypeOK
<1>5. Len(tasks) \in Nat
  BY <1>1
<1>6. Shutdown!TypeOK'
  <2>1. index' \in [Shutdown!Handlers -> 0..Len(tasks')]
    BY <1>1, <1>2, <1>4, <1>5 DEF Shutdown!TypeOK
  <2> QED BY <1>1, <1>2, <2>1 DEF Shutdown!TypeOK
<1>7. \A h \in Shutdown!Handlers : \A d : Started(h, d)' <=> Started(h, d)
  BY <1>1, <1>3, <1>4, <1>5 DEF Started, Begun
<1>8. HandlersBegin' /\ OneBegun' /\ StartedRan'
  BY <1>1, <1>7 DEF HandlersBegin, OneBegun, StartedRan, Begun
<1> QED BY <1>2, <1>6, <1>8

\* A handler that gets past its turn has started the next cleanup, once, or is done with all of
\* them; nobody else has begun.
LEMMA ShutdownNext ==
  ASSUME ShutdownIInv, NEW h \in Shutdown!Handlers, requested', h <= signals,
         \A g \in Shutdown!Handlers : Begun(g) => g = h,
         Shutdown!NextCleanup(h, index[h] + 1), requested' \in BOOLEAN,
         active_orders' \subseteq Orders, UNCHANGED <<loop, tasks, signals>>
  PROVE  /\ ShutdownIInv'
         /\ handler'[h] = "done" => ran' = ran /\ Len(tasks) <= index[h]
         /\ \A g \in Shutdown!Handlers : g # h => handler'[g] = handler[g]
<1> USE DEF ShutdownIInv
<1> DEFINE n == index[h] + 1
<1>0. /\ index[h] \in 0..Len(tasks) /\ Len(tasks) \in Nat /\ tasks \in Seq(Cleanups)
      /\ handler \in [Shutdown!Handlers -> {"none", "created", "cleanup", "returned", "done"}]
      /\ index \in [Shutdown!Handlers -> 0..Len(tasks)] /\ ran \in [Cleanups -> Nat]
  BY DEF Shutdown!TypeOK
<1>1. CASE n <= Len(tasks)
  <2>1. /\ index' = [index EXCEPT ![h] = n] /\ ran' = [ran EXCEPT ![tasks[n]] = @ + 1]
        /\ handler' = [handler EXCEPT ![h] = "cleanup"]
    BY <1>1 DEF Shutdown!NextCleanup
  <2>2. n \in 1..Len(tasks) /\ tasks[n] \in Cleanups
    BY <1>0, <1>1
  <2>3. Shutdown!TypeOK'
    <3>1. index' \in [Shutdown!Handlers -> 0..Len(tasks)]
      BY <1>0, <2>1, <2>2
    <3>2. ran' \in [Cleanups -> Nat]
      BY <1>0, <2>1, <2>2
    <3>3. handler' \in [Shutdown!Handlers -> {"none", "created", "cleanup", "returned", "done"}]
      BY <1>0, <2>1
    <3> QED BY <3>1, <3>2, <3>3 DEF Shutdown!TypeOK
  <2>4. /\ handler'[h] = "cleanup" /\ index'[h] = n
        /\ \A g \in Shutdown!Handlers : g # h => handler'[g] = handler[g] /\ index'[g] = index[g]
    BY <1>0, <2>1
  <2>5. \A g \in Shutdown!Handlers : Begun(g)' <=> g = h
    BY <2>4 DEF Begun
  <2>6. \A i \in 1..index[h] : tasks[i] # tasks[n]
    BY <1>0, <2>2 DEF Once
  <2>7. ASSUME NEW c \in Cleanups
        PROVE  ran'[c] = IF Started(h, c)' THEN 1 ELSE 0
    <3>1. (1..n) = (1..index[h]) \cup {n}
      BY <1>0
    <3>2. Started(h, c)' <=> (\E i \in 1..index[h] : tasks[i] = c) \/ tasks[n] = c
      BY <2>4, <2>5, <3>1 DEF Started
    <3>3. ran[c] = IF \E i \in 1..index[h] : tasks[i] = c THEN 1 ELSE 0
      <4>1. CASE Begun(h)
        BY <4>1 DEF StartedRan, Started
      <4>2. CASE ~Begun(h)
        <5>1. index[h] = 0
          BY <4>2 DEF HandlersBegin
        <5> QED BY <4>2, <5>1 DEF StartedRan, Started
      <4> QED BY <4>1, <4>2
    <3>4. ran'[c] = IF c = tasks[n] THEN ran[c] + 1 ELSE ran[c]
      BY <1>0, <2>1, <2>2
    <3> QED BY <2>6, <3>2, <3>3, <3>4
  <2>8. StartedRan'
    BY <2>5, <2>7 DEF StartedRan, Started
  <2>9. HandlersBegin' /\ OneBegun'
    BY <2>4, <2>5 DEF HandlersBegin, OneBegun
  <2> QED BY <2>3, <2>4, <2>8, <2>9 DEF Once
<1>2. CASE ~(n <= Len(tasks))
  <2>1. UNCHANGED <<index, ran>> /\ handler' = [handler EXCEPT ![h] = "done"]
    BY <1>2 DEF Shutdown!NextCleanup
  <2>2. Len(tasks) <= index[h]
    BY <1>0, <1>2
  <2>3. Shutdown!TypeOK'
    BY <1>0, <2>1 DEF Shutdown!TypeOK
  <2>4. /\ handler'[h] = "done"
        /\ \A g \in Shutdown!Handlers : g # h => handler'[g] = handler[g]
    BY <1>0, <2>1
  <2>5. \A g \in Shutdown!Handlers : Begun(g)' <=> g = h
    BY <2>4 DEF Begun
  <2>6. \A c : (\E g \in Shutdown!Handlers : Started(g, c))' <=>
               (\E g \in Shutdown!Handlers : Started(g, c))
    <3> SUFFICES ASSUME NEW c
                 PROVE  (\E g \in Shutdown!Handlers : Started(g, c))' <=>
                        (\E g \in Shutdown!Handlers : Started(g, c))
      OBVIOUS
    <3>1. CASE Begun(h)
      BY <2>1, <2>5, <3>1 DEF Started
    <3>2. CASE ~Begun(h)
      <4>1. index[h] = 0
        BY <3>2 DEF HandlersBegin
      <4>2. \A i \in 1..index[h] : FALSE
        BY <4>1
      <4> QED BY <2>1, <2>5, <3>2, <4>2 DEF Started
    <3> QED BY <3>1, <3>2
  <2>7. StartedRan'
    BY <2>1, <2>6 DEF StartedRan
  <2>8. HandlersBegin' /\ OneBegun'
    BY <2>1, <2>4, <2>5 DEF HandlersBegin, OneBegun
  <2> QED BY <2>1, <2>2, <2>3, <2>4, <2>7, <2>8 DEF Once
<1> QED BY <1>1, <1>2

\* The first handler past the flag begins; one that is awaiting a cleanup goes on.
LEMMA ShutdownHandle ==
  ASSUME ShutdownIInv, NEW h \in Shutdown!Handlers,
         Shutdown!BeginShutdown(h) \/ Shutdown!CleanupEnds(h)
  PROVE  /\ ShutdownIInv'
         /\ handler'[h] = "done" => ran' = ran /\ Len(tasks) <= index[h]
         /\ \A g \in Shutdown!Handlers : g # h => handler'[g] = handler[g]
<1> USE DEF ShutdownIInv
<1>1. CASE Shutdown!BeginShutdown(h)
  <2>1. /\ handler[h] = "created" /\ ~requested /\ requested' = TRUE /\ active_orders' = {}
        /\ Shutdown!NextCleanup(h, 1) /\ UNCHANGED <<loop, tasks, signals>>
    BY <1>1 DEF Shutdown!BeginShutdown
  <2>2. \A g \in Shutdown!Handlers : ~Begun(g)
    BY <2>1 DEF OneBegun
  <2>3. index[h] + 1 = 1 /\ h <= signals
    BY <2>1, <2>2 DEF HandlersBegin
  <2>4. Shutdown!NextCleanup(h, index[h] + 1)
    BY <2>1, <2>3
  <2> QED BY <2>1, <2>2, <2>3, <2>4, ShutdownNext
<1>2. CASE Shutdown!CleanupEnds(h)
  <2>1. /\ handler[h] = "cleanup" /\ Shutdown!NextCleanup(h, index[h] + 1)
        /\ UNCHANGED <<loop, requested, tasks, active_orders, signals>>
    BY <1>2 DEF Shutdown!CleanupEnds
  <2>2. requested /\ h <= signals /\ \A g \in Shutdown!Handlers : Begun(g) => g = h
    BY <2>1 DEF HandlersBegin, OneBegun, Begun
  <2>3. requested \in BOOLEAN /\ active_orders \subseteq Orders
    BY DEF Shutdown!TypeOK
  <2> QED BY <2>1, <2>2, <2>3, ShutdownNext
<1> QED BY <1>1, <1>2

\* Signals, orders and requests to shut down.
LEMMA ShutdownOthers ==
  ASSUME ShutdownIInv,
         \/ \E o \in Orders : Shutdown!RegisterOrder(o) \/ Shutdown!UnregisterOrder(o)
         \/ Shutdown!SetupSignalHandlers \/ Shutdown!Signal \/ Shutdown!RequestShutdown
         \/ \E h \in Shutdown!Handlers : Shutdown!AlreadyInProgress(h)
  PROVE  ShutdownIInv' /\ \A h \in Shutdown!Handlers : handler'[h] = "done" => handler[h] = "done"
<1> USE DEF ShutdownIInv
<1>0. /\ handler \in [Shutdown!Handlers -> {"none", "created", "cleanup", "returned", "done"}]
      /\ signals \in Nat /\ MaxSignals \in Nat
  BY ServiceConstants DEF Shutdown!TypeOK
<1>1. /\ UNCHANGED <<tasks, index, ran>> /\ (requested => requested') /\ requested' \in BOOLEAN
      /\ loop' \in {"none", "unset", "set"} /\ active_orders' \subseteq Orders
  BY DEF Shutdown!RegisterOrder, Shutdown!UnregisterOrder, Shutdown!SetupSignalHandlers,
         Shutdown!Signal, Shutdown!RequestShutdown, Shutdown!AlreadyInProgress, Shutdown!TypeOK
<1>2. \/ UNCHANGED <<handler, signals>>
      \/ /\ signals < MaxSignals /\ signals' = signals + 1
         /\ handler' = [handler EXCEPT ![signals'] = "created"] \/ handler' = handler
      \/ /\ signals' = signals
         /\ \E h \in Shutdown!Handlers : /\ handler[h] = "created"
                                         /\ handler' = [handler EXCEPT ![h] = "returned"]
  BY DEF Shutdown!RegisterOrder, Shutdown!UnregisterOrder, Shutdown!SetupSignalHandlers,
         Shutdown!Signal, Shutdown!RequestShutdown, Shutdown!AlreadyInProgress
<1>3. /\ handler' \in [Shutdown!Handlers -> {"none", "created", "cleanup", "returned", "done"}]
      /\ signals' \in 0..MaxSignals
      /\ \A h \in Shutdown!Handlers : /\ handler'[h] # "none" => h <= signals'
                                      /\ Begun(h)' <=> Begun(h)
                                      /\ handler'[h] = "done" => handler[h] = "done"
  <2>1. CASE UNCHANGED <<handler, signals>>
    BY <1>0, <2>1 DEF HandlersBegin, Begun, Shutdown!TypeOK
  <2>2. CASE signals < MaxSignals /\ signals' = signals + 1 /\ handler' = handler
    BY <1>0, <2>2 DEF HandlersBegin, Begun, Shutdown!TypeOK, Shutdown!Handlers
  <2>3. CASE /\ signals < MaxSignals /\ signals' = signals + 1
             /\ handler' = [handler EXCEPT ![signals'] = "created"]
    <3>1. signals' \in Shutdown!Handlers /\ signals' \in 0..MaxSignals
      BY <1>0, <2>3 DEF Shutdown!Handlers
    <3>2. ~(signals' <= signals)
      BY <1>0, <2>3
    <3>3. handler[signals'] = "none"
      BY <3>1, <3>2 DEF HandlersBegin
    <3>4. \A h \in Shutdown!Handlers : h <= signals => h <= signals'
      BY <1>0, <2>3 DEF Shutdown!Handlers
    <3> QED BY <1>0, <2>3, <3>1, <3>3, <3>4 DEF HandlersBegin, Begun, Shutdown!Handlers
  <2>4. CASE /\ signals' = signals
             /\ \E h \in Shutdown!Handlers : /\ handler[h] = "created"
                                             /\ handler' = [handler EXCEPT ![h] = "returned"]
    BY <1>0, <2>4 DEF HandlersBegin, Begun, Shutdown!TypeOK
  <2> QED BY <1>2, <2>1, <2>2, <2>3, <2>4
<1>4. Shutdown!TypeOK'
  BY <1>1, <1>3 DEF Shutdown!TypeOK
<1>5. HandlersBegin' /\ OneBegun'
  BY <1>1, <1>3 DEF HandlersBegin, OneBegun
<1>6. \A h \in Shutdown!Handlers : \A c : Started(h, c)' <=> Started(h, c)
  BY <1>1, <1>3 DEF Started
<1>7. StartedRan'
  BY <1>1, <1>6 DEF StartedRan
<1> QED BY <1>1, <1>3, <1>4, <1>5, <1>7 DEF Once

\* Every step of the handler.
LEMMA ShutdownPreserved ==
  ASSUME ShutdownIInv, Shutdown!Next
  PROVE  ShutdownIInv'
BY ShutdownRegister, ShutdownHandle, ShutdownOthers DEF Shutdown!Next, Shutdown!Handle

\* Steps of the other services.
LEMMA ShutdownStutter ==
  ASSUME ShutdownIInv, UNCHANGED shutdown_vars
  PROVE  ShutdownIInv'
BY DEF shutdown_vars, ShutdownIInv, Shutdown!TypeOK, Once, HandlersBegin, OneBegun, StartedRan,
       Started, Begun

\* What the run checks follows.
LEMMA ShutdownProperties ==
  ASSUME ShutdownIInv
  PROVE  Shutdown!TypeOK /\ Shutdown!CleanupOnce
<1>1. \A c \in Cleanups : ran[c] = 0 \/ ran[c] = 1
  BY DEF ShutdownIInv, StartedRan
<1>2. Shutdown!CleanupOnce
  BY <1>1 DEF Shutdown!CleanupOnce
<1> QED BY <1>2 DEF ShutdownIInv

\* A shutdown that ends has started what was registered by then.
LEMMA ShutdownRanAll ==
  ASSUME ShutdownIInv, Shutdown!Next \/ UNCHANGED shutdown_vars
  PROVE  Shutdown!CompletedShutdownRanAll
<1> SUFFICES ASSUME NEW h \in Shutdown!Handlers, handler[h] # "done", handler'[h] = "done",
                    NEW c \in Shutdown!Range(tasks)
             PROVE  ran'[c] >= 1
  BY DEF Shutdown!CompletedShutdownRanAll
<1>1. \E g \in Shutdown!Handlers : Shutdown!BeginShutdown(g) \/ Shutdown!CleanupEnds(g)
  BY ShutdownOthers DEF Shutdown!Next, Shutdown!Handle, Shutdown!RegisterCleanup, shutdown_vars
<1>2. Shutdown!BeginShutdown(h) \/ Shutdown!CleanupEnds(h)
  BY <1>1, ShutdownHandle
<1>3. /\ ran' = ran /\ Len(tasks) <= index[h] /\ tasks \in Seq(Cleanups)
      /\ index[h] \in 0..Len(tasks) /\ Len(tasks) \in Nat
  BY <1>2, ShutdownHandle DEF ShutdownIInv, Shutdown!TypeOK
<1>4. PICK i \in 1..Len(tasks) : tasks[i] = c
  BY <1>3 DEF Shutdown!Range
<1>5. i \in 1..index[h] /\ c \in Cleanups
  BY <1>3, <1>4
<1>6. Begun(h)
  <2>1. ASSUME ~Begun(h) PROVE FALSE
    <3>1. index[h] = 0
      BY <2>1 DEF ShutdownIInv, HandlersBegin
    <3> QED BY <1>5, <3>1
  <2> QED BY <2>1
<1>7. ran[c] = 1
  BY <1>4, <1>5, <1>6 DEF ShutdownIInv, StartedRan, Started
<1> QED BY <1>3, <1>7

-----------------------------------------------------------------------------
(* The audit log                                                           *)

\* The first n elements.
First(s, n) == SubSeq(s, 1, n)

\* As many entries are kept as fit.
AsManyAsFit ==
  Len(hashes) = IF Len(logged) < MaxInMemory THEN Len(logged) ELSE MaxInMemory

\* The hash of an entry is all that was logged up to it.
HashesCommit ==
  \A i \in 1..Len(hashes) : hashes[i] = First(logged, Len(logged) - Len(hashes) + i)

\* No record is of a process later than p, and one of p is a part of its log.
RecordsAreOld(records, p, log) ==
  \A i \in 1..Len(records) :
    LET r == records[i] IN
    /\ r.by <= p
    /\ r.by = p => \E n \in 0..Len(log) : r.hash = First(log, n)

\* Inductive.
AuditIInv ==
  /\ Audit!TypeOK /\ AsManyAsFit /\ HashesCommit
  /\ RecordsAreOld(logFile, process, logged) /\ RecordsAreOld(hashFile, process, logged)
  /\ Audit!FilesCommit

\* The parts of a sequence that only grows.
LEMMA FirstOf ==
  ASSUME NEW S, NEW s \in Seq(S), NEW e \in S, NEW n \in 0..Len(s)
  PROVE  /\ First(s, n) \in Seq(S) /\ Len(First(s, n)) = n
         /\ \A i \in 1..n : First(s, n)[i] = s[i]
         /\ First(Append(s, e), n) = First(s, n)
         /\ First(s, Len(s)) = s
         /\ n < Len(s) => First(s, n + 1) = Append(First(s, n), s[n + 1])
<1> USE DEF First
<1>1. /\ First(s, n) \in Seq(S) /\ Len(First(s, n)) = n
      /\ \A i \in 1..n : First(s, n)[i] = s[i]
  OBVIOUS
<1>2. /\ Append(s, e) \in Seq(S) /\ Len(Append(s, e)) = Len(s) + 1
      /\ \A i \in 1..Len(s) : Append(s, e)[i] = s[i]
  OBVIOUS
<1>3. /\ First(Append(s, e), n) \in Seq(S) /\ Len(First(Append(s, e), n)) = n
      /\ \A i \in 1..n : First(Append(s, e), n)[i] = s[i]
  BY <1>2
<1>4. First(Append(s, e), n) = First(s, n)
  BY <1>1, <1>3, SeqEqual
<1>5. First(s, Len(s)) = s
  OBVIOUS
<1>6. ASSUME n < Len(s) PROVE First(s, n + 1) = Append(First(s, n), s[n + 1])
  <2>1. s[n + 1] \in S /\ n + 1 \in 1..Len(s) /\ n \in Nat
    BY <1>6
  <2>2. /\ First(s, n + 1) \in Seq(S) /\ Len(First(s, n + 1)) = n + 1
        /\ \A i \in 1..(n + 1) : First(s, n + 1)[i] = s[i]
    BY <2>1
  <2> DEFINE t == Append(First(s, n), s[n + 1])
  <2>3. /\ t \in Seq(S) /\ Len(t) = n + 1
        /\ \A i \in 1..(n + 1) : t[i] = s[i]
    BY <1>1, <2>1
  <2> HIDE DEF t, First
  <2>4. First(s, n + 1) = t
    BY <2>1, <2>2, <2>3, SeqEqual
  <2> QED BY <2>4 DEF t
<1> QED BY <1>1, <1>4, <1>5, <1>6

\* A part of a sequence is a strict prefix of any that continues it.
LEMMA FirstIsPrefix ==
  ASSUME NEW S, NEW s \in Seq(S), NEW e \in S, NEW n \in 0..Len(s)
  PROVE  Audit!IsStrictPrefix(First(s, n), Append(s, e))
<1>1. /\ Len(First(s, n)) = n /\ First(s, n) \in Seq(S)
      /\ First(First(s, n), n) = First(s, n) /\ First(Append(s, e), n) = First(s, n)
  <2>1. /\ Len(First(s, n)) = n /\ First(s, n) \in Seq(S)
        /\ First(Append(s, e), n) = First(s, n)
    BY FirstOf
  <2>2. n \in 0..Len(First(s, n)) /\ n \in Nat
    BY <2>1
  <2>3. First(First(s, n), Len(First(s, n))) = First(s, n)
    BY <2>1, <2>2, FirstOf
  <2> QED BY <2>1, <2>3
<1>2. Len(Append(s, e)) = Len(s) + 1 /\ n <= Len(s) /\ Len(s) \in Nat /\ n \in Nat
  OBVIOUS
<1>3. Len(First(s, n)) <= Len(Append(s, e)) /\ First(s, n) # Append(s, e)
  BY <1>1, <1>2
<1> QED BY <1>1, <1>3 DEF Audit!IsStrictPrefix, Audit!IsPrefix, First

\* What the types say of the log and its records.
LEMMA AuditTypes ==
  ASSUME Audit!TypeOK
  PROVE  /\ logged \in Seq(Contents) /\ Len(logged) \in 0..MaxLogged
         /\ Len(hashes) = Len(entries) /\ Len(entries) \in 0..MaxInMemory
         /\ entries \in Seq(Contents) /\ hashes \in Seq(Audit!Hashes)
         /\ logFile \in Seq(Audit!Record) /\ hashFile \in Seq(Audit!Record)
         /\ process \in 0..MaxRestarts
         /\ MaxLogged \in Nat /\ MaxInMemory \in Nat /\ MaxInMemory > 0
BY ServiceConstants DEF Audit!TypeOK

\* A sequence of contents that is not too long is a hash.
LEMMA SequencesAreHashes ==
  ASSUME NEW s \in Seq(Contents), Len(s) <= MaxLogged
  PROVE  s \in Audit!Hashes
<1>1. s \in [1..Len(s) -> Contents] /\ Len(s) \in 0..MaxLogged
  BY ServiceConstants
<1> QED BY <1>1 DEF Audit!Hashes

\* Nothing has been logged.
LEMMA AuditStart == Audit!Init => AuditIInv
<1> SUFFICES ASSUME Audit!Init PROVE AuditIInv
  OBVIOUS
<1>1. /\ entries = << >> /\ hashes = << >> /\ logged = << >> /\ logFile = << >> /\ hashFile = << >>
      /\ process = 0
  BY DEF Audit!Init
<1>2. Len(<< >>) = 0 /\ \A i \in 1..Len(<< >>) : FALSE
  OBVIOUS
<1>3. Audit!TypeOK
  BY <1>1, <1>2, ServiceConstants DEF Audit!TypeOK
<1>4. AsManyAsFit /\ HashesCommit
  BY <1>1, <1>2, ServiceConstants DEF AsManyAsFit, HashesCommit
<1>5. RecordsAreOld(logFile, process, logged) /\ RecordsAreOld(hashFile, process, logged)
  BY <1>1, <1>2 DEF RecordsAreOld
<1>6. Audit!FilesCommit
  BY <1>1, <1>2 DEF Audit!FilesCommit, Audit!InChainOrder
<1> QED BY <1>3, <1>4, <1>5, <1>6 DEF AuditIInv

\* The hash a new entry is chained to is all that was logged.
LEMMA PreviousIsLogged ==
  ASSUME AuditIInv
  PROVE  Audit!PrevHash = logged
<1> USE DEF AuditIInv
<1>1. CASE hashes = << >>
  <2>1. Len(hashes) = 0
    BY <1>1
  <2>2. Len(logged) = 0
    BY <2>1, AuditTypes DEF AsManyAsFit
  <2>3. logged = << >>
    BY <2>2, AuditTypes
  <2> QED BY <1>1, <2>3 DEF Audit!PrevHash, Audit!Genesis
<1>2. CASE hashes # << >>
  <2>1. Len(hashes) \in 1..Len(hashes)
    BY <1>2, AuditTypes
  <2>2. hashes[Len(hashes)] = First(logged, Len(logged) - Len(hashes) + Len(hashes))
    BY <2>1 DEF HashesCommit
  <2>3. Len(logged) - Len(hashes) + Len(hashes) = Len(logged)
    BY AuditTypes
  <2>4. First(logged, Len(logged)) = logged
    BY AuditTypes DEF First
  <2> QED BY <1>2, <2>2, <2>3, <2>4 DEF Audit!PrevHash, Audit!Last
<1> QED BY <1>1, <1>2

\* The length of a bounded queue after one more element, and what its place i then holds.
PushedLength(s) == IF Len(s) < MaxInMemory THEN Len(s) + 1 ELSE MaxInMemory
PushedAt(s, i) == IF Len(s) < MaxInMemory THEN s[i] ELSE s[i + 1]

\* What is appended to a bounded queue is its last element, and the others keep their order.
LEMMA Pushed ==
  ASSUME NEW S, NEW s \in Seq(S), NEW x \in S, Len(s) <= MaxInMemory
  PROVE  /\ Audit!Push(s, x) \in Seq(S) /\ Len(Audit!Push(s, x)) = PushedLength(s)
         /\ PushedLength(s) \in Nat \ {0} /\ Audit!Push(s, x)[PushedLength(s)] = x
         /\ \A i \in 1..(PushedLength(s) - 1) : Audit!Push(s, x)[i] = PushedAt(s, i)
<1> USE DEF PushedLength, PushedAt
<1>0. MaxInMemory \in Nat /\ MaxInMemory > 0
  BY ServiceConstants
<1>1. CASE Len(s) < MaxInMemory
  <2>1. Audit!Push(s, x) = Append(s, x)
    BY <1>1 DEF Audit!Push
  <2> QED BY <1>1, <2>1
<1>2. CASE ~(Len(s) < MaxInMemory)
  <2>1. Audit!Push(s, x) = Append(Tail(s), x) /\ Len(s) = MaxInMemory
    BY <1>0, <1>2 DEF Audit!Push
  <2>2. s # << >>
    BY <1>0, <2>1
  <2>3. /\ Tail(s) \in Seq(S) /\ Len(Tail(s)) = MaxInMemory - 1
        /\ \A i \in 1..(MaxInMemory - 1) : Tail(s)[i] = s[i + 1]
    BY <1>0, <2>1, <2>2
  <2>4. MaxInMemory - 1 \in Nat /\ MaxInMemory - 1 + 1 = MaxInMemory
    BY <1>0
  <2> QED BY <1>0, <1>2, <2>1, <2>3, <2>4
<1> QED BY <1>1, <1>2

\* A record that is written, or lost, keeps its file in order.
LEMMA RecordWritten ==
  ASSUME NEW p \in 0..MaxRestarts, NEW s \in Seq(Contents), NEW e \in Contents,
         Len(s) < MaxLogged,
         NEW f \in Seq(Audit!Record), RecordsAreOld(f, p, s), Audit!InChainOrder(f),
         NEW g \in {f, Append(f, [by |-> p, hash |-> Append(s, e)])}
  PROVE  /\ g \in Seq(Audit!Record) /\ RecordsAreOld(g, p, Append(s, e))
         /\ Audit!InChainOrder(g)
<1> DEFINE t == Append(s, e)
           r == [by |-> p, hash |-> t]
           l == Len(f)
<1>0. /\ t \in Seq(Contents) /\ Len(t) = Len(s) + 1 /\ Len(s) \in Nat /\ l \in Nat
      /\ p \in Nat /\ Len(t) <= MaxLogged
  BY ServiceConstants
<1>1. r \in Audit!Record
  <2> HIDE DEF t
  <2>1. t \in Audit!Hashes
    BY <1>0, SequencesAreHashes
  <2> QED BY <2>1 DEF Audit!Record
<1>2. \A i \in 1..l : f[i] \in Audit!Record
  OBVIOUS
<1>3. ASSUME NEW i \in 1..l
      PROVE  /\ f[i].by <= p
             /\ f[i].by = p => /\ \E n \in 0..Len(t) : f[i].hash = First(t, n)
                               /\ Audit!IsStrictPrefix(f[i].hash, t)
  <2>1. f[i].by <= p
    BY DEF RecordsAreOld
  <2>2. ASSUME f[i].by = p
        PROVE  /\ \E n \in 0..Len(t) : f[i].hash = First(t, n)
               /\ Audit!IsStrictPrefix(f[i].hash, t)
    <3>1. PICK n \in 0..Len(s) : f[i].hash = First(s, n)
      BY <2>2 DEF RecordsAreOld
    <3>2. n \in 0..Len(t)
      BY <1>0, <3>1
    <3>3. First(t, n) = First(s, n)
      BY <3>1, FirstOf
    <3>4. Audit!IsStrictPrefix(First(s, n), t)
      BY <3>1, FirstIsPrefix
    <3> QED BY <3>1, <3>2, <3>3, <3>4
  <2> QED BY <2>1, <2>2
<1>4. CASE g = f
  <2>1. RecordsAreOld(f, p, t)
    BY <1>3 DEF RecordsAreOld
  <2> QED BY <1>4, <2>1
<1>5. CASE g = Append(f, r)
  <2> HIDE DEF r
  <2>1. /\ g \in Seq(Audit!Record) /\ Len(g) = l + 1 /\ g[l + 1] = r
        /\ \A i \in 1..l : g[i] = f[i]
    BY <1>0, <1>1, <1>5
  <2>2. r.by = p /\ r.hash = t
    BY DEF r
  <2>3. First(t, Len(t)) = t /\ Len(t) \in 0..Len(t)
    BY <1>0 DEF First
  <2>4. ASSUME NEW i \in 1..(l + 1)
        PROVE  /\ g[i].by <= p
               /\ g[i].by = p => \E n \in 0..Len(t) : g[i].hash = First(t, n)
    <3>1. CASE i \in 1..l
      BY <1>3, <2>1, <3>1
    <3>2. CASE i = l + 1
      <4>1. g[i] = r /\ p <= p
        BY <1>0, <2>1, <3>2
      <4>2. \E n \in 0..Len(t) : t = First(t, n)
        BY <2>3
      <4> QED BY <2>2, <4>1, <4>2
    <3> QED BY <1>0, <3>1, <3>2
  <2>5. RecordsAreOld(g, p, t)
    BY <2>1, <2>4 DEF RecordsAreOld
  <2>6. ASSUME NEW i \in 1..(l + 1), NEW j \in 1..(l + 1), i < j, g[i].by = g[j].by
        PROVE  Audit!IsStrictPrefix(g[i].hash, g[j].hash)
    <3>1. i \in 1..l
      BY <1>0, <2>6
    <3>2. CASE j \in 1..l
      BY <2>1, <2>6, <3>1, <3>2 DEF Audit!InChainOrder
    <3>3. CASE j = l + 1
      BY <1>3, <2>1, <2>2, <2>6, <3>1, <3>3
    <3> QED BY <1>0, <3>2, <3>3
  <2>7. Audit!InChainOrder(g)
    BY <2>1, <2>6 DEF Audit!InChainOrder
  <2> QED BY <2>1, <2>5, <2>7
<1> QED BY <1>4, <1>5

\* An entry that is logged: its hash is all that was logged with it, and the ones that are kept
\* move down when the oldest is evicted.
LEMMA AuditLogs ==
  ASSUME AuditIInv, NEW content \in Contents, Audit!Log(content)
  PROVE  AuditIInv'
<1> USE DEF AuditIInv
<1> DEFINE L == Len(logged)
           n == Len(hashes)
<1>0. /\ logged \in Seq(Contents) /\ L \in 0..MaxLogged
      /\ n = Len(entries) /\ n \in 0..MaxInMemory /\ n <= L
      /\ entries \in Seq(Contents) /\ hashes \in Seq(Audit!Hashes)
      /\ logFile \in Seq(Audit!Record) /\ hashFile \in Seq(Audit!Record)
      /\ process \in 0..MaxRestarts
      /\ MaxLogged \in Nat /\ MaxInMemory \in Nat /\ MaxInMemory > 0
  BY AuditTypes DEF AsManyAsFit
<1>1. /\ L < MaxLogged /\ logged' = Append(logged, content) /\ process' = process
      /\ entries' = Audit!Push(entries, content) /\ hashes' = Audit!Push(hashes, logged')
      /\ hashFile' \in {hashFile, Append(hashFile, [by |-> process, hash |-> logged'])}
      /\ logFile' \in {logFile, Append(logFile, [by |-> process, hash |-> logged'])}
  BY PreviousIsLogged DEF Audit!Log, Audit!EntryHash, Audit!Written
<1>2. /\ logged' \in Seq(Contents) /\ Len(logged') = L + 1 /\ Len(logged') <= MaxLogged
  BY <1>0, <1>1
<1>3. logged' \in Audit!Hashes
  BY <1>2, SequencesAreHashes
<1> DEFINE m == PushedLength(hashes)
<1>4. entries' \in Seq(Contents) /\ Len(entries') = m
  <2>1. Len(entries) <= MaxInMemory /\ PushedLength(entries) = m
    BY <1>0 DEF PushedLength
  <2>2. /\ Audit!Push(entries, content) \in Seq(Contents)
        /\ Len(Audit!Push(entries, content)) = PushedLength(entries)
    BY <1>0, <2>1, Pushed
  <2> QED BY <1>1, <2>1, <2>2
<1>5. /\ hashes' \in Seq(Audit!Hashes) /\ Len(hashes') = m /\ m \in Nat \ {0}
      /\ hashes'[m] = logged'
      /\ \A i \in 1..(m - 1) : hashes'[i] = PushedAt(hashes, i)
  <2>1. Len(hashes) <= MaxInMemory
    BY <1>0
  <2>2. \A x \in Audit!Hashes :
          /\ Audit!Push(hashes, x) \in Seq(Audit!Hashes) /\ Len(Audit!Push(hashes, x)) = m
          /\ m \in Nat \ {0} /\ Audit!Push(hashes, x)[m] = x
          /\ \A i \in 1..(m - 1) : Audit!Push(hashes, x)[i] = PushedAt(hashes, i)
    BY <1>0, <2>1, Pushed
  <2> HIDE DEF m
  <2> QED BY <1>1, <1>3, <2>2, Zenon
<1> HIDE DEF m
<1>6. /\ hashFile' \in Seq(Audit!Record) /\ RecordsAreOld(hashFile', process, logged')
      /\ Audit!InChainOrder(hashFile')
  <2>1. RecordsAreOld(hashFile, process, logged) /\ Audit!InChainOrder(hashFile)
    BY DEF Audit!FilesCommit
  <2>2. \A g \in {hashFile, Append(hashFile, [by |-> process, hash |-> Append(logged, content)])} :
          /\ g \in Seq(Audit!Record) /\ RecordsAreOld(g, process, Append(logged, content))
          /\ Audit!InChainOrder(g)
    BY <1>0, <1>1, <2>1, RecordWritten
  <2> QED BY <1>1, <2>2, Zenon
<1>7. /\ logFile' \in Seq(Audit!Record) /\ RecordsAreOld(logFile', process, logged')
      /\ Audit!InChainOrder(logFile')
  <2>1. RecordsAreOld(logFile, process, logged) /\ Audit!InChainOrder(logFile)
    BY DEF Audit!FilesCommit
  <2>2. \A g \in {logFile, Append(logFile, [by |-> process, hash |-> Append(logged, content)])} :
          /\ g \in Seq(Audit!Record) /\ RecordsAreOld(g, process, Append(logged, content))
          /\ Audit!InChainOrder(g)
    BY <1>0, <1>1, <2>1, RecordWritten
  <2> QED BY <1>1, <2>2, Zenon
<1>8. Audit!TypeOK'
  <2>1. m <= MaxInMemory
    BY <1>0 DEF m, PushedLength
  <2> QED BY <1>0, <1>1, <1>2, <1>4, <1>5, <1>6, <1>7, <2>1 DEF Audit!TypeOK
<1>9. AsManyAsFit'
  BY <1>0, <1>2, <1>5 DEF AsManyAsFit, m, PushedLength
<1>10. HashesCommit'
  <2> SUFFICES ASSUME NEW i \in 1..m
               PROVE  hashes'[i] = First(logged', Len(logged') - Len(hashes') + i)
    BY <1>5 DEF HashesCommit
  <2>1. CASE i = m
    <3>1. Len(logged') - Len(hashes') + i = Len(logged')
      BY <1>2, <1>5, <2>1
    <3>2. First(logged', Len(logged')) = logged'
      BY <1>2 DEF First
    <3> QED BY <1>5, <2>1, <3>1, <3>2
  <2>2. CASE i \in 1..(m - 1)
    <3>1. \E j \in 1..n : hashes'[i] = hashes[j] /\ L - n + j = L + 1 - m + i
      <4>1. CASE n < MaxInMemory
        <5>1. m = n + 1 /\ i \in 1..n /\ L - n + i = L + 1 - m + i
          BY <1>0, <2>2, <4>1 DEF m, PushedLength
        <5>2. hashes'[i] = hashes[i]
          BY <1>5, <2>2, <4>1 DEF PushedAt
        <5> QED BY <5>1, <5>2
      <4>2. CASE ~(n < MaxInMemory)
        <5>0. n = MaxInMemory /\ m = n /\ n \in Nat /\ L \in Nat
          BY <1>0, <4>2 DEF m, PushedLength
        <5>1. m = n /\ i + 1 \in 1..n /\ L - n + (i + 1) = L + 1 - m + i
          <6> HIDE DEF n, L
          <6> QED BY <2>2, <5>0
        <5>2. hashes'[i] = hashes[i + 1]
          BY <1>5, <2>2, <4>2 DEF PushedAt
        <5> QED BY <5>1, <5>2
      <4> QED BY <4>1, <4>2
    <3>2. PICK j \in 1..n : hashes'[i] = hashes[j] /\ L - n + j = L + 1 - m + i
      BY <3>1
    <3> DEFINE k == L - n + j
    <3>3. hashes[j] = First(logged, k)
      BY DEF HashesCommit
    <3>4. k \in 0..Len(logged) /\ k = Len(logged') - Len(hashes') + i
      BY SMTT(30), <1>0, <1>2, <1>5, <3>2
    <3> HIDE DEF k
    <3>5. First(Append(logged, content), k) = First(logged, k)
      BY <1>0, <3>4, FirstOf
    <3> QED BY <1>1, <3>2, <3>3, <3>4, <3>5
  <2> QED BY <1>5, <2>1, <2>2
<1>11. Audit!FilesCommit'
  BY <1>6, <1>7 DEF Audit!FilesCommit, Audit!InChainOrder
<1> QED BY <1>1, <1>6, <1>7, <1>8, <1>9, <1>10, <1>11

\* An entry that somebody alters, and a new process.
LEMMA AuditOthers ==
  ASSUME AuditIInv,
         \/ \E i \in 1..Len(entries), c \in Contents : Audit!Alter(i, c)
         \/ Audit!Restart
  PROVE  AuditIInv'
<1> USE DEF AuditIInv
<1>1. ASSUME NEW i \in 1..Len(entries), NEW c \in Contents, Audit!Alter(i, c) PROVE AuditIInv'
  <2>1. /\ entries' = [entries EXCEPT ![i] = c]
        /\ UNCHANGED <<hashes, logFile, hashFile, logged, process>>
    BY <1>1 DEF Audit!Alter
  <2>2. entries' \in Seq(Contents) /\ Len(entries') = Len(entries)
    BY <2>1, AuditTypes
  <2>3. Audit!TypeOK'
    BY <2>1, <2>2 DEF Audit!TypeOK
  <2> QED BY <2>1, <2>3
          DEF AsManyAsFit, HashesCommit, Audit!FilesCommit, Audit!InChainOrder
<1>2. CASE Audit!Restart
  <2>1. /\ process' = process + 1 /\ process < MaxRestarts
        /\ entries' = << >> /\ hashes' = << >> /\ logged' = << >>
        /\ UNCHANGED <<logFile, hashFile>>
    BY <1>2 DEF Audit!Restart
  <2>2. Len(<< >>) = 0 /\ \A i \in 1..Len(<< >>) : FALSE
    OBVIOUS
  <2>3. process' \in 0..MaxRestarts /\ process \in Nat /\ process' \in Nat /\ ~(process' <= process)
    BY SMTT(30), <2>1, AuditTypes, ServiceConstants
  <2>4. Audit!TypeOK'
    <3>1. << >> \in Seq(Contents) /\ << >> \in Seq(Audit!Hashes)
      OBVIOUS
    <3> QED BY <2>1, <2>2, <2>3, <3>1, ServiceConstants DEF Audit!TypeOK
  <2>5. AsManyAsFit' /\ HashesCommit'
    BY <2>1, <2>2, ServiceConstants DEF AsManyAsFit, HashesCommit
  <2>6. ASSUME NEW f \in Seq(Audit!Record), RecordsAreOld(f, process, logged)
        PROVE  RecordsAreOld(f, process', logged')
    <3> SUFFICES ASSUME NEW i \in 1..Len(f) PROVE f[i].by <= process' /\ f[i].by # process'
      BY DEF RecordsAreOld
    <3>1. f[i].by <= process /\ f[i] \in Audit!Record
      BY <2>6 DEF RecordsAreOld
    <3>2. f[i].by \in Nat
      BY <3>1, ServiceConstants DEF Audit!Record
    <3> QED BY <2>1, <2>3, <3>1, <3>2
  <2>7. RecordsAreOld(logFile, process', logged') /\ RecordsAreOld(hashFile, process', logged')
    BY <2>6, AuditTypes
  <2> QED BY <2>1, <2>4, <2>5, <2>7 DEF Audit!FilesCommit, Audit!InChainOrder
<1> QED BY <1>1, <1>2

\* Every step of the log.
LEMMA AuditPreserved ==
  ASSUME AuditIInv, Audit!Next
  PROVE  AuditIInv'
BY AuditLogs, AuditOthers DEF Audit!Next

\* Steps of the other services.
LEMMA AuditStutter ==
  ASSUME AuditIInv, UNCHANGED audit_vars
  PROVE  AuditIInv'
BY DEF audit_vars, AuditIInv, Audit!TypeOK, AsManyAsFit, HashesCommit, Audit!FilesCommit,
       Audit!InChainOrder

\* What the run checks follows: an entry whose hash is right is the one that was logged, and with
\* nothing evicted the entries that were logged have the right hashes.
LEMMA AuditProperties ==
  ASSUME AuditIInv
  PROVE  /\ Audit!TypeOK /\ Audit!AcceptedIsLogged /\ Audit!UntouchedIsAccepted
         /\ Audit!FilesCommit
<1> USE DEF AuditIInv
<1> DEFINE L == Len(logged)
           n == Len(hashes)
           kept == Audit!LastLogged(n)
<1>0. /\ logged \in Seq(Contents) /\ L \in Nat /\ n \in Nat /\ n <= L /\ n = Len(entries)
      /\ entries \in Seq(Contents) /\ hashes \in Seq(Audit!Hashes)
      /\ MaxInMemory \in Nat /\ MaxInMemory > 0
  BY AuditTypes DEF AsManyAsFit
<1>1. kept \in Seq(Contents) /\ Len(kept) = n /\ \A i \in 1..n : kept[i] = logged[L - n + i]
  BY <1>0 DEF Audit!LastLogged
<1>2. ASSUME NEW i \in 1..n
      PROVE  /\ hashes[i] \in Seq(Contents) /\ Len(hashes[i]) = L - n + i
             /\ L - n + i \in 1..L
             /\ hashes[i][L - n + i] = logged[L - n + i]
             /\ hashes[i] = Append(First(logged, L - n + i - 1), logged[L - n + i])
  <2>1. hashes[i] = First(logged, L - n + i)
    BY DEF HashesCommit
  <2>2. L - n + i \in 0..L /\ L - n + i - 1 \in 0..L /\ L - n + i \in 1..L /\ L - n + i - 1 < L
    BY <1>0
  <2>3. /\ First(logged, L - n + i) \in Seq(Contents) /\ Len(First(logged, L - n + i)) = L - n + i
        /\ \A k \in 1..(L - n + i) : First(logged, L - n + i)[k] = logged[k]
    BY <1>0, <2>2 DEF First
  <2> DEFINE k == L - n + i - 1
  <2>4. k + 1 = L - n + i /\ k \in 0..Len(logged) /\ k < Len(logged) /\ logged[k + 1] \in Contents
    BY <1>0, <2>2
  <2> HIDE DEF k
  <2>5. First(logged, k + 1) = Append(First(logged, k), logged[k + 1])
    BY <1>0, <2>4, FirstOf
  <2>6. hashes[i] = Append(First(logged, L - n + i - 1), logged[L - n + i])
    BY <2>1, <2>4, <2>5 DEF k
  <2> QED BY <2>1, <2>2, <2>3, <2>6
<1>3. ASSUME Audit!VerifyIntegrity PROVE entries = kept
  <2> SUFFICES ASSUME NEW i \in 1..n PROVE entries[i] = kept[i]
    BY <1>0, <1>1, SeqEqual
  <2> DEFINE prev == IF i = 1 THEN << >> ELSE hashes[i - 1]
  <2>1. hashes[i] = Append(prev, entries[i])
    BY <1>0, <1>3 DEF Audit!VerifyIntegrity, Audit!EntryHash, Audit!Genesis
  <2>2. prev \in Seq(Contents)
    BY <1>0, <1>2
  <2>3. entries[i] \in Contents
    BY <1>0
  <2>4. hashes[i][Len(hashes[i])] = entries[i]
    BY <2>1, <2>2, <2>3
  <2> QED BY <1>1, <1>2, <2>4
<1>4. Audit!AcceptedIsLogged
  BY <1>0, <1>3 DEF Audit!AcceptedIsLogged
<1>5. ASSUME L <= MaxInMemory, entries = kept PROVE Audit!VerifyIntegrity
  <2>1. n = L
    BY <1>0, <1>5 DEF AsManyAsFit
  <2> SUFFICES ASSUME NEW i \in 1..n
               PROVE  hashes[i] = Append(IF i = 1 THEN << >> ELSE hashes[i - 1], entries[i])
    BY <1>0 DEF Audit!VerifyIntegrity, Audit!EntryHash, Audit!Genesis
  <2>2. L - n + i = i /\ L - n + i - 1 = i - 1
    BY <1>0, <2>1
  <2>3. hashes[i] = Append(First(logged, i - 1), logged[i]) /\ entries[i] = logged[i]
    BY <1>1, <1>2, <1>5, <2>2
  <2>4. CASE i = 1
    <3>1. First(logged, i - 1) = << >>
      BY <1>0, <2>4 DEF First
    <3> QED BY <2>3, <2>4, <3>1
  <2>5. CASE i # 1
    <3>1. i - 1 \in 1..n /\ L - n + (i - 1) = i - 1
      BY <1>0, <2>1, <2>5
    <3>2. hashes[i - 1] = First(logged, i - 1)
      BY <3>1 DEF HashesCommit
    <3> QED BY <2>3, <2>5, <3>2
  <2> QED BY <2>4, <2>5
<1>6. Audit!UntouchedIsAccepted
  BY <1>0, <1>5 DEF Audit!UntouchedIsAccepted
<1> QED BY <1>4, <1>6

-----------------------------------------------------------------------------
(* The price oracle                                                        *)

\* Every failure since the last connection has used up an attempt.
AttemptsCount == stream # "ended" => failures = attempts /\ attempts <= MaxAttempts

\* A loop that runs on without its flag has been told to stop.
StopsWhenAsked == stream \notin {"off", "ended"} /\ ~running => asked

\* Times up to t, in order.
Ordered(p, t) ==
  /\ \A i \in 1..Len(p) : p[i] <= t
  /\ \A i, j \in 1..Len(p) : i <= j => p[i] <= p[j]

\* Inductive.
OracleIInv ==
  /\ Oracle!TypeOK /\ Oracle!GivesUpOnlyAfterMax
  /\ AttemptsCount /\ StopsWhenAsked /\ Ordered(prices, now)

\* The oracle has not been started.
LEMMA OracleStart == Oracle!Init => OracleIInv
<1> SUFFICES ASSUME Oracle!Init PROVE OracleIInv
  OBVIOUS
<1>1. prices = << >> /\ Len(<< >>) = 0 /\ \A i \in 1..Len(<< >>) : FALSE
  BY DEF Oracle!Init
<1>2. Oracle!TypeOK
  <2>1. {MaxAttempts, MaxTime, MaxMessages, MaxOutages} \subseteq Nat
    BY ServiceConstants
  <2>2. 0 \in 0..(MaxAttempts + 1) /\ 0 \in 0..MaxTime /\ 0 \in 0..MaxMessages /\ 0 \in 0..MaxOutages
    BY <2>1
  <2>3. << >> \in Seq(0..MaxTime)
    OBVIOUS
  <2> QED BY <2>2, <2>3 DEF Oracle!Init, Oracle!TypeOK
<1>3. Ordered(prices, now)
  BY <1>1 DEF Ordered
<1>4. AttemptsCount /\ StopsWhenAsked /\ Oracle!GivesUpOnlyAfterMax
  BY ServiceConstants DEF Oracle!Init, AttemptsCount, StopsWhenAsked, Oracle!GivesUpOnlyAfterMax
<1> QED BY <1>2, <1>3, <1>4 DEF OracleIInv

\* A failed connection counts as an attempt, until they are used up.
LEMMA OracleReconnect ==
  ASSUME OracleIInv, Oracle!HandshakeFails \/ Oracle!StreamFails
  PROVE  /\ stream' \in {"off", "handshake", "stream", "backoff", "ended"}
         /\ running' \in BOOLEAN /\ asked' \in BOOLEAN /\ connected' \in BOOLEAN
         /\ ws' \in {"none", "open", "closed"}
         /\ closing' \in {"idle", "closing", "done"}
         /\ attempts' \in 0..(MaxAttempts + 1) /\ failures' \in 0..(MaxAttempts + 1)
         /\ AttemptsCount' /\ StopsWhenAsked' /\ Oracle!GivesUpOnlyAfterMax'
<1>1. /\ MaxAttempts \in Nat /\ attempts \in 0..(MaxAttempts + 1)
      /\ failures \in 0..(MaxAttempts + 1)
      /\ running \in BOOLEAN /\ asked \in BOOLEAN /\ ws \in {"none", "open", "closed"}
      /\ closing \in {"idle", "closing", "done"}
  BY ServiceConstants DEF OracleIInv, Oracle!TypeOK
<1>2. /\ stream \in {"handshake", "stream"} /\ failures' = failures + 1
      /\ Oracle!HandleReconnect /\ connected' = FALSE
      /\ ws' = ws \/ ws' = "closed"
      /\ asked' = asked /\ closing' = closing
  BY DEF Oracle!HandshakeFails, Oracle!StreamFails
<1>3. failures = attempts /\ attempts <= MaxAttempts /\ (~running => asked)
  <2>1. stream # "ended" /\ stream \notin {"off", "ended"}
    BY <1>2
  <2> QED BY <2>1 DEF OracleIInv, AttemptsCount, StopsWhenAsked
<1>4. /\ connected' \in BOOLEAN /\ asked' \in BOOLEAN /\ ws' \in {"none", "open", "closed"}
      /\ closing' \in {"idle", "closing", "done"}
  BY <1>1, <1>2
<1>5. failures' = attempts + 1
  BY <1>2, <1>3
<1>6. /\ attempts \in 0..(MaxAttempts + 1) /\ attempts + 1 \in 0..(MaxAttempts + 1)
      /\ attempts \in Nat
  BY <1>1, <1>3
<1>7. failures' \in 0..(MaxAttempts + 1)
  BY <1>5, <1>6
<1>8. CASE ~running /\ stream' = "ended" /\ UNCHANGED <<running, attempts>>
  <2>1. asked'
    BY <1>2, <1>3, <1>8
  <2>2. attempts' = attempts /\ running' = running /\ stream' = "ended"
    BY <1>8
  <2>3. AttemptsCount' /\ StopsWhenAsked' /\ Oracle!GivesUpOnlyAfterMax'
    BY <2>1, <2>2 DEF AttemptsCount, StopsWhenAsked, Oracle!GivesUpOnlyAfterMax
  <2> QED BY <1>1, <1>4, <1>7, <2>2, <2>3
<1>9. CASE /\ running /\ attempts' = attempts + 1 /\ attempts' > MaxAttempts
           /\ running' = FALSE /\ stream' = "ended"
  <2>1. failures' = MaxAttempts + 1
    BY <1>1, <1>3, <1>5, <1>6, <1>9
  <2>2. AttemptsCount' /\ StopsWhenAsked' /\ Oracle!GivesUpOnlyAfterMax'
    BY <1>9, <2>1 DEF AttemptsCount, StopsWhenAsked, Oracle!GivesUpOnlyAfterMax
  <2>3. attempts' \in 0..(MaxAttempts + 1)
    BY <1>6, <1>9
  <2> QED BY <1>4, <1>7, <1>9, <2>2, <2>3
<1>10. CASE /\ running /\ attempts' = attempts + 1 /\ attempts' <= MaxAttempts
            /\ running' = running /\ stream' = "backoff"
  <2>1. AttemptsCount' /\ StopsWhenAsked' /\ Oracle!GivesUpOnlyAfterMax'
    BY <1>5, <1>10 DEF AttemptsCount, StopsWhenAsked, Oracle!GivesUpOnlyAfterMax
  <2>2. attempts' \in 0..(MaxAttempts + 1)
    BY <1>6, <1>10
  <2> QED BY <1>1, <1>4, <1>7, <1>10, <2>1, <2>2
<1> QED BY <1>2, <1>8, <1>9, <1>10 DEF Oracle!HandleReconnect

\* The connection loop, disconnect() and the clock.
LEMMA OracleConnection ==
  ASSUME OracleIInv,
         \/ Oracle!Connect \/ Oracle!HandshakeOk \/ Oracle!HandshakeFails \/ Oracle!StreamFails
         \/ Oracle!StreamEnds \/ Oracle!BackoffEnds \/ Oracle!CancelledInStream
         \/ Oracle!CancelledInBackoff \/ Oracle!Disconnect \/ Oracle!DisconnectEnds
         \/ Oracle!Tick
  PROVE  OracleIInv' /\ prices' = prices
<1> USE DEF OracleIInv
<1>0. /\ {MaxAttempts, MaxTime, MaxMessages, MaxOutages} \subseteq Nat
      /\ attempts \in Nat /\ failures \in Nat /\ now \in Nat /\ outages \in Nat
      /\ prices \in Seq(0..MaxTime)
  BY ServiceConstants DEF Oracle!TypeOK
<1>1. /\ prices' = prices /\ messages' = messages
      /\ now' = now \/ (now' = now + 1 /\ now < MaxTime)
      /\ outages' = outages \/ (outages' = outages + 1 /\ outages < MaxOutages)
  BY DEF Oracle!Connect, Oracle!HandshakeOk, Oracle!HandshakeFails, Oracle!StreamFails,
         Oracle!StreamEnds, Oracle!BackoffEnds, Oracle!CancelledInStream,
         Oracle!CancelledInBackoff, Oracle!Disconnect, Oracle!DisconnectEnds, Oracle!Tick,
         Oracle!feed
<1>2. Ordered(prices', now')
  <2>1. ASSUME NEW i \in 1..Len(prices) PROVE prices[i] <= now'
    <3>1. prices[i] \in 0..MaxTime /\ prices[i] <= now
      BY <1>0 DEF Ordered
    <3>2. now <= now' /\ now' \in Nat
      BY <1>0, <1>1
    <3> QED BY <1>0, <3>1, <3>2
  <2> QED BY <1>1, <2>1 DEF Ordered
<1>3. now' \in 0..MaxTime /\ outages' \in 0..MaxOutages
  BY SMTT(30), <1>0, <1>1 DEF Oracle!TypeOK
<1> DEFINE Loop == /\ stream' \in {"off", "handshake", "stream", "backoff", "ended"}
                   /\ running' \in BOOLEAN /\ asked' \in BOOLEAN /\ connected' \in BOOLEAN
                   /\ ws' \in {"none", "open", "closed"}
                   /\ closing' \in {"idle", "closing", "done"}
                   /\ attempts' \in 0..(MaxAttempts + 1) /\ failures' \in 0..(MaxAttempts + 1)
                   /\ AttemptsCount' /\ StopsWhenAsked' /\ Oracle!GivesUpOnlyAfterMax'
<1> USE DEF AttemptsCount, StopsWhenAsked, Oracle!GivesUpOnlyAfterMax, Oracle!TypeOK
<1>4. CASE Oracle!Connect
  <2>1. Loop
    BY <1>0, <1>4 DEF Oracle!Connect
  <2> QED BY <1>1, <1>2, <1>3, <2>1
<1>5. CASE Oracle!HandshakeOk
  <2>1. Loop
    BY <1>0, <1>5 DEF Oracle!HandshakeOk
  <2> QED BY <1>1, <1>2, <1>3, <2>1
<1>6. CASE Oracle!HandshakeFails \/ Oracle!StreamFails
  <2>1. Loop
    BY <1>6, OracleReconnect
  <2> QED BY <1>1, <1>2, <1>3, <2>1
<1>7. CASE Oracle!StreamEnds \/ Oracle!BackoffEnds
  <2>1. Loop
    BY <1>0, <1>7 DEF Oracle!StreamEnds, Oracle!BackoffEnds
  <2> QED BY <1>1, <1>2, <1>3, <2>1
<1>8. CASE Oracle!CancelledInStream \/ Oracle!CancelledInBackoff
  <2>1. Loop
    BY <1>0, <1>8 DEF Oracle!CancelledInStream, Oracle!CancelledInBackoff
  <2> QED BY <1>1, <1>2, <1>3, <2>1
<1>9. CASE Oracle!Disconnect \/ Oracle!DisconnectEnds
  <2>1. Loop
    BY <1>0, <1>9 DEF Oracle!Disconnect, Oracle!DisconnectEnds
  <2> QED BY <1>1, <1>2, <1>3, <2>1
<1>10. CASE Oracle!Tick
  <2>1. Loop
    BY <1>0, <1>10 DEF Oracle!Tick
  <2> QED BY <1>1, <1>2, <1>3, <2>1
<1> QED BY <1>4, <1>5, <1>6, <1>7, <1>8, <1>9, <1>10

\* Pruning leaves the end of the window, and all of it within.
LEMMA PrunedWindow ==
  ASSUME NEW p \in Seq(0..MaxTime), now \in Nat, Ordered(p, now)
  PROVE  /\ Oracle!Pruned(p) \in Seq(0..MaxTime) /\ Ordered(Oracle!Pruned(p), now)
         /\ \A i \in 1..Len(Oracle!Pruned(p)) : Oracle!Pruned(p)[i] >= now - RollingWindow
<1> DEFINE kept == {i \in 1..Len(p) : p[i] >= now - RollingWindow}
<1>0. \A i \in 1..Len(p) : p[i] \in 0..MaxTime /\ p[i] \in Nat
  <2>1. \A i \in 1..Len(p) : p[i] \in 0..MaxTime
    BY ElementOfSeq
  <2>2. 0..MaxTime \subseteq Nat
    BY ServiceConstants
  <2> QED BY <2>1, <2>2
<1>1. CASE kept = {}
  <2>1. Oracle!Pruned(p) = << >> /\ Len(<< >>) = 0 /\ \A i \in 1..Len(<< >>) : FALSE
    BY <1>1 DEF Oracle!Pruned
  <2> QED BY <2>1 DEF Ordered
<1>2. CASE kept # {}
  <2> DEFINE first_kept == CHOOSE i \in kept : \A j \in kept : i <= j
             t == SubSeq(p, first_kept, Len(p))
  <2>1. Oracle!Pruned(p) = t
    BY <1>2 DEF Oracle!Pruned
  <2>2. kept \in SUBSET Nat
    OBVIOUS
  <2> HIDE DEF kept
  <2>3. \E i \in kept : \A j \in kept : i <= j
    BY <1>2, <2>2, LeastElement
  <2>4. first_kept \in kept
    BY <2>3
  <2> HIDE DEF first_kept
  <2>5. first_kept \in 1..Len(p) /\ p[first_kept] >= now - RollingWindow
    BY <2>4 DEF kept
  <2>6. /\ t \in Seq(0..MaxTime) /\ Len(t) = Len(p) - first_kept + 1
        /\ \A i \in 1..Len(t) : t[i] = p[first_kept + i - 1] /\ first_kept + i - 1 \in 1..Len(p)
    <3> DEFINE m == first_kept
               l == Len(p)
    <3>1. m \in Int /\ l \in Nat /\ 1 <= m /\ m <= l
      BY <2>5
    <3>2. \A i \in 1..l : p[i] \in 0..MaxTime
      BY <1>0
    <3> HIDE DEF m, l
    <3>3. m..l \subseteq 1..l
      BY <3>1
    <3>4. \A i \in m..l : p[i] \in 0..MaxTime
      BY <3>2, <3>3
    <3>5. l \in Int /\ m <= l
      BY <3>1
    <3>6. /\ SubSeq(p, m, l) \in Seq(0..MaxTime) /\ Len(SubSeq(p, m, l)) = l - m + 1
          /\ \A i \in 1..(l - m + 1) : SubSeq(p, m, l)[i] = p[m + i - 1]
      BY <3>1, <3>4, <3>5, SubSeqProperties
    <3>7. \A i \in 1..(l - m + 1) : m + i - 1 \in 1..l
      BY <3>1
    <3> QED BY <3>6, <3>7 DEF m, l
  <2> HIDE DEF t
  <2>7. Len(t) \in Nat /\ first_kept \in Nat /\ Len(p) \in Nat
    BY <2>5, <2>6
  <2>8. ASSUME NEW i \in 1..Len(t) PROVE t[i] >= now - RollingWindow /\ t[i] <= now
    <3>1. t[i] = p[first_kept + i - 1] /\ first_kept + i - 1 \in 1..Len(p)
      BY <2>6
    <3>2. first_kept <= first_kept + i - 1
      BY <2>7
    <3>3. p[first_kept] <= p[first_kept + i - 1] /\ p[first_kept + i - 1] <= now
      BY <2>5, <3>1, <3>2 DEF Ordered
    <3>4. p[first_kept] \in Nat /\ p[first_kept + i - 1] \in Nat /\ RollingWindow \in Nat
      BY <1>0, <2>5, <3>1, ServiceConstants
    <3> QED BY <2>5, <3>1, <3>3, <3>4
  <2>9. ASSUME NEW i \in 1..Len(t), NEW j \in 1..Len(t), i <= j PROVE t[i] <= t[j]
    <3>1. first_kept + i - 1 <= first_kept + j - 1
      BY <2>7, <2>9
    <3> QED BY <2>6, <3>1 DEF Ordered
  <2> QED BY <2>1, <2>6, <2>8, <2>9 DEF Ordered
<1> QED BY <1>1, <1>2

\* A price and an average.
LEMMA OraclePrices ==
  ASSUME OracleIInv, Oracle!Message \/ Oracle!RollingAverage
  PROVE  OracleIInv' /\ \A i \in 1..Len(prices') : prices'[i] >= now - RollingWindow
<1> USE DEF OracleIInv
<1> DEFINE p == IF Oracle!Message THEN Append(prices, now) ELSE prices
<1>0. /\ prices \in Seq(0..MaxTime) /\ now \in 0..MaxTime /\ now \in Nat /\ Len(prices) \in Nat
      /\ messages \in Nat /\ MaxMessages \in Nat /\ \A i \in 1..Len(prices) : prices[i] \in Nat
  <2>1. /\ prices \in Seq(0..MaxTime) /\ now \in 0..MaxTime /\ messages \in 0..MaxMessages
        /\ MaxTime \in Nat /\ MaxMessages \in Nat
    BY ServiceConstants DEF Oracle!TypeOK
  <2>2. \A i \in 1..Len(prices) : prices[i] \in 0..MaxTime
    BY <2>1
  <2> QED BY <2>1, <2>2
<1>1. /\ prices' = Oracle!Pruned(p) /\ messages' \in 0..MaxMessages
      /\ UNCHANGED <<stream, running, connected, attempts, ws, closing, asked, failures, now,
                     outages>>
  <2>1. CASE Oracle!Message
    BY <1>0, <2>1 DEF Oracle!Message
  <2>2. CASE ~Oracle!Message
    BY <2>2 DEF Oracle!RollingAverage, Oracle!TypeOK
  <2> QED BY <2>1, <2>2
<1>2. p \in Seq(0..MaxTime) /\ Ordered(p, now)
  <2>1. CASE Oracle!Message
    <3>1. /\ p = Append(prices, now) /\ p \in Seq(0..MaxTime) /\ Len(p) = Len(prices) + 1
          /\ p[Len(prices) + 1] = now /\ \A i \in 1..Len(prices) : p[i] = prices[i]
      BY <1>0, <2>1
    <3> HIDE DEF p
    <3>2. ASSUME NEW i \in 1..Len(p) PROVE p[i] <= now
      BY <1>0, <3>1 DEF Ordered
    <3>3. ASSUME NEW i \in 1..Len(p), NEW j \in 1..Len(p), i <= j PROVE p[i] <= p[j]
      <4>1. CASE j \in 1..Len(prices)
        <5>1. i \in 1..Len(prices)
          BY <1>0, <3>3, <4>1
        <5> QED BY <3>1, <3>3, <4>1, <5>1 DEF Ordered
      <4>2. CASE j = Len(prices) + 1
        BY <3>1, <3>2, <4>2
      <4> QED BY <1>0, <3>1, <4>1, <4>2
    <3> QED BY <3>1, <3>2, <3>3 DEF Ordered
  <2>2. CASE ~Oracle!Message
    BY <1>0, <2>2
  <2> QED BY <2>1, <2>2
<1> HIDE DEF p
<1>3. /\ prices' \in Seq(0..MaxTime) /\ Ordered(prices', now)
      /\ \A i \in 1..Len(prices') : prices'[i] >= now - RollingWindow
  BY <1>0, <1>1, <1>2, PrunedWindow
<1>4. Oracle!TypeOK'
  BY <1>1, <1>3 DEF Oracle!TypeOK
<1>5. AttemptsCount' /\ StopsWhenAsked' /\ Oracle!GivesUpOnlyAfterMax'
  BY <1>1 DEF AttemptsCount, StopsWhenAsked, Oracle!GivesUpOnlyAfterMax
<1> QED BY <1>1, <1>3, <1>4, <1>5

\* Every step of the oracle.
LEMMA OraclePreserved ==
  ASSUME OracleIInv, Oracle!Next
  PROVE  OracleIInv'
BY OracleConnection, OraclePrices DEF Oracle!Next

\* Steps of the other services.
LEMMA OracleStutter ==
  ASSUME OracleIInv, UNCHANGED oracle_vars
  PROVE  OracleIInv'
BY DEF oracle_vars, OracleIInv, Oracle!TypeOK, Oracle!GivesUpOnlyAfterMax, AttemptsCount,
       StopsWhenAsked, Ordered

\* What an update or an average leaves is within the window.
LEMMA OracleSteps ==
  ASSUME OracleIInv, Oracle!Next \/ UNCHANGED oracle_vars
  PROVE  Oracle!AverageInWindow
<1>1. CASE Oracle!Next
  BY <1>1, OracleConnection, OraclePrices DEF Oracle!Next, Oracle!AverageInWindow
<1>2. CASE UNCHANGED oracle_vars
  BY <1>2 DEF oracle_vars, Oracle!AverageInWindow
<1> QED BY <1>1, <1>2

-----------------------------------------------------------------------------
(* The throttling overwatch                                                *)

\* The worst of a set of levels.
Worst(L) ==
  IF "COOLDOWN" \in L THEN "COOLDOWN"
  ELSE IF "CRITICAL" \in L THEN "CRITICAL"
  ELSE IF "WARNING" \in L THEN "WARNING" ELSE "NORMAL"

\* The levels of the buckets at some positions.
LevelsAt(lv, s) == {lv[MCBuckets[i]] : i \in s}

\* One round of the fold, with the results of the shorter ones in g.
StatusStep(lv, g, s) ==
  IF s = {} THEN "NORMAL"
  ELSE Throttle!Worse(g[s \ {Throttle!Max(s)}], lv[MCBuckets[Throttle!Max(s)]])

\* The fold as a recursive function.
StatusFold(lv) == CHOOSE g : g = [s \in SUBSET (DOMAIN MCBuckets) |-> StatusStep(lv, g, s)]

\* The library's fold is that function.
LEMMA StatusDef ==
  ASSUME NEW lv
  PROVE  Throttle!ThrottleStatus(lv) = StatusFold(lv)[DOMAIN MCBuckets]
BY DEF Throttle!ThrottleStatus, Throttle!FoldLeft, Throttle!MapThenFoldSet, StatusFold, StatusStep

\* The levels of the code.
LEMMA TheLevels ==
  Throttle!Range(Throttle!Levels) = {"NORMAL", "WARNING", "CRITICAL", "COOLDOWN"}
<1>1. /\ Throttle!Levels[1] = "NORMAL" /\ Throttle!Levels[2] = "WARNING"
      /\ Throttle!Levels[3] = "CRITICAL" /\ Throttle!Levels[4] = "COOLDOWN"
      /\ DOMAIN Throttle!Levels = 1..4
  BY DEF Throttle!Levels
<1>2. 1..4 = {1, 2, 3, 4}
  OBVIOUS
<1> QED BY <1>1, <1>2 DEF Throttle!Range

\* The worst of some levels and one more is the worse of the two.
LEMMA WorseIsWorst ==
  ASSUME NEW L \in SUBSET Throttle!Range(Throttle!Levels), NEW l \in Throttle!Range(Throttle!Levels)
  PROVE  /\ Worst(L \cup {l}) = Throttle!Worse(Worst(L), l)
         /\ Worst(L) \in Throttle!Range(Throttle!Levels)
BY TheLevels DEF Worst, Throttle!Worse

\* The status is the worst level of any bucket, whatever the order of the buckets.
LEMMA StatusIsWorst ==
  ASSUME NEW lv \in [Throttle!Names -> Throttle!Range(Throttle!Levels)]
  PROVE  /\ Throttle!ThrottleStatus(lv) = Worst({lv[b] : b \in Throttle!Names})
         /\ Throttle!ThrottleStatus(lv) \in Throttle!Range(Throttle!Levels)
<1> DEFINE D == DOMAIN MCBuckets
           G == [s \in SUBSET D |-> Worst(LevelsAt(lv, s))]
<1>1. D = 1..3 /\ D \in SUBSET Nat /\ IsFiniteSet(D)
  <2>1. D = 1..3
    BY DEF MCBuckets
  <2>2. \A a, b \in Int : IsFiniteSet(a..b)
    BY FS_Interval
  <2>3. 1 \in Int /\ 3 \in Int
    OBVIOUS
  <2>4. IsFiniteSet(1..3)
    BY <2>2, <2>3, Zenon
  <2> QED BY <2>1, <2>4
<1>2. \A i \in D : lv[MCBuckets[i]] \in Throttle!Range(Throttle!Levels)
  BY DEF Throttle!Names, Throttle!Range
<1> HIDE DEF D
<1>3. \A s \in SUBSET D : LevelsAt(lv, s) \in SUBSET Throttle!Range(Throttle!Levels)
  BY <1>2 DEF LevelsAt
<1>4. ASSUME NEW s \in SUBSET D, s # {}
      PROVE  /\ Throttle!Max(s) \in s
             /\ Worst(LevelsAt(lv, s))
                  = Throttle!Worse(Worst(LevelsAt(lv, s \ {Throttle!Max(s)})),
                                   lv[MCBuckets[Throttle!Max(s)]])
  <2>1. Throttle!Max(s) = Max(s)
    BY DEF Throttle!Max, Max
  <2>2. s \in SUBSET Nat /\ IsFiniteSet(s)
    BY <1>1, FS_Subset
  <2>3. Max(s) \in s
    BY <1>4, <2>2, MaxIn
  <2> DEFINE x == Throttle!Max(s)
             r == s \ {x}
  <2>4. x \in s /\ x \in D /\ r \in SUBSET D
    BY <2>1, <2>3
  <2> HIDE DEF x
  <2>5. LevelsAt(lv, s) = LevelsAt(lv, r) \cup {lv[MCBuckets[x]]}
    BY <2>4 DEF LevelsAt
  <2>6. Worst(LevelsAt(lv, r) \cup {lv[MCBuckets[x]]})
          = Throttle!Worse(Worst(LevelsAt(lv, r)), lv[MCBuckets[x]])
    BY <1>2, <1>3, <2>4, WorseIsWorst
  <2> QED BY <2>4, <2>5, <2>6 DEF x
<1>5. G = [s \in SUBSET D |-> StatusStep(lv, G, s)]
  <2>1. ASSUME NEW s \in SUBSET D PROVE G[s] = StatusStep(lv, G, s)
    <3>1. CASE s = {}
      BY <3>1 DEF LevelsAt, Worst, StatusStep
    <3>2. CASE s # {}
      <4>1. s \ {Throttle!Max(s)} \in SUBSET D
        OBVIOUS
      <4>2. G[s \ {Throttle!Max(s)}] = Worst(LevelsAt(lv, s \ {Throttle!Max(s)}))
        BY <4>1
      <4>3. G[s] = Worst(LevelsAt(lv, s))
        OBVIOUS
      <4> QED BY <1>4, <3>2, <4>2, <4>3 DEF StatusStep
    <3> QED BY <3>1, <3>2
  <2> QED BY <2>1
<1>6. StatusFold(lv) = [s \in SUBSET D |-> StatusStep(lv, StatusFold(lv), s)]
  <2>1. \E g : g = [s \in SUBSET D |-> StatusStep(lv, g, s)]
    BY <1>5
  <2> QED BY <2>1 DEF StatusFold, D
<1>7. ASSUME NEW s \in SUBSET D PROVE StatusFold(lv)[s] = StatusStep(lv, StatusFold(lv), s)
  BY <1>6
<1> DEFINE H == {s \in SUBSET D : StatusFold(lv)[s] = Worst(LevelsAt(lv, s))}
<1>8. {} \in H
  <2>1. StatusFold(lv)[{}] = "NORMAL"
    BY <1>7 DEF StatusStep
  <2> QED BY <2>1 DEF LevelsAt, Worst
<1>9. ASSUME NEW s \in SUBSET D, s # {}, \A x \in s : s \ {x} \in H
      PROVE  s \in H
  <2>1. s \ {Throttle!Max(s)} \in H
    BY <1>4, <1>9
  <2>2. StatusFold(lv)[s \ {Throttle!Max(s)}] = Worst(LevelsAt(lv, s \ {Throttle!Max(s)}))
    BY <2>1
  <2>3. StatusFold(lv)[s]
          = Throttle!Worse(StatusFold(lv)[s \ {Throttle!Max(s)}], lv[MCBuckets[Throttle!Max(s)]])
    BY <1>7, <1>9 DEF StatusStep
  <2> QED BY <1>4, <1>9, <2>2, <2>3
<1>10. D \in H
  <2> HIDE DEF H
  <2>1. H \in SUBSET SUBSET D
    BY DEF H
  <2> QED BY <1>1, <1>8, <1>9, <2>1, FiniteInduction
<1>11. LevelsAt(lv, D) = {lv[b] : b \in Throttle!Names}
  BY DEF LevelsAt, Throttle!Names, Throttle!Range, D
<1>12. Throttle!ThrottleStatus(lv) = StatusFold(lv)[D]
  BY StatusDef DEF D
<1>13. Worst(LevelsAt(lv, D)) \in Throttle!Range(Throttle!Levels)
  <2>1. LevelsAt(lv, D) \in SUBSET Throttle!Range(Throttle!Levels)
    BY <1>3
  <2>2. \A L \in SUBSET Throttle!Range(Throttle!Levels) :
          Worst(L) \in Throttle!Range(Throttle!Levels)
    BY TheLevels DEF Worst
  <2> QED BY <2>1, <2>2
<1> QED BY <1>10, <1>11, <1>12, <1>13

\* The callbacks at the first positions of a list.
Visited(s, n) == {s[i] : i \in {j \in 1..Len(s) : j <= n}}

\* How many positions a task has called.
Walked(t) == IF notifier[t] = "notify" THEN pos[t] - 1 ELSE pos[t]

\* What a walk has left to do with, and what it owes: whoever it told and still has to tell is
\* behind it; who is behind it untold was moved there by a callback that left.
Walking(t) ==
  notifier[t] \in {"notify", "await"} =>
    /\ due[t] \subseteq In(callbacks)
    /\ In(told[t]) \cap due[t] \subseteq Visited(callbacks, Walked(t))
    /\ Cardinality((Visited(callbacks, Walked(t)) \cap due[t]) \ In(told[t])) <= changes

\* A task that has not begun.
Fresh(t) == notifier[t] = "idle" => pos[t] = 1 /\ told[t] = << >>

\* No callback that is due is told twice.
OnceEach(t) ==
  \A i, j \in 1..Len(told[t]) : i # j /\ told[t][i] = told[t][j] => told[t][i] \notin due[t]

\* How many are missed in the end.
FewMissed(t) ==
  notifier[t] = "end" /\ status[t] # "NORMAL" => Cardinality(due[t] \ In(told[t])) <= changes

\* Inductive.
OverwatchIInv ==
  /\ Throttle!TypeOK /\ Once(callbacks)
  /\ \A t \in Tasks : Walking(t) /\ Fresh(t) /\ OnceEach(t) /\ FewMissed(t)

\* One position further.
LEMMA VisitedNext ==
  ASSUME NEW S, NEW s \in Seq(S), Once(s), NEW n \in 1..Len(s)
  PROVE  /\ Visited(s, n) = Visited(s, n - 1) \cup {s[n]} /\ s[n] \notin Visited(s, n - 1)
         /\ Visited(s, n) \subseteq S /\ s[n] \in S
<1>1. /\ Len(s) \in Nat /\ {j \in 1..Len(s) : j <= n} = {j \in 1..Len(s) : j <= n - 1} \cup {n}
      /\ n \notin {j \in 1..Len(s) : j <= n - 1}
  OBVIOUS
<1>2. \A i \in 1..Len(s) : s[i] \in S
  BY ElementOfSeq
<1>3. Visited(s, n) = Visited(s, n - 1) \cup {s[n]}
  BY <1>1 DEF Visited
<1>4. s[n] \notin Visited(s, n - 1)
  BY <1>1 DEF Visited, Once
<1>5. Visited(s, n) \subseteq S
  BY <1>2 DEF Visited
<1> QED BY <1>2, <1>3, <1>4, <1>5

\* No position, and all of them.
LEMMA VisitedEnds ==
  ASSUME NEW S, NEW s \in Seq(S), NEW n \in Nat
  PROVE  /\ Visited(s, 0) = {} /\ Visited(s, n) \subseteq S
         /\ n >= Len(s) => Visited(s, n) = In(s)
<1>1. Len(s) \in Nat /\ \A i \in 1..Len(s) : s[i] \in S
  BY ElementOfSeq
<1>2. {j \in 1..Len(s) : j <= 0} = {}
  BY <1>1
<1>3. n >= Len(s) => {j \in 1..Len(s) : j <= n} = 1..Len(s)
  BY <1>1
<1>4. Visited(s, n) \subseteq S
  BY <1>1 DEF Visited
<1>5. Visited(s, 0) = {}
  BY <1>2 DEF Visited
<1>6. n >= Len(s) => Visited(s, n) = In(s)
  BY <1>3 DEF Visited, In
<1> QED BY <1>4, <1>5, <1>6

\* A newcomer can only be visited itself.
LEMMA VisitedAppended ==
  ASSUME NEW S, NEW s \in Seq(S), NEW c \in S, NEW n \in Nat
  PROVE  /\ Visited(s, n) \subseteq Visited(Append(s, c), n)
         /\ Visited(Append(s, c), n) \subseteq Visited(s, n) \cup {c}
<1> DEFINE t == Append(s, c)
<1>1. /\ Len(s) \in Nat /\ Len(t) = Len(s) + 1 /\ t[Len(s) + 1] = c
      /\ \A i \in 1..Len(s) : t[i] = s[i]
  OBVIOUS
<1> HIDE DEF t
<1>2. \A i \in 1..Len(t) : i \in 1..Len(s) \/ i = Len(s) + 1
  BY <1>1
<1>3. \A i \in 1..Len(s) : i \in 1..Len(t)
  BY <1>1
<1>4. Visited(s, n) \subseteq Visited(t, n)
  BY <1>1, <1>3 DEF Visited
<1>5. Visited(t, n) \subseteq Visited(s, n) \cup {c}
  BY <1>1, <1>2 DEF Visited
<1> QED BY <1>4, <1>5 DEF t

\* Whoever leaves draws one callback at most over the position of a walk, and none back.
LEMMA VisitedRemoved ==
  ASSUME NEW S, NEW s \in Seq(S), Once(s), NEW k \in 1..Len(s), NEW n \in Nat
  PROVE  /\ Throttle!RemoveAt(s, k) \in Seq(S) /\ Once(Throttle!RemoveAt(s, k))
         /\ In(Throttle!RemoveAt(s, k)) = In(s) \ {s[k]}
         /\ Visited(s, n) \ {s[k]} \subseteq Visited(Throttle!RemoveAt(s, k), n)
         /\ Visited(Throttle!RemoveAt(s, k), n) \subseteq Visited(s, n) \cup {s[n + 1]}
<1> DEFINE t == Throttle!RemoveAt(s, k)
<1>1. /\ t \in Seq(S) /\ Len(t) = Len(s) - 1 /\ In(t) = In(s) \ {s[k]} /\ Once(t)
      /\ \A j \in 1..Len(s) - 1 : t[j] = IF j < k THEN s[j] ELSE s[j + 1]
  BY RemovedAt DEF Throttle!RemoveAt
<1> HIDE DEF t
<1>2. Len(s) \in Nat /\ k \in Nat /\ 1 <= k /\ k <= Len(s)
  OBVIOUS
<1>3. ASSUME NEW i \in 1..Len(s), i <= n, i # k
      PROVE  s[i] \in Visited(t, n)
  <2>1. CASE i < k
    <3>1. i \in 1..Len(t) /\ t[i] = s[i]
      BY <1>1, <1>2, <2>1
    <3> QED BY <1>3, <3>1 DEF Visited
  <2>2. CASE i > k
    <3> DEFINE j == i - 1
    <3>1. j \in 1..Len(t) /\ j \in 1..Len(s) - 1 /\ ~(j < k) /\ j + 1 = i /\ j <= n
      BY <1>1, <1>2, <1>3, <2>2
    <3> HIDE DEF j
    <3>2. t[j] = s[i]
      BY <1>1, <3>1
    <3> QED BY <3>1, <3>2 DEF Visited
  <2> QED BY <1>2, <1>3, <2>1, <2>2
<1>4. Visited(s, n) \ {s[k]} \subseteq Visited(t, n)
  BY <1>3 DEF Visited
<1>5. ASSUME NEW j \in 1..Len(t), j <= n
      PROVE  t[j] \in Visited(s, n) \cup {s[n + 1]}
  <2>0. j \in 1..Len(s) - 1 /\ j \in 1..Len(s) /\ j + 1 \in 1..Len(s)
    BY <1>1, <1>2
  <2>1. CASE j < k
    <3>1. t[j] = s[j]
      BY <1>1, <2>0, <2>1
    <3> QED BY <1>5, <2>0, <3>1 DEF Visited
  <2>2. CASE ~(j < k)
    <3>1. t[j] = s[j + 1]
      BY <1>1, <2>0, <2>2
    <3>2. CASE j = n
      BY <3>1, <3>2
    <3>3. CASE j # n
      <4>1. j + 1 <= n
        BY <1>5, <3>3
      <4> QED BY <2>0, <3>1, <4>1 DEF Visited
    <3> QED BY <3>2, <3>3
  <2> QED BY <2>1, <2>2
<1>6. Visited(t, n) \subseteq Visited(s, n) \cup {s[n + 1]}
  BY <1>5 DEF Visited
<1> QED BY <1>1, <1>4, <1>6 DEF t

\* Subsets of the callbacks have their number, which grows with them, by one with one more.
LEMMA CallbackCounts ==
  ASSUME NEW A \in SUBSET Callbacks, NEW B \in SUBSET Callbacks
  PROVE  /\ Cardinality(A) \in Nat
         /\ A \subseteq B => Cardinality(A) <= Cardinality(B)
         /\ \A x : A \subseteq B \cup {x} => Cardinality(A) <= Cardinality(B) + 1
<1>1. IsFiniteSet(A) /\ IsFiniteSet(B) /\ Cardinality(A) \in Nat /\ Cardinality(B) \in Nat
  BY ServiceConstants, FS_Subset, FS_CardinalityType
<1>2. A \subseteq B => Cardinality(A) <= Cardinality(B)
  BY <1>1, FS_Subset
<1>3. ASSUME NEW x, A \subseteq B \cup {x} PROVE Cardinality(A) <= Cardinality(B) + 1
  <2>1. /\ IsFiniteSet(B \cup {x})
        /\ Cardinality(B \cup {x}) = IF x \in B THEN Cardinality(B) ELSE Cardinality(B) + 1
    BY <1>1, FS_AddElement
  <2>2. Cardinality(A) <= Cardinality(B \cup {x})
    BY <1>3, <2>1, FS_Subset
  <2> QED BY <1>1, <2>1, <2>2
<1> QED BY <1>1, <1>2, <1>3

\* The instance has an operator of its own for this as well.
LEMMA OverwatchCardinality ==
  ASSUME NEW S
  PROVE  Throttle!Cardinality(S) = Cardinality(S)
BY DEF Throttle!Cardinality, Cardinality

\* A sequence of all elements of a set, once each.
LEMMA SetToSeqIs ==
  ASSUME NEW C \in SUBSET Callbacks
  PROVE  /\ Throttle!SetToSeq(C) \in Seq(Callbacks) /\ Once(Throttle!SetToSeq(C))
<1> DEFINE n == Cardinality(C)
           s == Throttle!SetToSeq(C)
<1>1. n \in Nat /\ ExistsBijection(1..n, C)
  BY ServiceConstants, FS_Subset, FS_CardinalityType
<1>2. PICK f \in Bijection(1..n, C) : TRUE
  BY <1>1 DEF ExistsBijection
<1>3. f \in [1..n -> C] /\ Throttle!IsInjective(f)
  BY <1>2 DEF Bijection, Injection, IsInjective, Throttle!IsInjective
<1>4. s \in [1..n -> C] /\ Throttle!IsInjective(s)
  <2>1. Throttle!Cardinality(C) = n
    BY OverwatchCardinality
  <2> QED BY <1>3, <2>1 DEF Throttle!SetToSeq
<1> HIDE DEF s
<1>5. s \in Seq(Callbacks) /\ Len(s) = n
  BY <1>1, <1>4
<1>6. Once(s)
  BY <1>4, <1>5 DEF Throttle!IsInjective, Once
<1> QED BY <1>5, <1>6 DEF s

\* Callbacks are registered, and nobody acquires anything yet.
LEMMA OverwatchStart == Throttle!Init => OverwatchIInv
<1> SUFFICES ASSUME Throttle!Init PROVE OverwatchIInv
  OBVIOUS
<1>1. callbacks \in Seq(Callbacks) /\ Once(callbacks)
  <2>1. CASE callbacks = << >>
    BY <2>1 DEF Once
  <2>2. CASE callbacks # << >>
    BY <2>2, SetToSeqIs DEF Throttle!Init
  <2> QED BY <2>1, <2>2
<1>2. Throttle!TypeOK
  <2>1. 0 \in 0..MaxChanges /\ 1 \in Nat \ {0} /\ << >> \in Seq(Callbacks)
    BY ServiceConstants
  <2>2. "NORMAL" \in Throttle!Range(Throttle!Levels)
    BY TheLevels
  <2> QED BY <1>1, <2>1, <2>2 DEF Throttle!Init, Throttle!TypeOK
<1>3. ASSUME NEW t \in Tasks PROVE Walking(t) /\ Fresh(t) /\ OnceEach(t) /\ FewMissed(t)
  <2>1. notifier[t] = "idle" /\ pos[t] = 1 /\ told[t] = << >> /\ Len(<< >>) = 0
    BY DEF Throttle!Init
  <2> QED BY <2>1 DEF Walking, Fresh, OnceEach, FewMissed
<1> QED BY <1>1, <1>2, <1>3 DEF OverwatchIInv

\* What the instance and this module call the elements of a list.
LEMMA OverwatchRange ==
  ASSUME NEW S, NEW s \in Seq(S)
  PROVE  Throttle!Range(s) = In(s)
BY DEF Throttle!Range, In

\* An acquisition finds the worst level, and a walk begins at the first callback.
LEMMA OverwatchAcquire ==
  ASSUME OverwatchIInv, NEW u \in Tasks, NEW b \in Throttle!Names, Throttle!Acquire(u, b)
  PROVE  OverwatchIInv'
<1> DEFINE Lv == Throttle!Range(Throttle!Levels)
<1>1. Throttle!TypeOK /\ Once(callbacks) /\ callbacks \in Seq(Callbacks)
      /\ \A t \in Tasks : Walking(t) /\ Fresh(t) /\ OnceEach(t) /\ FewMissed(t)
  BY DEF OverwatchIInv, Throttle!TypeOK
<1>2. /\ notifier[u] = "idle" /\ callbacks' = callbacks /\ pos' = pos /\ told' = told
      /\ changes' = changes /\ due' = [due EXCEPT ![u] = In(callbacks)]
      /\ status' = [status EXCEPT ![u] = Throttle!ThrottleStatus(level')]
      /\ notifier' = [notifier EXCEPT ![u] =
                        IF Throttle!ThrottleStatus(level') = "NORMAL" THEN "end" ELSE "notify"]
      /\ \E l \in Lv : level' = [level EXCEPT ![b] = l]
  BY <1>1, OverwatchRange DEF Throttle!Acquire
<1>3. level' \in [Throttle!Names -> Lv]
  BY <1>1, <1>2 DEF Throttle!TypeOK
<1>4. Throttle!ThrottleStatus(level') \in Lv
  <2>1. \A lv \in [Throttle!Names -> Lv] : Throttle!ThrottleStatus(lv) \in Lv
    BY StatusIsWorst
  <2> QED BY <1>3, <2>1
<1>5. In(callbacks) \in SUBSET Callbacks
  BY <1>1, ElementOfSeq DEF In
<1>6. Throttle!TypeOK'
  BY <1>1, <1>2, <1>3, <1>4, <1>5 DEF Throttle!TypeOK
<1>7. /\ notifier \in [Tasks -> {"idle", "notify", "await", "end"}] /\ changes \in Nat
      /\ due \in [Tasks -> SUBSET Callbacks] /\ status \in [Tasks -> Lv]
  BY <1>1, ServiceConstants DEF Throttle!TypeOK
<1>8. Walking(u)' /\ Fresh(u)' /\ OnceEach(u)' /\ FewMissed(u)'
  <2>1. pos[u] = 1 /\ told[u] = << >> /\ Len(<< >>) = 0
    BY <1>1, <1>2 DEF Fresh
  <2>2. /\ notifier'[u] \in {"end", "notify"} /\ due'[u] = In(callbacks)
        /\ notifier'[u] = "end" <=> status'[u] = "NORMAL"
    BY <1>2, <1>7
  <2>3. Visited(callbacks, 0) = {} /\ Cardinality({}) = 0 /\ In(<< >>) = {}
    BY <1>1, <2>1, VisitedEnds, FS_EmptySet DEF In
  <2>4. Walked(u)' = 0 \/ notifier'[u] = "end"
    BY <1>2, <2>1, <2>2 DEF Walked
  <2>5. Walking(u)'
    <3> SUFFICES ASSUME notifier'[u] = "notify" PROVE Walking(u)'
      BY <2>2 DEF Walking
    <3>1. Walked(u)' = 0
      BY <2>4
    <3>2. ({} \cap due'[u]) \ In(told'[u]) = {}
      OBVIOUS
    <3>3. /\ Visited(callbacks', Walked(u)') = {} /\ told'[u] = << >>
          /\ due'[u] = In(callbacks')
      BY <1>2, <2>1, <2>2, <2>3, <3>1
    <3>4. In(told'[u]) = {}
      BY <2>3, <3>3
    <3>5. Cardinality((Visited(callbacks', Walked(u)') \cap due'[u]) \ In(told'[u])) = 0
      BY <2>3, <3>2, <3>3
    <3>6. 0 <= changes'
      BY <1>2, <1>7
    <3> QED BY <3>3, <3>4, <3>5, <3>6 DEF Walking
  <2>6. Fresh(u)' /\ OnceEach(u)' /\ FewMissed(u)'
    BY <1>2, <2>1, <2>2 DEF Fresh, OnceEach, FewMissed
  <2> QED BY <2>5, <2>6
<1>9. ASSUME NEW t \in Tasks, t # u
      PROVE  Walking(t)' /\ Fresh(t)' /\ OnceEach(t)' /\ FewMissed(t)'
  <2>1. notifier'[t] = notifier[t] /\ due'[t] = due[t] /\ status'[t] = status[t]
    BY <1>2, <1>7, <1>9
  <2> QED BY <1>1, <1>2, <2>1 DEF Walking, Walked, Fresh, OnceEach, FewMissed
<1> QED BY <1>1, <1>2, <1>6, <1>8, <1>9 DEF OverwatchIInv

\* The next callback is one that the walk has not told, if it is still due.
LEMMA OverwatchNotify ==
  ASSUME OverwatchIInv, NEW u \in Tasks, Throttle!NotifyNext(u)
  PROVE  OverwatchIInv'
<1> DEFINE n == pos[u]
           c == callbacks[n]
<1>1. Throttle!TypeOK /\ Once(callbacks) /\ callbacks \in Seq(Callbacks)
      /\ \A t \in Tasks : Walking(t) /\ Fresh(t) /\ OnceEach(t) /\ FewMissed(t)
  BY DEF OverwatchIInv, Throttle!TypeOK
<1>2. /\ notifier[u] = "notify" /\ n <= Len(callbacks)
      /\ told' = [told EXCEPT ![u] = Append(told[u], c)]
      /\ \/ pos' = [pos EXCEPT ![u] = n + 1] /\ notifier' = notifier
         \/ notifier' = [notifier EXCEPT ![u] = "await"] /\ pos' = pos
      /\ UNCHANGED <<level, callbacks, status, due, changes>>
  BY DEF Throttle!NotifyNext
<1>3. /\ notifier \in [Tasks -> {"idle", "notify", "await", "end"}] /\ changes \in Nat
      /\ due \in [Tasks -> SUBSET Callbacks] /\ pos \in [Tasks -> Nat \ {0}]
      /\ told \in [Tasks -> Seq(Callbacks)] /\ told[u] \in Seq(Callbacks) /\ n \in Nat \ {0}
      /\ due[u] \in SUBSET Callbacks
  BY <1>1, ServiceConstants DEF Throttle!TypeOK
<1>4. n \in 1..Len(callbacks)
  BY <1>2, <1>3
<1>5. /\ Visited(callbacks, n) = Visited(callbacks, n - 1) \cup {c}
      /\ c \notin Visited(callbacks, n - 1) /\ Visited(callbacks, n) \subseteq Callbacks
      /\ c \in Callbacks
  BY <1>1, <1>4, VisitedNext
<1> HIDE DEF c
<1>6. /\ Append(told[u], c) \in Seq(Callbacks) /\ In(Append(told[u], c)) = In(told[u]) \cup {c}
      /\ Len(Append(told[u], c)) = Len(told[u]) + 1 /\ Len(told[u]) \in Nat
      /\ Append(told[u], c)[Len(told[u]) + 1] = c
      /\ \A i \in 1..Len(told[u]) : Append(told[u], c)[i] = told[u][i]
  <2>1. \A s \in Seq(Callbacks), e \in Callbacks :
          /\ Append(s, e) \in Seq(Callbacks) /\ In(Append(s, e)) = In(s) \cup {e}
          /\ Len(Append(s, e)) = Len(s) + 1 /\ Len(s) \in Nat
    BY AppendedIn
  <2>2. \A s \in Seq(Callbacks), e \in Callbacks :
          Append(s, e)[Len(s) + 1] = e /\ \A i \in 1..Len(s) : Append(s, e)[i] = s[i]
    OBVIOUS
  <2> QED BY <1>3, <1>5, <2>1, <2>2
<1>7. Throttle!TypeOK'
  <2>1. n + 1 \in Nat \ {0}
    BY <1>3
  <2>2. told' \in [Tasks -> Seq(Callbacks)]
    BY <1>2, <1>3, <1>6
  <2>3. pos' \in [Tasks -> Nat \ {0}]
    BY <1>2, <1>3, <2>1
  <2>4. notifier' \in [Tasks -> {"idle", "notify", "await", "end"}]
    BY <1>2, <1>3
  <2> QED BY <1>1, <1>2, <2>2, <2>3, <2>4 DEF Throttle!TypeOK
<1>8. /\ due[u] \subseteq In(callbacks)
      /\ In(told[u]) \cap due[u] \subseteq Visited(callbacks, n - 1)
      /\ Cardinality((Visited(callbacks, n - 1) \cap due[u]) \ In(told[u])) <= changes
  BY <1>1, <1>2 DEF Walking, Walked
<1>9. /\ notifier'[u] \in {"notify", "await"} /\ Walked(u)' = n
      /\ told'[u] = Append(told[u], c) /\ due'[u] = due[u]
  BY <1>2, <1>3 DEF Walked
<1>10. Walking(u)'
  <2> DEFINE A == (Visited(callbacks, n) \cap due[u]) \ (In(told[u]) \cup {c})
             B == (Visited(callbacks, n - 1) \cap due[u]) \ In(told[u])
  <2>1. A \subseteq B /\ A \in SUBSET Callbacks /\ B \in SUBSET Callbacks
    BY <1>5
  <2>2. Cardinality(A) <= Cardinality(B) /\ Cardinality(A) \in Nat /\ Cardinality(B) \in Nat
    BY <2>1, CallbackCounts
  <2>3. Cardinality(A) <= changes
    BY <1>3, <1>8, <2>2
  <2>4. (In(told[u]) \cup {c}) \cap due[u] \subseteq Visited(callbacks, n)
    BY <1>5, <1>8
  <2> QED BY <1>2, <1>6, <1>8, <1>9, <2>3, <2>4 DEF Walking
<1>11. OnceEach(u)'
  <2> SUFFICES ASSUME NEW i \in 1..Len(told'[u]), NEW j \in 1..Len(told'[u]), i # j,
                      told'[u][i] = told'[u][j], told'[u][i] \in due[u]
               PROVE  FALSE
    BY <1>9 DEF OnceEach
  <2>1. ASSUME NEW k \in 1..Len(told[u]), told[u][k] = c, c \in due[u] PROVE FALSE
    <3>1. c \in In(told[u])
      BY <2>1 DEF In
    <3> QED BY <1>5, <1>8, <2>1, <3>1
  <2>2. /\ i \in 1..Len(told[u]) \/ i = Len(told[u]) + 1
        /\ j \in 1..Len(told[u]) \/ j = Len(told[u]) + 1
    BY <1>6, <1>9
  <2>3. CASE i \in 1..Len(told[u]) /\ j \in 1..Len(told[u])
    BY <1>1, <1>6, <1>9, <2>3 DEF OnceEach
  <2>4. CASE i \in 1..Len(told[u]) /\ j = Len(told[u]) + 1
    BY <1>6, <1>9, <2>1, <2>4
  <2>5. CASE i = Len(told[u]) + 1 /\ j \in 1..Len(told[u])
    BY <1>6, <1>9, <2>1, <2>5
  <2> QED BY <2>2, <2>3, <2>4, <2>5
<1>12. Fresh(u)' /\ FewMissed(u)'
  BY <1>9 DEF Fresh, FewMissed
<1>13. ASSUME NEW t \in Tasks, t # u
       PROVE  Walking(t)' /\ Fresh(t)' /\ OnceEach(t)' /\ FewMissed(t)'
  <2>1. /\ notifier'[t] = notifier[t] /\ pos'[t] = pos[t] /\ told'[t] = told[t]
        /\ due' = due /\ callbacks' = callbacks /\ status' = status /\ changes' = changes
    BY <1>2, <1>3, <1>13
  <2>2. Walking(t) /\ Fresh(t) /\ OnceEach(t) /\ FewMissed(t)
    BY <1>1
  <2>3. Walking(t)'
    BY <2>1, <2>2 DEF Walking, Walked
  <2>4. Fresh(t)' /\ FewMissed(t)'
    BY <2>1, <2>2 DEF Fresh, FewMissed
  <2>5. OnceEach(t)'
    BY <2>1, <2>2 DEF OnceEach
  <2> QED BY <2>3, <2>4, <2>5
<1> QED BY <1>1, <1>2, <1>7, <1>10, <1>11, <1>12, <1>13 DEF OverwatchIInv

\* The callback is back, or the list is at its end.
LEMMA OverwatchGoesOn ==
  ASSUME OverwatchIInv, NEW u \in Tasks, Throttle!Awaited(u) \/ Throttle!NotifyEnds(u)
  PROVE  OverwatchIInv'
<1>1. Throttle!TypeOK /\ Once(callbacks) /\ callbacks \in Seq(Callbacks)
      /\ \A t \in Tasks : Walking(t) /\ Fresh(t) /\ OnceEach(t) /\ FewMissed(t)
  BY DEF OverwatchIInv, Throttle!TypeOK
<1>2. UNCHANGED <<level, callbacks, status, due, told, changes>>
  BY DEF Throttle!Awaited, Throttle!NotifyEnds
<1>3. /\ notifier \in [Tasks -> {"idle", "notify", "await", "end"}] /\ changes \in Nat
      /\ due \in [Tasks -> SUBSET Callbacks] /\ pos \in [Tasks -> Nat \ {0}]
      /\ pos[u] \in Nat /\ due[u] \in SUBSET Callbacks
  BY <1>1, ServiceConstants DEF Throttle!TypeOK
<1>4. \/ /\ notifier[u] = "await" /\ notifier' = [notifier EXCEPT ![u] = "notify"]
         /\ pos' = [pos EXCEPT ![u] = pos[u] + 1]
      \/ /\ notifier[u] = "notify" /\ notifier' = [notifier EXCEPT ![u] = "end"]
         /\ pos[u] > Len(callbacks) /\ pos' = pos
  BY DEF Throttle!Awaited, Throttle!NotifyEnds
<1>5. Throttle!TypeOK'
  <2>1. pos[u] + 1 \in Nat \ {0}
    BY <1>3
  <2>2. pos' \in [Tasks -> Nat \ {0}] /\ notifier' \in [Tasks -> {"idle", "notify", "await", "end"}]
    BY <1>3, <1>4, <2>1
  <2> QED BY <1>1, <1>2, <2>2 DEF Throttle!TypeOK
<1>6. Walking(u)' /\ Fresh(u)' /\ OnceEach(u)' /\ FewMissed(u)'
  <2>1. /\ due[u] \subseteq In(callbacks)
        /\ In(told[u]) \cap due[u] \subseteq Visited(callbacks, Walked(u))
        /\ Cardinality((Visited(callbacks, Walked(u)) \cap due[u]) \ In(told[u])) <= changes
    BY <1>1, <1>4 DEF Walking
  <2>2. OnceEach(u)'
    BY <1>1, <1>2 DEF OnceEach
  <2>3. CASE notifier[u] = "await" /\ notifier'[u] = "notify" /\ pos'[u] = pos[u] + 1
    <3>1. Walked(u)' = Walked(u)
      BY <1>3, <2>3 DEF Walked
    <3>2. Walking(u)'
      BY <1>2, <2>1, <3>1 DEF Walking
    <3>3. Fresh(u)' /\ FewMissed(u)'
      BY <2>3 DEF Fresh, FewMissed
    <3> QED BY <2>2, <3>2, <3>3
  <2>4. CASE notifier[u] = "notify" /\ notifier'[u] = "end" /\ pos[u] > Len(callbacks)
    <3>1. Walked(u) = pos[u] - 1 /\ pos[u] - 1 \in Nat /\ pos[u] - 1 >= Len(callbacks)
      <4>1. Len(callbacks) \in Nat
        BY <1>1
      <4> QED BY <1>3, <2>4, <4>1 DEF Walked
    <3>2. Visited(callbacks, Walked(u)) = In(callbacks)
      BY <1>1, <3>1, VisitedEnds
    <3>3. (Visited(callbacks, Walked(u)) \cap due[u]) \ In(told[u]) = due[u] \ In(told[u])
      BY <2>1, <3>2
    <3>4. Cardinality(due[u] \ In(told[u])) <= changes
      BY <2>1, <3>3
    <3>5. FewMissed(u)'
      BY <1>2, <3>4 DEF FewMissed
    <3> QED BY <2>2, <2>4, <3>5 DEF Walking, Fresh
  <2> QED BY <1>3, <1>4, <2>3, <2>4
<1>7. ASSUME NEW t \in Tasks, t # u
      PROVE  Walking(t)' /\ Fresh(t)' /\ OnceEach(t)' /\ FewMissed(t)'
  <2>1. notifier'[t] = notifier[t] /\ pos'[t] = pos[t]
    BY <1>3, <1>4, <1>7
  <2> QED BY <1>1, <1>2, <2>1 DEF Walking, Walked, Fresh, OnceEach, FewMissed
<1> QED BY <1>1, <1>2, <1>5, <1>6, <1>7 DEF OverwatchIInv

\* A newcomer is not due to anybody, whether or not it is behind a walk.
LEMMA OverwatchRegister ==
  ASSUME OverwatchIInv, NEW c \in Callbacks, Throttle!RegisterCallback(c)
  PROVE  OverwatchIInv'
<1>1. Throttle!TypeOK /\ Once(callbacks) /\ callbacks \in Seq(Callbacks)
      /\ \A t \in Tasks : Walking(t) /\ Fresh(t) /\ OnceEach(t) /\ FewMissed(t)
  BY DEF OverwatchIInv, Throttle!TypeOK
<1>2. /\ changes < MaxChanges /\ c \notin In(callbacks) /\ callbacks' = Append(callbacks, c)
      /\ changes' = changes + 1 /\ UNCHANGED <<level, notifier, pos, status, due, told>>
  BY <1>1, OverwatchRange DEF Throttle!RegisterCallback, Throttle!Registered
<1>3. /\ changes \in Nat /\ MaxChanges \in Nat /\ changes \in 0..MaxChanges
      /\ notifier \in [Tasks -> {"idle", "notify", "await", "end"}]
      /\ due \in [Tasks -> SUBSET Callbacks] /\ pos \in [Tasks -> Nat \ {0}]
      /\ told \in [Tasks -> Seq(Callbacks)]
  BY <1>1, ServiceConstants DEF Throttle!TypeOK
<1>4. callbacks' \in Seq(Callbacks) /\ In(callbacks') = In(callbacks) \cup {c} /\ Once(callbacks')
  BY <1>1, <1>2, AppendedIn, Zenon
<1>5. Throttle!TypeOK'
  <2>1. changes' \in 0..MaxChanges
    BY <1>2, <1>3
  <2> QED BY <1>1, <1>2, <1>4, <2>1 DEF Throttle!TypeOK
<1>6. ASSUME NEW t \in Tasks PROVE Walking(t)' /\ Fresh(t)' /\ OnceEach(t)' /\ FewMissed(t)'
  <2>1. Fresh(t)' /\ OnceEach(t)'
    BY <1>1, <1>2 DEF Fresh, OnceEach
  <2>2. due[t] \in SUBSET Callbacks /\ pos[t] \in Nat \ {0}
    BY <1>3
  <2>3. FewMissed(t)'
    <3>1. due[t] \ In(told[t]) \in SUBSET Callbacks
      BY <2>2
    <3>2. Cardinality(due[t] \ In(told[t])) \in Nat
      BY <3>1, CallbackCounts
    <3>3. FewMissed(t)
      BY <1>1
    <3> QED BY <1>2, <1>3, <3>2, <3>3 DEF FewMissed
  <2>4. Walking(t)'
    <3> SUFFICES ASSUME notifier[t] \in {"notify", "await"} PROVE Walking(t)'
      BY <1>2 DEF Walking
    <3> DEFINE n == Walked(t)
               A == (Visited(callbacks', n) \cap due[t]) \ In(told[t])
               B == (Visited(callbacks, n) \cap due[t]) \ In(told[t])
    <3>1. /\ due[t] \subseteq In(callbacks) /\ In(told[t]) \cap due[t] \subseteq Visited(callbacks, n)
          /\ Cardinality(B) <= changes
      BY <1>1 DEF Walking
    <3>2. Walked(t)' = n /\ n \in Nat
      BY <1>2, <2>2 DEF Walked
    <3>3. /\ Visited(callbacks, n) \subseteq Visited(callbacks', n)
          /\ Visited(callbacks', n) \subseteq Visited(callbacks, n) \cup {c}
      <4>1. \A s \in Seq(Callbacks), m \in Nat :
              /\ Visited(s, m) \subseteq Visited(Append(s, c), m)
              /\ Visited(Append(s, c), m) \subseteq Visited(s, m) \cup {c}
        BY VisitedAppended
      <4> QED BY <1>1, <1>2, <3>2, <4>1
    <3> HIDE DEF n
    <3>4. A \subseteq B /\ A \in SUBSET Callbacks /\ B \in SUBSET Callbacks
      BY <1>2, <2>2, <3>1, <3>3
    <3>5. Cardinality(A) <= Cardinality(B) /\ Cardinality(A) \in Nat /\ Cardinality(B) \in Nat
      BY <3>4, CallbackCounts
    <3>6. Cardinality(A) <= changes'
      BY <1>2, <1>3, <3>1, <3>5
    <3>7. /\ due[t] \subseteq In(callbacks')
          /\ In(told[t]) \cap due[t] \subseteq Visited(callbacks', n)
      BY <1>4, <3>1, <3>3
    <3> QED BY <1>2, <3>2, <3>6, <3>7 DEF Walking
  <2> QED BY <2>1, <2>3, <2>4
<1> QED BY <1>4, <1>5, <1>6 DEF OverwatchIInv

\* Whoever leaves is due no more, and draws one other over a position.
LEMMA OverwatchUnregister ==
  ASSUME OverwatchIInv, NEW c \in Callbacks, Throttle!UnregisterCallback(c)
  PROVE  OverwatchIInv'
<1>1. Throttle!TypeOK /\ Once(callbacks) /\ callbacks \in Seq(Callbacks)
      /\ \A t \in Tasks : Walking(t) /\ Fresh(t) /\ OnceEach(t) /\ FewMissed(t)
  BY DEF OverwatchIInv, Throttle!TypeOK
<1>2. PICK k \in 1..Len(callbacks) :
        callbacks[k] = c /\ callbacks' = Throttle!RemoveAt(callbacks, k)
  BY DEF Throttle!UnregisterCallback
<1>3. /\ changes < MaxChanges /\ changes' = changes + 1 /\ due' = [t \in Tasks |-> due[t] \ {c}]
      /\ UNCHANGED <<level, notifier, pos, status, told>>
  BY DEF Throttle!UnregisterCallback
<1>4. /\ changes \in Nat /\ MaxChanges \in Nat /\ changes \in 0..MaxChanges
      /\ notifier \in [Tasks -> {"idle", "notify", "await", "end"}]
      /\ due \in [Tasks -> SUBSET Callbacks] /\ pos \in [Tasks -> Nat \ {0}]
      /\ told \in [Tasks -> Seq(Callbacks)]
  BY <1>1, ServiceConstants DEF Throttle!TypeOK
<1>5. callbacks' \in Seq(Callbacks) /\ In(callbacks') = In(callbacks) \ {c} /\ Once(callbacks')
      /\ \A n \in Nat : /\ Visited(callbacks, n) \ {c} \subseteq Visited(callbacks', n)
                        /\ Visited(callbacks', n) \subseteq Visited(callbacks, n) \cup {callbacks[n + 1]}
  BY <1>1, <1>2, VisitedRemoved
<1>6. Throttle!TypeOK'
  <2>1. changes' \in 0..MaxChanges
    BY <1>3, <1>4
  <2>2. due' \in [Tasks -> SUBSET Callbacks]
    BY <1>3, <1>4
  <2> QED BY <1>1, <1>3, <1>5, <2>1, <2>2 DEF Throttle!TypeOK
<1>7. ASSUME NEW t \in Tasks PROVE Walking(t)' /\ Fresh(t)' /\ OnceEach(t)' /\ FewMissed(t)'
  <2>1. due'[t] = due[t] \ {c} /\ due[t] \in SUBSET Callbacks /\ pos[t] \in Nat \ {0}
    BY <1>3, <1>4
  <2>2. Fresh(t)' /\ OnceEach(t)'
    BY <1>1, <1>3, <2>1 DEF Fresh, OnceEach
  <2>3. FewMissed(t)'
    <3> DEFINE A == due'[t] \ In(told[t])
               B == due[t] \ In(told[t])
    <3>1. A \subseteq B /\ A \in SUBSET Callbacks /\ B \in SUBSET Callbacks
      BY <2>1
    <3>2. Cardinality(A) <= Cardinality(B) /\ Cardinality(A) \in Nat /\ Cardinality(B) \in Nat
      BY <3>1, CallbackCounts
    <3>3. FewMissed(t)
      BY <1>1
    <3> QED BY <1>3, <1>4, <3>2, <3>3 DEF FewMissed
  <2>4. Walking(t)'
    <3> SUFFICES ASSUME notifier[t] \in {"notify", "await"} PROVE Walking(t)'
      BY <1>3 DEF Walking
    <3> DEFINE n == Walked(t)
               A == (Visited(callbacks', n) \cap due'[t]) \ In(told[t])
               B == (Visited(callbacks, n) \cap due[t]) \ In(told[t])
    <3>1. /\ due[t] \subseteq In(callbacks) /\ In(told[t]) \cap due[t] \subseteq Visited(callbacks, n)
          /\ Cardinality(B) <= changes
      BY <1>1 DEF Walking
    <3>2. Walked(t)' = n /\ n \in Nat
      BY <1>3, <2>1 DEF Walked
    <3>3. /\ Visited(callbacks, n) \ {c} \subseteq Visited(callbacks', n)
          /\ Visited(callbacks', n) \subseteq Visited(callbacks, n) \cup {callbacks[n + 1]}
      BY <1>5, <3>2
    <3> HIDE DEF n
    <3>4. A \subseteq B \cup {callbacks[n + 1]} /\ A \in SUBSET Callbacks /\ B \in SUBSET Callbacks
      BY <2>1, <3>1, <3>3
    <3>5. Cardinality(A) <= Cardinality(B) + 1 /\ Cardinality(A) \in Nat /\ Cardinality(B) \in Nat
      BY <3>4, CallbackCounts
    <3>6. Cardinality(A) <= changes'
      BY <1>3, <1>4, <3>1, <3>5
    <3>7. /\ due'[t] \subseteq In(callbacks')
          /\ In(told[t]) \cap due'[t] \subseteq Visited(callbacks', n)
      BY <1>5, <2>1, <3>1, <3>3
    <3> QED BY <1>3, <3>2, <3>6, <3>7 DEF Walking
  <2> QED BY <2>2, <2>3, <2>4
<1> QED BY <1>5, <1>6, <1>7 DEF OverwatchIInv

\* Every step of the overwatch.
LEMMA OverwatchPreserved ==
  ASSUME OverwatchIInv, Throttle!Next
  PROVE  OverwatchIInv'
BY OverwatchAcquire, OverwatchNotify, OverwatchGoesOn, OverwatchRegister, OverwatchUnregister
   DEF Throttle!Next

\* Steps of the other services.
LEMMA OverwatchStutter ==
  ASSUME OverwatchIInv, UNCHANGED throttle_vars
  PROVE  OverwatchIInv'
<1>1. \A t \in Tasks : Walked(t)' = Walked(t)
  BY DEF throttle_vars, Walked
<1> QED BY <1>1 DEF throttle_vars, OverwatchIInv, Throttle!TypeOK, Walking, Fresh, OnceEach,
                    FewMissed

\* What the run checks follows.
LEMMA OverwatchProperties ==
  ASSUME OverwatchIInv
  PROVE  Throttle!TypeOK /\ Throttle!ToldOnce /\ Throttle!EveryoneIsTold
<1>1. \A t \in Tasks : Throttle!Range(told[t]) = In(told[t])
  <2>1. \A t \in Tasks : told[t] \in Seq(Callbacks)
    BY DEF OverwatchIInv, Throttle!TypeOK
  <2> QED BY <2>1, OverwatchRange
<1>2. \A t \in Tasks : OnceEach(t) /\ FewMissed(t)
  BY DEF OverwatchIInv
<1>3. Throttle!ToldOnce
  BY <1>2 DEF OnceEach, Throttle!ToldOnce
<1>4. Throttle!EveryoneIsTold
  BY <1>1, <1>2, OverwatchCardinality DEF FewMissed, Throttle!EveryoneIsTold
<1> QED BY <1>3, <1>4 DEF OverwatchIInv

-----------------------------------------------------------------------------
(* The scanner                                                             *)

\* The market has less time left than the window asks for; it never has more again.
Leaving(k) == k * Interval - scanner_now < MinLeft

\* The slugs of a scan are those of its start; a reply has a market the API knows.
SlugsAsked ==
  /\ scanner_pc = "slugs" => scanner_now <= since + MaxBackoff
  /\ scanner_pc \in {"slugs", "listing", "search", "report"} => DOMAIN request = Scan!Slugs(since)
  /\ \A s \in DOMAIN request : request[s] = Scan!Found => s \in Listed

\* Every request for a market the API knows has brought it.
AllAnswered == \A s \in DOMAIN request : s \in Listed => request[s] = Scan!Found

\* Who waits for the fallbacks has seen no market of the window.
NoneInWindow ==
  scanner_pc \in {"listing", "search"} /\ AllAnswered =>
    \A k \in Listed : Leaving(k) \/ k * Interval - since > MaxLeft

\* The result of a scan is judged when it is reported.
FoundInWindow == scanner_pc = "report" => \A k \in markets : Scan!InWindow(k)

\* A market is remembered only after it was reported.
SeenWasReported == \A k \in seen : reported[k] > 0

\* A market is reported once, and once more for each scan that missed it before it was forgotten.
ReportsExplained ==
  \A k \in Listed :
    /\ reported[k] <= 1 + hidden[k]
    /\ k * Interval - scanner_now > MaxLeft => reported[k] = 0
    /\ \/ k \notin seen
       \/ scanner_pc \in {"report", "callback"} /\ k \notin markets
       => Leaving(k) \/ reported[k] <= hidden[k]

\* Inductive.
ScanIInv ==
  /\ Scan!TypeOK /\ SlugsAsked /\ NoneInWindow /\ FoundInWindow /\ SeenWasReported
  /\ ReportsExplained /\ Scan!NothingOverlooked /\ Scan!FoundIsReported

\* The slugs made at a time cover the window as long as the queries take.
LEMMA SlugsCover ==
  ASSUME NEW t \in Nat, NEW u \in Nat, t <= u, u <= t + MaxBackoff,
         NEW k \in Nat, MinLeft <= k * Interval - u, k * Interval - u <= MaxLeft
  PROVE  k \in Scan!Slugs(t)
<1> DEFINE q == t \div Interval
<1>0. /\ Interval \in Nat \ {0} /\ MinLeft \in Nat \ {0} /\ MaxLeft \in Nat /\ MaxBackoff \in Nat
      /\ Ahead \in Nat \ {0} /\ MaxLeft + MaxBackoff <= Ahead * Interval
  BY ScannerConstants
<1>1. q \in Nat /\ q * Interval <= t /\ t < (q + 1) * Interval
  BY <1>0, Quotient
<1> HIDE DEF q
<1>a. k * Interval \in Nat /\ q * Interval \in Nat /\ Ahead * Interval \in Nat
      /\ (q + 1 + Ahead) * Interval = (q + 1) * Interval + Ahead * Interval
      /\ (q + 1) * Interval \in Nat
  BY <1>0, <1>1
<1>2. k > q
  <2> SUFFICES ASSUME k <= q PROVE FALSE
    BY <1>1
  <2>1. k * Interval <= q * Interval
    BY <1>0, <1>1, Factors
  <2> QED BY <1>0, <1>1, <1>a, <2>1
<1>3. k < q + 1 + Ahead
  <2> SUFFICES ASSUME q + 1 + Ahead <= k PROVE FALSE
    BY <1>0, <1>1
  <2>1. (q + 1 + Ahead) * Interval <= k * Interval
    BY <1>0, <1>1, Factors
  <2> QED BY <1>0, <1>1, <1>a, <2>1
<1>4. k - q - 1 \in 0..Ahead - 1 /\ k = q + 1 + (k - q - 1)
  BY <1>0, <1>1, <1>2, <1>3
<1> QED BY <1>4 DEF Scan!Slugs, q

\* The numbers of the scanner.
LEMMA ScanNumbers ==
  ASSUME ScanIInv
  PROVE  /\ scanner_now \in Nat /\ since \in Nat /\ since <= scanner_now
         /\ \A k \in Listed : /\ k \in Nat /\ k * Interval \in Nat
                              /\ reported[k] \in Nat /\ hidden[k] \in Nat
         /\ MinLeft \in Nat \ {0} /\ MaxLeft \in Nat /\ MaxBackoff \in Nat
<1>1. \A k \in Nat : k * Interval \in Nat
  BY ScannerConstants
<1> QED BY <1>1, ScannerConstants DEF ScanIInv, Scan!TypeOK

\* No scan has begun.
LEMMA ScanStart == Scan!Init => ScanIInv
<1> SUFFICES ASSUME Scan!Init PROVE ScanIInv
  OBVIOUS
<1>1. Scan!TypeOK
  BY ScannerConstants DEF Scan!Init, Scan!TypeOK, Scan!Phases
<1> QED BY <1>1 DEF Scan!Init, ScanIInv, SlugsAsked, NoneInWindow, FoundInWindow, SeenWasReported,
           ReportsExplained, Scan!NothingOverlooked, Scan!FoundIsReported

\* A scan that finishes with what it found in the window, and loses nothing it was answered.
LEMMA ScanFinishes ==
  ASSUME ScanIInv, NEW found \in SUBSET Listed, Scan!Finish(found),
         scanner_pc \in {"slugs", "listing", "search"},
         \A k \in found : Scan!InWindow(k),
         AllAnswered => \A k \in Listed : Scan!InWindow(k) =>
           k \in found \/ (found = {} /\ k * Interval - since > MaxLeft),
         UNCHANGED <<scanner_now, scanner_running, since, request, seen, scanner_failures, reported>>
  PROVE  ScanIInv'
<1>1. /\ markets' = found /\ scanner_pc' = "report"
      /\ hidden' = [k \in Listed |-> hidden[k] + IF Scan!InWindow(k) /\ k \notin found THEN 1 ELSE 0]
      /\ mode' \in Scan!Phases
  BY DEF Scan!Finish, Scan!update_polling_mode, Scan!get_phase_for_expiry, Scan!Phases,
         ScanIInv, Scan!TypeOK
<1>2. \A k \in Listed : /\ hidden'[k] \in Nat
                        /\ hidden'[k] = hidden[k] \/ hidden'[k] = hidden[k] + 1
                        /\ Scan!InWindow(k) /\ k \notin found => hidden'[k] = hidden[k] + 1
  BY <1>1, ScanNumbers
<1>3. Scan!TypeOK'
  BY <1>1, <1>2 DEF ScanIInv, Scan!TypeOK
<1>4. SlugsAsked' /\ NoneInWindow' /\ Scan!FoundIsReported' /\ SeenWasReported'
  BY <1>1 DEF ScanIInv, SlugsAsked, NoneInWindow, Scan!FoundIsReported, SeenWasReported, Scan!Slugs
<1>5. FoundInWindow' /\ Scan!NothingOverlooked'
  BY <1>1 DEF FoundInWindow, Scan!NothingOverlooked, Scan!InWindow, AllAnswered, Scan!Found
<1>6. ReportsExplained'
  <2> SUFFICES ASSUME NEW k \in Listed
               PROVE  /\ reported[k] <= 1 + hidden'[k]
                      /\ k * Interval - scanner_now > MaxLeft => reported[k] = 0
                      /\ k \notin seen \/ k \notin found =>
                           Leaving(k) \/ reported[k] <= hidden'[k]
    BY <1>1 DEF ReportsExplained, Leaving
  <2>1. /\ reported[k] <= 1 + hidden[k]
        /\ k * Interval - scanner_now > MaxLeft => reported[k] = 0
        /\ k \notin seen => Leaving(k) \/ reported[k] <= hidden[k]
    BY DEF ScanIInv, ReportsExplained
  <2>2. /\ reported[k] \in Nat /\ hidden[k] \in Nat /\ hidden'[k] \in Nat
        /\ hidden'[k] = hidden[k] \/ hidden'[k] = hidden[k] + 1
    BY <1>2, ScanNumbers
  <2>3. CASE k \notin found
    <3>1. CASE Scan!InWindow(k)
      BY <1>2, <2>1, <2>2, <2>3, <3>1
    <3>2. CASE Leaving(k)
      BY <2>1, <2>2, <3>2
    <3>3. CASE k * Interval - scanner_now > MaxLeft
      BY <2>1, <2>2, <3>3
    <3> QED BY <3>1, <3>2, <3>3, ScanNumbers DEF Scan!InWindow, Leaving
  <2>4. CASE k \in found
    BY <2>1, <2>2, <2>4
  <2> QED BY <2>3, <2>4
<1> QED BY <1>3, <1>4, <1>5, <1>6 DEF ScanIInv

\* The requests.
LEMMA ScanRequests ==
  ASSUME ScanIInv,
         Scan!StartScan \/ \E s \in DOMAIN request :
           Scan!Answered(s) \/ Scan!Refused(s) \/ Scan!Failed(s)
  PROVE  ScanIInv'
<1>1. CASE Scan!StartScan
  <2>1. /\ scanner_pc = "scan" /\ since' = scanner_now /\ scanner_pc' = "slugs"
        /\ request' = [s \in Scan!Slugs(scanner_now) |-> 0]
        /\ UNCHANGED <<scanner_now, scanner_running, markets, seen, mode, scanner_failures,
                       reported, hidden>>
    BY <1>1 DEF Scan!StartScan
  <2>2. DOMAIN request' = Scan!Slugs(since') /\ \A s \in DOMAIN request' : request'[s] = 0
    BY <2>1
  <2>3. Scan!TypeOK'
    BY <2>1, <2>2, ScanNumbers, ScannerConstants DEF ScanIInv, Scan!TypeOK
  <2>4. SlugsAsked'
    BY <2>1, <2>2, ScanNumbers DEF SlugsAsked, Scan!Found, Scan!Slugs
  <2> QED BY <2>1, <2>3, <2>4 DEF ScanIInv, NoneInWindow, FoundInWindow, SeenWasReported,
        ReportsExplained, Leaving, Scan!NothingOverlooked, Scan!FoundIsReported
<1>2. ASSUME NEW s \in DOMAIN request, Scan!Answered(s) \/ Scan!Refused(s) \/ Scan!Failed(s)
      PROVE  ScanIInv'
  <2>1. /\ scanner_pc = "slugs" /\ s \in Scan!Waiting
        /\ UNCHANGED <<scanner_now, scanner_pc, scanner_running, since, markets, seen, mode,
                       reported, hidden>>
    BY <1>2 DEF Scan!Answered, Scan!Refused, Scan!Failed
  <2>2. request[s] \in 0..MaxRetries - 1
    BY <2>1 DEF Scan!Waiting, ScanIInv, Scan!TypeOK, Scan!Found, Scan!Nothing
  <2>3. PICK v \in {Scan!Found, Scan!Nothing} \cup 0..MaxRetries - 1 :
          request' = [request EXCEPT ![s] = v] /\ (v = Scan!Found => s \in Listed)
    <3> DEFINE V == {Scan!Found, Scan!Nothing} \cup 0..MaxRetries - 1
    <3>1. Scan!Found \in V /\ Scan!Nothing \in V /\ Scan!Nothing # Scan!Found
      BY DEF Scan!Found, Scan!Nothing
    <3>2. \A u \in 0..MaxRetries - 1 : u \in V /\ u # Scan!Found
      BY ScannerConstants DEF Scan!Found
    <3> HIDE DEF V
    <3>3. \E u \in V : request' = [request EXCEPT ![s] = u] /\ (u = Scan!Found => s \in Listed)
      <4>1. CASE Scan!Answered(s) /\ s \in Listed
        <5>1. request' = [request EXCEPT ![s] = Scan!Found]
          BY <4>1 DEF Scan!Answered
        <5> QED BY <3>1, <4>1, <5>1
      <4>2. CASE (Scan!Answered(s) /\ s \notin Listed) \/ Scan!Refused(s)
        <5>1. request' = [request EXCEPT ![s] = Scan!Nothing]
          BY <4>2 DEF Scan!Answered, Scan!Refused
        <5> QED BY <3>1, <5>1
      <4>3. CASE Scan!Failed(s) /\ request[s] = MaxRetries - 1
        <5>1. request' = [request EXCEPT ![s] = Scan!Nothing]
          BY <4>3 DEF Scan!Failed
        <5> QED BY <3>1, <5>1
      <4>4. CASE Scan!Failed(s) /\ request[s] # MaxRetries - 1
        <5>1. request' = [request EXCEPT ![s] = request[s] + 1]
          BY <4>4 DEF Scan!Failed
        <5>2. request[s] + 1 \in 0..MaxRetries - 1
          BY <2>2, <4>4, ScannerConstants
        <5> QED BY <3>2, <5>1, <5>2
      <4> QED BY <1>2, <4>1, <4>2, <4>3, <4>4
    <3> QED BY <3>3 DEF V
  <2>4. scanner_failures' \in 0..MaxFailures
    BY <1>2, ScannerConstants
       DEF Scan!Answered, Scan!Refused, Scan!Failed, ScanIInv, Scan!TypeOK
  <2>5. DOMAIN request' = DOMAIN request /\ request'[s] = v
        /\ \A r \in DOMAIN request \ {s} : request'[r] = request[r]
    BY <2>3
  <2>6. Scan!TypeOK'
    BY <2>1, <2>4, <2>5 DEF ScanIInv, Scan!TypeOK
  <2>7. SlugsAsked'
    BY <2>1, <2>3, <2>5 DEF ScanIInv, SlugsAsked, Scan!Slugs, Scan!Found
  <2> QED BY <2>1, <2>6, <2>7 DEF ScanIInv, NoneInWindow, FoundInWindow, SeenWasReported,
        ReportsExplained, Leaving, Scan!NothingOverlooked, Scan!FoundIsReported
<1> QED BY <1>1, <1>2

\* The ends of the three ways to find markets.
LEMMA ScanResults ==
  ASSUME ScanIInv,
         Scan!SlugsDone \/ \E some \in {{}, Listed} : Scan!ListingDone(some) \/ Scan!SearchDone(some)
  PROVE  ScanIInv'
<1>0. ASSUME scanner_pc' \in {"listing", "search"},
             scanner_pc \in {"slugs", "listing"},
             AllAnswered => \A k \in Listed : Leaving(k) \/ k * Interval - since > MaxLeft,
             UNCHANGED <<scanner_now, scanner_running, since, request, seen, scanner_failures,
                         reported, markets, hidden, mode>>
      PROVE  ScanIInv'
  <2>1. Scan!TypeOK'
    BY <1>0 DEF ScanIInv, Scan!TypeOK
  <2>2. SlugsAsked'
    BY <1>0 DEF ScanIInv, SlugsAsked, Scan!Slugs
  <2>3. NoneInWindow'
    BY <1>0 DEF NoneInWindow, AllAnswered, Leaving
  <2>4. ReportsExplained'
    BY <1>0 DEF ScanIInv, ReportsExplained, Leaving
  <2>5. SeenWasReported' /\ FoundInWindow' /\ Scan!NothingOverlooked' /\ Scan!FoundIsReported'
    BY <1>0 DEF ScanIInv, SeenWasReported, FoundInWindow, Scan!NothingOverlooked,
                Scan!FoundIsReported
  <2> QED BY <2>1, <2>2, <2>3, <2>4, <2>5 DEF ScanIInv
<1>1. CASE Scan!SlugsDone
  <2> DEFINE found == {k \in Scan!Replies : Scan!InWindow(k)}
  <2>1. /\ scanner_pc = "slugs"
        /\ UNCHANGED <<scanner_now, scanner_running, since, request, seen, scanner_failures,
                       reported>>
        /\ \/ found # {} /\ Scan!Finish(found)
           \/ /\ found = {} /\ scanner_pc' \in {"listing", "search"}
              /\ UNCHANGED <<markets, hidden, mode>>
    BY <1>1 DEF Scan!SlugsDone
  <2>2. found \in SUBSET Listed
    BY DEF Scan!Replies, ScanIInv, SlugsAsked
  <2>3. ASSUME AllAnswered, NEW k \in Listed, Scan!InWindow(k)
        PROVE  k \in found
    <3>1. /\ scanner_now <= since + MaxBackoff /\ DOMAIN request = Scan!Slugs(since)
      BY <2>1 DEF ScanIInv, SlugsAsked
    <3>2. MinLeft <= k * Interval - scanner_now /\ k * Interval - scanner_now <= MaxLeft
      BY <2>3 DEF Scan!InWindow
    <3>3. k \in Scan!Slugs(since)
      BY <3>1, <3>2, SlugsCover, ScanNumbers
    <3> QED BY <2>3, <3>1, <3>3 DEF AllAnswered, Scan!Replies
  <2>4. CASE found # {} /\ Scan!Finish(found)
    BY <2>1, <2>2, <2>3, <2>4, ScanFinishes
  <2>5. CASE found = {}
    <3>1. AllAnswered => \A k \in Listed : Leaving(k) \/ k * Interval - since > MaxLeft
      <4> SUFFICES ASSUME AllAnswered, NEW k \in Listed, ~Leaving(k)
                   PROVE  k * Interval - since > MaxLeft
        OBVIOUS
      <4>1. ~Scan!InWindow(k)
        BY <2>3, <2>5
      <4> QED BY <4>1, ScanNumbers DEF Scan!InWindow, Leaving
    <3> QED BY <1>0, <2>1, <2>5, <3>1
  <2> QED BY <2>1, <2>4, <2>5
<1>2. ASSUME NEW some \in {{}, Listed}, scanner_pc \in {"listing", "search"},
             Scan!Finish({k \in some : Scan!InWindow(k)}),
             UNCHANGED <<scanner_now, scanner_running, since, request, seen, scanner_failures,
                         reported>>
      PROVE  ScanIInv'
  <2> DEFINE found == {k \in some : Scan!InWindow(k)}
  <2>1. found \in SUBSET Listed /\ \A k \in found : Scan!InWindow(k)
    OBVIOUS
  <2>2. ASSUME AllAnswered, NEW k \in Listed, Scan!InWindow(k), k \notin found
        PROVE  found = {} /\ k * Interval - since > MaxLeft
    <3>1. some = {}
      BY <2>2
    <3>2. ~Leaving(k)
      BY <2>2, ScanNumbers DEF Scan!InWindow, Leaving
    <3>3. Leaving(k) \/ k * Interval - since > MaxLeft
      BY <1>2, <2>2 DEF ScanIInv, NoneInWindow
    <3> QED BY <3>1, <3>2, <3>3
  <2>3. Scan!Finish(found)
    BY <1>2
  <2> HIDE DEF found
  <2> QED BY <1>2, <2>1, <2>2, <2>3, ScanFinishes
<1>3. ASSUME NEW some \in {{}, Listed}, Scan!ListingDone(some) \/ Scan!SearchDone(some)
      PROVE  ScanIInv'
  <2>1. /\ scanner_pc \in {"listing", "search"}
        /\ UNCHANGED <<scanner_now, scanner_running, since, request, seen, scanner_failures,
                       reported>>
        /\ \/ Scan!Finish({k \in some : Scan!InWindow(k)})
           \/ /\ scanner_pc = "listing" /\ scanner_pc' = "search"
              /\ UNCHANGED <<markets, hidden, mode>>
    BY <1>3 DEF Scan!ListingDone, Scan!SearchDone
  <2>2. CASE Scan!Finish({k \in some : Scan!InWindow(k)})
    BY <1>2, <2>1, <2>2
  <2>3. CASE scanner_pc = "listing" /\ scanner_pc' = "search" /\ UNCHANGED <<markets, hidden, mode>>
    <3>1. AllAnswered => \A k \in Listed : Leaving(k) \/ k * Interval - since > MaxLeft
      BY <2>3 DEF ScanIInv, NoneInWindow
    <3> QED BY <1>0, <2>1, <2>3, <3>1
  <2> QED BY <2>1, <2>2, <2>3
<1> QED BY <1>1, <1>3

\* New markets are reported, and old ones forgotten.
LEMMA ScanReports ==
  ASSUME ScanIInv, Scan!Report \/ Scan!CallbackReturns \/ Scan!CallbackRaises
  PROVE  ScanIInv'
<1>0. \A k \in Listed :
        /\ reported[k] \in Nat /\ hidden[k] \in Nat
        /\ reported[k] <= 1 + hidden[k]
        /\ k * Interval - scanner_now > MaxLeft => reported[k] = 0
        /\ k \notin seen => Leaving(k) \/ reported[k] <= hidden[k]
        /\ scanner_pc \in {"report", "callback"} /\ k \notin markets =>
             Leaving(k) \/ reported[k] <= hidden[k]
  BY ScanNumbers DEF ScanIInv, ReportsExplained
<1>1. ASSUME scanner_pc \in {"report", "callback"}, scanner_pc' = "sleep",
             seen' = seen \cap markets \/ seen' = seen,
             scanner_failures' \in 0..MaxFailures,
             \A k \in markets : reported[k] > 0,
             UNCHANGED <<scanner_now, scanner_running, since, request, markets, mode, reported, hidden>>
      PROVE  ScanIInv'
  <2>1. Scan!TypeOK'
    BY <1>1 DEF ScanIInv, Scan!TypeOK
  <2>2. SeenWasReported' /\ Scan!FoundIsReported'
    BY <1>1 DEF ScanIInv, SeenWasReported, Scan!FoundIsReported
  <2>3. ReportsExplained'
    BY <1>0, <1>1 DEF ReportsExplained, Leaving
  <2> QED BY <1>1, <2>1, <2>2, <2>3 DEF ScanIInv, SlugsAsked, NoneInWindow, FoundInWindow,
        Scan!NothingOverlooked
<1>2. CASE Scan!Report
  <2> DEFINE new == markets \ seen
  <2>1. /\ scanner_pc = "report"
        /\ UNCHANGED <<scanner_now, scanner_running, since, request, markets, mode,
                       scanner_failures, hidden>>
        /\ markets \subseteq Listed /\ seen \subseteq Listed
        /\ scanner_failures \in 0..MaxFailures
    BY <1>2 DEF Scan!Report, ScanIInv, Scan!TypeOK
  <2>2. CASE new = {}
    <3>1. seen' = seen \cap markets /\ scanner_pc' = "sleep" /\ reported' = reported
      BY <1>2, <2>2 DEF Scan!Report, Scan!Forgotten
    <3>2. \A k \in markets : reported[k] > 0
      BY <2>2 DEF ScanIInv, SeenWasReported
    <3> QED BY <1>1, <2>1, <3>1, <3>2
  <2>3. CASE new # {}
    <3>1. /\ seen' = seen \cup new /\ scanner_pc' = "callback"
          /\ reported' = [k \in Listed |-> reported[k] + IF k \in new THEN 1 ELSE 0]
      BY <1>2, <2>3 DEF Scan!Report
    <3>2. \A k \in Listed : /\ reported'[k] \in Nat
                            /\ k \in new => reported'[k] = reported[k] + 1
                            /\ k \notin new => reported'[k] = reported[k]
      BY <1>0, <3>1
    <3>3. Scan!TypeOK'
      BY <2>1, <3>1, <3>2 DEF ScanIInv, Scan!TypeOK
    <3>4. SeenWasReported'
      <4> SUFFICES ASSUME NEW k \in seen' PROVE reported'[k] > 0
        BY DEF SeenWasReported
      <4>1. CASE k \in new
        BY <1>0, <2>1, <3>2, <4>1
      <4>2. CASE k \notin new
        BY <2>1, <3>1, <3>2, <4>2 DEF ScanIInv, SeenWasReported
      <4> QED BY <4>1, <4>2
    <3>5. Scan!FoundIsReported'
      BY <2>1, <3>1, <3>4 DEF Scan!FoundIsReported, SeenWasReported
    <3>6. ReportsExplained'
      <4> SUFFICES ASSUME NEW k \in Listed
                   PROVE  /\ reported'[k] <= 1 + hidden[k]
                          /\ k * Interval - scanner_now > MaxLeft => reported'[k] = 0
                          /\ k \notin seen' \/ k \notin markets =>
                               Leaving(k) \/ reported'[k] <= hidden[k]
        BY <2>1, <3>1 DEF ReportsExplained, Leaving
      <4>1. CASE k \in new
        <5>1. Scan!InWindow(k)
          BY <2>1, <4>1 DEF ScanIInv, FoundInWindow
        <5>2. ~Leaving(k) /\ ~(k * Interval - scanner_now > MaxLeft)
          BY <5>1, ScanNumbers DEF Scan!InWindow, Leaving
        <5>3. k \in seen' /\ k \in markets /\ k \notin seen
          BY <3>1, <4>1
        <5> QED BY <1>0, <3>2, <4>1, <5>2, <5>3
      <4>2. CASE k \notin new
        BY <1>0, <2>1, <3>1, <3>2, <4>2
      <4> QED BY <4>1, <4>2
    <3> QED BY <2>1, <3>1, <3>3, <3>4, <3>5, <3>6 DEF ScanIInv, SlugsAsked, NoneInWindow,
          FoundInWindow, Scan!NothingOverlooked
  <2> QED BY <2>2, <2>3
<1>3. CASE Scan!CallbackReturns \/ Scan!CallbackRaises
  <2>1. /\ scanner_pc = "callback" /\ scanner_pc' = "sleep"
        /\ seen' = seen \cap markets \/ seen' = seen
        /\ UNCHANGED <<scanner_now, scanner_running, since, request, markets, mode, reported, hidden>>
    BY <1>3 DEF Scan!CallbackReturns, Scan!CallbackRaises, Scan!Forgotten
  <2>2. scanner_failures' \in 0..MaxFailures
    BY <1>3, ScannerConstants
       DEF Scan!CallbackReturns, Scan!CallbackRaises, ScanIInv, Scan!TypeOK
  <2>3. \A k \in markets : reported[k] > 0
    BY <2>1 DEF ScanIInv, Scan!FoundIsReported
  <2> QED BY <1>1, <2>1, <2>2, <2>3
<1> QED BY <1>2, <1>3

\* The loop goes on, is stopped, or waits.
LEMMA ScanGoesOn ==
  ASSUME ScanIInv, Scan!WakeUp \/ Scan!Stop \/ Scan!Tick
  PROVE  ScanIInv'
<1>1. CASE Scan!WakeUp
  <2>1. /\ scanner_pc = "sleep" /\ scanner_pc' \in {"scan", "closed"} /\ request' = << >>
        /\ UNCHANGED <<scanner_now, scanner_running, since, markets, seen, mode, scanner_failures,
                       reported, hidden>>
    BY <1>1 DEF Scan!WakeUp
  <2>2. Scan!TypeOK'
    BY <2>1 DEF ScanIInv, Scan!TypeOK
  <2> QED BY <2>1, <2>2 DEF ScanIInv, SlugsAsked, NoneInWindow, FoundInWindow, SeenWasReported,
        ReportsExplained, Leaving, Scan!NothingOverlooked, Scan!FoundIsReported
<1>2. CASE Scan!Stop
  <2>1. /\ scanner_running' = FALSE
        /\ UNCHANGED <<scanner_now, scanner_pc, since, request, markets, seen, mode,
                       scanner_failures, reported, hidden>>
    BY <1>2 DEF Scan!Stop
  <2>2. Scan!TypeOK'
    BY <2>1 DEF ScanIInv, Scan!TypeOK
  <2> QED BY <2>1, <2>2 DEF ScanIInv, SlugsAsked, Scan!Slugs, NoneInWindow, AllAnswered,
        FoundInWindow, Scan!InWindow, SeenWasReported, ReportsExplained, Leaving,
        Scan!NothingOverlooked, Scan!FoundIsReported
<1>3. CASE Scan!Tick
  <2>1. /\ scanner_now < MaxNow /\ scanner_now' = scanner_now + 1
        /\ scanner_pc = "slugs" => scanner_now < since + MaxBackoff
        /\ scanner_pc \in {"slugs", "listing", "search", "callback", "sleep"}
        /\ UNCHANGED <<scanner_pc, scanner_running, since, request, markets, seen, mode,
                       scanner_failures, reported, hidden>>
    BY <1>3 DEF Scan!Tick
  <2>2. Scan!TypeOK'
    BY <2>1, ScanNumbers, ScannerConstants DEF ScanIInv, Scan!TypeOK
  <2>3. \A k \in Listed : /\ Leaving(k) => Leaving(k)'
                          /\ k * Interval - scanner_now' > MaxLeft =>
                               k * Interval - scanner_now > MaxLeft
    BY <2>1, ScanNumbers DEF Leaving
  <2>4. SlugsAsked'
    BY <2>1, ScanNumbers DEF ScanIInv, SlugsAsked, Scan!Slugs
  <2>5. NoneInWindow'
    BY <2>1, <2>3 DEF ScanIInv, NoneInWindow, AllAnswered
  <2>6. ReportsExplained'
    BY <2>1, <2>3 DEF ScanIInv, ReportsExplained
  <2> QED BY <2>1, <2>2, <2>4, <2>5, <2>6 DEF ScanIInv, FoundInWindow, SeenWasReported,
        Scan!NothingOverlooked, Scan!FoundIsReported
<1> QED BY <1>1, <1>2, <1>3

\* Every step of the scanner.
LEMMA ScanPreserved == ScanIInv /\ Scan!Next => ScanIInv'
BY ScanRequests, ScanResults, ScanReports, ScanGoesOn DEF Scan!Next

\* A step of another service.
LEMMA ScanStutter == ScanIInv /\ UNCHANGED scanner_vars => ScanIInv'
BY DEF scanner_vars, ScanIInv, Scan!TypeOK, SlugsAsked, Scan!Slugs, NoneInWindow, AllAnswered,
       FoundInWindow, Scan!InWindow, SeenWasReported, ReportsExplained, Leaving,
       Scan!NothingOverlooked, Scan!FoundIsReported

\* The properties of the run.
LEMMA ScanProperties ==
  ASSUME ScanIInv
  PROVE  /\ Scan!TypeOK
         /\ Scan!NothingOverlooked /\ Scan!ReportedOnce /\ Scan!FoundIsReported
BY DEF ScanIInv, ReportsExplained, Scan!ReportedOnce

-----------------------------------------------------------------------------
(* The configuration reloader                                              *)

\* Inductive: the history is a sequence of changes, what the file holds in full it has held, and
\* every scheduled reload had its signal.
ReloadIInv ==
  /\ Reloader!TypeOK /\ Reloader!HistoryExplains /\ Reloader!OneVersion
  /\ config_history \in Seq(Keys \X Values)
  /\ file # Reloader!Garbled => file \in sources
  /\ config_signals \in Nat /\ config_signals <= MaxReloads /\ scheduled <= config_signals

\* The last change of the key in a history gave it that value.
LastSays(h, k, v) ==
  \E i \in DOMAIN h : h[i] = <<k, v>> /\ \A j \in DOMAIN h : j > i => h[j][1] # k

\* The last change of a key in a history is the last one after more changes of other keys, and
\* after changes that end with the same value it is one of them.
LEMMA HistoryGrows ==
  ASSUME NEW h \in Seq(Keys \X Values), NEW d \in Seq(Keys \X Values), NEW k, NEW v,
         \A i \in 1..Len(d) : d[i][1] = k => d[i] = <<k, v>>,
         (\E i \in 1..Len(d) : d[i][1] = k) \/ LastSays(h, k, v)
  PROVE  LastSays(h \o d, k, v)
<1> DEFINE n == Len(h)
           m == Len(d)
           g == h \o d
<1>1. /\ n \in Nat /\ m \in Nat /\ DOMAIN g = 1..(n + m)
      /\ \A j \in 1..(n + m) : g[j] = IF j <= n THEN h[j] ELSE d[j - n]
  BY Joined
<1> SUFFICES LastSays(g, k, v)
  OBVIOUS
<1> HIDE DEF g, n, m
<1>2. CASE \E i \in 1..m : d[i][1] = k
  <2> DEFINE T == {i \in 1..m : d[i][1] = k}
  <2>1. T \in SUBSET Nat /\ IsFiniteSet(T) /\ T # {}
    <3>1. \A a, b \in Int : IsFiniteSet(a..b)
      BY FS_Interval
    <3>2. 1 \in Int /\ m \in Int
      BY <1>1
    <3>3. IsFiniteSet(1..m)
      BY <3>1, <3>2, Zenon
    <3>4. T \in SUBSET (1..m) /\ \A i \in T : i \in 1..m
      OBVIOUS
    <3>5. T # {}
      BY <1>2
    <3> HIDE DEF T
    <3>6. T \in SUBSET Nat
      BY <1>1, <3>4
    <3>7. IsFiniteSet(T)
      BY <3>3, <3>4, FS_Subset, Zenon
    <3> QED BY <3>5, <3>6, <3>7
  <2>2. PICK i \in T : \A j \in T : j <= i
    BY <2>1, MaxIn
  <2>3. i \in 1..m /\ d[i] = <<k, v>> /\ \A j \in 1..m : j > i => d[j][1] # k
    BY <1>1, <2>2 DEF m
  <2>4. n + i \in 1..(n + m) /\ ~(n + i <= n) /\ (n + i) - n = i
    BY <1>1, <2>3
  <2>6. g[n + i] = <<k, v>>
    BY <1>1, <2>3, <2>4
  <2>5. ASSUME NEW j \in 1..(n + m), j > n + i PROVE g[j][1] # k
    <3>1. j - n \in 1..m /\ j - n > i /\ g[j] = d[j - n]
      BY <1>1, <2>3, <2>5
    <3> QED BY <2>3, <3>1
  <2> QED BY <1>1, <2>4, <2>5, <2>6 DEF LastSays
<1>3. CASE \A i \in 1..m : d[i][1] # k
  <2>1. PICK i \in 1..n : h[i] = <<k, v>> /\ \A j \in 1..n : j > i => h[j][1] # k
    <3>1. LastSays(h, k, v)
      BY <1>3 DEF m
    <3>2. DOMAIN h = 1..n
      BY DEF n
    <3> QED BY <3>1, <3>2 DEF LastSays
  <2>2. i \in 1..(n + m) /\ g[i] = <<k, v>>
    BY <1>1, <2>1
  <2>3. ASSUME NEW j \in 1..(n + m), j > i PROVE g[j][1] # k
    <3>1. CASE j <= n
      BY <1>1, <2>1, <2>3, <3>1
    <3>2. CASE ~(j <= n)
      <4>1. j - n \in 1..m /\ g[j] = d[j - n]
        BY <1>1, <3>2
      <4> QED BY <1>3, <4>1
    <3> QED BY <3>1, <3>2
  <2> QED BY <1>1, <2>2, <2>3 DEF LastSays
<1> QED BY <1>2, <1>3

\* The instance has an operator of its own for this.
LEMMA ReloaderCardinality ==
  ASSUME NEW S
  PROVE  Reloader!Cardinality(S) = Cardinality(S)
BY DEF Reloader!Cardinality, Cardinality

\* Nothing has changed yet.
LEMMA ReloadStart == Reloader!Init => ReloadIInv
<1> SUFFICES ASSUME Reloader!Init PROVE ReloadIInv
  OBVIOUS
<1>0. Reloader!Empty \in Reloader!Configs
  BY DEF Reloader!Empty, Reloader!Configs
<1>1. Reloader!TypeOK
  <2>1. /\ file \in Reloader!Configs /\ config \in Reloader!Configs
        /\ editing = FALSE /\ saving = FALSE /\ sighup = FALSE
        /\ config_history = << >> /\ scheduled = 0
    BY <1>0 DEF Reloader!Init
  <2>2. 0 \in 0..MaxReloads /\ \A i \in DOMAIN config_history : config_history[i] \in Keys \X Values
    BY <2>1, FileConstants
  <2> QED BY <2>1, <2>2 DEF Reloader!TypeOK
<1>2. Reloader!HistoryExplains /\ Reloader!OneVersion
  BY DEF Reloader!Init, Reloader!HistoryExplains, Reloader!OneVersion, Reloader!Empty
<1> QED BY <1>1, <1>2, FileConstants DEF Reloader!Init, ReloadIInv

\* A reload applies a configuration the file has held, or none.
LEMMA ReloadApplies ==
  ASSUME ReloadIInv, Reloader!Reload,
         UNCHANGED <<file, sources>>
  PROVE  /\ config' \in Reloader!Configs /\ config_history' \in Seq(Keys \X Values)
         /\ Reloader!HistoryExplains' /\ Reloader!OneVersion'
<1>1. CASE UNCHANGED <<config, config_history, byhand>>
  BY <1>1 DEF ReloadIInv, Reloader!TypeOK, Reloader!HistoryExplains, Reloader!OneVersion,
              Reloader!Empty
<1>2. CASE file \notin {Reloader!Garbled, Reloader!Empty} /\ Reloader!ApplyConfig(file)
  <2> DEFINE changed == {k \in Keys : file[k] # Absent /\ Reloader!Differs(file, k)}
             n == Reloader!Cardinality(changed)
  <2>1. file \in Reloader!Configs /\ file \in sources
    BY <1>2 DEF ReloadIInv, Reloader!TypeOK
  <2>2. n \in Nat
    <3>1. changed \in SUBSET Keys /\ IsFiniteSet(Keys)
      BY FileConstants
    <3> HIDE DEF changed
    <3>2. IsFiniteSet(changed)
      BY <3>1, FS_Subset
    <3> QED BY <3>2, FS_CardinalityType, ReloaderCardinality
  <2>3. PICK order \in [1..n -> changed] :
          /\ \A k \in changed : \E i \in DOMAIN order : order[i] = k
          /\ config_history' = config_history \o [i \in DOMAIN order |-> <<order[i], file[order[i]]>>]
    BY <1>2 DEF Reloader!ApplyConfig
  <2> DEFINE d == [i \in DOMAIN order |-> <<order[i], file[order[i]]>>]
  <2>4. config' = file /\ byhand' = {}
    BY <1>2 DEF Reloader!ApplyConfig
  <2>5. \A k \in changed : k \in Keys /\ file[k] \in Values
    BY <2>1 DEF Reloader!Configs
  <2>6. /\ d \in Seq(Keys \X Values) /\ Len(d) = n
        /\ \A i \in 1..n : order[i] \in changed /\ d[i] = <<order[i], file[order[i]]>>
    <3>1. /\ d = [i \in 1..n |-> <<order[i], file[order[i]]>>]
          /\ \A i \in 1..n : order[i] \in changed
      OBVIOUS
    <3>2. \A i \in 1..n : d[i] = <<order[i], file[order[i]]>> /\ d[i] \in Keys \X Values
      BY <2>5, <3>1
    <3> HIDE DEF d, n, changed
    <3>3. d \in [1..n -> Keys \X Values]
      BY <3>1, <3>2
    <3> QED BY <2>2, <3>1, <3>2, <3>3
  <2>7. config_history' = config_history \o d /\ config_history \in Seq(Keys \X Values)
    BY <2>3 DEF ReloadIInv
  <2>8. ASSUME NEW k \in Keys, file[k] # Absent
        PROVE  LastSays(config_history \o d, k, file[k])
    <3>1. \A i \in 1..Len(d) : d[i][1] = k => d[i] = <<k, file[k]>>
      BY <2>6
    <3>2. CASE k \in changed
      <4>1. \E i \in 1..Len(d) : d[i][1] = k
        <5>1. PICK i \in 1..n : order[i] = k
          BY <2>3, <3>2
        <5> QED BY <2>6, <5>1
      <4> HIDE DEF d, changed, n
      <4>2. d \in Seq(Keys \X Values) /\ config_history \in Seq(Keys \X Values)
        BY <2>6, <2>7
      <4> QED BY <3>1, <4>1, <4>2, HistoryGrows
    <3>3. CASE k \notin changed
      <4>1. config[k] = file[k]
        BY <2>8, <3>3 DEF Reloader!Differs
      <4>2. LastSays(config_history, k, file[k])
        BY <2>8, <4>1 DEF ReloadIInv, Reloader!HistoryExplains, LastSays
      <4>3. d \in Seq(Keys \X Values) /\ config_history \in Seq(Keys \X Values)
        BY <2>6, <2>7
      <4> HIDE DEF d, changed, n
      <4> QED BY <3>1, <4>2, <4>3, HistoryGrows
    <3> QED BY <3>2, <3>3
  <2>9. config_history \o d \in Seq(Keys \X Values)
    <3> HIDE DEF d
    <3> QED BY <2>6, <2>7, Joined
  <2>10. Reloader!HistoryExplains'
    BY <2>4, <2>7, <2>8 DEF Reloader!HistoryExplains, LastSays
  <2>11. Reloader!OneVersion'
    BY <2>1, <2>4 DEF Reloader!OneVersion
  <2> QED BY <2>1, <2>4, <2>7, <2>9, <2>10, <2>11
<1> QED BY <1>1, <1>2 DEF Reloader!Reload

\* Every step of the reloader and of those who write its file.
LEMMA ReloadPreserved == ReloadIInv /\ Reloader!Next => ReloadIInv'
<1> SUFFICES ASSUME ReloadIInv, Reloader!Next PROVE ReloadIInv'
  OBVIOUS
<1>0. MaxReloads \in Nat /\ scheduled \in 0..MaxReloads /\ config_signals \in Nat
      /\ config \in Reloader!Configs /\ file \in Reloader!Configs \cup {Reloader!Garbled}
      /\ editing \in BOOLEAN /\ saving \in BOOLEAN /\ sighup \in BOOLEAN
  BY FileConstants DEF ReloadIInv, Reloader!TypeOK
<1>1. ASSUME UNCHANGED <<config, config_history, byhand, sources>>,
             file' \in {file, Reloader!Garbled},
             editing' \in BOOLEAN, saving' \in BOOLEAN, sighup' \in BOOLEAN,
             config_signals' \in Nat, config_signals' <= MaxReloads,
             scheduled' \in Nat, scheduled' <= config_signals'
      PROVE  ReloadIInv'
  <2>1. Reloader!TypeOK'
    BY <1>0, <1>1 DEF ReloadIInv, Reloader!TypeOK, Reloader!Configs, Reloader!Garbled
  <2>2. Reloader!HistoryExplains' /\ Reloader!OneVersion'
    BY <1>1 DEF ReloadIInv, Reloader!HistoryExplains, Reloader!OneVersion, Reloader!Empty
  <2> QED BY <1>1, <2>1, <2>2 DEF ReloadIInv, Reloader!Garbled
<1>2. ASSUME NEW c \in Reloader!Configs, file' = c, sources' = sources \cup {c},
             UNCHANGED <<config, config_history, byhand, sighup, scheduled, config_signals>>,
             editing' \in BOOLEAN, saving' \in BOOLEAN
      PROVE  ReloadIInv'
  <2>1. Reloader!TypeOK'
    BY <1>0, <1>2 DEF ReloadIInv, Reloader!TypeOK, Reloader!Configs, Reloader!Garbled
  <2>2. Reloader!HistoryExplains'
    BY <1>2 DEF ReloadIInv, Reloader!HistoryExplains
  <2>3. Reloader!OneVersion'
    BY <1>2 DEF ReloadIInv, Reloader!OneVersion, Reloader!Empty
  <2> QED BY <1>2, <2>1, <2>2, <2>3 DEF ReloadIInv
<1>3. ASSUME Reloader!Reload, UNCHANGED <<file, editing, saving, sighup, sources>>,
             config_signals' \in Nat, config_signals' <= MaxReloads,
             scheduled' \in Nat, scheduled' <= config_signals'
      PROVE  ReloadIInv'
  <2>1. /\ config' \in Reloader!Configs /\ config_history' \in Seq(Keys \X Values)
        /\ Reloader!HistoryExplains' /\ Reloader!OneVersion'
    BY <1>3, ReloadApplies
  <2>2. Reloader!TypeOK'
    BY <1>0, <1>3, <2>1 DEF Reloader!TypeOK, Reloader!Configs, Reloader!Garbled
  <2> QED BY <1>3, <2>1, <2>2 DEF ReloadIInv, Reloader!Garbled
<1>s. config_signals <= MaxReloads /\ scheduled <= config_signals /\ scheduled \in Nat
  BY <1>0 DEF ReloadIInv
<1>4. CASE Reloader!EditBegins \/ Reloader!SaveBegins
  <2>1. /\ UNCHANGED <<config, config_history, byhand, sources, sighup, config_signals, scheduled>>
        /\ file' = Reloader!Garbled /\ editing' \in BOOLEAN /\ saving' \in BOOLEAN
    BY <1>0, <1>4 DEF Reloader!EditBegins, Reloader!SaveBegins
  <2> QED BY <1>0, <1>s, <1>1, <2>1
<1>5. ASSUME NEW c \in Reloader!Configs, Reloader!EditEnds(c) PROVE ReloadIInv'
  BY <1>0, <1>2, <1>5 DEF Reloader!EditEnds
<1>6. CASE Reloader!SaveEnds
  <2>1. /\ UNCHANGED <<editing, config, config_history, sighup, scheduled, config_signals, byhand>>
        /\ saving' \in BOOLEAN /\ editing' \in BOOLEAN
        /\ \/ file' = config /\ sources' = sources \cup {config}
           \/ UNCHANGED <<file, sources>>
    BY <1>0, <1>6 DEF Reloader!SaveEnds
  <2>2. CASE file' = config /\ sources' = sources \cup {config}
    BY <1>0, <1>2, <2>1, <2>2
  <2>3. CASE UNCHANGED <<file, sources>>
    BY <1>0, <1>s, <1>1, <2>1, <2>3
  <2> QED BY <2>1, <2>2, <2>3
<1>7. CASE Reloader!StartWatching \/ Reloader!StopWatching \/ Reloader!OnModified
  <2>1. /\ UNCHANGED <<config, config_history, byhand, sources, file, editing, saving,
                       config_signals, scheduled>>
        /\ sighup' \in BOOLEAN
    BY <1>0, <1>7 DEF Reloader!StartWatching, Reloader!StopWatching, Reloader!OnModified
  <2> QED BY <1>0, <1>s, <1>1, <2>1
<1>8. CASE Reloader!Sighup
  BY <1>0, <1>1, <1>8 DEF Reloader!Sighup, ReloadIInv
<1>9. CASE Reloader!ScheduledReload
  BY <1>0, <1>3, <1>9 DEF Reloader!ScheduledReload, ReloadIInv
<1>10. CASE Reloader!ForceReload
  BY <1>0, <1>3, <1>10 DEF Reloader!ForceReload, ReloadIInv
<1>11. ASSUME NEW k \in Keys, NEW v \in Values, Reloader!Set(k, v) PROVE ReloadIInv'
  <2>1. /\ config' = [config EXCEPT ![k] = v] /\ config_history' = Append(config_history, <<k, v>>)
        /\ byhand' = byhand \cup {k}
        /\ UNCHANGED <<file, editing, saving, sighup, scheduled, config_signals, sources>>
    BY <1>11 DEF Reloader!Set
  <2>2. /\ config' \in Reloader!Configs /\ config'[k] = v
        /\ \A l \in Keys \ {k} : config'[l] = config[l]
    BY <1>0, <2>1 DEF Reloader!Configs
  <2>3. config_history \in Seq(Keys \X Values) /\ config_history' \in Seq(Keys \X Values)
    BY <2>1 DEF ReloadIInv
  <2>4. Reloader!TypeOK'
    BY <1>0, <2>1, <2>2, <2>3 DEF Reloader!TypeOK, Reloader!Configs, Reloader!Garbled
  <2>5. Reloader!OneVersion'
    <3>1. PICK s \in sources \cup {Reloader!Empty} : \A l \in Keys \ byhand : config[l] = s[l]
      BY DEF ReloadIInv, Reloader!OneVersion
    <3>2. \A l \in Keys \ byhand' : config'[l] = s[l]
      BY <2>1, <2>2, <3>1
    <3> QED BY <2>1, <3>2 DEF Reloader!OneVersion, Reloader!Empty
  <2>6. Reloader!HistoryExplains'
    <3> SUFFICES ASSUME NEW l \in Keys, config'[l] # Absent
                 PROVE  \E i \in DOMAIN config_history' :
                          /\ config_history'[i] = <<l, config'[l]>>
                          /\ \A j \in DOMAIN config_history' : j > i => config_history'[j][1] # l
      BY DEF Reloader!HistoryExplains
    <3> DEFINE n == Len(config_history)
    <3>1. /\ n \in Nat /\ DOMAIN config_history = 1..n /\ DOMAIN config_history' = 1..(n + 1)
          /\ config_history'[n + 1] = <<k, v>>
          /\ \A i \in 1..n : config_history'[i] = config_history[i]
      BY <2>1, <2>3
    <3> HIDE DEF n
    <3>2. CASE l = k
      <4>1. n + 1 \in 1..(n + 1) /\ \A j \in 1..(n + 1) : ~(j > n + 1)
        BY <3>1
      <4> QED BY <2>2, <3>1, <3>2, <4>1
    <3>3. CASE l # k
      <4>0. config'[l] = config[l]
        BY <2>2, <3>3
      <4>1. PICK i \in 1..n : /\ config_history[i] = <<l, config[l]>>
                              /\ \A j \in 1..n : j > i => config_history[j][1] # l
        <5>1. \E i \in DOMAIN config_history :
                 /\ config_history[i] = <<l, config[l]>>
                 /\ \A j \in DOMAIN config_history : j > i => config_history[j][1] # l
          BY <4>0 DEF ReloadIInv, Reloader!HistoryExplains
        <5> QED BY <3>1, <5>1
      <4>2. i \in 1..(n + 1) /\ \A j \in 1..(n + 1) : j \in 1..n \/ j = n + 1
        BY <3>1
      <4>3. config_history'[n + 1][1] # l
        BY <3>1, <3>3
      <4>4. config_history'[i] = <<l, config'[l]>>
        BY <3>1, <4>0, <4>1
      <4>5. \A j \in 1..(n + 1) : j > i => config_history'[j][1] # l
        BY <3>1, <4>1, <4>2, <4>3
      <4> QED BY <3>1, <4>2, <4>4, <4>5
    <3> QED BY <3>2, <3>3
  <2> QED BY <2>1, <2>3, <2>4, <2>5, <2>6 DEF ReloadIInv, Reloader!Garbled
<1> QED BY <1>4, <1>5, <1>6, <1>7, <1>8, <1>9, <1>10, <1>11 DEF Reloader!Next

\* A step of another service.
LEMMA ReloadStutter == ReloadIInv /\ UNCHANGED config_vars => ReloadIInv'
BY DEF config_vars, ReloadIInv, Reloader!TypeOK, Reloader!Configs, Reloader!Garbled, Reloader!Empty,
       Reloader!HistoryExplains, Reloader!OneVersion

-----------------------------------------------------------------------------
(* The archiver and the error log                                          *)

\* A window of the archive: a chunk that ends in the past.
Window(w) ==
  /\ w = <<w[1], w[2]>> /\ w[1] \in 0..ArchiveTime /\ w[2] = w[1] + Chunk
  /\ w[2] <= archive_now /\ w[1] \div Day \in Archive!Days

\* The ticks in the files
Archived == UNION {files[d] : d \in Archive!Days}

\* While everybody is disciplined, what lies before the end of the last window is in a file, the
\* files of later days are still empty, and only what is in a file was deleted.
LastIsArchived ==
  disciplined /\ last # << >> =>
    /\ \A t \in db \cup deleted : t < last[2] => t \in Archived
    /\ \A t \in deleted : t < last[2]
    /\ \A d \in Archive!Days : d > last[1] \div Day => files[d] = {}

\* Before the first window is archived nothing is in a file, and nothing was deleted.
NothingArchived ==
  last = << >> => /\ \A d \in Archive!Days : files[d] = {}
                  /\ disciplined => deleted = {}

\* The window of the running job meets the last one, or holds all older ticks.
JobMeetsLast ==
  disciplined /\ job # << >> =>
    IF last = << >> THEN \A t \in db : t >= job[1]
    ELSE job[1] <= last[2] /\ job[1] \div Day > last[1] \div Day

\* Inductive.
ArchiveIInv ==
  /\ archive_now \in Keep + Chunk..ArchiveTime /\ db \subseteq 0..archive_now
  /\ deleted \subseteq Nat /\ disciplined \in BOOLEAN
  /\ pool \in {"none", "open"} /\ files \in [Archive!Days -> SUBSET (0..ArchiveTime)]
  /\ job = << >> \/ Window(job)
  /\ last = << >> \/ Window(last)
  /\ LastIsArchived /\ NothingArchived /\ JobMeetsLast

\* What is counted in memory and in the file is what was recorded, unless something was forgotten;
\* a program that starts has counted nothing, and finds a file if errors were recorded.
ErrorsIInv ==
  /\ program \in {"fresh", "up", "writing"} /\ recorded \in Nat /\ forgetful \in BOOLEAN
  /\ error_count \in 0..MaxErrors /\ archive_attempts \in 0..RecoveryAttempts + 1
  /\ \/ state_file \in {<< >>, <<"garbled">>}
     \/ state_file = <<state_file[1], state_file[2]>> /\ state_file[1] \in 0..MaxErrors
        /\ state_file[2] \in 0..RecoveryAttempts + 1
  /\ program = "fresh" => error_count = 0
  /\ state_file = << >> => recorded = 0
  /\ ~forgetful /\ program # "fresh" => error_count = recorded
  /\ ~forgetful /\ program # "writing" =>
       state_file = << >> \/ (state_file # <<"garbled">> /\ state_file[1] = recorded)

\* A later time is on the same day or a later one.
LEMMA DaysGrow ==
  ASSUME NEW a \in Nat, NEW b \in Nat, a <= b
  PROVE  /\ a \div Day \in Nat /\ b \div Day \in Nat /\ a \div Day <= b \div Day
<1>1. Day \in Nat \ {0}
  BY FileConstants
<1>2. /\ a \div Day \in Nat /\ (a \div Day) * Day <= a
      /\ b \div Day \in Nat /\ b < ((b \div Day) + 1) * Day
  BY <1>1, Quotient
<1>3. CASE (b \div Day) + 1 <= a \div Day
  <2>1. ((b \div Day) + 1) * Day <= (a \div Day) * Day
    BY <1>1, <1>2, <1>3, Factors
  <2>2. ((b \div Day) + 1) * Day \in Int /\ (a \div Day) * Day \in Int
    BY <1>1, <1>2
  <2> QED BY <1>2, <1>3, <2>1, <2>2
<1> QED BY <1>2, <1>3

\* The archive begins when one chunk of ticks can be old enough.
LEMMA ArchiveStart == Archive!Init => ArchiveIInv /\ ErrorsIInv
<1> SUFFICES ASSUME Archive!Init PROVE ArchiveIInv /\ ErrorsIInv
  OBVIOUS
<1>1. ArchiveIInv
  BY FileConstants DEF Archive!Init, ArchiveIInv, LastIsArchived, NothingArchived, JobMeetsLast
<1>2. ErrorsIInv
  <2>1. /\ program = "fresh" /\ error_count = 0 /\ archive_attempts = 0 /\ state_file = << >>
        /\ recorded = 0 /\ forgetful = FALSE
    BY DEF Archive!Init
  <2>2. 0 \in 0..MaxErrors /\ 0 \in 0..RecoveryAttempts + 1
    BY FileConstants
  <2>3. state_file \in {<< >>, <<"garbled">>}
    BY <2>1
  <2>4. program \in {"fresh", "up", "writing"} /\ recorded \in Nat /\ forgetful \in BOOLEAN
    BY <2>1
  <2> QED BY <2>1, <2>2, <2>3, <2>4, Zenon DEF ErrorsIInv
<1> QED BY <1>1, <1>2

\* Ticks come, the pool is opened and closed, jobs begin.
LEMMA ArchiveWorks ==
  ASSUME ArchiveIInv,
         \/ Archive!Tick \/ Archive!Connect \/ Archive!Disconnect \/ Archive!FetchFails
         \/ Archive!ArchiveTickData
  PROVE  ArchiveIInv'
<1>0. /\ archive_now \in Nat /\ Keep \in Nat /\ Chunk \in Nat \ {0} /\ ArchiveTime \in Nat
      /\ Keep + Chunk <= archive_now /\ archive_now <= ArchiveTime
      /\ db \subseteq 0..archive_now
  BY FileConstants DEF ArchiveIInv
<1>1. CASE Archive!Tick
  <2>1. /\ archive_now < ArchiveTime /\ archive_now' = archive_now + 1
        /\ db' = db \cup {archive_now + 1}
        /\ UNCHANGED <<pool, job, files, last, deleted, disciplined>>
    BY <1>1 DEF Archive!Tick
  <2>2. archive_now' \in Keep + Chunk..ArchiveTime /\ db' \subseteq 0..archive_now'
    BY <1>0, <2>1
  <2>3. \A w : Window(w) => Window(w)' /\ w[2] \in Int /\ w[1] \in Int /\ ~(archive_now + 1 < w[2])
                            /\ archive_now + 1 >= w[1]
    BY <1>0, <2>1 DEF Window, Archive!Days
  <2>4. LastIsArchived'
    <3> SUFFICES ASSUME disciplined, last # << >>
                 PROVE  /\ \A t \in db' \cup deleted : t < last[2] => t \in Archived
                        /\ \A t \in deleted : t < last[2]
                        /\ \A d \in Archive!Days : d > last[1] \div Day => files[d] = {}
      BY <2>1 DEF LastIsArchived, Archived, Archive!Days
    <3>1. ~(archive_now + 1 < last[2])
      BY <2>3 DEF ArchiveIInv
    <3> QED BY <2>1, <3>1 DEF ArchiveIInv, LastIsArchived
  <2>5. NothingArchived'
    BY <2>1 DEF ArchiveIInv, NothingArchived, Archive!Days
  <2>6. JobMeetsLast'
    <3>1. job # << >> => archive_now + 1 >= job[1]
      BY <2>3 DEF ArchiveIInv
    <3> QED BY <2>1, <3>1 DEF ArchiveIInv, JobMeetsLast
  <2>7. job' = << >> \/ Window(job)'
    BY <2>1, <2>3 DEF ArchiveIInv
  <2>8. last' = << >> \/ Window(last)'
    BY <2>1, <2>3 DEF ArchiveIInv
  <2> QED BY <2>1, <2>2, <2>4, <2>5, <2>6, <2>7, <2>8 DEF ArchiveIInv, Archive!Days
<1>2. ASSUME pool' \in {"none", "open"}, job' \in {job, << >>},
             UNCHANGED <<archive_now, db, files, last, deleted, disciplined>>
      PROVE  ArchiveIInv'
  BY <1>2 DEF ArchiveIInv, Window, Archive!Days, LastIsArchived, Archived, NothingArchived, JobMeetsLast
<1>3. CASE Archive!Connect \/ Archive!Disconnect \/ Archive!FetchFails
  <2>1. /\ pool' \in {"none", "open"} /\ job' \in {job, << >>}
        /\ UNCHANGED <<archive_now, db, files, last, deleted, disciplined>>
    BY <1>3 DEF Archive!Connect, Archive!Disconnect, Archive!FetchFails, ArchiveIInv
  <2> QED BY <1>2, <2>1
<1>4. CASE Archive!ArchiveTickData
  <2> DEFINE end == archive_now - Keep
             start == end - Chunk
  <2>1. /\ job' = <<start, end>>
        /\ disciplined' = (disciplined /\ IF last = << >> THEN \A t \in db : t >= start
                           ELSE start <= last[2] /\ start \div Day > last[1] \div Day)
        /\ UNCHANGED <<archive_now, db, pool, files, last, deleted>>
    BY <1>4 DEF Archive!ArchiveTickData
  <2>2. /\ start \in Nat /\ end \in Nat /\ start <= ArchiveTime /\ end = start + Chunk
        /\ end <= archive_now
    BY <1>0
  <2>3. start \div Day \in Archive!Days
    BY <1>0, <2>2, DaysGrow DEF Archive!Days
  <2> HIDE DEF start, end
  <2>4. Window(job)'
    BY <1>0, <2>1, <2>2, <2>3 DEF Window, Archive!Days
  <2>5. LastIsArchived' /\ NothingArchived'
    BY <2>1 DEF ArchiveIInv, LastIsArchived, NothingArchived, Archived, Archive!Days
  <2>6. JobMeetsLast'
    BY <2>1 DEF JobMeetsLast
  <2>7. last' = << >> \/ Window(last)'
    BY <2>1 DEF ArchiveIInv, Window, Archive!Days
  <2>8. disciplined' \in BOOLEAN
    BY <2>1 DEF ArchiveIInv
  <2> QED BY <2>1, <2>4, <2>5, <2>6, <2>7, <2>8 DEF ArchiveIInv, Archive!Days
<1> QED BY <1>1, <1>3, <1>4

\* The rows of a job arrive.
LEMMA ArchiveFetched ==
  ASSUME ArchiveIInv, Archive!Fetched
  PROVE  ArchiveIInv'
<1> DEFINE rows == Archive!Selected(job)
           day == job[1] \div Day
<1>1. /\ job # << >> /\ job' = << >> /\ last' = job
      /\ files' = IF rows = {} THEN files ELSE [files EXCEPT ![day] = rows]
      /\ UNCHANGED <<archive_now, db, pool, deleted, disciplined>>
  BY DEF Archive!Fetched
<1>2. /\ Window(job) /\ day \in Archive!Days
      /\ job[1] \in Nat /\ job[2] = job[1] + Chunk /\ Chunk \in Nat \ {0} /\ job[2] \in Nat
      /\ db \subseteq Nat
  BY <1>1, FileConstants DEF ArchiveIInv, Window
<1>3. rows = {t \in db : job[1] <= t /\ t < job[2]} /\ rows \subseteq 0..ArchiveTime
  <2>1. rows = {t \in db : job[1] <= t /\ t < job[2]}
    BY DEF Archive!Selected
  <2>2. db \subseteq 0..archive_now /\ archive_now \in Nat /\ archive_now <= ArchiveTime
    BY FileConstants DEF ArchiveIInv
  <2> HIDE DEF rows
  <2>3. ArchiveTime \in Nat
    BY FileConstants
  <2>4. \A t \in db : t \in 0..ArchiveTime
    BY <2>2, <2>3
  <2> QED BY <2>1, <2>4
<1> HIDE DEF rows, day
<1>4. files' \in [Archive!Days -> SUBSET (0..ArchiveTime)]
  BY <1>1, <1>2, <1>3 DEF ArchiveIInv
<1>5. \A d \in Archive!Days : d # day => files'[d] = files[d]
  BY <1>1 DEF ArchiveIInv
<1>6. files[day] = {} => files'[day] = rows
  BY <1>1, <1>2 DEF ArchiveIInv
<1>7. files[day] = {} => Archived \cup rows \subseteq Archived'
  BY <1>2, <1>5, <1>6 DEF Archived, Archive!Days
<1>8. ASSUME disciplined PROVE files[day] = {}
  <2>1. CASE last = << >>
    BY <1>2, <2>1 DEF ArchiveIInv, NothingArchived
  <2>2. CASE last # << >>
    BY <1>1, <1>2, <1>8, <2>2 DEF ArchiveIInv, LastIsArchived, JobMeetsLast, day
  <2> QED BY <2>1, <2>2
<1>9. LastIsArchived'
  <2> SUFFICES ASSUME disciplined
               PROVE  /\ \A t \in db \cup deleted : t < job[2] => t \in Archived'
                      /\ \A t \in deleted : t < job[2]
                      /\ \A d \in Archive!Days : d > day => files'[d] = {}
    BY <1>1 DEF LastIsArchived, Archive!Days, day
  <2>1. CASE last = << >>
    <3>1. /\ \A t \in db : t >= job[1]
          /\ deleted = {} /\ \A d \in Archive!Days : files[d] = {}
      BY <1>1, <2>1 DEF ArchiveIInv, JobMeetsLast, NothingArchived
    <3>2. \A t \in db : t < job[2] => t \in rows
      BY <1>2, <1>3, <3>1
    <3>3. \A d \in Archive!Days : d > day => files'[d] = {}
      BY <1>2, <1>5, <3>1 DEF Archive!Days
    <3> QED BY <1>2, <1>7, <3>1, <3>2, <3>3
  <2>2. CASE last # << >>
    <3>1. /\ job[1] <= last[2] /\ day > last[1] \div Day
          /\ \A t \in db \cup deleted : t < last[2] => t \in Archived
          /\ \A t \in deleted : t < last[2]
          /\ \A d \in Archive!Days : d > last[1] \div Day => files[d] = {}
      BY <1>1, <2>2 DEF ArchiveIInv, JobMeetsLast, LastIsArchived, day
    <3>2. /\ last[1] \in Nat /\ last[2] = last[1] + Chunk /\ last[2] \in Nat
          /\ last[1] \div Day \in Nat /\ day \in Nat
      BY <1>2, <2>2, FileConstants, DaysGrow DEF ArchiveIInv, Window, Archive!Days, day
    <3>3. last[1] < job[1]
      <4>1. job[1] <= last[1] => day <= last[1] \div Day
        BY <1>2, <3>2, DaysGrow DEF day
      <4> QED BY <1>2, <3>1, <3>2, <4>1
    <3>4. last[2] < job[2]
      BY <1>2, <3>2, <3>3
    <3>5. deleted \subseteq Nat
      BY DEF ArchiveIInv
    <3>6. \A t \in db \cup deleted : t < job[2] => t \in Archived \cup rows
      <4> SUFFICES ASSUME NEW t \in db \cup deleted, t < job[2], ~(t < last[2])
                   PROVE  t \in rows
        BY <3>1
      <4>1. t \in db /\ t \in Nat
        BY <1>2, <3>1
      <4> QED BY <1>2, <1>3, <3>1, <3>2, <4>1
    <3>7. \A t \in deleted : t < job[2]
      BY <1>2, <3>1, <3>2, <3>4, <3>5
    <3>8. \A d \in Archive!Days : d > day => files'[d] = {}
      <4> SUFFICES ASSUME NEW d \in Archive!Days, d > day PROVE files'[d] = {}
        OBVIOUS
      <4>1. d \in Int
        BY DEF Archive!Days
      <4>2. d > last[1] \div Day /\ d # day
        BY <3>1, <3>2, <4>1
      <4> QED BY <1>5, <3>1, <4>2
    <3> QED BY <1>7, <1>8, <3>6, <3>7, <3>8
  <2> QED BY <2>1, <2>2
<1>10. Window(last)' /\ last' # << >>
  BY <1>1, <1>2 DEF Window, Archive!Days
<1>11. NothingArchived' /\ JobMeetsLast'
  BY <1>1, <1>10 DEF NothingArchived, JobMeetsLast
<1> QED BY <1>1, <1>4, <1>9, <1>10, <1>11 DEF ArchiveIInv, Archive!Days

\* Old ticks are deleted.
LEMMA ArchiveDeletes ==
  ASSUME ArchiveIInv, NEW before \in 0..ArchiveTime, Archive!DeleteArchivedData(before)
  PROVE  ArchiveIInv'
<1>1. /\ db' = {t \in db : t >= before} /\ deleted' = deleted \cup {t \in db : t < before}
      /\ disciplined' = (disciplined /\ last # << >> /\ before <= last[2])
      /\ UNCHANGED <<archive_now, pool, job, files, last>>
  BY DEF Archive!DeleteArchivedData
<1>2. db' \subseteq db /\ db \subseteq Nat /\ db' \cup deleted' \subseteq db \cup deleted
  BY <1>1 DEF ArchiveIInv
<1>3. LastIsArchived'
  <2> SUFFICES ASSUME disciplined', last # << >>
               PROVE  /\ \A t \in db' \cup deleted' : t < last[2] => t \in Archived
                      /\ \A t \in deleted' : t < last[2]
                      /\ \A d \in Archive!Days : d > last[1] \div Day => files[d] = {}
    BY <1>1 DEF LastIsArchived, Archived, Archive!Days
  <2>1. before <= last[2] /\ disciplined
    BY <1>1
  <2>2. last[2] \in Int
    BY FileConstants DEF ArchiveIInv, Window
  <2> QED BY <1>1, <1>2, <2>1, <2>2 DEF ArchiveIInv, LastIsArchived
<1>4. NothingArchived'
  BY <1>1 DEF ArchiveIInv, NothingArchived, Archive!Days
<1>5. JobMeetsLast'
  BY <1>1 DEF ArchiveIInv, JobMeetsLast
<1>6. /\ db' \subseteq 0..archive_now /\ deleted' \subseteq Nat /\ disciplined' \in BOOLEAN
  BY <1>1, <1>2 DEF ArchiveIInv
<1> QED BY <1>1, <1>3, <1>4, <1>5, <1>6 DEF ArchiveIInv, Window, Archive!Days

\* Every step of the archiver.
LEMMA ArchivePreserved == ArchiveIInv /\ Archive!ArchiveNext => ArchiveIInv'
BY ArchiveWorks, ArchiveFetched, ArchiveDeletes DEF Archive!ArchiveNext

\* A step of another service.
LEMMA ArchiveStutter == ArchiveIInv /\ UNCHANGED archive_vars => ArchiveIInv'
BY DEF archive_vars, ArchiveIInv, Window, Archive!Days, LastIsArchived, Archived, NothingArchived,
       JobMeetsLast

\* Every step of the error log.
LEMMA ErrorsPreserved == ErrorsIInv /\ Archive!ErrorNext => ErrorsIInv'
<1> SUFFICES ASSUME ErrorsIInv, Archive!ErrorNext PROVE ErrorsIInv'
  OBVIOUS
<1>0. MaxErrors \in Nat /\ RecoveryAttempts \in Nat
  BY FileConstants
<1>1. CASE Archive!EndSave
  BY <1>0, <1>1 DEF Archive!EndSave, ErrorsIInv
<1>2. CASE Archive!LoadState
  <2>1. CASE state_file \in {<< >>, <<"garbled">>}
    BY <1>2, <2>1 DEF Archive!LoadState, ErrorsIInv
  <2>2. CASE state_file \notin {<< >>, <<"garbled">>}
    BY <1>2, <2>2 DEF Archive!LoadState, ErrorsIInv
  <2> QED BY <2>1, <2>2
<1>3. CASE Archive!RecordError
  <2>1. /\ program # "writing" /\ program' = "writing" /\ state_file' = <<"garbled">>
        /\ error_count < MaxErrors /\ error_count' = error_count + 1 /\ recorded' = recorded + 1
        /\ forgetful' = (forgetful \/ (program = "fresh" /\ state_file # << >>))
        /\ archive_attempts' = archive_attempts
    BY <1>3 DEF Archive!RecordError, Archive!BeginSave
  <2>2. ~forgetful' => error_count = recorded
    BY <2>1 DEF ErrorsIInv
  <2> QED BY <1>0, <2>1, <2>2 DEF ErrorsIInv
<1>4. CASE Archive!AttemptRecovery
  BY <1>0, <1>4 DEF Archive!AttemptRecovery, ErrorsIInv
<1>5. CASE Archive!ClearErrorState
  BY <1>0, <1>5 DEF Archive!ClearErrorState, ErrorsIInv
<1>6. CASE Archive!Crash
  <2>1. /\ program' = "fresh" /\ error_count' = 0 /\ archive_attempts' = 0
        /\ state_file' = state_file /\ recorded' = recorded
        /\ forgetful' = (forgetful \/ program = "writing")
    BY <1>6 DEF Archive!Crash
  <2>2. 0 \in 0..MaxErrors /\ 0 \in 0..RecoveryAttempts + 1
    BY <1>0
  <2>3. /\ recorded \in Nat /\ state_file = << >> => recorded = 0
        /\ ~forgetful /\ program # "writing" =>
             state_file = << >> \/ (state_file # <<"garbled">> /\ state_file[1] = recorded)
    BY Zenon DEF ErrorsIInv
  <2>4. forgetful' \in BOOLEAN /\ (~forgetful' => ~forgetful /\ program # "writing")
    BY <2>1 DEF ErrorsIInv
  <2>5. \/ state_file \in {<< >>, <<"garbled">>}
        \/ state_file = <<state_file[1], state_file[2]>> /\ state_file[1] \in 0..MaxErrors
           /\ state_file[2] \in 0..RecoveryAttempts + 1
    BY Zenon DEF ErrorsIInv
  <2>6. program' \in {"fresh", "up", "writing"} /\ program' # "writing"
    BY <2>1
  <2> QED BY <2>1, <2>2, <2>3, <2>4, <2>5, <2>6, ZenonT(30) DEF ErrorsIInv
<1> QED BY <1>1, <1>2, <1>3, <1>4, <1>5, <1>6 DEF Archive!ErrorNext

\* A step of another service.
LEMMA ErrorsStutter == ErrorsIInv /\ UNCHANGED error_vars => ErrorsIInv'
BY DEF error_vars, ErrorsIInv

\* The properties of the run.
LEMMA ArchiveProperties ==
  ASSUME ArchiveIInv, ErrorsIInv
  PROVE  Archive!TypeOK /\ Archive!DeletedIsArchived /\ Archive!ErrorsSurvive
<1>1. Archive!DeletedIsArchived
  BY DEF ArchiveIInv, LastIsArchived, NothingArchived, Archived, Archive!DeletedIsArchived
<1>2. Archive!ErrorsSurvive
  BY DEF ErrorsIInv, Archive!ErrorsSurvive
<1>3. Archive!TypeOK
  <2>1. job = << >> \/ (Len(job) = 2 /\ job[1] < job[2])
    BY FileConstants DEF ArchiveIInv, Window
  <2>2. archive_now \in 0..ArchiveTime
    BY FileConstants DEF ArchiveIInv
  <2> QED BY <2>1, <2>2 DEF ArchiveIInv, ErrorsIInv, Archive!TypeOK
<1> QED BY <1>1, <1>2, <1>3

-----------------------------------------------------------------------------
(* All of them                                                             *)

\* A service takes a step of its own, while the others stand still.
LEMMA OneMoves ==
  ASSUME [Next]_vars
  PROVE  /\ Oracle!Next \/ UNCHANGED oracle_vars
         /\ Audit!Next \/ UNCHANGED audit_vars
         /\ Shutdown!Next \/ UNCHANGED shutdown_vars
         /\ Capital!Next \/ UNCHANGED capital_vars
         /\ Throttle!Next \/ UNCHANGED throttle_vars
         /\ Scan!Next \/ UNCHANGED scanner_vars
         /\ Reloader!Next \/ UNCHANGED config_vars
         /\ Archive!ArchiveNext \/ UNCHANGED archive_vars
         /\ Archive!ErrorNext \/ UNCHANGED error_vars
BY DEF Next, vars, OracleMoves, OverwatchMoves, AuditMoves, ShutdownMoves, CapitalMoves,
       EngineMoves, ScannerMoves, ProcessManagerMoves, OFIEngineMoves, MessageBusMoves,
       TickBufferMoves, HotReloaderMoves, ArchiverMoves, ErrorLogMoves, TAFallbackMoves,
       OutcomesMove

\* The capital tracker, for any conditions, callers, amounts and balance: shares are merged once
\* and by the holder of the lock alone, so every share bought is held or merged and the merge
\* events add up to the balance.
THEOREM ServicesCapital == Spec => []CapitalInv
<1>1. Init => CapitalIInv
  BY CapitalStart DEF Init
<1>2. CapitalIInv /\ [Next]_vars => CapitalIInv'
  BY OneMoves, CapitalPreserved, CapitalStutter
<1>3. CapitalIInv => CapitalInv
  BY DEF CapitalIInv, CapitalInv
<1> QED BY <1>1, <1>2, <1>3, PTL DEF Spec

\* The shutdown handler, for any callbacks and any number of signals: no cleanup is started twice.
THEOREM ServicesShutdown == Spec => []ShutdownInv
<1>1. Init => ShutdownIInv
  BY ShutdownStart DEF Init
<1>2. ShutdownIInv /\ [Next]_vars => ShutdownIInv'
  BY OneMoves, ShutdownPreserved, ShutdownStutter
<1>3. ShutdownIInv => ShutdownInv
  BY ShutdownProperties DEF ShutdownInv
<1> QED BY <1>1, <1>2, <1>3, PTL DEF Spec

\* The audit log, for any contents and any size in memory: the chain accepts only what was logged
\* and, before the first eviction, a log nobody touched; each record commits to those before it.
THEOREM ServicesAudit == Spec => []AuditInv
<1>1. Init => AuditIInv
  BY AuditStart DEF Init
<1>2. AuditIInv /\ [Next]_vars => AuditIInv'
  BY OneMoves, AuditPreserved, AuditStutter
<1>3. AuditIInv => AuditInv
  BY AuditProperties DEF AuditInv
<1> QED BY <1>1, <1>2, <1>3, PTL DEF Spec

\* The price oracle, for any number of attempts and outages: unless told to stop, it ends only
\* after MaxAttempts + 1 failures in a row.
THEOREM ServicesOracle ==
  Spec => [](moves = "oracle" => Oracle!TypeOK /\ Oracle!GivesUpOnlyAfterMax)
<1>1. Init => OracleIInv
  BY OracleStart DEF Init
<1>2. OracleIInv /\ [Next]_vars => OracleIInv'
  BY OneMoves, OraclePreserved, OracleStutter
<1>3. OracleIInv => (moves = "oracle" => Oracle!TypeOK /\ Oracle!GivesUpOnlyAfterMax)
  BY DEF OracleIInv
<1> QED BY <1>1, <1>2, <1>3, PTL DEF Spec

\* The prices an update or an average of the oracle leaves are within the window, whatever it is,
\* and a shutdown that ends has started every cleanup registered by then.
THEOREM ServicesStepwise ==
  Spec => [][/\ moves = "oracle" => Oracle!AverageInWindow
             /\ moves = "shutdown" => Shutdown!CompletedShutdownRanAll]_vars
<1> DEFINE Step == /\ moves = "oracle" => Oracle!AverageInWindow
                   /\ moves = "shutdown" => Shutdown!CompletedShutdownRanAll
<1>1. Init => OracleIInv /\ ShutdownIInv
  BY OracleStart, ShutdownStart DEF Init
<1>2. OracleIInv /\ ShutdownIInv /\ [Next]_vars => OracleIInv' /\ ShutdownIInv'
  BY OneMoves, OraclePreserved, OracleStutter, ShutdownPreserved, ShutdownStutter
<1>3. OracleIInv /\ ShutdownIInv /\ [Next]_vars => Step
  BY OneMoves, OracleSteps, ShutdownRanAll
<1> HIDE DEF Step
<1>4. Spec => [][Step]_vars
  BY <1>1, <1>2, <1>3, PTL DEF Spec
<1> QED BY <1>4 DEF Step

\* The overwatch, for any callbacks, tasks and registrations: a callback that stays registered
\* is told once per notification, and a notification misses at most one callback for each that
\* left the list meanwhile.
THEOREM ServicesOverwatch == Spec => []OverwatchInv
<1>1. Init => OverwatchIInv
  BY OverwatchStart DEF Init
<1>2. OverwatchIInv /\ [Next]_vars => OverwatchIInv'
  BY OneMoves, OverwatchPreserved, OverwatchStutter
<1>3. OverwatchIInv => OverwatchInv
  BY OverwatchProperties DEF OverwatchInv
<1> QED BY <1>1, <1>2, <1>3, PTL DEF Spec

\* The scanner, for any window, retries and backoff: a scan whose requests were all answered has
\* lost no market of the window, save one that came into it while a scan that finds nothing waited
\* for its fallbacks; what was found is reported, and again only after a scan that failed.
THEOREM ServicesScanner == Spec => []ScannerInv
<1>1. Init => ScanIInv
  BY ScanStart DEF Init
<1>2. ScanIInv /\ [Next]_vars => ScanIInv'
  BY OneMoves, ScanPreserved, ScanStutter
<1>3. ScanIInv => ScannerInv
  BY ScanProperties DEF ScannerInv
<1> QED BY <1>1, <1>2, <1>3, PTL DEF Spec

\* The files, for any keys, values, windows and bounds: apart from keys set by hand the
\* configuration is one version of its file, and its history leads to it; of a disciplined caller
\* no tick is deleted before it is in an archive; errors that were saved survive a crash.
THEOREM ServicesFiles == Spec => []FilesInv
<1>1. Init => ReloadIInv /\ ArchiveIInv /\ ErrorsIInv
  BY ReloadStart, ArchiveStart DEF Init
<1>2. ReloadIInv /\ [Next]_vars => ReloadIInv'
  BY OneMoves, ReloadPreserved, ReloadStutter
<1>3. ArchiveIInv /\ ErrorsIInv /\ [Next]_vars => ArchiveIInv' /\ ErrorsIInv'
  BY OneMoves, ArchivePreserved, ArchiveStutter, ErrorsPreserved, ErrorsStutter
<1>4. ReloadIInv /\ ArchiveIInv /\ ErrorsIInv => FilesInv
  BY ArchiveProperties DEF FilesInv, ReloadIInv
<1> QED BY <1>1, <1>2, <1>3, <1>4, PTL DEF Spec
=============================================================================
