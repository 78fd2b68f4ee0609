---------------------------- MODULE OrderProofs -----------------------------
(***************************************************************************)
(* The parts of MCTrading that place, find, queue and watch orders: grid   *)
(* pricer, adverse selection tracker, arbitrage engine and queue position  *)
(* simulator.                                                              *)
(*                                                                         *)
(* Each has an invariant that its own steps keep and nobody else's step    *)
(* touches; the theorems at the end join them.                             *)
(***************************************************************************)
EXTENDS MCTrading, DataLemmas

-----------------------------------------------------------------------------
(* The grid pricer                                                         *)

\* An instance of a module has the library's operators under its own name.
LEMMA GridLibrary ==
  ASSUME NEW f, NEW T
  PROVE  /\ Grid!SumFunctionOnSet(f, T) = SumFunctionOnSet(f, T)
         /\ Grid!Cardinality(T) = Cardinality(T)
         /\ Grid!Max(T) = Max(T) /\ Grid!Min(T) = Min(T)
<1>1. Grid!SumFunctionOnSet(f, T) = SumFunctionOnSet(f, T)
  BY DEF Grid!SumFunctionOnSet, Grid!FoldFunctionOnSet, Grid!MapThenFoldSet,
         SumFunctionOnSet, FoldFunctionOnSet, MapThenFoldSet
<1>2. Grid!Cardinality(T) = Cardinality(T)
  BY DEF Grid!Cardinality, Cardinality
<1>3. Grid!Max(T) = Max(T) /\ Grid!Min(T) = Min(T)
  BY DEF Grid!Max, Max, Grid!Min, Min
<1> QED BY <1>1, <1>2, <1>3

\* What is assumed of the pricer's constants.
LEMMA GridBounds ==
  /\ GridHole \notin GridMarkets /\ IsFiniteSet(GridMarkets)
  /\ GridBiases \subseteq Int /\ GridBaseAllocation \in Nat /\ GridMaxPerSide \in Nat
  /\ GridMaxMarkets \in Nat /\ GridCapital \in Nat /\ GridCapital > 0
  /\ GridMaxMarkets <= GridCapital /\ GridMaxRefreshes \in Nat
BY GridConstants

\* The entries the iterator has passed.
Passed(n) == {entries[i] : i \in {k \in 1..Len(entries) : k <= n}} \ {GridHole}

\* While no market comes or goes the call has visited what its iterator has passed, and both sides
\* of what it refreshed stay within the share it was given.
GridIInv ==
  /\ Grid!TypeOK
  /\ entries \in Seq(GridMarkets \cup {GridHole})
  /\ flow.bias \in Int
  /\ \A m \in DOMAIN quotes : quotes[m].yes.size \in 0..GridMaxPerSide
                            /\ quotes[m].no.size \in 0..GridMaxPerSide
  /\ index \in Nat /\ share \in Nat /\ refreshes \in Nat
  /\ tried \subseteq GridMarkets /\ results \subseteq tried
  /\ grid_pc \in {"yes", "no"} => read.market \in tried
  /\ grid_pc # "idle" => refreshes > 0
  /\ refreshes > 0 => share > 0
  /\ refreshes = 0 => results = {}
  /\ \A m \in results : 2 * (quotes[m].yes.size + quotes[m].no.size) <= share + 2
  /\ refreshes > 0 /\ ~churned =>
       /\ tried \subseteq Grid!Active
       /\ share * Cardinality(Grid!Active) <= GridCapital
       /\ grid_pc = "idle" => tried = Grid!Active
       /\ grid_pc # "idle" => grid_size = Cardinality(Grid!Active) /\ tried = Passed(index)

\* The markets listed are finitely many.
LEMMA GridActive ==
  ASSUME entries \in Seq(GridMarkets \cup {GridHole})
  PROVE  /\ Grid!Active \subseteq GridMarkets /\ IsFiniteSet(Grid!Active)
         /\ Cardinality(Grid!Active) \in Nat
         /\ Grid!Active = {entries[i] : i \in 1..Len(entries)} \ {GridHole}
<1>1. Grid!Active = {entries[i] : i \in 1..Len(entries)} \ {GridHole}
  BY DEF Grid!Active, Grid!Range
<1>2. \A i \in 1..Len(entries) : entries[i] \in GridMarkets \cup {GridHole}
  OBVIOUS
<1>3. Grid!Active \subseteq GridMarkets
  BY <1>1, <1>2
<1> QED BY <1>1, <1>3, GridBounds, FS_Subset, FS_CardinalityType

\* No market and no grid at first.
LEMMA GridStart ==
  ASSUME Grid!Init
  PROVE  GridIInv
<1>1. /\ entries = << >> /\ entries \in Seq(GridMarkets \cup {GridHole}) /\ Len(entries) = 0
      /\ quotes = << >> /\ DOMAIN quotes = {}
  BY DEF Grid!Init
<1>2. Grid!Active = {}
  BY <1>1, GridActive
<1>3. Grid!Cardinality(Grid!Active) = 0
  BY <1>2, GridLibrary, FS_EmptySet
<1>4. Grid!TypeOK
  BY <1>1, <1>3, GridBounds DEF Grid!Init, Grid!TypeOK
<1> QED BY <1>1, <1>4, GridBounds DEF Grid!Init, GridIInv

\* The part of YES is a fraction.
LEMMA GridPart ==
  ASSUME flow.bias \in Int
  PROVE  Grid!YesPart \in 0..1000
<1>1. CASE Grid!Mode = "SYMMETRIC"
  BY <1>1 DEF Grid!YesPart
<1>2. CASE Grid!Mode = "TILTED"
  <2> DEFINE x == 500 + (flow.bias * 3) \div 2
  <2>1. x \in Int
    OBVIOUS
  <2> DEFINE w == Grid!Min({800, x})
  <2>2. Grid!YesPart = Grid!Max({200, w})
    BY <1>2 DEF Grid!YesPart
  <2> HIDE DEF x
  <2>3. w = Min({800, x})
    BY GridLibrary
  <2> HIDE DEF w
  <2>4. Grid!YesPart = Max({200, w})
    BY <2>2, GridLibrary
  <2>5. Grid!YesPart \in 200..800
    BY <2>1, <2>3, <2>4, ClampedPart
  <2> QED  BY <2>5
<1>3. CASE Grid!Mode = "DIRECTIONAL"
  BY <1>3 DEF Grid!YesPart
<1> QED BY <1>1, <1>2, <1>3 DEF Grid!Mode

\* A grid stakes the share it is given at most, to the cent, and its limit on each side.
LEMMA GridSizes ==
  ASSUME flow.bias \in Int, NEW y, NEW n, NEW s \in Nat, s > 0
  PROVE  LET g == Grid!Grid(y, n, s)
         IN /\ g.yes.size \in 0..GridMaxPerSide /\ g.no.size \in 0..GridMaxPerSide
            /\ 2 * (g.yes.size + g.no.size) <= s + 2
<1> DEFINE h == Grid!MaxShare(s)
           part == Grid!YesPart
           a == (h * part + 500) \div 1000
           b == (h * (1000 - part) + 500) \div 1000
           g == Grid!Grid(y, n, s)
<1>1. h \in Nat /\ h <= GridMaxPerSide /\ 2 * h <= s /\ GridMaxPerSide \in Nat
  <2>1. h = Min({s \div 2, GridMaxPerSide})
    BY GridLibrary DEF Grid!MaxShare, Grid!CapitalOf
  <2> DEFINE k == s \div 2
  <2>2. k \in Nat /\ k \in Int /\ 2 * k <= s
    OBVIOUS
  <2>3. GridMaxPerSide \in Nat /\ GridMaxPerSide \in Int
    BY GridBounds
  <2>4. h = Min({k, GridMaxPerSide})
    BY <2>1
  <2> HIDE DEF k, h
  <2>5. Min({k, GridMaxPerSide}) = IF k <= GridMaxPerSide THEN k ELSE GridMaxPerSide
    BY <2>2, <2>3, PairBounds
  <2> QED  BY <2>2, <2>3, <2>4, <2>5
<1>2. part \in 0..1000
  BY GridPart
<1> HIDE DEF h, part
<1>3. a \in Nat /\ b \in Nat /\ a <= h /\ b <= h /\ a + b <= h + 1
  <2> DEFINE p == h * part
  <2>1. p \in Nat /\ p <= 1000 * h /\ h * (1000 - part) = 1000 * h - p
    BY <1>1, <1>2
  <2> HIDE DEF p
  <2>2. /\ (p + 500) \div 1000 \in Nat /\ (1000 * h - p + 500) \div 1000 \in Nat
        /\ (p + 500) \div 1000 <= h /\ (1000 * h - p + 500) \div 1000 <= h
        /\ (p + 500) \div 1000 + (1000 * h - p + 500) \div 1000 <= h + 1
    BY <1>1, <2>1
  <2>3. a = (p + 500) \div 1000 /\ b = (1000 * h - p + 500) \div 1000
    BY <2>1 DEF p
  <2> HIDE DEF a, b
  <2> QED  BY <2>2, <2>3
<1>4. g.yes.size \in {a, 0} /\ g.no.size \in {b, 0}
  <2>1. Grid!Quote(y, s, part).size \in {a, 0}
    BY DEF Grid!Quote, Grid!NoQuote, h
  <2>2. Grid!Quote(n, s, 1000 - part).size \in {b, 0}
    BY DEF Grid!Quote, Grid!NoQuote, h
  <2> QED  BY <2>1, <2>2 DEF Grid!Grid, part
<1> HIDE DEF a, b, g
<1>5. /\ g.yes.size \in 0..GridMaxPerSide /\ g.no.size \in 0..GridMaxPerSide
      /\ g.yes.size + g.no.size <= h + 1
  BY <1>1, <1>3, <1>4
<1> DEFINE u == g.yes.size
           v == g.no.size
<1>6. 2 * (u + v) <= s + 2
  <2>1. u \in Nat /\ v \in Nat /\ u + v <= h + 1
    BY <1>1, <1>5
  <2> HIDE DEF u, v
  <2> QED  BY <1>1, <2>1
<1> QED BY <1>5, <1>6 DEF g

\* A market comes or goes: the split is off.
LEMMA GridMarketsChange ==
  ASSUME GridIInv, NEW m \in GridMarkets, Grid!AddMarket(m) \/ Grid!RemoveMarket(m)
  PROVE  GridIInv'
<1>1. /\ churned' = TRUE
      /\ UNCHANGED <<bids, flow, quotes, grid_pc, index, grid_size, share, read, results, refreshes,
                     tried>>
  BY DEF Grid!AddMarket, Grid!RemoveMarket
<1>2. entries \in Seq(GridMarkets \cup {GridHole}) /\ Cardinality(Grid!Active) <= GridMaxMarkets
  BY GridLibrary DEF GridIInv, Grid!TypeOK
<1>3. /\ entries' \in Seq(GridMarkets \cup {GridHole})
      /\ Cardinality(Grid!Active') <= GridMaxMarkets
  <2>1. CASE Grid!AddMarket(m)
    <3>1. entries' = Append(entries, m) /\ m \notin Grid!Active
          /\ Cardinality(Grid!Active) < GridMaxMarkets
      BY <2>1, GridLibrary DEF Grid!AddMarket
    <3>2. entries' \in Seq(GridMarkets \cup {GridHole})
      BY <1>2, <3>1
    <3>3. Len(entries') = Len(entries) + 1 /\ entries'[Len(entries) + 1] = m
          /\ \A i \in 1..Len(entries) : entries'[i] = entries[i]
      BY <1>2, <3>1
    <3>4. Grid!Active' = Grid!Active \cup {m}
      <4>1. Len(entries) \in Nat /\ 1..Len(entries) + 1 = 1..Len(entries) \cup {Len(entries) + 1}
        BY <1>2
      <4>2. {entries'[i] : i \in 1..Len(entries')} = {entries[i] : i \in 1..Len(entries)} \cup {m}
        BY <3>3, <4>1
      <4>3. Grid!Active' = {entries'[i] : i \in 1..Len(entries')} \ {GridHole}
        BY DEF Grid!Active, Grid!Range
      <4> QED  BY <1>2, <4>2, <4>3, GridActive, GridBounds
    <3>5. Cardinality(Grid!Active \cup {m}) = Cardinality(Grid!Active) + 1
      BY <1>2, <3>1, GridActive, FS_AddElement
    <3>6. Cardinality(Grid!Active) \in Nat
      BY <1>2, GridActive
    <3> QED  BY <3>1, <3>2, <3>4, <3>5, <3>6, GridBounds
  <2>2. CASE Grid!RemoveMarket(m)
    <3>1. entries' = [i \in DOMAIN entries |-> IF entries[i] = m THEN GridHole ELSE entries[i]]
      BY <2>2 DEF Grid!RemoveMarket
    <3>2. \A i \in 1..Len(entries) : entries'[i] \in GridMarkets \cup {GridHole}
      BY <1>2, <3>1
    <3>3. entries' \in Seq(GridMarkets \cup {GridHole}) /\ Len(entries') = Len(entries)
      BY <1>2, <3>1, <3>2
    <3>4. Grid!Active' \subseteq Grid!Active
      <4>1. \A i \in 1..Len(entries) : entries'[i] = GridHole \/ entries'[i] = entries[i]
        BY <1>2, <3>1
      <4>2. Grid!Active' = {entries'[i] : i \in 1..Len(entries')} \ {GridHole}
        BY <3>3 DEF Grid!Active, Grid!Range
      <4> QED  BY <1>2, <3>3, <4>1, <4>2, GridActive
    <3>5. Cardinality(Grid!Active') <= Cardinality(Grid!Active)
      BY <1>2, <3>4, GridActive, FS_Subset
    <3>6. Cardinality(Grid!Active) \in Nat /\ Cardinality(Grid!Active') \in Nat
      BY <1>2, <3>4, GridActive, FS_Subset, FS_CardinalityType
    <3> QED  BY <1>2, <3>3, <3>5, <3>6, GridBounds
  <2> QED  BY <2>1, <2>2
<1>4. Grid!TypeOK'
  BY <1>1, <1>3, GridLibrary DEF GridIInv, Grid!TypeOK
<1> QED BY <1>1, <1>3, <1>4 DEF GridIInv

\* A refresh begins: the markets there are get their part of the capital.
LEMMA GridRefresh ==
  ASSUME GridIInv, Grid!Refresh
  PROVE  GridIInv'
<1> DEFINE k == Cardinality(Grid!Active)
           n == Max({1, k})
<1>1. /\ refreshes' = refreshes + 1 /\ share' = GridCapital \div n
      /\ grid_size' = k /\ index' = 0 /\ results' = {}
      /\ churned' = FALSE /\ tried' = {} /\ grid_pc' = "next"
      /\ UNCHANGED <<entries, bids, flow, quotes, read>>
  BY GridLibrary DEF Grid!Refresh
<1>2. entries \in Seq(GridMarkets \cup {GridHole}) /\ k \in Nat /\ k <= GridMaxMarkets
      /\ refreshes \in Nat
  BY GridLibrary, GridActive DEF GridIInv, Grid!TypeOK
<1> HIDE DEF k
<1>3. n \in Nat /\ n > 0 /\ k <= n /\ n <= GridCapital
  <2>1. n = IF 1 >= k THEN 1 ELSE k
    BY <1>2, PairBounds
  <2> QED  BY <1>2, <2>1, GridBounds
<1> HIDE DEF n
<1>4. share' \in Nat /\ share' > 0 /\ share' * n <= GridCapital
  BY <1>1, <1>3, GridBounds, WholeShares
<1>5. share' * k <= GridCapital
  <2> DEFINE s == share'
  <2>1. s \in Nat /\ s * n <= GridCapital
    BY <1>4
  <2> HIDE DEF s
  <2>2. s * k \in Nat /\ s * n \in Nat /\ s * k <= s * n
    BY <1>2, <1>3, <2>1, ProductGrows
  <2>3. s * k <= GridCapital
    BY <2>1, <2>2, GridBounds
  <2> QED  BY <2>3 DEF s
<1>6. Passed(index)' = {}
  <2>1. {i \in 1..Len(entries') : i <= index'} = {}
    BY <1>1, <1>2
  <2> QED  BY <2>1 DEF Passed
<1>7. Grid!Active' = Grid!Active
  BY <1>1 DEF Grid!Active
<1>8. Grid!TypeOK'
  BY <1>1, <1>7 DEF GridIInv, Grid!TypeOK
<1> QED BY <1>1, <1>2, <1>4, <1>5, <1>6, <1>7, <1>8 DEF GridIInv, k

\* The iterator goes on, or its call is over.
LEMMA GridNext ==
  ASSUME GridIInv, Grid!NextMarket
  PROVE  GridIInv'
<1> DEFINE ahead == {i \in DOMAIN entries : i > index /\ entries[i] # GridHole}
           A == Grid!Active
<1>0. /\ entries \in Seq(GridMarkets \cup {GridHole}) /\ index \in Nat /\ grid_pc = "next"
      /\ refreshes > 0 /\ tried \subseteq GridMarkets
  BY DEF GridIInv, Grid!NextMarket
<1>1. /\ UNCHANGED <<entries, bids, flow, quotes, grid_size, share, results, refreshes, changes,
                     churned>>
      /\ \/ /\ grid_size = Cardinality(A) /\ ahead # {}
            /\ index' = Min(ahead) /\ grid_pc' = "yes"
            /\ read' = [market |-> entries[index'], yes |-> 0]
            /\ tried' = tried \cup {entries[index']}
         \/ /\ grid_size # Cardinality(A) \/ ahead = {}
            /\ grid_pc' = "idle" /\ UNCHANGED <<index, read, tried>>
  BY GridLibrary DEF Grid!NextMarket
<1>2. A' = A /\ A = {entries[i] : i \in 1..Len(entries)} \ {GridHole}
  BY <1>0, <1>1, GridActive DEF Grid!Active
<1>3. ahead = {i \in 1..Len(entries) : i > index /\ entries[i] # GridHole} /\ Len(entries) \in Nat
  BY <1>0
<1>4. Grid!TypeOK'
  BY <1>1, <1>2 DEF GridIInv, Grid!TypeOK
<1> HIDE DEF ahead, A
<1>5. CASE /\ ahead # {} /\ index' = Min(ahead) /\ grid_pc' = "yes"
           /\ read' = [market |-> entries[index'], yes |-> 0]
           /\ tried' = tried \cup {entries[index']}
  <2>1. index' \in ahead /\ \A i \in ahead : index' <= i
    <3>1. ahead \in SUBSET Nat
      BY <1>3
    <3> QED  BY <1>5, <3>1, MinIn
  <2>2. /\ index' \in 1..Len(entries) /\ index' > index /\ index' \in Nat
        /\ entries[index'] # GridHole /\ entries[index'] \in GridMarkets
        /\ entries[index'] \in A
    <3>1. /\ index' \in 1..Len(entries) /\ index' > index /\ index' \in Nat
          /\ entries[index'] # GridHole
      BY <1>3, <2>1
    <3>2. entries[index'] \in GridMarkets
      BY <1>0, <3>1
    <3> QED  BY <1>2, <3>1, <3>2
  <2>3. read'.market = entries[index'] /\ read'.market \in tried'
    BY <1>5
  <2>4. ASSUME tried = Passed(index) PROVE tried' = Passed(index)'
    <3>1. Passed(index)' = {entries[i] : i \in {k \in 1..Len(entries) : k <= index'}} \ {GridHole}
      BY <1>1 DEF Passed
    <3>2. ASSUME NEW i \in 1..Len(entries), i <= index', i > index, i # index'
          PROVE  entries[i] = GridHole
      <4>1. i \notin ahead
        BY <2>1, <2>2, <3>2
      <4> QED  BY <1>3, <3>2, <4>1
    <3>3. \A i \in 1..Len(entries) : i <= index' <=> (i <= index \/ (i > index /\ i <= index'))
      BY <1>0, <2>2
    <3>4. Passed(index)' \subseteq tried'
      <4> SUFFICES ASSUME NEW i \in 1..Len(entries), i <= index', entries[i] # GridHole
                   PROVE  entries[i] \in tried'
        BY <3>1
      <4>1. CASE i <= index
        <5>1. entries[i] \in tried
          BY <2>4, <4>1 DEF Passed
        <5> QED  BY <1>5, <5>1
      <4>2. CASE i = index'
        BY <1>5, <4>2
      <4> QED  BY <3>2, <3>3, <4>1, <4>2
    <3>5. tried' \subseteq Passed(index)'
      <4>1. \A x \in tried : \E i \in 1..Len(entries) : i <= index /\ x = entries[i] /\ x # GridHole
        BY <2>4 DEF Passed
      <4>2. \A i \in 1..Len(entries) : i <= index => i <= index'
        BY <1>0, <2>2
      <4>3. tried \subseteq Passed(index)'
        BY <3>1, <4>1, <4>2
      <4>4. entries[index'] \in Passed(index)'
        BY <2>2, <3>1
      <4> QED  BY <1>5, <4>3, <4>4
    <3> QED  BY <3>4, <3>5
  <2>5. results' \subseteq tried' /\ tried' \subseteq GridMarkets
    BY <1>1, <1>5, <2>2 DEF GridIInv
  <2>6. ~churned' => /\ tried' \subseteq A' /\ share' * Cardinality(A') <= GridCapital
                     /\ grid_size' = Cardinality(A') /\ tried' = Passed(index)'
    BY <1>0, <1>1, <1>2, <1>5, <2>2, <2>4 DEF GridIInv, A
  <2> QED  BY <1>0, <1>1, <1>4, <1>5, <2>2, <2>3, <2>5, <2>6 DEF GridIInv, A
<1>6. CASE /\ grid_size # Cardinality(A) \/ ahead = {}
           /\ grid_pc' = "idle" /\ UNCHANGED <<index, read, tried>>
  <2>1. ASSUME ~churned PROVE tried = A
    <3>1. tried = Passed(index) /\ ahead = {}
      BY <1>0, <1>6, <2>1 DEF GridIInv, A
    <3>2. \A i \in 1..Len(entries) : i <= index \/ entries[i] = GridHole
      BY <1>0, <1>3, <3>1
    <3> QED  BY <1>2, <3>1, <3>2 DEF Passed
  <2> QED  BY <1>0, <1>1, <1>2, <1>4, <1>6, <2>1 DEF GridIInv, A
<1> QED BY <1>1, <1>5, <1>6

\* Both bids are read: the market has its quotes.
LEMMA GridRead ==
  ASSUME GridIInv, Grid!ReadNo
  PROVE  GridIInv'
<1> DEFINE k == read.market
           g == Grid!Grid(read.yes, bids[k].no, share)
<1>1. /\ quotes' = [m \in DOMAIN quotes \cup {k} |->
                      IF m = k THEN Grid!Grid(read.yes, bids[m].no, share) ELSE quotes[m]]
      /\ results' = results \cup {k} /\ grid_pc' = "next" /\ grid_pc = "no"
      /\ UNCHANGED <<entries, bids, flow, index, grid_size, share, read, refreshes, changes,
                     churned, tried>>
  BY DEF Grid!ReadNo
<1>2. /\ k \in tried /\ k \in GridMarkets /\ share \in Nat /\ share > 0 /\ flow.bias \in Int
      /\ refreshes > 0
  BY <1>1 DEF GridIInv
<1>3. /\ DOMAIN quotes' = DOMAIN quotes \cup {k} /\ quotes'[k] = g
      /\ \A m \in DOMAIN quotes : m # k => quotes'[m] = quotes[m]
  BY <1>1
<1>4. /\ g.yes.size \in 0..GridMaxPerSide /\ g.no.size \in 0..GridMaxPerSide
      /\ 2 * (g.yes.size + g.no.size) <= share + 2
  BY <1>2, GridSizes
<1> HIDE DEF g, k
<1>5. Grid!TypeOK'
  BY <1>1, <1>2, <1>3 DEF GridIInv, Grid!TypeOK, Grid!Active
<1>6. \A m \in DOMAIN quotes' : quotes'[m].yes.size \in 0..GridMaxPerSide
                              /\ quotes'[m].no.size \in 0..GridMaxPerSide
  BY <1>3, <1>4 DEF GridIInv
<1>7. \A m \in results' : 2 * (quotes'[m].yes.size + quotes'[m].no.size) <= share' + 2
  <2>1. results \subseteq DOMAIN quotes
    BY DEF GridIInv, Grid!TypeOK
  <2> QED  BY <1>1, <1>3, <1>4, <2>1 DEF GridIInv
<1>8. refreshes' > 0 /\ ~churned' =>
        /\ tried' \subseteq Grid!Active'
        /\ share' * Cardinality(Grid!Active') <= GridCapital
        /\ grid_size' = Cardinality(Grid!Active') /\ tried' = Passed(index)'
  <2>1. Grid!Active' = Grid!Active /\ Passed(index)' = Passed(index)
    BY <1>1 DEF Grid!Active, Passed
  <2> QED  BY <1>1, <2>1 DEF GridIInv
<1>9. /\ results' \subseteq tried' /\ grid_pc' = "next" /\ refreshes' > 0
  BY <1>1, <1>2 DEF GridIInv
<1>10. /\ entries' \in Seq(GridMarkets \cup {GridHole}) /\ flow'.bias \in Int
       /\ index' \in Nat /\ share' \in Nat /\ share' > 0 /\ refreshes' \in Nat
       /\ tried' \subseteq GridMarkets
  BY <1>1, <1>2 DEF GridIInv
<1> QED BY <1>5, <1>6, <1>7, <1>8, <1>9, <1>10 DEF GridIInv

\* What moves neither the iterator's list nor the quotes.
LEMMA GridOthers ==
  ASSUME GridIInv,
         \/ Grid!ReadYes \/ Grid!ReadFails
         \/ \E m \in GridMarkets, token \in {"yes", "no"}, b \in GridBids :
              Grid!MarketMoves(m, token, b)
         \/ \E bias \in GridBiases \cup {-b : b \in GridBiases}, spike \in BOOLEAN :
              Grid!FlowMoves(bias, spike)
  PROVE  GridIInv'
<1>1. /\ UNCHANGED <<entries, quotes, index, grid_size, share, results, refreshes, churned, tried>>
      /\ flow'.bias \in Int
      /\ grid_pc' \in {"idle", "next", "yes", "no"}
      /\ grid_pc' = "idle" <=> grid_pc = "idle"
      /\ grid_pc' \in {"yes", "no"} => grid_pc \in {"yes", "no"} /\ read'.market = read.market
  <2>0. flow.bias \in Int /\ grid_pc \in {"idle", "next", "yes", "no"}
    BY DEF GridIInv, Grid!TypeOK
  <2>1. CASE Grid!ReadYes
    BY <2>0, <2>1 DEF Grid!ReadYes
  <2>2. CASE Grid!ReadFails
    BY <2>0, <2>2 DEF Grid!ReadFails
  <2>3. CASE \E m \in GridMarkets, token \in {"yes", "no"}, b \in GridBids :
               Grid!MarketMoves(m, token, b)
    BY <2>0, <2>3 DEF Grid!MarketMoves
  <2>4. CASE \E bias \in GridBiases \cup {-b : b \in GridBiases}, spike \in BOOLEAN :
               Grid!FlowMoves(bias, spike)
    <3>1. PICK bias \in GridBiases \cup {-b : b \in GridBiases}, spike \in BOOLEAN :
            Grid!FlowMoves(bias, spike)
      BY <2>4
    <3>2. \A b \in Int : -b \in Int
      OBVIOUS
    <3>3. bias \in Int
      BY <3>2, GridBounds
    <3> QED  BY <2>0, <3>1, <3>3 DEF Grid!FlowMoves
  <2> QED  BY <2>1, <2>2, <2>3, <2>4
<1>2. Grid!TypeOK'
  BY <1>1 DEF GridIInv, Grid!TypeOK, Grid!Active
<1> QED BY <1>1, <1>2 DEF GridIInv, Passed, Grid!Active

\* Every step of the pricer.
LEMMA GridPreserved ==
  ASSUME GridIInv, Grid!Next
  PROVE  GridIInv'
BY GridMarketsChange, GridRefresh, GridNext, GridRead, GridOthers DEF Grid!Next

\* Steps of the other parts.
LEMMA GridStutter ==
  ASSUME GridIInv, UNCHANGED grid_vars
  PROVE  GridIInv'
BY DEF grid_vars, GridIInv, Grid!TypeOK, Grid!Active, Passed

\* The stakes of one refresh: each half a share at most, to the cent.
LEMMA GridProperties ==
  ASSUME GridIInv
  PROVE  Grid!TypeOK /\ Grid!WithinCapital /\ Grid!VisitsAll
<1>1. Grid!VisitsAll
  BY DEF GridIInv, Grid!VisitsAll
<1>2. ASSUME ~churned
      PROVE  2 * SumFunctionOnSet([m \in results |-> Grid!Exposure(m)], results)
               <= GridCapital + 2 * Cardinality(results)
  <2> DEFINE f == [m \in results |-> Grid!Exposure(m)]
             s == SumFunctionOnSet(f, results)
             n == Cardinality(results)
             a == Cardinality(Grid!Active)
             c == (share + 2) \div 2
  <2>1. /\ IsFiniteSet(results) /\ n \in Nat /\ share \in Nat
        /\ results \subseteq DOMAIN quotes /\ refreshes \in Nat
    BY GridBounds, FS_Subset, FS_CardinalityType DEF GridIInv, Grid!TypeOK
  <2>2. c \in Nat /\ c \in Int /\ 2 * c <= share + 2 /\ \A x \in Int : 2 * x <= share + 2 => x <= c
    BY <2>1
  <2> HIDE DEF c
  <2>3. ASSUME NEW m \in results PROVE f[m] \in Nat /\ f[m] \in Int /\ f[m] <= c
    <3>1. quotes[m].yes.size \in Nat /\ quotes[m].no.size \in Nat
          /\ 2 * (quotes[m].yes.size + quotes[m].no.size) <= share + 2
      BY <2>1, GridBounds DEF GridIInv
    <3>2. f[m] = quotes[m].yes.size + quotes[m].no.size
      BY DEF Grid!Exposure
    <3> QED  BY <2>2, <3>1, <3>2
  <2> HIDE DEF f
  <2>4. s \in Int /\ s <= c * n
    BY <2>1, <2>2, <2>3, SumType, SumBound
  <2>5. CASE refreshes > 0
    <3>1. results \subseteq Grid!Active /\ share * a <= GridCapital
      BY <1>2, <2>5 DEF GridIInv
    <3>2. n <= a /\ a \in Nat
      <4>1. entries \in Seq(GridMarkets \cup {GridHole})
        BY DEF GridIInv
      <4> QED  BY <3>1, <4>1, GridActive, FS_Subset
    <3> HIDE DEF s, n, a
    <3>3. share * n \in Nat /\ share * a \in Nat /\ share * n <= share * a
      BY <2>1, <3>2, ProductGrows
    <3>4. n * (2 * c) \in Nat /\ n * (share + 2) \in Nat /\ n * (2 * c) <= n * (share + 2)
      BY <2>1, <2>2, ProductGrows
    <3>5. 2 * s <= n * (2 * c) /\ n * (share + 2) = share * n + 2 * n
      BY <2>1, <2>2, <2>4
    <3>6. 2 * s <= GridCapital + 2 * n
      BY <2>1, <2>4, <3>1, <3>3, <3>4, <3>5, GridBounds
    <3> QED  BY <3>6 DEF s, n, f
  <2>6. CASE ~(refreshes > 0)
    <3>1. results = {}
      BY <2>1, <2>6 DEF GridIInv
    <3>2. s = 0 /\ n = 0
      BY <3>1, SumEmpty, FS_EmptySet
    <3> QED  BY <3>2, GridBounds DEF f
  <2> QED  BY <2>5, <2>6
<1>3. Grid!WithinCapital
  <2>1. Grid!Cardinality(results) = Cardinality(results)
        /\ Grid!SumFunctionOnSet([m \in results |-> Grid!Exposure(m)], results)
             = SumFunctionOnSet([m \in results |-> Grid!Exposure(m)], results)
    BY GridLibrary
  <2>2. \A m \in DOMAIN quotes : quotes[m].yes.size <= GridMaxPerSide
                              /\ quotes[m].no.size <= GridMaxPerSide
    BY DEF GridIInv
  <2> QED  BY <1>2, <2>1, <2>2 DEF Grid!WithinCapital
<1> QED BY <1>1, <1>3 DEF GridIInv

-----------------------------------------------------------------------------
(* The adverse selection tracker                                           *)

\* What is assumed of the tracker's constants.
LEMMA FillBounds ==
  /\ FillPrices \subseteq Int /\ \A p \in FillPrices : p # 0
  /\ MaxFills \in Nat /\ FillMaxPending \in Nat /\ FillMaxTime \in Nat
BY FillConstants

\* The entries of _pending_fills.
FillType == [side : {"buy", "sell"}, time : Nat, at : Int, p1m : Int, p5m : Int,
             is_complete : BOOLEAN]

\* A round looks once at fills it has not finished; without an overflow the fills it looks at and
\* those it has finished are pending, and a finished one leaves with the round.
FillsIInv ==
  /\ \E k \in 0..MaxFills : DOMAIN record = 1..k
  /\ \A f \in DOMAIN record : record[f] \in FillType
  /\ warned \in [Fills!Fills -> Nat]
  /\ \A f \in Fills!Fills : warned[f] # 0 => warned[f] = 1 /\ f \in DOMAIN record /\ record[f].p1m # 0
  /\ {fills_pending, completed, round, finishing} \subseteq Seq(DOMAIN record)
  /\ Once(fills_pending) /\ Once(completed) /\ Once(round) /\ Once(finishing)
  /\ In(fills_pending) \cap In(completed) = {}
  /\ In(fills_pending) \cup In(completed) = DOMAIN record
  /\ Len(fills_pending) <= FillMaxPending
  /\ fills_pc \in {"top", "walk", "toxic", "complete", "notify", "sleep", "off"}
  /\ fills_pc = "toxic" => round # << >>
  /\ fills_pc \in {"walk", "toxic"} => In(round) \cap In(finishing) = {}
  /\ fills_now \in Nat /\ price \in FillPrices /\ held \in FillPrices
  /\ ~fills_evicted =>
       /\ fills_pc \in {"walk", "toxic"} => In(round) \subseteq In(fills_pending)
       /\ In(finishing) \subseteq In(fills_pending)
       /\ \A f \in In(fills_pending) : record[f].is_complete => f \in In(finishing)
       /\ fills_pc \in {"top", "sleep"} => finishing = << >>

\* The empty sequence.
LEMMA NothingIn ==
  /\ In(<< >>) = {} /\ Once(<< >>) /\ \A S : << >> \in Seq(S)
<1>1. Len(<< >>) = 0
  OBVIOUS
<1>2. 1..Len(<< >>) = {}
  BY <1>1
<1>3. In(<< >>) = {} /\ Once(<< >>)
  BY <1>2 DEF In, Once
<1> QED BY <1>3

\* No fill at first.
LEMMA FillsStart ==
  ASSUME Fills!Init
  PROVE  FillsIInv
<1>1. record = << >> /\ DOMAIN record = {} /\ DOMAIN record = 1..0 /\ 0 \in 0..MaxFills
  BY FillBounds DEF Fills!Init
<1>2. Len(<< >>) = 0 /\ 0 <= FillMaxPending
  BY FillBounds
<1>3. warned = [f \in Fills!Fills |-> 0]
  BY DEF Fills!Init
<1>4. /\ fills_pending = << >> /\ completed = << >> /\ round = << >> /\ finishing = << >>
      /\ fills_pc = "top" /\ fills_now = 0 /\ price \in FillPrices /\ held = price
  BY DEF Fills!Init
<1>5. {fills_pending, completed, round, finishing} \subseteq Seq(DOMAIN record)
  BY <1>4, NothingIn
<1>6. /\ In(fills_pending) = {} /\ In(completed) = {} /\ In(round) = {} /\ In(finishing) = {}
      /\ Once(fills_pending) /\ Once(completed) /\ Once(round) /\ Once(finishing)
  BY <1>4, NothingIn
<1> QED BY <1>1, <1>2, <1>3, <1>4, <1>5, <1>6 DEF FillsIInv

\* A sequence of recorded fills stays one when more are recorded.
LEMMA WiderSeq ==
  ASSUME NEW S, NEW T, S \subseteq T, NEW s \in Seq(S)
  PROVE  s \in Seq(T)
OBVIOUS

\* The library operators of the tracker are those of this module.
LEMMA FillsLibrary ==
  /\ \A T : Fills!Cardinality(T) = Cardinality(T)
  /\ \A S, s : s \in Seq(S) => Fills!Range(s) = In(s)
<1>1. \A T : Fills!Cardinality(T) = Cardinality(T)
  BY DEF Fills!Cardinality, Cardinality
<1>2. ASSUME NEW S, NEW s \in Seq(S) PROVE Fills!Range(s) = In(s)
  <2>1. Fills!Range(s) = {s[i] : i \in DOMAIN s}
    BY DEF Fills!Range
  <2>2. DOMAIN s = 1..Len(s)
    OBVIOUS
  <2> QED  BY <2>1, <2>2 DEF In
<1> QED BY <1>1, <1>2

\* record_fill(), which may push the oldest one out of a full table.
LEMMA FillsRecord ==
  ASSUME FillsIInv, NEW f \in Fills!Fills, NEW side \in {"buy", "sell"}, Fills!RecordFill(f, side)
  PROVE  FillsIInv'
<1> DEFINE table == Append(fills_pending, f)
           x == Fills!Fill(side, FALSE)
           all == [g \in DOMAIN record \cup {f} |-> IF g = f THEN x ELSE record[g]]
           R == DOMAIN record \cup {f}
<1>1. PICK k \in 0..MaxFills : DOMAIN record = 1..k
  BY DEF FillsIInv
<1>2. f = k + 1 /\ f \in Nat /\ f \notin DOMAIN record /\ R = 1..k + 1 /\ k + 1 \in 0..MaxFills
  <2>1. Cardinality(1..k) = k
    BY <1>1, FS_Interval
  <2>0. f = Fills!Cardinality(DOMAIN record) + 1
    BY DEF Fills!RecordFill
  <2>2. f = Cardinality(1..k) + 1
    BY <1>1, <2>0, FillsLibrary
  <2>3. f = k + 1 /\ f \in 1..MaxFills
    BY <2>1, <2>2 DEF Fills!Fills
  <2> QED  BY <1>1, <2>3, FillBounds
<1>3. x \in FillType /\ x.is_complete = FALSE /\ x.p1m = 0
  BY FillBounds DEF FillsIInv, Fills!Fill, FillType
<1>4. /\ fills_pending \in Seq(DOMAIN record) /\ Once(fills_pending)
      /\ completed \in Seq(DOMAIN record) /\ Once(completed)
      /\ In(fills_pending) \cap In(completed) = {}
      /\ In(fills_pending) \cup In(completed) = DOMAIN record
      /\ Len(fills_pending) <= FillMaxPending
  BY DEF FillsIInv
<1>5. /\ fills_pending \in Seq(R) /\ completed \in Seq(R) /\ round \in Seq(R) /\ finishing \in Seq(R)
  BY WiderSeq DEF FillsIInv
<1>6. /\ table \in Seq(R) /\ In(table) = In(fills_pending) \cup {f} /\ Once(table)
      /\ Len(table) = Len(fills_pending) + 1 /\ Len(fills_pending) \in Nat
  <2>1. f \notin In(fills_pending)
    BY <1>2, <1>4
  <2> QED  BY <1>4, <1>5, <2>1, AppendedIn
<1>7. /\ DOMAIN all = R /\ all[f] = x /\ \A g \in DOMAIN record : all[g] = record[g]
      /\ \A g \in R : all[g] \in FillType
  BY <1>2, <1>3 DEF FillsIInv
<1>8. UNCHANGED <<fills_now, price, fills_moves_left, fills_pc, round, start, held, finishing, warned>>
  BY DEF Fills!RecordFill
<1>9. \/ /\ Len(table) <= FillMaxPending /\ fills_pending' = table /\ record' = all
         /\ UNCHANGED <<completed, fills_evicted>>
      \/ /\ fills_pending' = Tail(table) /\ completed' = Append(completed, Head(table))
         /\ record' = [all EXCEPT ![Head(table)].is_complete = TRUE] /\ fills_evicted' = TRUE
  BY DEF Fills!RecordFill, Fills!Cleanup
<1> HIDE DEF table, all, x
<1>10. \A g \in Fills!Fills : warned[g] # 0 =>
         warned[g] = 1 /\ g \in DOMAIN record /\ all[g].p1m # 0
  BY <1>7 DEF FillsIInv
<1>11. CASE /\ Len(table) <= FillMaxPending /\ fills_pending' = table /\ record' = all
            /\ UNCHANGED <<completed, fills_evicted>>
  <2>1. DOMAIN record' = 1..k + 1 /\ k + 1 \in 0..MaxFills
    BY <1>2, <1>7, <1>11
  <2>2. In(table) \cap In(completed) = {} /\ In(table) \cup In(completed) = R
    BY <1>2, <1>4, <1>6
  <2>3. ~fills_evicted =>
          /\ fills_pc \in {"walk", "toxic"} => In(round) \subseteq In(table)
          /\ In(finishing) \subseteq In(table)
          /\ \A g \in In(table) : all[g].is_complete => g \in In(finishing)
          /\ fills_pc \in {"top", "sleep"} => finishing = << >>
    BY <1>3, <1>4, <1>6, <1>7 DEF FillsIInv
  <2>4. {fills_pending', completed', round', finishing'} \subseteq Seq(DOMAIN record')
    BY <1>5, <1>6, <1>7, <1>8, <1>11
  <2>5. \E n \in 0..MaxFills : DOMAIN record' = 1..n
    BY <2>1
  <2> QED  BY <1>4, <1>6, <1>7, <1>8, <1>10, <1>11, <2>2, <2>3, <2>4, <2>5 DEF FillsIInv, Fills!Fills
<1>12. CASE /\ fills_pending' = Tail(table) /\ completed' = Append(completed, Head(table))
            /\ record' = [all EXCEPT ![Head(table)].is_complete = TRUE] /\ fills_evicted' = TRUE
  <2> DEFINE h == Head(table)
  <2>1. /\ table # << >> /\ Tail(table) \in Seq(R) /\ h \in In(table) /\ h \in R
        /\ In(Tail(table)) = In(table) \ {h} /\ Once(Tail(table))
        /\ Len(Tail(table)) = Len(fills_pending)
    <3>1. table # << >>
      BY <1>6
    <3> QED  BY <1>6, <3>1, TailIn
  <2>2. h \notin In(completed)
    BY <1>2, <1>4, <1>6, <2>1
  <2>3. /\ completed' \in Seq(R) /\ In(completed') = In(completed) \cup {h} /\ Once(completed')
    BY <1>4, <1>5, <1>12, <2>1, <2>2, AppendedIn
  <2>4. /\ DOMAIN record' = R /\ \A g \in R : g # h => record'[g] = all[g]
        /\ record'[h] = [all[h] EXCEPT !.is_complete = TRUE]
    BY <1>7, <1>12, <2>1
  <2>5. record'[h] \in FillType /\ record'[h].p1m = all[h].p1m
    BY <1>7, <2>1, <2>4 DEF FillType
  <2> HIDE DEF h
  <2>6. \A g \in R : record'[g] \in FillType /\ record'[g].p1m = all[g].p1m
    BY <1>7, <2>4, <2>5
  <2>7. /\ In(Tail(table)) \cap In(completed') = {} /\ In(Tail(table)) \cup In(completed') = R
    BY <1>2, <1>4, <1>6, <2>1, <2>3
  <2>8. {fills_pending', completed', round', finishing'} \subseteq Seq(DOMAIN record')
    BY <1>5, <1>8, <1>12, <2>1, <2>3, <2>4
  <2>9. \E n \in 0..MaxFills : DOMAIN record' = 1..n
    BY <1>2, <2>4
  <2>10. \A g \in Fills!Fills : warned'[g] # 0 =>
           warned'[g] = 1 /\ g \in DOMAIN record' /\ record'[g].p1m # 0
    BY <1>8, <1>10, <2>4, <2>6
  <2> QED  BY <1>4, <1>8, <1>12, <2>1, <2>3, <2>4, <2>6, <2>7, <2>8, <2>9, <2>10
           DEF FillsIInv, Fills!Fills
<1> QED BY <1>9, <1>11, <1>12

\* A round of _tracking_loop() copies the table.
LEMMA FillsStartRound ==
  ASSUME FillsIInv, Fills!StartRound
  PROVE  FillsIInv'
<1>1. /\ round' = fills_pending /\ finishing' = << >> /\ fills_pc' = "walk" /\ fills_pc = "top"
      /\ UNCHANGED <<fills_now, price, fills_moves_left, record, fills_pending, completed, held,
                     warned, fills_evicted>>
  BY DEF Fills!StartRound
<1>2. In(finishing') = {} /\ Once(finishing') /\ finishing' \in Seq(DOMAIN record)
  BY <1>1, NothingIn
<1>3. ~fills_evicted => finishing = << >> /\ In(finishing) = {}
  BY <1>1, NothingIn DEF FillsIInv
<1>4. {fills_pending', completed', round', finishing'} \subseteq Seq(DOMAIN record')
  BY <1>1, <1>2 DEF FillsIInv
<1> QED BY <1>1, <1>2, <1>3, <1>4 DEF FillsIInv, Fills!Fills

\* The end of a look at the first fill of the round: r is its record so far.
LEMMA FillsComplete ==
  ASSUME FillsIInv, fills_pc \in {"walk", "toxic"}, round # << >>,
         NEW r \in FillType, r.is_complete = record[Head(round)].is_complete,
         record[Head(round)].p1m # 0 => r.p1m # 0, NEW p \in FillPrices,
         Fills!Complete5m(r, Head(round), p),
         round' = Tail(round), fills_pc' = "walk", held' \in FillPrices,
         UNCHANGED <<fills_now, price, fills_pending, completed, warned, fills_evicted>>
  PROVE  FillsIInv'
<1> DEFINE f == Head(round)
<1>1. /\ f \in In(round) /\ f \in DOMAIN record
      /\ Tail(round) \in Seq(DOMAIN record) /\ In(Tail(round)) = In(round) \ {f} /\ Once(Tail(round))
  BY TailIn DEF FillsIInv
<1>2. /\ In(round) \cap In(finishing) = {}
      /\ finishing \in Seq(DOMAIN record) /\ Once(finishing) /\ p \in Int
  BY FillBounds DEF FillsIInv
<1> HIDE DEF f
<1>3. PICK x \in FillType :
        /\ record' = [record EXCEPT ![f] = x] /\ (r.p1m # 0 => x.p1m # 0)
        /\ \/ x.is_complete = record[f].is_complete /\ finishing' = finishing
           \/ finishing' = Append(finishing, f)
  <2>1. CASE Fills!Due(f, FillFiveMinutes) /\ r.p5m = 0
    <3> DEFINE x == [r EXCEPT !.p5m = p, !.is_complete = TRUE]
    <3>1. x \in FillType /\ x.p1m = r.p1m
      BY <1>2 DEF FillType
    <3>2. record' = [record EXCEPT ![f] = x] /\ finishing' = Append(finishing, f)
      BY <2>1 DEF Fills!Complete5m, f
    <3> HIDE DEF x
    <3> QED  BY <3>1, <3>2
  <2>2. CASE ~(Fills!Due(f, FillFiveMinutes) /\ r.p5m = 0)
    <3>1. record' = [record EXCEPT ![f] = r] /\ finishing' = finishing
      BY <2>2 DEF Fills!Complete5m, f
    <3> QED  BY <3>1 DEF f
  <2> QED  BY <2>1, <2>2
<1>4. /\ DOMAIN record' = DOMAIN record /\ record'[f] = x
      /\ \A g \in DOMAIN record : g # f => record'[g] = record[g]
  BY <1>1, <1>3
<1>5. \A g \in DOMAIN record : record'[g] \in FillType /\ (record[g].p1m # 0 => record'[g].p1m # 0)
  BY <1>3, <1>4 DEF FillsIInv, f
<1>6. /\ finishing' \in Seq(DOMAIN record) /\ Once(finishing')
      /\ In(finishing) \subseteq In(finishing') /\ In(finishing') \subseteq In(finishing) \cup {f}
      /\ finishing' # finishing => f \in In(finishing')
  <2>1. CASE finishing' = finishing
    BY <1>2, <2>1
  <2>2. CASE finishing' = Append(finishing, f)
    BY <1>1, <1>2, <2>2, AppendedIn
  <2> QED  BY <1>3, <2>1, <2>2
<1>7. \A g \in DOMAIN record : record'[g].is_complete => record[g].is_complete \/ g \in In(finishing')
  <2>1. finishing' = Append(finishing, f) => f \in In(finishing')
    BY <1>1, <1>2, AppendedIn
  <2> QED  BY <1>3, <1>4, <2>1
<1>8. {fills_pending', completed', round', finishing'} \subseteq Seq(DOMAIN record')
  BY <1>1, <1>4, <1>6 DEF FillsIInv
<1>9. In(round') \cap In(finishing') = {}
  BY <1>1, <1>2, <1>6
<1>10. ~fills_evicted =>
         /\ In(round') \subseteq In(fills_pending) /\ In(finishing') \subseteq In(fills_pending)
         /\ \A g \in In(fills_pending) : record'[g].is_complete => g \in In(finishing')
  <2>1. In(fills_pending) \subseteq DOMAIN record
    BY DEF FillsIInv
  <2>2. ~fills_evicted =>
          /\ In(round) \subseteq In(fills_pending) /\ In(finishing) \subseteq In(fills_pending)
          /\ \A g \in In(fills_pending) : record[g].is_complete => g \in In(finishing)
    BY DEF FillsIInv
  <2> QED  BY <1>1, <1>6, <1>7, <2>1, <2>2
<1>11. \A g \in Fills!Fills : warned'[g] # 0 =>
         warned'[g] = 1 /\ g \in DOMAIN record' /\ record'[g].p1m # 0
  BY <1>4, <1>5 DEF FillsIInv
<1> QED BY <1>1, <1>4, <1>5, <1>6, <1>8, <1>9, <1>10, <1>11 DEF FillsIInv, Fills!Fills

\* It measures the next fill of its copy.
LEMMA FillsLook ==
  ASSUME FillsIInv, Fills!Look
  PROVE  FillsIInv'
<1> DEFINE f == Head(round)
           first == Fills!Due(f, FillOneMinute) /\ record[f].p1m = 0
           r == IF first THEN [record[f] EXCEPT !.p1m = price] ELSE record[f]
<1>1. /\ fills_pc = "walk" /\ round # << >> /\ held' = price /\ price \in FillPrices
      /\ UNCHANGED <<fills_now, price, fills_pending, completed, fills_evicted>>
  BY DEF Fills!Look, FillsIInv
<1>2. \/ /\ first /\ record' = [record EXCEPT ![f] = r] /\ warned' = [warned EXCEPT ![f] = @ + 1]
         /\ fills_pc' = "toxic" /\ UNCHANGED <<round, finishing>>
      \/ /\ Fills!Complete5m(r, f, price) /\ round' = Tail(round)
         /\ UNCHANGED <<warned, fills_pc>>
  BY DEF Fills!Look
<1>3. f \in In(round) /\ f \in DOMAIN record /\ record[f] \in FillType
  BY <1>1, TailIn DEF FillsIInv
<1>4. price \in Int /\ price # 0
  BY <1>1, FillBounds
<1>5. /\ r \in FillType /\ r.is_complete = record[f].is_complete
      /\ record[f].p1m # 0 => r.p1m # 0
      /\ first => r.p1m # 0 /\ record[f].p1m = 0
  BY <1>3, <1>4 DEF FillType
<1> HIDE DEF r, first
<1>6. CASE /\ Fills!Complete5m(r, f, price) /\ round' = Tail(round) /\ UNCHANGED <<warned, fills_pc>>
  BY <1>1, <1>5, <1>6, FillsComplete
<1>7. CASE /\ first /\ record' = [record EXCEPT ![f] = r] /\ warned' = [warned EXCEPT ![f] = @ + 1]
           /\ fills_pc' = "toxic" /\ UNCHANGED <<round, finishing>>
  <2> HIDE DEF f
  <2>1. /\ DOMAIN record' = DOMAIN record /\ record'[f] = r
        /\ \A g \in DOMAIN record : g # f => record'[g] = record[g]
    BY <1>3, <1>7
  <2>2. /\ \A g \in DOMAIN record : record'[g] \in FillType
        /\ \A g \in DOMAIN record : record'[g].is_complete = record[g].is_complete
    BY <1>5, <2>1 DEF FillsIInv
  <2>3. f \in Fills!Fills
    BY <1>3, FillBounds DEF FillsIInv, Fills!Fills
  <2>4. warned[f] = 0
    BY <1>5, <1>7, <2>3 DEF FillsIInv
  <2>5. /\ warned' \in [Fills!Fills -> Nat] /\ warned'[f] = 1
        /\ \A g \in Fills!Fills : g # f => warned'[g] = warned[g]
    BY <1>7, <2>3, <2>4 DEF FillsIInv
  <2>6. \A g \in Fills!Fills : warned'[g] # 0 =>
          warned'[g] = 1 /\ g \in DOMAIN record' /\ record'[g].p1m # 0
    BY <1>3, <1>5, <1>7, <2>1, <2>5 DEF FillsIInv
  <2>7. {fills_pending', completed', round', finishing'} \subseteq Seq(DOMAIN record')
    BY <1>1, <1>7, <2>1 DEF FillsIInv
  <2>8. ~fills_evicted =>
          /\ In(round) \subseteq In(fills_pending)
          /\ In(finishing) \subseteq In(fills_pending)
          /\ \A g \in In(fills_pending) : record'[g].is_complete => g \in In(finishing)
    BY <1>1, <2>2 DEF FillsIInv
  <2>9. In(round) \cap In(finishing) = {}
    BY <1>1 DEF FillsIInv
  <2> QED  BY <1>1, <1>7, <2>1, <2>2, <2>5, <2>6, <2>7, <2>8, <2>9 DEF FillsIInv, Fills!Fills
<1> QED BY <1>2, <1>6, <1>7

\* The warning of a toxic fill was sent.
LEMMA FillsWarned ==
  ASSUME FillsIInv, Fills!Warned
  PROVE  FillsIInv'
<1>1. /\ fills_pc = "toxic" /\ round # << >> /\ held \in FillPrices /\ held' = held
      /\ UNCHANGED <<fills_now, price, fills_pending, completed, warned, fills_evicted>>
      /\ Fills!Complete5m(record[Head(round)], Head(round), held)
      /\ round' = Tail(round) /\ fills_pc' = "walk"
  BY DEF Fills!Warned, FillsIInv
<1>2. record[Head(round)] \in FillType
  BY <1>1, TailIn DEF FillsIInv
<1> QED BY <1>1, <1>2, FillsComplete

\* The completed fills are counted and taken out of the table.
LEMMA FillsFinish ==
  ASSUME FillsIInv, Fills!Finish
  PROVE  FillsIInv'
<1> DEFINE f == Head(finishing)
<1>1. /\ fills_pc = "complete" /\ finishing # << >> /\ finishing' = Tail(finishing)
      /\ UNCHANGED <<fills_now, price, record, round, held, warned, fills_evicted>>
  BY DEF Fills!Finish
<1>2. /\ f \in In(finishing) /\ f \in DOMAIN record
      /\ Tail(finishing) \in Seq(DOMAIN record) /\ In(Tail(finishing)) = In(finishing) \ {f}
      /\ Once(Tail(finishing))
  BY <1>1, TailIn DEF FillsIInv
<1>3. \/ /\ f \in Fills!Range(fills_pending) /\ fills_pending' = Fills!Remaining(f)
         /\ completed' = Append(completed, f) /\ fills_pc' = "notify"
      \/ /\ f \notin Fills!Range(fills_pending) /\ fills_pc' = "sleep"
         /\ UNCHANGED <<fills_pending, completed>>
  BY DEF Fills!Finish
<1>4. Fills!Range(fills_pending) = In(fills_pending)
  BY FillsLibrary DEF FillsIInv
<1> HIDE DEF f
<1>5. /\ fills_pending \in Seq(DOMAIN record) /\ completed \in Seq(DOMAIN record)
      /\ round \in Seq(DOMAIN record)
      /\ Once(fills_pending) /\ Once(completed)
      /\ In(fills_pending) \cap In(completed) = {}
      /\ In(fills_pending) \cup In(completed) = DOMAIN record
      /\ Len(fills_pending) <= FillMaxPending
  BY DEF FillsIInv
<1>6. CASE /\ f \in Fills!Range(fills_pending) /\ fills_pending' = Fills!Remaining(f)
           /\ completed' = Append(completed, f) /\ fills_pc' = "notify"
  <2> DEFINE i == CHOOSE i \in DOMAIN fills_pending : fills_pending[i] = f
  <2>1. DOMAIN fills_pending = 1..Len(fills_pending) /\ Len(fills_pending) \in Nat
    BY <1>5
  <2>2. \E j \in DOMAIN fills_pending : fills_pending[j] = f
    BY <1>4, <1>6, <2>1 DEF In
  <2>3. i \in 1..Len(fills_pending) /\ fills_pending[i] = f
    BY <2>1, <2>2
  <2>4. fills_pending' = SubSeq(fills_pending, 1, i-1) \o SubSeq(fills_pending, i+1, Len(fills_pending))
    BY <1>6 DEF Fills!Remaining, Fills!RemoveAt
  <2> HIDE DEF i
  <2>5. /\ fills_pending' \in Seq(DOMAIN record) /\ Len(fills_pending') = Len(fills_pending) - 1
        /\ In(fills_pending') = In(fills_pending) \ {f} /\ Once(fills_pending')
    <3> DEFINE s == fills_pending
               t == SubSeq(s, 1, i-1) \o SubSeq(s, i+1, Len(s))
    <3>1. s \in Seq(DOMAIN record) /\ Once(s) /\ i \in 1..Len(s) /\ s[i] = f /\ fills_pending' = t
      BY <1>5, <2>3, <2>4
    <3> HIDE DEF s
    <3>2. /\ t \in Seq(DOMAIN record) /\ Len(t) = Len(s) - 1
          /\ In(t) = In(s) \ {s[i]} /\ Once(t)
      BY <3>1, RemovedAt
    <3> HIDE DEF t
    <3> QED  BY <3>1, <3>2 DEF s
  <2>6. /\ completed' \in Seq(DOMAIN record) /\ In(completed') = In(completed) \cup {f}
        /\ Once(completed')
    BY <1>2, <1>4, <1>5, <1>6, AppendedIn
  <2>7. Len(fills_pending') <= FillMaxPending
    BY <1>5, <2>1, <2>5, FillBounds
  <2>8. /\ In(fills_pending') \cap In(completed') = {}
        /\ In(fills_pending') \cup In(completed') = DOMAIN record
    BY <1>2, <1>5, <2>5, <2>6
  <2>9. ~fills_evicted =>
          /\ In(finishing') \subseteq In(fills_pending')
          /\ \A g \in In(fills_pending') : record[g].is_complete => g \in In(finishing')
    BY <1>1, <1>2, <2>5 DEF FillsIInv
  <2>10. {fills_pending', completed', round', finishing'} \subseteq Seq(DOMAIN record')
    BY <1>1, <1>2, <1>5, <2>5, <2>6
  <2> QED  BY <1>1, <1>2, <1>6, <2>5, <2>6, <2>7, <2>8, <2>9, <2>10 DEF FillsIInv, Fills!Fills
<1>7. CASE /\ f \notin Fills!Range(fills_pending) /\ fills_pc' = "sleep"
           /\ UNCHANGED <<fills_pending, completed>>
  <2>1. fills_evicted
    BY <1>2, <1>4, <1>7 DEF FillsIInv
  <2>2. {fills_pending', completed', round', finishing'} \subseteq Seq(DOMAIN record')
    BY <1>1, <1>2, <1>5, <1>7
  <2> QED  BY <1>1, <1>2, <1>7, <2>1, <2>2 DEF FillsIInv, Fills!Fills
<1> QED BY <1>3, <1>6, <1>7

\* The rest of the round, time, and prices.
LEMMA FillsOthers ==
  ASSUME FillsIInv,
         \/ Fills!Proceed \/ Fills!Stop \/ Fills!Tick
         \/ \E p \in FillPrices : Fills!PriceMoves(p)
  PROVE  FillsIInv'
<1>1. UNCHANGED <<record, fills_pending, completed, round, held, finishing, warned, fills_evicted>>
  BY DEF Fills!Proceed, Fills!Stop, Fills!Tick, Fills!PriceMoves
<1>2. fills_now' \in Nat /\ price' \in FillPrices
  BY DEF FillsIInv, Fills!Proceed, Fills!Stop, Fills!Tick, Fills!PriceMoves
<1>3. /\ fills_pc' \in {"top", "walk", "toxic", "complete", "notify", "sleep", "off"}
      /\ fills_pc' \in {"walk", "toxic"} => fills_pc' = fills_pc
      /\ ~fills_evicted => (fills_pc' \in {"top", "sleep"} => finishing = << >>)
  BY DEF FillsIInv, Fills!Proceed, Fills!Stop, Fills!Tick, Fills!PriceMoves
<1> QED BY <1>1, <1>2, <1>3 DEF FillsIInv, Fills!Fills

\* Every step of the tracker.
LEMMA FillsPreserved ==
  ASSUME FillsIInv, Fills!Next
  PROVE  FillsIInv'
BY FillsRecord, FillsStartRound, FillsLook, FillsWarned, FillsFinish, FillsOthers DEF Fills!Next

\* Steps of the other parts.
LEMMA FillsStutter ==
  ASSUME FillsIInv, UNCHANGED fills_vars
  PROVE  FillsIInv'
BY DEF FillsIInv, fills_vars, Fills!Fills

\* How often an element is in a sequence without repetitions.
LEMMA TimesIn ==
  ASSUME NEW S, NEW s \in Seq(S), Once(s), NEW f
  PROVE  Cardinality({i \in DOMAIN s : s[i] = f}) = IF f \in In(s) THEN 1 ELSE 0
<1> DEFINE T == {i \in DOMAIN s : s[i] = f}
<1>1. DOMAIN s = 1..Len(s)
  OBVIOUS
<1>2. CASE f \in In(s)
  <2>1. PICK i \in 1..Len(s) : s[i] = f
    BY <1>2 DEF In
  <2>2. T = {i}
    BY <1>1, <2>1 DEF Once
  <2>3. Cardinality({i}) = 1
    BY FS_Singleton
  <2> QED  BY <1>2, <2>2, <2>3
<1>3. CASE f \notin In(s)
  <2>1. T = {}
    BY <1>1, <1>3 DEF In
  <2>2. Cardinality({}) = 0
    BY FS_EmptySet
  <2> QED  BY <1>3, <2>1, <2>2
<1> QED BY <1>2, <1>3

\* What the run checks follows.
LEMMA FillsProperties ==
  ASSUME FillsIInv
  PROVE  AdverseInv
<1>1. /\ {fills_pending, completed, round, finishing} \subseteq Seq(DOMAIN record)
      /\ Once(fills_pending) /\ Once(completed)
      /\ In(fills_pending) \cap In(completed) = {}
      /\ In(fills_pending) \cup In(completed) = DOMAIN record
  BY DEF FillsIInv
<1>2. /\ Fills!Range(fills_pending) = In(fills_pending) /\ Fills!Range(completed) = In(completed)
      /\ Fills!Range(round) = In(round) /\ Fills!Range(finishing) = In(finishing)
  BY <1>1, FillsLibrary
<1>3. Fills!TypeOK
  <2>1. DOMAIN record \subseteq Fills!Fills
    BY FillBounds DEF FillsIInv, Fills!Fills
  <2>2. \A s : s \in Seq(DOMAIN record) => In(s) \subseteq DOMAIN record
    BY DEF In
  <2>3. In(round) \subseteq DOMAIN record /\ In(finishing) \subseteq DOMAIN record
    BY <1>1, <2>2
  <2> QED  BY <1>1, <1>2, <2>1, <2>3 DEF Fills!TypeOK, FillsIInv
<1>4. Fills!FillsAccounted
  <2> SUFFICES ASSUME NEW f \in DOMAIN record
               PROVE  Fills!Cardinality({i \in DOMAIN fills_pending : fills_pending[i] = f})
                        + Fills!Cardinality({i \in DOMAIN completed : completed[i] = f}) = 1
    BY DEF Fills!FillsAccounted
  <2> DEFINE A == {i \in DOMAIN fills_pending : fills_pending[i] = f}
             B == {i \in DOMAIN completed : completed[i] = f}
  <2>1. Cardinality(A) = IF f \in In(fills_pending) THEN 1 ELSE 0
    BY <1>1, TimesIn
  <2>2. Cardinality(B) = IF f \in In(completed) THEN 1 ELSE 0
    BY <1>1, TimesIn
  <2> HIDE DEF A, B
  <2>3. Fills!Cardinality(A) = Cardinality(A) /\ Fills!Cardinality(B) = Cardinality(B)
    BY FillsLibrary
  <2>4. Fills!Cardinality(A) + Fills!Cardinality(B) = 1
    BY <1>1, <2>1, <2>2, <2>3
  <2> QED  BY <2>4 DEF A, B
<1>5. Fills!NoneStranded
  BY <1>2 DEF Fills!NoneStranded, FillsIInv
<1>6. Fills!WarnedOnce
  <2>1. \A f \in Fills!Fills : warned[f] = 0 \/ warned[f] = 1
    BY DEF FillsIInv
  <2> QED  BY <2>1 DEF Fills!WarnedOnce
<1> QED BY <1>3, <1>4, <1>5, <1>6 DEF AdverseInv

-----------------------------------------------------------------------------
(* The arbitrage engine                                                    *)

\* What is assumed of the engine's constants.
LEMMA ArbBounds ==
  /\ ArbMarkets \in Seq([bias : {"UP", "DOWN", "none"}, supported : BOOLEAN, expiry : Int])
  /\ Arb!Ids = 1..Len(ArbMarkets) /\ Len(ArbMarkets) \in Nat
  /\ \A m \in Arb!Ids : ArbMarkets[m].bias \in {"UP", "DOWN", "none"} /\ ArbMarkets[m].expiry \in Int
  /\ ArbOraclePrices \subseteq Nat /\ 0 \notin ArbOraclePrices
  /\ ArbAsks \subseteq Nat /\ ArbMaxEntry \in Nat /\ ArbThreshold \in Nat /\ ArbStaleness \in Nat
  /\ ArbMaxTime \in Nat
<1>1. ArbMarkets \in Seq([bias : {"UP", "DOWN", "none"}, supported : BOOLEAN, expiry : Int])
  BY ArbConstants
<1>2. Arb!Ids = 1..Len(ArbMarkets) /\ Len(ArbMarkets) \in Nat
  BY <1>1 DEF Arb!Ids
<1>3. \A m \in Arb!Ids : ArbMarkets[m].bias \in {"UP", "DOWN", "none"} /\ ArbMarkets[m].expiry \in Int
  <2> SUFFICES ASSUME NEW m \in 1..Len(ArbMarkets)
               PROVE  ArbMarkets[m] \in [bias : {"UP", "DOWN", "none"}, supported : BOOLEAN, expiry : Int]
    BY <1>2
  <2> QED  BY <1>1, ElementOfSeq
<1> QED BY <1>1, <1>2, <1>3, ArbConstants

\* The library operators of the engine are those of this module.
LEMMA ArbLibrary ==
  /\ \A T : Arb!Cardinality(T) = Cardinality(T)
  /\ \A S, s : s \in Seq(S) => Arb!Range(s) = In(s)
  /\ \A T \in SUBSET Nat : T # {} => Arb!Min(T) \in T
<1>1. \A T : Arb!Cardinality(T) = Cardinality(T)
  BY DEF Arb!Cardinality, Cardinality
<1>2. ASSUME NEW S, NEW s \in Seq(S) PROVE Arb!Range(s) = In(s)
  <2>1. Arb!Range(s) = {s[i] : i \in DOMAIN s}
    BY DEF Arb!Range
  <2>2. DOMAIN s = 1..Len(s)
    OBVIOUS
  <2> QED  BY <2>1, <2>2 DEF In
<1>3. ASSUME NEW T \in SUBSET Nat, T # {} PROVE Arb!Min(T) \in T
  <2>1. \E x \in T : \A y \in T : x <= y
    BY <1>3, LeastElement
  <2> QED  BY <2>1 DEF Arb!Min
<1> QED BY <1>1, <1>2, <1>3

\* An opportunity that was sound when it was found.
Sound(o) ==
  /\ 0 < ArbMarkets[o.market].expiry - o.at
  /\ ArbMarkets[o.market].expiry - o.at <= ArbThreshold
  /\ o.at - o.heard <= ArbStaleness
  /\ o.price < ArbMaxEntry
  /\ Arb!Pays(o.token, o.direction)

\* Opportunities of some market that were sound when found.
Opportunities ==
  {o \in [market : Arb!Ids, token : Arb!Tokens, price : Int, at : Nat, direction : {"UP", "DOWN"},
          heard : Nat] : Sound(o)}

\* One entry per market, and the cheapest, which is the most profitable, first.
OneEach(s) == \A i, j \in 1..Len(s) : i # j => s[i].market # s[j].market
Ranked(s) == \A i, j \in 1..Len(s) : i < j => s[i].price <= s[j].price

\* A batch finds at most one opportunity in a market it is done with, and the callbacks of a round
\* are about the batch's, the best one first.
ArbIInv ==
  /\ arb_now \in 0..ArbMaxTime
  /\ oracle \in [price : ArbOraclePrices \cup {0}, avg : ArbOraclePrices \cup {0}, time : 0..arb_now]
  /\ asks \in [Arb!Tokens -> ArbAsks \cup {0}]
  /\ arb_pc \in {"idle", "batch", "callback", "sleep", "ended"}
  /\ running \in BOOLEAN
  /\ todo \in SUBSET Arb!Ids
  /\ found \in Seq(Opportunities) /\ arb_queue \in Seq(Opportunities) /\ told \in Seq(Opportunities)
  /\ arb_pc = "batch" => /\ told = << >> /\ OneEach(found)
                         /\ \A o \in In(found) : o.market \notin todo
  /\ arb_pc = "callback" => /\ Ranked(told \o arb_queue) /\ OneEach(told \o arb_queue)
                            /\ In(told \o arb_queue) = In(found)

\* The loop has not run.
LEMMA ArbStart ==
  ASSUME Arb!Init
  PROVE  ArbIInv
<1>1. /\ arb_now = 0 /\ oracle = [price |-> 0, avg |-> 0, time |-> 0] /\ arb_pc = "idle"
      /\ asks = [t \in Arb!Tokens |-> 0] /\ running = FALSE
      /\ todo = {} /\ found = << >> /\ arb_queue = << >> /\ told = << >>
  BY DEF Arb!Init, Arb!NoPrice
<1>2. << >> \in Seq(Opportunities)
  BY NothingIn
<1>3. arb_now \in 0..ArbMaxTime /\ 0 \in 0..arb_now
  BY <1>1, ArbBounds
<1>4. oracle \in [price : ArbOraclePrices \cup {0}, avg : ArbOraclePrices \cup {0}, time : 0..arb_now]
  BY <1>1, <1>3
<1> QED BY <1>1, <1>2, <1>3, <1>4 DEF ArbIInv

\* An analysis finds nothing, or one sound opportunity in its market.
LEMMA ArbAnalysed ==
  ASSUME ArbIInv, NEW m \in Arb!Ids
  PROVE  \/ Arb!Analysed(m) = << >>
         \/ \E o \in Opportunities : Arb!Analysed(m) = <<o>> /\ o.market = m
<1> DEFINE d == Arb!Direction
           t == Arb!TokenOf(m, Arb!DetermineWinningSide(m, d))
           o == [market |-> m, token |-> t, price |-> asks[t], at |-> arb_now, direction |-> d,
                 heard |-> oracle.time]
           all == /\ Arb!Left(m) > 0 /\ Arb!TimeCondition(m) /\ Arb!OracleAligned(m)
                  /\ Arb!Confident(oracle.price, oracle.avg) /\ Arb!PriceCondition(t)
<1>1. Arb!Analysed(m) = IF all THEN <<o>> ELSE << >>
  BY DEF Arb!Analysed
<1>2. ASSUME all PROVE o \in Opportunities
  <2>1. d \in {"UP", "DOWN"}
    BY DEF Arb!Direction
  <2>2. ArbMarkets[m].bias \in {"UP", "DOWN", "none"} /\ ArbMarkets[m].expiry \in Int
    BY ArbBounds
  <2> HIDE DEF d
  <2>3. t \in Arb!Tokens /\ Arb!Pays(t, d)
    BY <2>1, <2>2 DEF Arb!TokenOf, Arb!DetermineWinningSide, Arb!Bias, Arb!Tokens, Arb!Pays
  <2>4. /\ 0 < ArbMarkets[m].expiry - arb_now /\ ArbMarkets[m].expiry - arb_now <= ArbThreshold
    BY <1>2 DEF Arb!TimeCondition, Arb!Left
  <2>5. /\ oracle.time \in Nat /\ arb_now \in Nat
        /\ asks \in [Arb!Tokens -> ArbAsks \cup {0}]
    BY ArbBounds DEF ArbIInv
  <2>6. arb_now - oracle.time <= ArbStaleness
    BY <1>2, <2>5, ArbBounds DEF Arb!OracleAligned, Arb!IsStale
  <2>7. asks[t] < ArbMaxEntry
    BY <1>2 DEF Arb!PriceCondition
  <2> HIDE DEF t
  <2>8. asks[t] \in Int
    <3>1. asks[t] \in ArbAsks \cup {0}
      BY <2>3, <2>5
    <3>2. \A x \in ArbAsks \cup {0} : x \in Int
      BY ArbBounds
    <3> QED  BY <3>1, <3>2, Zenon
  <2> QED  BY <2>1, <2>3, <2>4, <2>5, <2>6, <2>7, <2>8 DEF Opportunities, Sound
<1> HIDE DEF o, all
<1>3. o.market = m
  BY DEF o
<1> QED BY <1>1, <1>2, <1>3

\* analyze_market of the next market of the batch.
LEMMA ArbAnalyze ==
  ASSUME ArbIInv, Arb!AnalyzeMarket
  PROVE  ArbIInv'
<1> DEFINE m == Arb!Min(todo)
<1>1. /\ arb_pc = "batch" /\ todo # {} /\ found' = found \o Arb!Analysed(m) /\ todo' = todo \ {m}
      /\ UNCHANGED <<arb_now, oracle, asks, arb_pc, running, arb_queue, told>>
  BY DEF Arb!AnalyzeMarket, Arb!env_vars
<1>2. m \in todo /\ m \in Arb!Ids
  <2>1. todo \in SUBSET Arb!Ids /\ Arb!Ids \subseteq Nat
    BY ArbBounds DEF ArbIInv
  <2> QED  BY <1>1, <2>1, ArbLibrary
<1>3. /\ found \in Seq(Opportunities) /\ OneEach(found) /\ told = << >>
      /\ \A o \in In(found) : o.market \notin todo
  BY <1>1 DEF ArbIInv
<1> HIDE DEF m
<1>4. CASE Arb!Analysed(m) = << >>
  <2>1. found' = found
    BY <1>1, <1>3, <1>4, JoinedNone
  <2> QED  BY <1>1, <1>3, <2>1 DEF ArbIInv
<1>5. CASE \E o \in Opportunities : Arb!Analysed(m) = <<o>> /\ o.market = m
  <2>1. PICK o \in Opportunities : Arb!Analysed(m) = <<o>> /\ o.market = m
    BY <1>5
  <2>2. found' = Append(found, o)
    BY <1>1, <1>3, <2>1, JoinedOne
  <2>3. found' \in Seq(Opportunities) /\ In(found') = In(found) \cup {o}
    BY <1>3, <2>2, AppendedIn
  <2>4. OneEach(found')
    <3>1. /\ Len(found') = Len(found) + 1 /\ Len(found) \in Nat /\ found'[Len(found) + 1] = o
          /\ \A i \in 1..Len(found) : found'[i] = found[i] /\ found[i].market # m
      <4>1. /\ Len(found') = Len(found) + 1 /\ Len(found) \in Nat /\ found'[Len(found) + 1] = o
            /\ \A i \in 1..Len(found) : found'[i] = found[i]
        BY <1>3, <2>2
      <4>2. \A i \in 1..Len(found) : found[i] \in In(found)
        BY DEF In
      <4> QED  BY <1>2, <1>3, <4>1, <4>2
    <3> SUFFICES ASSUME NEW i \in 1..Len(found) + 1, NEW j \in 1..Len(found) + 1, i # j
                 PROVE  found'[i].market # found'[j].market
      BY <3>1 DEF OneEach
    <3>2. CASE i \in 1..Len(found) /\ j \in 1..Len(found)
      BY <1>3, <3>1, <3>2 DEF OneEach
    <3>3. CASE i \in 1..Len(found) /\ j = Len(found) + 1
      BY <2>1, <3>1, <3>3
    <3>4. CASE j \in 1..Len(found) /\ i = Len(found) + 1
      BY <2>1, <3>1, <3>4
    <3>5. CASE i = Len(found) + 1 /\ j = Len(found) + 1
      BY <3>5
    <3> QED  BY <3>1, <3>2, <3>3, <3>4, <3>5
  <2>5. \A p \in In(found') : p.market \notin todo'
    BY <1>1, <1>3, <2>1, <2>3
  <2> QED  BY <1>1, <1>3, <2>3, <2>4, <2>5 DEF ArbIInv
<1> QED BY <1>2, <1>4, <1>5, ArbAnalysed

\* What sorting does: the opportunities are the same, each of them once, the best one first.
LEMMA ArbSorted ==
  ASSUME NEW s \in Seq(Opportunities), OneEach(s)
  PROVE  LET t == Arb!SortByProfit(s) IN
         t \in Seq(Opportunities) /\ Ranked(t) /\ OneEach(t) /\ In(t) = In(s)
<1> DEFINE D == 1..Len(s)
           P == [i \in D |-> {j \in D : Arb!Before(s, j, i)}]
           r == [i \in D |-> Cardinality(P[i]) + 1]
<1>1. Len(s) \in Nat /\ DOMAIN s = D /\ IsFiniteSet(D) /\ Cardinality(D) = Len(s)
  <2>1. Len(s) \in Nat /\ DOMAIN s = D
    OBVIOUS
  <2> QED  BY <2>1, FS_Interval
<1>2. \A i \in D : s[i].price \in Int /\ i \in Int
  BY DEF Opportunities
<1>3. /\ \A i \in D : ~Arb!Before(s, i, i)
      /\ \A i, j \in D : i # j => Arb!Before(s, i, j) \/ Arb!Before(s, j, i)
      /\ \A i, j, k \in D : Arb!Before(s, i, j) /\ Arb!Before(s, j, k) => Arb!Before(s, i, k)
      /\ \A i, j \in D : Arb!Before(s, i, j) => s[i].price <= s[j].price
  BY <1>2 DEF Arb!Before
<1>4. ASSUME NEW i \in D
      PROVE  /\ IsFiniteSet(P[i]) /\ Cardinality(P[i]) \in Nat /\ i \notin P[i]
             /\ IsFiniteSet(P[i] \cup {i}) /\ Cardinality(P[i] \cup {i}) = Cardinality(P[i]) + 1
             /\ Cardinality(P[i]) + 1 <= Len(s)
  <2>1. P[i] \in SUBSET D /\ i \notin P[i] /\ P[i] \cup {i} \in SUBSET D
    BY <1>3
  <2> HIDE DEF P
  <2>2. IsFiniteSet(P[i]) /\ Cardinality(P[i]) \in Nat
    BY <1>1, <2>1, FS_Subset, FS_CardinalityType
  <2>3. IsFiniteSet(P[i] \cup {i}) /\ Cardinality(P[i] \cup {i}) = Cardinality(P[i]) + 1
    BY <2>1, <2>2, FS_AddElement
  <2>4. Cardinality(P[i] \cup {i}) <= Cardinality(D)
    BY <1>1, <2>1, FS_Subset
  <2> QED  BY <1>1, <2>1, <2>2, <2>3, <2>4
<1>5. ASSUME NEW i \in D, NEW j \in D, Arb!Before(s, i, j)
      PROVE  Cardinality(P[i]) < Cardinality(P[j])
  <2>1. P[i] \cup {i} \in SUBSET P[j]
    BY <1>3, <1>5
  <2> HIDE DEF P, D
  <2>2. Cardinality(P[i] \cup {i}) <= Cardinality(P[j])
    BY <1>4, <2>1, FS_Subset
  <2>3. /\ Cardinality(P[i]) \in Nat /\ Cardinality(P[j]) \in Nat
        /\ Cardinality(P[i] \cup {i}) = Cardinality(P[i]) + 1
    BY <1>4
  <2> QED  BY <2>2, <2>3
<1>6. r \in [D -> D]
  <2>1. ASSUME NEW i \in D PROVE Cardinality(P[i]) + 1 \in D
    <3> HIDE DEF P, r
    <3>1. Cardinality(P[i]) \in Nat /\ Cardinality(P[i]) + 1 <= Len(s)
      <4> HIDE DEF D
      <4> QED  BY <1>4
    <3> QED  BY <1>1, <3>1
  <2> QED  BY <2>1
<1>7. \A i, j \in D : Arb!Before(s, i, j) => r[i] < r[j]
  <2> SUFFICES ASSUME NEW i \in D, NEW j \in D, Arb!Before(s, i, j) PROVE r[i] < r[j]
    OBVIOUS
  <2>1. r[i] = Cardinality(P[i]) + 1 /\ r[j] = Cardinality(P[j]) + 1
    OBVIOUS
  <2> HIDE DEF P, r, D
  <2>2. Cardinality(P[i]) \in Nat /\ Cardinality(P[j]) \in Nat
    BY <1>4
  <2>3. Cardinality(P[i]) < Cardinality(P[j])
    BY <1>5
  <2> QED  BY <2>1, <2>2, <2>3
<1>8. \A i \in D : r[i] = Arb!Cardinality({j \in DOMAIN s : Arb!Before(s, j, i)}) + 1
  <2> SUFFICES ASSUME NEW i \in D
               PROVE  r[i] = Arb!Cardinality({j \in DOMAIN s : Arb!Before(s, j, i)}) + 1
    OBVIOUS
  <2>1. {j \in DOMAIN s : Arb!Before(s, j, i)} = P[i]
    BY <1>1
  <2>2. r[i] = Cardinality(P[i]) + 1
    OBVIOUS
  <2> HIDE DEF P, r
  <2> QED  BY <2>1, <2>2, ArbLibrary
<1> DEFINE t == Arb!SortByProfit(s)
           Q(i) == Arb!Cardinality({j \in DOMAIN s : Arb!Before(s, j, i)})
           c == [k \in D |-> CHOOSE i \in DOMAIN s : Q(i) = k - 1]
<1>9. t = [k \in D |-> s[c[k]]]
  BY <1>1 DEF Arb!SortByProfit
<1> HIDE DEF P, r, t
<1>10. \A i, j \in D : i # j => r[i] # r[j]
  <2>1. \A i \in D : r[i] \in Int
    BY <1>1, <1>6
  <2> QED  BY <1>3, <1>7, <2>1
<1>11. \A k \in D : \E i \in D : r[i] = k
  BY <1>1, <1>6, <1>10, AllRanks
<1>12. \A i \in D : r[i] \in Int /\ r[i] = Q(i) + 1
  BY <1>1, <1>6, <1>8
<1>13. ASSUME NEW k \in D PROVE c[k] \in D /\ r[c[k]] = k
  <2>0. ASSUME NEW i \in D PROVE Q(i) \in Int
    <3>1. {j \in DOMAIN s : Arb!Before(s, j, i)} = P[i]
      BY <1>1 DEF P
    <3>2. Q(i) = Cardinality(P[i])
      BY <3>1, ArbLibrary
    <3>3. Cardinality(P[i]) \in Nat
      <4> HIDE DEF D
      <4> QED  BY <1>4
    <3> QED  BY <3>2, <3>3
  <2> HIDE DEF Q
  <2>1. PICK i \in D : r[i] = k
    BY <1>11
  <2>2. Q(i) = k - 1
    BY <1>1, <1>12, <2>0, <2>1
  <2>3. c[k] = CHOOSE j \in DOMAIN s : Q(j) = k - 1
    OBVIOUS
  <2>4. c[k] \in D /\ Q(c[k]) = k - 1
    BY <1>1, <2>2, <2>3
  <2> QED  BY <1>1, <1>12, <2>0, <2>4
<1> HIDE DEF c, Q
<1>14. t \in Seq(Opportunities) /\ Len(t) = Len(s) /\ \A k \in D : t[k] = s[c[k]]
  <2>1. \A k \in D : t[k] = s[c[k]] /\ s[c[k]] \in Opportunities
    BY <1>9, <1>13
  <2>2. t \in [D -> Opportunities]
    BY <1>9, <2>1
  <2> QED  BY <1>1, <2>1, <2>2
<1>15. Ranked(t)
  <2> SUFFICES ASSUME NEW k \in D, NEW l \in D, k < l PROVE t[k].price <= t[l].price
    BY <1>14 DEF Ranked
  <2>1. c[k] \in D /\ c[l] \in D /\ r[c[k]] = k /\ r[c[l]] = l
    BY <1>13
  <2>2. c[k] # c[l] /\ ~Arb!Before(s, c[l], c[k])
    BY <1>1, <1>7, <2>1
  <2> QED  BY <1>3, <1>14, <2>1, <2>2
<1>16. OneEach(t)
  <2> SUFFICES ASSUME NEW k \in D, NEW l \in D, k # l PROVE t[k].market # t[l].market
    BY <1>14 DEF OneEach
  <2>1. c[k] \in D /\ c[l] \in D /\ c[k] # c[l]
    BY <1>13
  <2> QED  BY <1>14, <2>1 DEF OneEach
<1>17. In(t) = In(s)
  <2>1. In(t) \subseteq In(s)
    BY <1>13, <1>14 DEF In
  <2>2. ASSUME NEW i \in D PROVE s[i] \in In(t)
    <3>1. r[i] \in D /\ c[r[i]] \in D /\ r[c[r[i]]] = r[i]
      BY <1>6, <1>13
    <3>2. c[r[i]] = i
      BY <1>10, <3>1
    <3> QED  BY <1>14, <3>1, <3>2 DEF In
  <2> QED  BY <2>1, <2>2 DEF In
<1> QED BY <1>14, <1>15, <1>16, <1>17 DEF t

\* The loop around the batch, and its callbacks.
LEMMA ArbRounds ==
  ASSUME ArbIInv,
         \/ Arb!StartLoop \/ Arb!LoopTop \/ Arb!AnalyzeRaises \/ Arb!BatchDone
         \/ Arb!Callback \/ Arb!RoundOver \/ Arb!Cancelled \/ Arb!Stop
  PROVE  ArbIInv'
<1>1. UNCHANGED <<arb_now, oracle, asks>>
  BY DEF Arb!StartLoop, Arb!LoopTop, Arb!AnalyzeRaises, Arb!BatchDone, Arb!Callback,
         Arb!RoundOver, Arb!Cancelled, Arb!Stop, Arb!env_vars
<1>2. /\ << >> \in Seq(Opportunities) /\ In(<< >>) = {} /\ OneEach(<< >>)
  <2>1. Len(<< >>) = 0
    OBVIOUS
  <2> QED  BY <2>1, NothingIn DEF OneEach
<1>3. CASE Arb!StartLoop
  BY <1>1, <1>3 DEF ArbIInv, Arb!StartLoop
<1>4. CASE Arb!LoopTop
  <2>1. CASE arb_pc' = "ended" /\ running' = FALSE /\ UNCHANGED <<todo, found, told, arb_queue>>
    BY <1>1, <2>1 DEF ArbIInv
  <2>2. CASE /\ arb_pc' = "batch" /\ todo' = {m \in Arb!Ids : Arb!Left(m) > 0}
             /\ found' = << >> /\ told' = << >> /\ UNCHANGED <<running, arb_queue>>
    BY <1>1, <1>2, <2>2 DEF ArbIInv
  <2> QED  BY <1>4, <2>1, <2>2 DEF Arb!LoopTop
<1>5. CASE Arb!AnalyzeRaises
  <2>1. /\ arb_pc = "batch" /\ todo' \subseteq todo
        /\ UNCHANGED <<arb_pc, running, found, arb_queue, told>>
    BY <1>5 DEF Arb!AnalyzeRaises
  <2> QED  BY <1>1, <2>1 DEF ArbIInv
<1>6. CASE Arb!BatchDone
  <2>1. /\ arb_pc = "batch" /\ arb_queue' = Arb!SortByProfit(found) /\ arb_pc' = "callback"
        /\ UNCHANGED <<running, todo, found, told>>
    BY <1>6 DEF Arb!BatchDone
  <2>2. found \in Seq(Opportunities) /\ OneEach(found) /\ told = << >>
    BY <2>1 DEF ArbIInv
  <2>3. /\ arb_queue' \in Seq(Opportunities) /\ Ranked(arb_queue') /\ OneEach(arb_queue')
        /\ In(arb_queue') = In(found)
    BY <2>1, <2>2, ArbSorted
  <2>4. told' \o arb_queue' = arb_queue'
    BY <2>1, <2>2, <2>3, JoinedNone
  <2> QED  BY <1>1, <2>1, <2>2, <2>3, <2>4 DEF ArbIInv
<1>7. CASE Arb!Callback
  <2>1. /\ arb_pc = "callback" /\ arb_queue # << >>
        /\ told' = Append(told, Head(arb_queue)) /\ arb_queue' = Tail(arb_queue)
        /\ UNCHANGED <<arb_pc, running, todo, found>>
    BY <1>7 DEF Arb!Callback
  <2>2. /\ told \in Seq(Opportunities) /\ arb_queue \in Seq(Opportunities)
    BY DEF ArbIInv
  <2>3. told' \o arb_queue' = told \o arb_queue
    BY <2>1, <2>2, Shifted
  <2>4. told' \in Seq(Opportunities) /\ arb_queue' \in Seq(Opportunities)
    BY <2>1, <2>2
  <2> QED  BY <1>1, <2>1, <2>3, <2>4 DEF ArbIInv
<1>8. CASE Arb!RoundOver \/ Arb!Stop
  BY <1>1, <1>8 DEF ArbIInv, Arb!RoundOver, Arb!Stop
<1>9. CASE Arb!Cancelled
  BY <1>1, <1>2, <1>9 DEF ArbIInv, Arb!Cancelled
<1> QED BY <1>3, <1>4, <1>5, <1>6, <1>7, <1>8, <1>9

\* Time, the oracle and the order books.
LEMMA ArbOutside ==
  ASSUME ArbIInv,
         \/ Arb!Tick
         \/ \E p, a \in ArbOraclePrices : Arb!OracleMoves(p, a)
         \/ \E t \in Arb!Tokens, p \in ArbAsks \cup {0} : Arb!BookMoves(t, p)
  PROVE  ArbIInv'
<1>1. UNCHANGED <<arb_pc, running, todo, found, arb_queue, told>>
  BY DEF Arb!Tick, Arb!OracleMoves, Arb!BookMoves
<1>2. arb_now' \in 0..ArbMaxTime /\ arb_now <= arb_now'
  BY ArbBounds DEF ArbIInv, Arb!Tick, Arb!OracleMoves, Arb!BookMoves
<1>3. oracle' \in [price : ArbOraclePrices \cup {0}, avg : ArbOraclePrices \cup {0}, time : 0..arb_now']
  BY <1>2, ArbBounds DEF ArbIInv, Arb!Tick, Arb!OracleMoves, Arb!BookMoves
<1>4. asks' \in [Arb!Tokens -> ArbAsks \cup {0}]
  BY DEF ArbIInv, Arb!Tick, Arb!OracleMoves, Arb!BookMoves
<1> QED BY <1>1, <1>2, <1>3, <1>4 DEF ArbIInv

\* Every step of the engine.
LEMMA ArbPreserved ==
  ASSUME ArbIInv, Arb!Next
  PROVE  ArbIInv'
BY ArbAnalyze, ArbRounds, ArbOutside DEF Arb!Next

\* Steps of the other parts.
LEMMA ArbStutter ==
  ASSUME ArbIInv, UNCHANGED arb_vars
  PROVE  ArbIInv'
BY DEF ArbIInv, arb_vars

\* What the run checks follows.
LEMMA ArbProperties ==
  ASSUME ArbIInv
  PROVE  ArbitrageInv
<1>1. /\ found \in Seq(Opportunities) /\ arb_queue \in Seq(Opportunities) /\ told \in Seq(Opportunities)
  BY DEF ArbIInv
<1> DEFINE all == found \o arb_queue \o told
           seen == told \o arb_queue
<1>2. all \in Seq(Opportunities) /\ seen \in Seq(Opportunities)
  BY <1>1
<1>3. Arb!Range(all) = In(all) /\ Arb!Range(seen) = In(seen) /\ Arb!Range(found) = In(found)
  BY <1>1, <1>2, ArbLibrary
<1>4. In(all) \subseteq Opportunities
  BY <1>2 DEF In
<1>5. Arb!TypeOK
  <2>1. \A o \in In(all) : o.token \in Arb!Tokens
    BY <1>4 DEF Opportunities
  <2>2. {o.token : o \in Arb!Range(all)} \subseteq Arb!Tokens
    BY <1>3, <2>1
  <2> QED  BY <2>2 DEF ArbIInv, Arb!TypeOK
<1>6. Arb!OpportunityIsSound
  <2>1. \A o \in Arb!Range(all) : Sound(o)
    BY <1>3, <1>4 DEF Opportunities
  <2> QED  BY <2>1 DEF Arb!OpportunityIsSound, Sound
<1>7. Arb!BestFirst
  <2> SUFFICES ASSUME arb_pc = "callback"
               PROVE  /\ \A i, j \in DOMAIN seen : i < j => /\ seen[i].price <= seen[j].price
                                                           /\ seen[i].market # seen[j].market
                      /\ Arb!Range(seen) = Arb!Range(found)
    BY DEF Arb!BestFirst
  <2>1. Ranked(seen) /\ OneEach(seen) /\ In(seen) = In(found)
    BY DEF ArbIInv
  <2> HIDE DEF seen
  <2>2. DOMAIN seen = 1..Len(seen) /\ \A i \in 1..Len(seen) : i \in Int
    BY <1>2
  <2> QED  BY <1>3, <2>1, <2>2 DEF Ranked, OneEach
<1> QED BY <1>5, <1>6, <1>7 DEF ArbitrageInv

-----------------------------------------------------------------------------
(* The queue position simulator                                            *)

\* The constants of the simulator.
LEMMA SimBounds ==
  /\ SimMinTick \in Nat /\ SimMaxTick \in Nat /\ SimMinTick <= SimMaxTick
  /\ SimPrices \subseteq Int /\ SimLatencies \subseteq Nat
  /\ SimQuantities \subseteq Nat /\ 0 \notin SimQuantities
BY SimConstants

\* The library operators of the simulator are those of this module.
LEMMA SimLibrary ==
  /\ \A f, T : Queue!SumFunctionOnSet(f, T) = SumFunctionOnSet(f, T)
  /\ \A S, s : s \in Seq(S) => Queue!Range(s) = In(s)
  /\ \A a, b \in Int : /\ Queue!Min({a, b}) = IF a <= b THEN a ELSE b
                       /\ Queue!Max({a, b}) = IF a <= b THEN b ELSE a
<1>1. \A f, T : Queue!SumFunctionOnSet(f, T) = SumFunctionOnSet(f, T)
  BY DEF Queue!SumFunctionOnSet, Queue!FoldFunctionOnSet, Queue!MapThenFoldSet,
         SumFunctionOnSet, FoldFunctionOnSet, MapThenFoldSet
<1>2. ASSUME NEW S, NEW s \in Seq(S) PROVE Queue!Range(s) = In(s)
  <2>1. Queue!Range(s) = {s[i] : i \in DOMAIN s}
    BY DEF Queue!Range
  <2>2. DOMAIN s = 1..Len(s)
    OBVIOUS
  <2> QED  BY <2>1, <2>2 DEF In
<1>3. ASSUME NEW a \in Int, NEW b \in Int
      PROVE  /\ Queue!Min({a, b}) = IF a <= b THEN a ELSE b
             /\ Queue!Max({a, b}) = IF a <= b THEN b ELSE a
  BY DEF Queue!Min, Queue!Max
<1> QED BY <1>1, <1>2, <1>3

\* The larger of two numbers.
LEMMA SimMax ==
  ASSUME NEW a \in Int, NEW b \in Int
  PROVE  Queue!Max({a, b}) = IF a <= b THEN b ELSE a
BY DEF Queue!Max

\* RemoveFirst on a list without repetitions.
LEMMA RemovedFirst ==
  ASSUME NEW S, NEW s \in Seq(S), Once(s), NEW k \in 1..Len(s)
  PROVE  LET t == Queue!RemoveFirst(s, s[k])
         IN /\ t \in Seq(S) /\ Len(t) = Len(s) - 1 /\ In(t) = In(s) \ {s[k]} /\ Once(t)
            /\ \A j \in 1..Len(s) - 1 : t[j] = IF j < k THEN s[j] ELSE s[j + 1]
<1> DEFINE e == s[k]
           I == {i \in 1..Len(s) : s[i] = e}
<1>1. I = {k}
  BY DEF Once
<1>2. Queue!Min({k}) = k
  BY DEF Queue!Min
<1>3. Queue!SelectInSeq(s, LAMBDA v : v = e) = k
  <2>1. {i \in 1..Len(s) : s[i] = e} # {}
    BY <1>1
  <2> QED  BY <1>1, <1>2, <2>1 DEF Queue!SelectInSeq
<1>4. Queue!RemoveFirst(s, e) = Queue!RemoveAt(s, k)
  <2>1. \E i \in 1..Len(s) : s[i] = e
    OBVIOUS
  <2> QED  BY <1>3, <2>1 DEF Queue!RemoveFirst
<1>5. Queue!RemoveAt(s, k) = SubSeq(s, 1, k-1) \o SubSeq(s, k+1, Len(s))
  BY DEF Queue!RemoveAt
<1> DEFINE t == SubSeq(s, 1, k-1) \o SubSeq(s, k+1, Len(s))
<1>6. /\ t \in Seq(S) /\ Len(t) = Len(s) - 1 /\ In(t) = In(s) \ {s[k]} /\ Once(t)
      /\ \A j \in 1..Len(s) - 1 : t[j] = IF j < k THEN s[j] ELSE s[j + 1]
  BY RemovedAt
<1>7. Queue!RemoveFirst(s, s[k]) = t
  BY <1>4, <1>5
<1> HIDE DEF t
<1> QED BY <1>6, <1>7

\* The orders of the simulator.
QOrder == [side : {"BUY", "SELL"}, price : SimMinTick..SimMaxTick, quantity : Nat, filled : Nat,
           status : {"OPEN", "PARTIALLY_FILLED", "FILLED", "CANCELLED"}, submitted : Int, ahead : Nat]

\* What is left of each order, where it rests, and the orders still open.
Rests(o) == [i \in DOMAIN o |-> o[i].quantity - o[i].filled]
Place(r) == <<r.side, r.price>>
OpenIn(o) == {i \in 1..Len(o) : o[i].status \notin {"FILLED", "CANCELLED"}}
OpenAt(o, l) == {i \in OpenIn(o) : Place(o[i]) = l}

\* Those of a list that are before i in it and were submitted earlier
EarlierIn(o, s, i) ==
  {s[k] : k \in {j \in 1..Len(s) : /\ \A q \in 1..j : s[q] # i
                                  /\ o[s[j]].submitted < o[i].submitted}}
\* The orders that were listed at its price before this one.
Earlier(o, book, i) == EarlierIn(o, book[Place(o[i])].ids, i)

\* No order is filled beyond its quantity, and an open one not entirely.
OrdersOK(o) ==
  /\ o \in Seq(QOrder)
  /\ \A i \in 1..Len(o) : o[i].filled <= o[i].quantity /\ (i \in OpenIn(o) => o[i].filled < o[i].quantity)

\* A price level lists the open orders of its price once each and has at least their rests.
LevelOK(o, x, l) ==
  /\ x \in [ids : Seq(1..Len(o)), total : Int]
  /\ Once(x.ids) /\ In(x.ids) = OpenAt(o, l)
  /\ SumFunctionOnSet(Rests(o), In(x.ids)) <= x.total

\* The book lists the open orders, and each open order's size ahead is cautious.
BookOK(o, book) ==
  /\ OrdersOK(o)
  /\ \A l \in DOMAIN book : LevelOK(o, book[l], l)
  /\ \A i \in OpenIn(o) : /\ Place(o[i]) \in DOMAIN book
                          /\ SumFunctionOnSet(Rests(o), Earlier(o, book, i)) <= o[i].ahead

\* What is so of every order, and of what some have left.
LEMMA OrderFacts ==
  ASSUME NEW o, OrdersOK(o)
  PROVE  /\ DOMAIN o = 1..Len(o) /\ Len(o) \in Nat /\ IsFiniteSet(1..Len(o))
         /\ \A i \in 1..Len(o) : /\ o[i] \in QOrder /\ Rests(o)[i] = o[i].quantity - o[i].filled
                                /\ Rests(o)[i] \in Nat /\ i \in Int
         /\ \A T \in SUBSET (1..Len(o)) : IsFiniteSet(T) /\ SumFunctionOnSet(Rests(o), T) \in Nat
<1>1. o \in Seq(QOrder) /\ DOMAIN o = 1..Len(o) /\ Len(o) \in Nat
  BY DEF OrdersOK
<1>2. IsFiniteSet(1..Len(o))
  BY <1>1, FS_Interval
<1>3. \A i \in 1..Len(o) : o[i] \in QOrder
  BY <1>1, ElementOfSeq
<1>4. \A i \in 1..Len(o) : /\ Rests(o)[i] = o[i].quantity - o[i].filled /\ Rests(o)[i] \in Nat
                          /\ i \in Int
  BY SMTT(30), <1>1, <1>3 DEF OrdersOK, Rests, QOrder
<1>5. ASSUME NEW T \in SUBSET (1..Len(o)) PROVE IsFiniteSet(T) /\ SumFunctionOnSet(Rests(o), T) \in Nat
  <2>1. IsFiniteSet(T)
    BY <1>2, FS_Subset
  <2>2. \A i \in T : Rests(o)[i] \in Nat /\ Rests(o)[i] \in Int /\ Rests(o)[i] <= Rests(o)[i]
    BY <1>4
  <2>3. T \in SUBSET T
    OBVIOUS
  <2>4. SumFunctionOnSet(Rests(o), T) \in Nat
    BY <2>1, <2>2, <2>3, SumLess
  <2> QED  BY <2>1, <2>4
<1> QED BY <1>1, <1>2, <1>3, <1>4, <1>5

\* Those ahead of an order are in its list.
LEMMA EarlierListed ==
  ASSUME NEW o, NEW s, NEW i
  PROVE  EarlierIn(o, s, i) \subseteq In(s)
BY DEF EarlierIn, In

\* p are the orders o after k of them was filled some more.
FillOf(o, p, k) ==
  /\ p \in Seq(QOrder) /\ Len(p) = Len(o) /\ \A i \in 1..Len(o) : i # k => p[i] = o[i]
  /\ p[k].side = o[k].side /\ p[k].price = o[k].price /\ p[k].quantity = o[k].quantity
  /\ p[k].submitted = o[k].submitted /\ o[k].filled <= p[k].filled
  /\ p[k].filled <= p[k].quantity

\* An order that is filled in part stays where it is, and its size ahead is brought up to date.
LEMMA BookAfterFill ==
  ASSUME NEW o, NEW book, BookOK(o, book), NEW k \in OpenIn(o), NEW p, FillOf(o, p, k),
         p[k].filled < p[k].quantity, p[k].status \notin {"FILLED", "CANCELLED"},
         p[k].ahead = SumFunctionOnSet(Rests(p), Earlier(p, book, k))
  PROVE  BookOK(p, book)
<1> USE DEF FillOf
<1> DEFINE D == 1..Len(o)
<1>1. k \in D /\ o[k].status \notin {"FILLED", "CANCELLED"}
  BY DEF OpenIn
<1>2. OrdersOK(o)
  BY DEF BookOK
<1>3. OrdersOK(p)
  <2>1. p[k] \in QOrder
    BY <1>1, ElementOfSeq
  <2>2. p[k].filled <= p[k].quantity
    BY <2>1 DEF QOrder
  <2> SUFFICES ASSUME NEW i \in 1..Len(p)
               PROVE  p[i].filled <= p[i].quantity /\ (i \in OpenIn(p) => p[i].filled < p[i].quantity)
    BY DEF OrdersOK
  <2>3. CASE i = k
    BY <2>2, <2>3
  <2>4. CASE i # k
    BY <1>2, <2>4 DEF OrdersOK, OpenIn
  <2> QED  BY <2>3, <2>4
<1>4. \A i \in D : Rests(p)[i] \in Nat /\ Rests(o)[i] \in Nat /\ Rests(p)[i] <= Rests(o)[i]
  <2>1. \A i \in D : /\ Rests(p)[i] = p[i].quantity - p[i].filled /\ Rests(p)[i] \in Nat
                     /\ Rests(o)[i] = o[i].quantity - o[i].filled /\ Rests(o)[i] \in Nat
                     /\ o[i] \in QOrder /\ p[i] \in QOrder
    BY <1>2, <1>3, OrderFacts
  <2> HIDE DEF D
  <2>2. p[k] \in QOrder /\ o[k] \in QOrder
    BY <1>1, <2>1
  <2>3. Rests(p)[k] <= Rests(o)[k]
    BY <1>1, <2>1, <2>2 DEF QOrder
  <2>4. ASSUME NEW i \in D, i # k PROVE Rests(p)[i] <= Rests(o)[i]
    <3>1. p[i] = o[i]
      BY <2>4 DEF D
    <3> QED  BY <2>1, <3>1
  <2> QED  BY <2>1, <2>3, <2>4
<1>5. ASSUME NEW T \in SUBSET D
      PROVE  SumFunctionOnSet(Rests(p), T) <= SumFunctionOnSet(Rests(o), T)
  <2>1. IsFiniteSet(T)
    BY <1>2, OrderFacts
  <2>2. \A i \in T : Rests(p)[i] \in Int /\ Rests(o)[i] \in Nat /\ Rests(p)[i] <= Rests(o)[i]
    BY <1>4
  <2> QED  BY <2>1, <2>2, SumLess
<1>6. /\ \A i \in D : Place(p[i]) = Place(o[i]) /\ p[i].submitted = o[i].submitted
      /\ OpenIn(p) = OpenIn(o)
  BY <1>1 DEF Place, OpenIn
<1>7. \A l : OpenAt(p, l) = OpenAt(o, l) /\ OpenAt(o, l) \subseteq D
  BY <1>6 DEF OpenAt, OpenIn
<1>8. \A l \in DOMAIN book : LevelOK(p, book[l], l)
  <2> SUFFICES ASSUME NEW l \in DOMAIN book PROVE LevelOK(p, book[l], l)
    OBVIOUS
  <2> DEFINE x == book[l]
  <2>1. LevelOK(o, x, l)
    BY DEF BookOK
  <2>2. In(x.ids) \in SUBSET D
    BY <1>7, <2>1 DEF LevelOK
  <2>3. SumFunctionOnSet(Rests(p), In(x.ids)) <= SumFunctionOnSet(Rests(o), In(x.ids))
    BY <1>5, <2>2
  <2>4. /\ SumFunctionOnSet(Rests(p), In(x.ids)) \in Int /\ SumFunctionOnSet(Rests(o), In(x.ids)) \in Int
    BY <1>2, <1>3, <2>2, OrderFacts
  <2>5. x.total \in Int
    BY <2>1 DEF LevelOK
  <2>6. SumFunctionOnSet(Rests(p), In(x.ids)) <= x.total
    <3>1. SumFunctionOnSet(Rests(o), In(x.ids)) <= x.total
      BY <2>1 DEF LevelOK
    <3> QED  BY <2>3, <2>4, <2>5, <3>1
  <2> HIDE DEF x
  <2>7. LevelOK(p, x, l)
    BY <1>7, <2>1, <2>6 DEF LevelOK
  <2> QED  BY <2>7 DEF x
<1>9. ASSUME NEW i \in OpenIn(o)
      PROVE  /\ Place(o[i]) \in DOMAIN book /\ i \in D
             /\ Earlier(p, book, i) = Earlier(o, book, i) /\ Earlier(o, book, i) \in SUBSET D
             /\ SumFunctionOnSet(Rests(o), Earlier(o, book, i)) <= o[i].ahead
  <2>1. /\ Place(o[i]) \in DOMAIN book /\ i \in D
        /\ SumFunctionOnSet(Rests(o), Earlier(o, book, i)) <= o[i].ahead
    BY DEF BookOK, OpenIn
  <2>2. LevelOK(o, book[Place(o[i])], Place(o[i]))
    BY <2>1 DEF BookOK
  <2> DEFINE s == book[Place(o[i])].ids
  <2>3. s \in Seq(D) /\ In(s) \subseteq D
    BY <1>7, <2>2 DEF LevelOK
  <2>4. Earlier(o, book, i) = EarlierIn(o, s, i) /\ Earlier(p, book, i) = EarlierIn(p, s, i)
    BY <1>6, <2>1 DEF Earlier
  <2> HIDE DEF s
  <2>5. EarlierIn(p, s, i) = EarlierIn(o, s, i)
    <3>1. \A j \in 1..Len(s) : s[j] \in D
      BY <2>3, ElementOfSeq
    <3>2. \A j \in 1..Len(s) : p[s[j]].submitted = o[s[j]].submitted /\ p[i].submitted = o[i].submitted
      BY <1>6, <2>1, <3>1
    <3> QED  BY <3>2 DEF EarlierIn
  <2>6. EarlierIn(o, s, i) \subseteq In(s)
    BY EarlierListed
  <2> QED  BY <2>1, <2>3, <2>4, <2>5, <2>6
<1>10. ASSUME NEW i \in OpenIn(p)
       PROVE  /\ Place(p[i]) \in DOMAIN book
              /\ SumFunctionOnSet(Rests(p), Earlier(p, book, i)) <= p[i].ahead
  <2>1. i \in OpenIn(o) /\ i \in D
    BY <1>6, <1>9
  <2>2. Place(p[i]) \in DOMAIN book
    BY <1>6, <1>9, <2>1
  <2> DEFINE T == Earlier(p, book, i)
  <2>3. /\ T \in SUBSET D /\ SumFunctionOnSet(Rests(o), T) <= o[i].ahead
    BY <1>9, <2>1
  <2>4. /\ SumFunctionOnSet(Rests(p), T) <= SumFunctionOnSet(Rests(o), T)
        /\ SumFunctionOnSet(Rests(p), T) \in Int /\ SumFunctionOnSet(Rests(o), T) \in Int
    BY <1>2, <1>3, <1>5, <2>3, OrderFacts
  <2>5. CASE i = k
    BY <2>2, <2>4, <2>5
  <2>6. CASE i # k
    <3>1. p[i] = o[i]
      BY <2>1, <2>6
    <3>2. o[i] \in QOrder
      BY <1>2, <2>1, OrderFacts
    <3>3. o[i].ahead \in Int
      BY <3>2 DEF QOrder
    <3> HIDE DEF T
    <3>4. SumFunctionOnSet(Rests(p), T) <= p[i].ahead
      BY <2>3, <2>4, <3>1, <3>3
    <3> QED  BY <2>2, <3>4 DEF T
  <2> QED  BY <2>5, <2>6
<1> QED BY <1>3, <1>8, <1>10 DEF BookOK

\* t is s without its k-th element, and o and p agree on when those of S were submitted.
Without(s, t, k) == /\ Len(t) = Len(s) - 1
                    /\ \A j \in 1..Len(s) - 1 : t[j] = IF j < k THEN s[j] ELSE s[j + 1]
\* Two versions of the orders agree on when these were submitted.
SameTimes(o, p, S) == \A x \in S : p[x].submitted = o[x].submitted

\* Taking an order out of a list puts nobody ahead of another.
LEMMA EarlierShrinks ==
  ASSUME NEW S, NEW s \in Seq(S), NEW k \in 1..Len(s), NEW t \in Seq(S), Without(s, t, k),
         NEW i \in S, i # s[k], NEW o, NEW p, SameTimes(o, p, S)
  PROVE  EarlierIn(p, t, i) \subseteq EarlierIn(o, s, i)
<1> USE DEF Without, SameTimes
<1> SUFFICES ASSUME NEW j \in 1..Len(t), \A q \in 1..j : t[q] # i,
                    p[t[j]].submitted < p[i].submitted
             PROVE  t[j] \in EarlierIn(o, s, i)
  BY DEF EarlierIn
<1> DEFINE m == IF j < k THEN j ELSE j + 1
<1>0. Len(s) \in Nat /\ k \in Nat /\ j \in Nat
  OBVIOUS
<1>1. m \in 1..Len(s) /\ t[j] = s[m]
  BY <1>0
<1>2. ASSUME NEW q \in 1..m PROVE s[q] # i
  <2>1. CASE q < k
    <3>1. q \in 1..j /\ q \in 1..Len(s) - 1
      BY <1>0, <1>1, <2>1
    <3> QED  BY <2>1, <3>1
  <2>2. CASE q = k
    BY <2>2
  <2>3. CASE q > k
    <3>1. q - 1 \in 1..j /\ q - 1 \in 1..Len(s) - 1 /\ ~(q - 1 < k) /\ (q - 1) + 1 = q
      BY <1>0, <1>1, <2>3
    <3>2. t[q - 1] = s[q]
      BY <3>1
    <3> QED  BY <3>1, <3>2
  <2> QED  BY <1>0, <2>1, <2>2, <2>3
<1>3. t[j] \in S
  BY ElementOfSeq
<1>4. o[s[m]].submitted < o[i].submitted
  BY <1>1, <1>3
<1> HIDE DEF m
<1> QED BY <1>1, <1>2, <1>4 DEF EarlierIn

\* The book new is the book without order k, r by now, at level l.
Delisted(book, new, l, k, r) ==
  /\ DOMAIN new = DOMAIN book /\ \A m \in DOMAIN book : m # l => new[m] = book[m]
  /\ new[l] = [ids   |-> Queue!RemoveFirst(book[l].ids, k),
               total |-> book[l].total - (r.quantity - r.filled)]

\* An order that is closed leaves its level, which keeps at least what the others have left.
LEMMA BookAfterClose ==
  ASSUME NEW o, NEW book, BookOK(o, book), NEW k \in OpenIn(o), NEW p, FillOf(o, p, k),
         p[k].status \in {"FILLED", "CANCELLED"},
         NEW new, Delisted(book, new, Place(o[k]), k, p[k])
  PROVE  BookOK(p, new)
<1> USE DEF FillOf, Delisted
<1> DEFINE D == 1..Len(o)
           lev == Place(o[k])
           s == book[lev].ids
           t == Queue!RemoveFirst(s, k)
<1>1. k \in D /\ o[k].status \notin {"FILLED", "CANCELLED"} /\ k \in OpenAt(o, lev)
  BY DEF OpenIn, OpenAt
<1>2. OrdersOK(o) /\ lev \in DOMAIN book /\ LevelOK(o, book[lev], lev)
  BY DEF BookOK
<1>3. OrdersOK(p)
  <2> SUFFICES ASSUME NEW i \in 1..Len(p)
               PROVE  p[i].filled <= p[i].quantity /\ (i \in OpenIn(p) => p[i].filled < p[i].quantity)
    BY DEF OrdersOK
  <2>3. CASE i = k
    BY <2>3 DEF OpenIn
  <2>4. CASE i # k
    BY <1>2, <2>4 DEF OrdersOK, OpenIn
  <2> QED  BY <2>3, <2>4
<1>4. \A i \in D : /\ Rests(p)[i] \in Nat /\ Rests(o)[i] \in Nat /\ Rests(p)[i] <= Rests(o)[i]
                   /\ Rests(p)[i] \in Int /\ Rests(o)[i] \in Int
  <2>1. \A i \in D : /\ Rests(p)[i] = p[i].quantity - p[i].filled /\ Rests(p)[i] \in Nat
                     /\ Rests(o)[i] = o[i].quantity - o[i].filled /\ Rests(o)[i] \in Nat
                     /\ o[i] \in QOrder /\ p[i] \in QOrder
    BY <1>2, <1>3, OrderFacts
  <2> HIDE DEF D
  <2>2. p[k] \in QOrder /\ o[k] \in QOrder
    BY <1>1, <2>1
  <2>3. Rests(p)[k] <= Rests(o)[k]
    BY <1>1, <2>1, <2>2 DEF QOrder
  <2>4. ASSUME NEW i \in D, i # k PROVE Rests(p)[i] <= Rests(o)[i]
    <3>1. p[i] = o[i]
      BY <2>4 DEF D
    <3> QED  BY <2>1, <3>1
  <2> QED  BY <2>1, <2>3, <2>4
<1>5. ASSUME NEW T \in SUBSET D, NEW U \in SUBSET T
      PROVE  /\ SumFunctionOnSet(Rests(p), U) <= SumFunctionOnSet(Rests(o), T)
             /\ SumFunctionOnSet(Rests(p), U) \in Int /\ SumFunctionOnSet(Rests(o), T) \in Int
  <2>1. IsFiniteSet(T) /\ U \in SUBSET D
    BY <1>2, OrderFacts
  <2>2. \A i \in T : Rests(o)[i] \in Nat
    BY <1>4
  <2>3. \A i \in U : Rests(p)[i] \in Int /\ Rests(p)[i] <= Rests(o)[i]
    BY <1>4
  <2>4. /\ SumFunctionOnSet(Rests(p), U) \in Nat /\ SumFunctionOnSet(Rests(o), T) \in Nat
    BY <1>2, <1>3, <2>1, OrderFacts
  <2> HIDE DEF D
  <2>5. SumFunctionOnSet(Rests(p), U) <= SumFunctionOnSet(Rests(o), T)
    BY <2>1, <2>2, <2>3, SumLess
  <2> QED  BY <2>4, <2>5
<1>6. /\ \A i \in D : Place(p[i]) = Place(o[i]) /\ p[i].submitted = o[i].submitted
      /\ OpenIn(p) = OpenIn(o) \ {k}
  BY <1>1 DEF Place, OpenIn
<1>7. \A l : OpenAt(p, l) = OpenAt(o, l) \ {k} /\ OpenAt(o, l) \subseteq D
  BY <1>6 DEF OpenAt, OpenIn
<1>8. s \in Seq(D) /\ Once(s) /\ In(s) = OpenAt(o, lev) /\ book[lev].total \in Int
      /\ SumFunctionOnSet(Rests(o), In(s)) <= book[lev].total
  BY <1>2 DEF LevelOK
<1>9. PICK c \in 1..Len(s) : s[c] = k
  BY <1>1, <1>8 DEF In
<1>10. /\ t \in Seq(D) /\ Len(t) = Len(s) - 1 /\ In(t) = In(s) \ {k} /\ Once(t)
       /\ \A j \in 1..Len(s) - 1 : t[j] = IF j < c THEN s[j] ELSE s[j + 1]
  <2> DEFINE w == Queue!RemoveFirst(s, s[c])
  <2>1. w = t
    BY <1>9
  <2> HIDE DEF s, t, D
  <2>2. /\ w \in Seq(D) /\ Len(w) = Len(s) - 1 /\ In(w) = In(s) \ {s[c]} /\ Once(w)
        /\ \A j \in 1..Len(s) - 1 : w[j] = IF j < c THEN s[j] ELSE s[j + 1]
    BY <1>8, RemovedFirst
  <2> HIDE DEF w
  <2> QED  BY <1>9, <2>1, <2>2
<1> HIDE DEF s, t
<1>11. ASSUME NEW l \in DOMAIN new, l # lev PROVE LevelOK(p, new[l], l)
  <2> DEFINE x == book[l]
  <2>1. LevelOK(o, x, l) /\ new[l] = x
    BY <1>11 DEF BookOK
  <2>2. In(x.ids) \in SUBSET D /\ In(x.ids) = OpenAt(o, l) /\ x.total \in Int
        /\ SumFunctionOnSet(Rests(o), In(x.ids)) <= x.total
    BY <1>7, <2>1 DEF LevelOK
  <2>3. k \notin OpenAt(o, l)
    BY <1>11 DEF OpenAt
  <2>4. /\ SumFunctionOnSet(Rests(p), In(x.ids)) <= SumFunctionOnSet(Rests(o), In(x.ids))
        /\ SumFunctionOnSet(Rests(p), In(x.ids)) \in Int /\ SumFunctionOnSet(Rests(o), In(x.ids)) \in Int
    BY <1>5, <2>2
  <2> HIDE DEF x
  <2>5. SumFunctionOnSet(Rests(p), In(x.ids)) <= x.total
    BY <2>2, <2>4
  <2>6. OpenAt(p, l) = OpenAt(o, l)
    BY <1>7, <2>3
  <2> QED  BY <2>1, <2>2, <2>5, <2>6 DEF LevelOK
<1>12. LevelOK(p, new[lev], lev)
  <2> DEFINE x == new[lev]
             rest == p[k].quantity - p[k].filled
  <2>1. x = [ids |-> t, total |-> book[lev].total - rest]
    BY DEF s, t
  <2>2. rest \in Nat /\ rest = Rests(p)[k]
    BY <1>1, <1>3, OrderFacts
  <2>3. x.ids = t /\ x.total = book[lev].total - rest
    BY <2>1
  <2> HIDE DEF rest
  <2>4. x \in [ids : Seq(1..Len(p)), total : Int]
    BY <1>8, <1>10, <2>1, <2>2
  <2>5. In(t) = OpenAt(p, lev)
    BY <1>7, <1>8, <1>10
  <2>6. SumFunctionOnSet(Rests(p), In(t)) + rest <= SumFunctionOnSet(Rests(o), In(s))
    <3>1. In(s) \in SUBSET D /\ k \in In(s) /\ IsFiniteSet(In(s))
      BY <1>1, <1>2, <1>7, <1>8, OrderFacts
    <3>2. \A i \in In(s) : Rests(p)[i] \in Int
      BY <1>4, <3>1
    <3>3. SumFunctionOnSet(Rests(p), In(s)) = Rests(p)[k] + SumFunctionOnSet(Rests(p), In(s) \ {k})
      BY <3>1, <3>2, SumRemove
    <3>4. SumFunctionOnSet(Rests(p), In(s)) <= SumFunctionOnSet(Rests(o), In(s))
      BY <1>5, <3>1
    <3>5. SumFunctionOnSet(Rests(p), In(t)) \in Int
      BY <1>5, <1>10, <3>1
    <3>6. SumFunctionOnSet(Rests(p), In(s)) = rest + SumFunctionOnSet(Rests(p), In(t))
      BY <1>10, <2>2, <3>3
    <3> QED  BY <2>2, <3>4, <3>5, <3>6
  <2>7. SumFunctionOnSet(Rests(p), In(t)) \in Int /\ SumFunctionOnSet(Rests(o), In(s)) \in Int
    BY <1>5, <1>7, <1>8, <1>10
  <2>8. SumFunctionOnSet(Rests(p), In(x.ids)) <= x.total
    BY <1>8, <2>2, <2>3, <2>6, <2>7
  <2> HIDE DEF x
  <2>9. Once(x.ids) /\ In(x.ids) = OpenAt(p, lev)
    BY <1>10, <2>3, <2>5
  <2>10. LevelOK(p, x, lev)
    BY <2>4, <2>8, <2>9 DEF LevelOK
  <2> QED  BY <2>10 DEF x
<1>13. ASSUME NEW i \in OpenIn(p)
       PROVE  /\ Place(p[i]) \in DOMAIN new
              /\ SumFunctionOnSet(Rests(p), Earlier(p, new, i)) <= p[i].ahead
  <2>1. i \in OpenIn(o) /\ i # k /\ i \in D
    BY <1>6 DEF OpenIn
  <2>2. p[i] = o[i] /\ Place(p[i]) = Place(o[i])
    BY <2>1
  <2>3. /\ Place(o[i]) \in DOMAIN book
        /\ SumFunctionOnSet(Rests(o), Earlier(o, book, i)) <= o[i].ahead
    BY <2>1 DEF BookOK
  <2> DEFINE u == book[Place(o[i])].ids
             v == new[Place(o[i])].ids
  <2>4. LevelOK(o, book[Place(o[i])], Place(o[i]))
    BY <2>3 DEF BookOK
  <2>5. u \in Seq(D) /\ In(u) \subseteq D
    BY <1>7, <2>4 DEF LevelOK
  <2>6. Earlier(o, book, i) = EarlierIn(o, u, i) /\ Earlier(p, new, i) = EarlierIn(p, v, i)
    BY <2>2 DEF Earlier
  <2>7. EarlierIn(p, v, i) \subseteq EarlierIn(o, u, i)
    <3>1. CASE Place(o[i]) = lev
      <4>1. u = s /\ v = t
        BY <3>1 DEF s, t
      <4>2. EarlierIn(p, t, i) \subseteq EarlierIn(o, s, i)
        <5>1. i # s[c] /\ p[i].submitted = o[i].submitted
          BY <1>6, <1>9, <2>1
        <5>2. SameTimes(o, p, D)
          BY <1>6 DEF SameTimes
        <5>3. s \in Seq(D) /\ t \in Seq(D) /\ Without(s, t, c)
          BY <1>8, <1>10 DEF Without
        <5>4. i \in D /\ c \in 1..Len(s)
          BY <2>1
        <5> HIDE DEF D
        <5> QED  BY <5>1, <5>2, <5>3, <5>4, EarlierShrinks
      <4> QED  BY <4>1, <4>2
    <3>2. CASE Place(o[i]) # lev
      <4>1. v = u
        BY <2>3, <3>2
      <4> HIDE DEF u, v
      <4>2. \A j \in 1..Len(u) : u[j] \in D
        BY <2>5, ElementOfSeq
      <4>3. \A j \in 1..Len(u) : p[u[j]].submitted = o[u[j]].submitted /\ p[i].submitted = o[i].submitted
        BY <1>6, <2>1, <4>2
      <4>4. EarlierIn(p, u, i) = EarlierIn(o, u, i)
        BY <4>3 DEF EarlierIn
      <4> QED  BY <4>1, <4>4
    <3> QED  BY <3>1, <3>2
  <2> HIDE DEF u, v
  <2>8. EarlierIn(o, u, i) \in SUBSET D
    BY <2>5, EarlierListed
  <2>9. /\ SumFunctionOnSet(Rests(p), Earlier(p, new, i)) <= SumFunctionOnSet(Rests(o), Earlier(o, book, i))
        /\ SumFunctionOnSet(Rests(p), Earlier(p, new, i)) \in Int
        /\ SumFunctionOnSet(Rests(o), Earlier(o, book, i)) \in Int
    BY <1>5, <2>6, <2>7, <2>8
  <2>10. o[i] \in QOrder
    BY <1>2, <2>1, OrderFacts
  <2>11. o[i].ahead \in Int
    BY <2>10 DEF QOrder
  <2>12. SumFunctionOnSet(Rests(p), Earlier(p, new, i)) <= p[i].ahead
    BY <2>2, <2>3, <2>9, <2>11
  <2> QED  BY <2>2, <2>3, <2>12
<1> QED BY <1>3, <1>11, <1>12, <1>13 DEF BookOK

\* The book next is the book with order n for c shares at the end of level l.
Enlisted(book, next, l, n, c) ==
  LET old == IF l \in DOMAIN book THEN book[l] ELSE [ids |-> << >>, total |-> 0]
  IN /\ DOMAIN next = DOMAIN book \cup {l} /\ \A m \in DOMAIN book : m # l => next[m] = book[m]
     /\ next[l] = [ids |-> Append(old.ids, n), total |-> old.total + c]

\* A new order goes to the end of its level, and its whole quantity into the level's total.
LEMMA BookAfterAdd ==
  ASSUME NEW o, NEW book, BookOK(o, book), NEW r \in QOrder, r.filled = 0, 0 < r.quantity,
         r.status = "OPEN",
         NEW p \in Seq(QOrder), Len(p) = Len(o) + 1, p[Len(o) + 1] = r,
         \A i \in 1..Len(o) : p[i] = o[i],
         NEW next, Enlisted(book, next, Place(r), Len(o) + 1, r.quantity),
         r.ahead = SumFunctionOnSet(Rests(p), Earlier(p, next, Len(o) + 1))
  PROVE  BookOK(p, next)
<1> USE DEF Enlisted
<1> DEFINE D == 1..Len(o)
           n == Len(o) + 1
           lev == Place(r)
           old == IF lev \in DOMAIN book THEN book[lev] ELSE [ids |-> << >>, total |-> 0]
           s == old.ids
           t == Append(s, n)
<1>1. OrdersOK(o) /\ Len(o) \in Nat /\ n \in 1..Len(p) /\ n \notin D /\ 1..Len(p) = D \cup {n} /\ n \in Int
  BY OrderFacts DEF BookOK
<1>2. OrdersOK(p)
  <2> SUFFICES ASSUME NEW i \in 1..Len(p)
               PROVE  p[i].filled <= p[i].quantity /\ (i \in OpenIn(p) => p[i].filled < p[i].quantity)
    BY DEF OrdersOK
  <2>1. r.quantity \in Nat
    BY DEF QOrder
  <2>3. CASE i = n
    BY <2>1, <2>3
  <2>4. CASE i \in D
    BY <1>1, <2>4 DEF OrdersOK, OpenIn
  <2> QED  BY <1>1, <2>3, <2>4
<1>3. ASSUME NEW i \in D PROVE Rests(p)[i] = Rests(o)[i]
  <2>1. Rests(o)[i] = o[i].quantity - o[i].filled
    BY <1>1, OrderFacts
  <2>2. i \in 1..Len(p) /\ p[i] = o[i]
    BY <1>1
  <2>3. Rests(p)[i] = p[i].quantity - p[i].filled
    BY <1>2, <2>2, OrderFacts
  <2> QED  BY <2>1, <2>2, <2>3
<1>4. ASSUME NEW T \in SUBSET D
      PROVE  /\ SumFunctionOnSet(Rests(p), T) = SumFunctionOnSet(Rests(o), T)
             /\ SumFunctionOnSet(Rests(p), T) \in Int /\ SumFunctionOnSet(Rests(o), T) \in Int
  <2>1. IsFiniteSet(T) /\ SumFunctionOnSet(Rests(o), T) \in Int
    BY <1>1, OrderFacts
  <2>2. \A x \in T : Rests(p)[x] = Rests(o)[x]
    BY <1>3
  <2> QED  BY <2>1, <2>2, SumAgree
<1>5. /\ \A l : OpenAt(o, l) \subseteq D
      /\ \A l : OpenAt(p, l) = OpenAt(o, l) \cup (IF l = lev THEN {n} ELSE {})
      /\ OpenIn(p) = OpenIn(o) \cup {n}
  BY <1>1 DEF OpenAt, OpenIn
<1>6. LevelOK(o, old, lev)
  <2>1. CASE lev \in DOMAIN book
    BY <2>1 DEF BookOK
  <2>2. CASE lev \notin DOMAIN book
    <3>1. old = [ids |-> << >>, total |-> 0] /\ OpenAt(o, lev) = {}
      BY <2>2 DEF OpenAt, BookOK
    <3>2. old.ids = << >> /\ old.total = 0
      BY <3>1
    <3>3. In(old.ids) = {} /\ Once(old.ids) /\ << >> \in Seq(D)
      BY <3>2, NothingIn
    <3>4. SumFunctionOnSet(Rests(o), {}) = 0
      BY SumEmpty
    <3>5. old \in [ids : Seq(1..Len(o)), total : Int]
      <4>1. \A x \in Seq(1..Len(o)) : [ids |-> x, total |-> 0] \in [ids : Seq(1..Len(o)), total : Int]
        OBVIOUS
      <4> HIDE DEF D
      <4>2. << >> \in Seq(1..Len(o))
        BY NothingIn
      <4> QED  BY <3>1, <4>1, <4>2
    <3>6. SumFunctionOnSet(Rests(o), In(old.ids)) <= old.total
      <4>1. SumFunctionOnSet(Rests(o), In(old.ids)) = 0
        BY <3>3, <3>4
      <4> QED  BY <3>2, <4>1
    <3> HIDE DEF lev
    <3> QED  BY <3>1, <3>3, <3>5, <3>6 DEF LevelOK
  <2> QED  BY <2>1, <2>2
<1>7. s \in Seq(D) /\ Once(s) /\ In(s) = OpenAt(o, lev) /\ old.total \in Int
      /\ SumFunctionOnSet(Rests(o), In(s)) <= old.total
  BY <1>6 DEF LevelOK
<1>8. s \in Seq(1..Len(p))
  BY <1>1, <1>7, WiderSeq
<1> HIDE DEF s
<1>9. /\ t \in Seq(1..Len(p)) /\ In(t) = In(s) \cup {n} /\ Len(t) = Len(s) + 1 /\ Len(s) \in Nat
      /\ Once(t) /\ \A j \in 1..Len(s) : t[j] = s[j]
  <2>1. n \notin In(s)
    BY <1>1, <1>5, <1>7
  <2> QED  BY <1>1, <1>7, <1>8, <2>1, AppendedIn
<1>10. next[lev] = [ids |-> t, total |-> old.total + r.quantity]
  BY DEF s
<1> HIDE DEF t, n
<1>11. LevelOK(p, next[lev], lev)
  <2> DEFINE x == next[lev]
  <2>1. x.ids = t /\ x.total = old.total + r.quantity
    BY <1>10
  <2>2. r.quantity \in Int
    BY DEF QOrder
  <2>3. x \in [ids : Seq(1..Len(p)), total : Int]
    <3>1. old.total + r.quantity \in Int
      BY <1>7, <2>2
    <3> DEFINE c == old.total + r.quantity
    <3> HIDE DEF c
    <3>2. [ids |-> t, total |-> c] \in [ids : Seq(1..Len(p)), total : Int]
      BY <1>9, <3>1 DEF c
    <3> QED  BY <1>10, <3>2 DEF c
  <2>4. In(t) = OpenAt(p, lev)
    BY <1>5, <1>7, <1>9
  <2>5. SumFunctionOnSet(Rests(p), In(t)) <= x.total
    <3>1. In(s) \in SUBSET D /\ IsFiniteSet(In(s)) /\ n \notin In(s)
      BY <1>1, <1>5, <1>7, OrderFacts
    <3>2. \A i \in In(s) \cup {n} : Rests(p)[i] \in Int
      BY <1>1, <1>2, <3>1, OrderFacts
    <3>3. SumFunctionOnSet(Rests(p), In(t)) = Rests(p)[n] + SumFunctionOnSet(Rests(p), In(s))
      <4> DEFINE A == In(s)
                 f == Rests(p)
      <4>1. IsFiniteSet(A) /\ n \notin A /\ \A i \in A \cup {n} : f[i] \in Int
        BY <3>1, <3>2
      <4>2. In(t) = A \cup {n}
        BY <1>9
      <4> HIDE DEF A, f
      <4>3. SumFunctionOnSet(f, A \cup {n}) = f[n] + SumFunctionOnSet(f, A)
        BY <4>1, SumInsert
      <4> QED  BY <4>2, <4>3 DEF A, f
    <3>4. Rests(p)[n] = p[n].quantity - p[n].filled /\ p[n] = r
      BY <1>1, <1>2, OrderFacts DEF n
    <3>5. Rests(p)[n] = r.quantity
      BY <2>2, <3>4
    <3>6. SumFunctionOnSet(Rests(p), In(s)) = SumFunctionOnSet(Rests(o), In(s))
          /\ SumFunctionOnSet(Rests(p), In(s)) \in Int
      BY <1>4, <3>1
    <3> QED  BY <1>7, <2>1, <2>2, <3>3, <3>5, <3>6
  <2> HIDE DEF x
  <2>6. Once(x.ids) /\ In(x.ids) = OpenAt(p, lev) /\ SumFunctionOnSet(Rests(p), In(x.ids)) <= x.total
    BY <1>9, <2>1, <2>4, <2>5
  <2>7. LevelOK(p, x, lev)
    BY <2>3, <2>6 DEF LevelOK
  <2> QED  BY <2>7 DEF x
<1>12. ASSUME NEW l \in DOMAIN book, l # lev PROVE LevelOK(p, next[l], l)
  <2> DEFINE x == book[l]
  <2>1. LevelOK(o, x, l) /\ next[l] = x
    BY <1>12 DEF BookOK
  <2>2. OpenAt(p, l) = OpenAt(o, l) /\ In(x.ids) = OpenAt(o, l) /\ In(x.ids) \in SUBSET D
    <3>1. OpenAt(p, l) = OpenAt(o, l) /\ OpenAt(o, l) \in SUBSET D
      BY <1>5, <1>12
    <3>2. In(x.ids) = OpenAt(o, l)
      BY <2>1 DEF LevelOK
    <3> QED  BY <3>1, <3>2
  <2>3. x \in [ids : Seq(D), total : Int] /\ Once(x.ids)
        /\ SumFunctionOnSet(Rests(o), In(x.ids)) <= x.total
    BY <2>1 DEF LevelOK
  <2>4. x \in [ids : Seq(1..Len(p)), total : Int]
    <3>1. x.ids \in Seq(1..Len(p))
      BY <1>1, <2>3, WiderSeq
    <3> QED  BY <2>3, <3>1
  <2>5. SumFunctionOnSet(Rests(p), In(x.ids)) <= x.total
    BY <1>4, <2>2, <2>3
  <2> HIDE DEF x
  <2> QED  BY <2>1, <2>2, <2>3, <2>4, <2>5 DEF LevelOK
<1>13. ASSUME NEW i \in OpenIn(o)
       PROVE  /\ Place(p[i]) \in DOMAIN next
              /\ SumFunctionOnSet(Rests(p), Earlier(p, next, i)) <= p[i].ahead
  <2>1. i \in D /\ p[i] = o[i]
    BY DEF OpenIn
  <2>2. /\ Place(o[i]) \in DOMAIN book
        /\ SumFunctionOnSet(Rests(o), Earlier(o, book, i)) <= o[i].ahead
    BY DEF BookOK
  <2> DEFINE u == book[Place(o[i])].ids
             v == next[Place(o[i])].ids
  <2>3. LevelOK(o, book[Place(o[i])], Place(o[i]))
    BY <2>2 DEF BookOK
  <2>4. u \in Seq(D) /\ In(u) \subseteq D /\ In(u) = OpenAt(o, Place(o[i]))
    BY <1>5, <2>3 DEF LevelOK
  <2>5. Earlier(o, book, i) = EarlierIn(o, u, i) /\ Earlier(p, next, i) = EarlierIn(p, v, i)
    BY <2>1 DEF Earlier
  <2>6. EarlierIn(p, u, i) = EarlierIn(o, u, i)
    <3> HIDE DEF u
    <3>1. \A j \in 1..Len(u) : u[j] \in D
      BY <2>4, ElementOfSeq
    <3>2. \A j \in 1..Len(u) : p[u[j]].submitted = o[u[j]].submitted /\ p[i].submitted = o[i].submitted
      BY <2>1, <3>1
    <3> QED  BY <3>2 DEF EarlierIn
  <2>7. EarlierIn(p, v, i) = EarlierIn(p, u, i)
    <3>1. CASE Place(o[i]) = lev
      <4>1. v = t /\ u = s
        BY <1>10, <2>2, <3>1 DEF s
      <4>2. i \in In(s)
        BY <1>7, <3>1 DEF OpenAt
      <4>3. PICK c \in 1..Len(s) : s[c] = i
        BY <4>2 DEF In
      <4> HIDE DEF u, v, D
      <4>4. EarlierIn(p, t, i) \subseteq EarlierIn(p, s, i)
        <5> SUFFICES ASSUME NEW j \in 1..Len(t), \A q \in 1..j : t[q] # i, p[t[j]].submitted < p[i].submitted
                     PROVE  t[j] \in EarlierIn(p, s, i)
          BY DEF EarlierIn
        <5>1. t[c] = i
          BY <1>9, <4>3
        <5>2. ~(c \in 1..j)
          BY <5>1
        <5>3. j \in 1..Len(s) /\ \A q \in 1..j : q \in 1..Len(s)
          BY <1>9, <5>2
        <5>4. t[j] = s[j] /\ \A q \in 1..j : s[q] # i
          BY <1>9, <5>3
        <5> QED  BY <5>3, <5>4 DEF EarlierIn
      <4>5. EarlierIn(p, s, i) \subseteq EarlierIn(p, t, i)
        <5> SUFFICES ASSUME NEW j \in 1..Len(s), \A q \in 1..j : s[q] # i, p[s[j]].submitted < p[i].submitted
                     PROVE  s[j] \in EarlierIn(p, t, i)
          BY SMTT(30) DEF EarlierIn
        <5>1. j \in 1..Len(t) /\ \A q \in 1..j : q \in 1..Len(s)
          BY <1>9
        <5>2. t[j] = s[j] /\ \A q \in 1..j : t[q] # i
          BY <1>9, <5>1
        <5> QED  BY <5>1, <5>2 DEF EarlierIn
      <4>6. EarlierIn(p, t, i) = EarlierIn(p, s, i)
        BY <4>4, <4>5
      <4> QED  BY <4>1, <4>6
    <3>2. CASE Place(o[i]) # lev
      <4>1. v = u
        BY <2>2, <3>2
      <4> HIDE DEF u, v
      <4> QED  BY <4>1
    <3> QED  BY <3>1, <3>2
  <2> DEFINE T == EarlierIn(o, u, i)
  <2>8. T \in SUBSET D
    BY <2>4, EarlierListed
  <2>9. Earlier(p, next, i) = T /\ SumFunctionOnSet(Rests(o), T) <= o[i].ahead
    BY <2>2, <2>5, <2>6, <2>7
  <2> HIDE DEF T
  <2>10. SumFunctionOnSet(Rests(p), Earlier(p, next, i)) <= p[i].ahead
    BY <1>4, <2>1, <2>8, <2>9
  <2> QED  BY <2>1, <2>2, <2>10
<1>14. /\ Place(p[n]) \in DOMAIN next
       /\ SumFunctionOnSet(Rests(p), Earlier(p, next, n)) <= p[n].ahead
  <2> DEFINE T == Earlier(p, next, n)
  <2>1. p[n] = r /\ r.ahead \in Int /\ Place(r) \in DOMAIN next
    BY DEF n, QOrder
  <2>2. r.ahead = SumFunctionOnSet(Rests(p), T)
    BY DEF n
  <2> HIDE DEF T
  <2>3. SumFunctionOnSet(Rests(p), T) <= p[n].ahead
    BY <2>1, <2>2
  <2> QED  BY <2>1, <2>3 DEF T
<1>15. \A l \in DOMAIN next : LevelOK(p, next[l], l)
  BY <1>11, <1>12
<1>16. \A i \in OpenIn(p) : /\ Place(p[i]) \in DOMAIN next
                            /\ SumFunctionOnSet(Rests(p), Earlier(p, next, i)) <= p[i].ahead
  BY <1>5, <1>13, <1>14
<1> QED BY <1>2, <1>15, <1>16 DEF BookOK

\* A state of the simulator while a handler runs.
QSt(o, L, F, n) == [orders |-> o, levels |-> L, filled_total |-> F, left |-> n]
FilledOf(o) == SumFunctionOnSet([i \in DOMAIN o |-> o[i].filled], 1..Len(o))
Dequeue(L, o, k) ==
  [L EXCEPT ![Place(o[k])] = [ids   |-> Queue!RemoveFirst(L[Place(o[k])].ids, k),
                              total |-> L[Place(o[k])].total - (o[k].quantity - o[k].filled)]]

\* The orders with another size ahead of one of them.
WithAhead(o, k, a) == [o EXCEPT ![k].ahead = a]

\* A field of it, and a change of one.
LEMMA StateIs ==
  ASSUME NEW o, NEW L, NEW F, NEW n
  PROVE  LET st == QSt(o, L, F, n)
         IN /\ st.orders = o /\ st.levels = L /\ st.filled_total = F /\ st.left = n
            /\ \A x : [st EXCEPT !.orders = x] = QSt(x, L, F, n)
            /\ \A x : [st EXCEPT !.levels = x] = QSt(o, x, F, n)
            /\ \A x : [st EXCEPT !.filled_total = x] = QSt(o, L, x, n)
            /\ \A x : [st EXCEPT !.left = x] = QSt(o, L, F, x)
BY DEF QSt

\* What a set of orders has left.
LEMMA SizeIs ==
  ASSUME NEW o, NEW L, NEW F, NEW n
  PROVE  \A T : Queue!SizeOf(QSt(o, L, F, n), T) = SumFunctionOnSet(Rests(o), T)
<1> DEFINE st == QSt(o, L, F, n)
<1>1. st.orders = o
  BY StateIs
<1> HIDE DEF st
<1>2. Rests(o) = [i \in DOMAIN st.orders |-> Queue!remaining_quantity(st.orders[i])]
  BY <1>1 DEF Rests, Queue!remaining_quantity
<1>3. \A T : Queue!SizeOf(st, T) = SumFunctionOnSet(Rests(o), T)
  BY <1>2, SimLibrary DEF Queue!SizeOf
<1> QED BY <1>3 DEF st

\* Those ahead of an order.
LEMMA AheadIs ==
  ASSUME NEW o, NEW L, NEW F, NEW n, NEW k, NEW S, L[Place(o[k])].ids \in Seq(S)
  PROVE  Queue!Ahead(QSt(o, L, F, n), k) = Earlier(o, L, k)
<1> DEFINE st == QSt(o, L, F, n)
           s == L[Place(o[k])].ids
<1>1. st.orders = o /\ st.levels = L
  BY StateIs
<1>2. Queue!LevelOf(o[k]) = Place(o[k]) /\ DOMAIN s = 1..Len(s)
  BY DEF Queue!LevelOf, Place
<1> HIDE DEF st
<1>3. Queue!Ahead(st, k) = Earlier(o, L, k)
  BY <1>1, <1>2 DEF Queue!Ahead, Earlier, EarlierIn
<1> QED BY <1>3 DEF st

\* _update_queue_position() changes the order's size ahead.
LEMMA UpdateIs ==
  ASSUME NEW o, NEW L, NEW F, NEW n, NEW k, NEW S, L[Place(o[k])].ids \in Seq(S)
  PROVE  Queue!UpdateQueuePosition(QSt(o, L, F, n), k) =
           QSt(WithAhead(o, k, SumFunctionOnSet(Rests(o), Earlier(o, L, k))), L, F, n)
<1> DEFINE st == QSt(o, L, F, n)
           a == SumFunctionOnSet(Rests(o), Earlier(o, L, k))
<1>1. Queue!SizeOf(st, Queue!Ahead(st, k)) = a
  BY AheadIs, SizeIs
<1>2. st.orders = o /\ \A x : [st EXCEPT !.orders = x] = QSt(x, L, F, n)
  BY StateIs
<1> HIDE DEF st, a
<1>3. [st EXCEPT !.orders[k].ahead = a] = QSt(WithAhead(o, k, a), L, F, n)
  BY <1>2 DEF WithAhead
<1>4. Queue!UpdateQueuePosition(st, k) = [st EXCEPT !.orders[k].ahead = a]
  BY <1>1 DEF Queue!UpdateQueuePosition
<1> QED BY <1>3, <1>4 DEF st, a

\* Both fields of a level replaced, one after the other.
LEMMA LevelChanged ==
  ASSUME NEW A, NEW x \in [ids : A, total : Int], NEW w, NEW c
  PROVE  [[x EXCEPT !.ids = w] EXCEPT !.total = c] = [ids |-> w, total |-> c]
<1> DEFINE y == [x EXCEPT !.ids = w]
<1>1. x = [ids |-> x.ids, total |-> x.total]
  OBVIOUS
<1>2. y = [ids |-> w, total |-> x.total]
  BY <1>1
<1> HIDE DEF y
<1>3. [y EXCEPT !.total = c] = [ids |-> w, total |-> c]
  BY <1>2
<1> QED BY <1>3 DEF y

\* _remove_from_book() takes the order out of its level.
LEMMA RemoveIs ==
  ASSUME NEW o, NEW L, NEW F, NEW n, NEW k, NEW S, Place(o[k]) \in DOMAIN L,
         L[Place(o[k])] \in [ids : Seq(S), total : Int]
  PROVE  Queue!RemoveFromBook(QSt(o, L, F, n), k) = QSt(o, Dequeue(L, o, k), F, n)
<1> DEFINE st == QSt(o, L, F, n)
           l == Place(o[k])
           w == Queue!RemoveFirst(L[l].ids, k)
           c == o[k].quantity - o[k].filled
           M == [L EXCEPT ![l].ids = w, ![l].total = @ - c]
<1>1. /\ st.orders = o /\ st.levels = L /\ \A x : [st EXCEPT !.levels = x] = QSt(o, x, F, n)
      /\ Queue!LevelOf(o[k]) = l /\ Queue!remaining_quantity(o[k]) = c
  BY StateIs DEF Queue!LevelOf, Place, Queue!remaining_quantity
<1> HIDE DEF st, c, l
<1>2. Queue!RemoveFromBook(st, k) =
        [st EXCEPT !.levels[l].ids = Queue!RemoveFirst(@, k), !.levels[l].total = @ - c]
  BY <1>1 DEF Queue!RemoveFromBook
<1>3. [st EXCEPT !.levels[l].ids = Queue!RemoveFirst(@, k), !.levels[l].total = @ - c] =
        [st EXCEPT !.levels = M]
  <2> DEFINE t == L[l].total - c
  <2>1. M = [L EXCEPT ![l].ids = w, ![l].total = t]
    OBVIOUS
  <2>2. [st EXCEPT !.levels[l].ids = Queue!RemoveFirst(@, k), !.levels[l].total = @ - c] =
        [st EXCEPT !.levels[l].ids = w, !.levels[l].total = t]
    BY <1>1
  <2> HIDE DEF M, w, t
  <2>3. [st EXCEPT !.levels[l].ids = w, !.levels[l].total = t] =
        [st EXCEPT !.levels = [L EXCEPT ![l].ids = w, ![l].total = t]]
    BY DEF st, QSt
  <2> QED  BY <2>1, <2>2, <2>3
<1>4. M = [L EXCEPT ![l] = [ids |-> w, total |-> L[l].total - c]]
  <2> HIDE DEF w
  <2>1. L[l] \in [ids : Seq(S), total : Int] /\ l \in DOMAIN L
    BY DEF l
  <2>2. M = [L EXCEPT ![l] = [[L[l] EXCEPT !.ids = w] EXCEPT !.total = L[l].total - c]]
    BY <2>1
  <2>3. [[L[l] EXCEPT !.ids = w] EXCEPT !.total = L[l].total - c] =
          [ids |-> w, total |-> L[l].total - c]
    BY <2>1, LevelChanged
  <2> QED  BY <2>2, <2>3
<1>5. M = Dequeue(L, o, k)
  BY <1>4 DEF Dequeue, l, c
<1> HIDE DEF M
<1> QED BY <1>1, <1>2, <1>3, <1>5 DEF st

\* An order's size ahead is no part of what the book says of the orders.
LEMMA AheadSet ==
  ASSUME NEW o \in Seq(QOrder), NEW k \in 1..Len(o), NEW a \in Nat
  PROVE  LET p == WithAhead(o, k, a)
         IN /\ p \in Seq(QOrder) /\ Len(p) = Len(o) /\ \A i \in 1..Len(o) : i # k => p[i] = o[i]
            /\ p[k] = [o[k] EXCEPT !.ahead = a] /\ Rests(p) = Rests(o)
            /\ FilledOf(p) = FilledOf(o)
            /\ \A L : L[Place(o[k])].ids \in Seq(1..Len(o)) => Earlier(p, L, k) = Earlier(o, L, k)
<1> DEFINE p == WithAhead(o, k, a)
           r == [o[k] EXCEPT !.ahead = a]
<1>1. /\ Len(o) \in Nat /\ DOMAIN o = 1..Len(o) /\ o[k] \in QOrder
  BY ElementOfSeq
<1>2. r \in QOrder
  BY <1>1 DEF QOrder
<1>3. p = [o EXCEPT ![k] = r]
  BY <1>1 DEF WithAhead
<1>4. r.quantity = o[k].quantity /\ r.filled = o[k].filled /\ r.submitted = o[k].submitted
      /\ r.side = o[k].side /\ r.price = o[k].price
  BY <1>1 DEF QOrder
<1> HIDE DEF p, r
<1>5. p \in Seq(QOrder) /\ Len(p) = Len(o) /\ DOMAIN p = DOMAIN o
      /\ p[k] = r /\ \A i \in 1..Len(o) : i # k => p[i] = o[i]
  BY <1>1, <1>2, <1>3
<1>6. \A i \in 1..Len(o) : /\ p[i].quantity = o[i].quantity /\ p[i].filled = o[i].filled
                          /\ p[i].submitted = o[i].submitted
  BY <1>4, <1>5
<1>7. Rests(p) = Rests(o) /\ FilledOf(p) = FilledOf(o)
  <2>1. [i \in DOMAIN p |-> p[i].filled] = [i \in DOMAIN o |-> o[i].filled]
    BY <1>1, <1>5, <1>6
  <2>2. [i \in DOMAIN p |-> p[i].quantity - p[i].filled] =
          [i \in DOMAIN o |-> o[i].quantity - o[i].filled]
    BY <1>1, <1>5, <1>6
  <2> QED  BY <1>5, <2>1, <2>2 DEF Rests, FilledOf
<1>8. ASSUME NEW L, L[Place(o[k])].ids \in Seq(1..Len(o))
      PROVE  Earlier(p, L, k) = Earlier(o, L, k)
  <2> DEFINE s == L[Place(o[k])].ids
  <2>1. Place(p[k]) = Place(o[k])
    BY <1>4, <1>5 DEF Place
  <2>2. \A j \in 1..Len(s) : s[j] \in 1..Len(o)
    BY <1>8, ElementOfSeq
  <2>3. Earlier(p, L, k) = EarlierIn(p, s, k) /\ Earlier(o, L, k) = EarlierIn(o, s, k)
    BY <2>1 DEF Earlier
  <2> HIDE DEF s
  <2>4. \A j \in 1..Len(s) : p[s[j]].submitted = o[s[j]].submitted /\ p[k].submitted = o[k].submitted
    BY <1>6, <2>2
  <2>5. EarlierIn(p, s, k) = EarlierIn(o, s, k)
    BY <2>4 DEF EarlierIn
  <2> QED  BY <2>3, <2>5
<1> QED BY <1>5, <1>7, <1>8 DEF p, r

\* The book is right, and the statistics are the sum of the orders' fills.
Kept(o, L, F) == BookOK(o, L) /\ F = FilledOf(o)

\* x is a state with as many orders as o, in which that holds.
Led(x, o, F, n) == \E p, M : x = QSt(p, M, F, n) /\ Kept(p, M, F) /\ Len(p) = Len(o)

\* The orders with one of them filled further.
FilledBy(o, k, m, status) == [o EXCEPT ![k].filled = @ + m, ![k].status = status]

\* The level of an open order, and what is ahead of it.
LEMMA OpenLevel ==
  ASSUME NEW o, NEW L, BookOK(o, L), NEW k \in OpenIn(o)
  PROVE  /\ k \in 1..Len(o) /\ o[k] \in QOrder /\ o[k].status \notin {"FILLED", "CANCELLED"}
         /\ o[k].filled < o[k].quantity
         /\ Place(o[k]) \in DOMAIN L
         /\ L[Place(o[k])] \in [ids : Seq(1..Len(o)), total : Int]
         /\ L[Place(o[k])].ids \in Seq(1..Len(o))
<1>1. k \in 1..Len(o) /\ o[k].status \notin {"FILLED", "CANCELLED"} /\ OrdersOK(o)
      /\ Place(o[k]) \in DOMAIN L
  BY DEF OpenIn, BookOK
<1>2. o[k] \in QOrder
  BY <1>1, OrderFacts
<1>3. LevelOK(o, L[Place(o[k])], Place(o[k]))
  BY <1>1 DEF BookOK
<1>4. L[Place(o[k])] \in [ids : Seq(1..Len(o)), total : Int]
  BY <1>3 DEF LevelOK
<1> QED BY <1>1, <1>2, <1>4 DEF OrdersOK

\* An order with more filled, and the statistics with it.
LEMMA FilledMore ==
  ASSUME NEW o \in Seq(QOrder), NEW k \in 1..Len(o), NEW m \in Nat,
         NEW status \in {"OPEN", "PARTIALLY_FILLED", "FILLED", "CANCELLED"}
  PROVE  LET p == FilledBy(o, k, m, status)
         IN /\ p \in Seq(QOrder) /\ Len(p) = Len(o) /\ \A i \in 1..Len(o) : i # k => p[i] = o[i]
            /\ p[k].filled = o[k].filled + m /\ p[k].status = status
            /\ p[k].quantity = o[k].quantity /\ p[k].side = o[k].side /\ p[k].price = o[k].price
            /\ p[k].submitted = o[k].submitted
            /\ FilledOf(p) = FilledOf(o) + m
<1> DEFINE p == FilledBy(o, k, m, status)
           c == o[k].filled + m
           r == [[o[k] EXCEPT !.filled = c] EXCEPT !.status = status]
           D == 1..Len(o)
<1>1. /\ Len(o) \in Nat /\ DOMAIN o = D /\ IsFiniteSet(D) /\ \A i \in D : o[i] \in QOrder
  BY FS_Interval, ElementOfSeq
<1>2. c \in Nat /\ o[k].filled \in Nat
  BY SMTT(30), <1>1 DEF QOrder
<1> HIDE DEF c
<1>3. r \in QOrder /\ r.filled = c /\ r.status = status
      /\ r.quantity = o[k].quantity /\ r.side = o[k].side /\ r.price = o[k].price
      /\ r.submitted = o[k].submitted
  BY <1>1, <1>2 DEF QOrder
<1>4. p = [o EXCEPT ![k] = r]
  BY <1>1 DEF c, FilledBy
<1> HIDE DEF p, r
<1>5. p \in Seq(QOrder) /\ Len(p) = Len(o) /\ DOMAIN p = DOMAIN o
      /\ p[k] = r /\ \A i \in D : i # k => p[i] = o[i]
  BY <1>1, <1>3, <1>4
<1> DEFINE f == [i \in DOMAIN o |-> o[i].filled]
           h == [i \in DOMAIN p |-> p[i].filled]
<1>6. /\ \A i \in D : f[i] \in Int
      /\ h[k] = c /\ f[k] = o[k].filled /\ \A i \in D \ {k} : h[i] = f[i]
  <2>1. \A i \in D : o[i].filled \in Int /\ f[i] = o[i].filled /\ h[i] = p[i].filled
    BY <1>1, <1>5 DEF QOrder
  <2> HIDE DEF D, f, h
  <2>2. k \in D
    BY DEF D
  <2> QED  BY <1>3, <1>5, <2>1, <2>2
<1>7. FilledOf(o) = SumFunctionOnSet(f, D) /\ FilledOf(p) = SumFunctionOnSet(h, D)
  BY <1>5 DEF FilledOf
<1> HIDE DEF f, h, D
<1>8. k \in D /\ h[k] \in Int
  BY <1>2, <1>6 DEF D
<1>9. SumFunctionOnSet(h, D) = SumFunctionOnSet(f, D) + (h[k] - f[k])
  BY SMTT(30), <1>1, <1>6, <1>8, SumChange
<1>10. SumFunctionOnSet(f, D) \in Int
  BY <1>1, <1>6, SumType
<1>11. h[k] - f[k] = m
  BY <1>2, <1>6 DEF c
<1>12. FilledOf(p) = FilledOf(o) + m
  BY <1>7, <1>9, <1>11
<1> QED BY <1>3, <1>5, <1>12 DEF p, c, D

\* The state after such a fill.
FilledState(st, k, c, status, G) ==
  [st EXCEPT !.orders[k].filled = c, !.orders[k].status = status, !.filled_total = G]

\* A fill in the state of a handler.
LEMMA FillState ==
  ASSUME NEW o, NEW L, NEW F, NEW n, NEW k, NEW c, NEW status, NEW G
  PROVE  FilledState(QSt(o, L, F, n), k, c, status, G) =
           QSt([o EXCEPT ![k].filled = c, ![k].status = status], L, G, n)
<1> DEFINE st == QSt(o, L, F, n)
           o1 == [o EXCEPT ![k].filled = c]
           s1 == QSt(o1, L, F, n)
           o2 == [o1 EXCEPT ![k].status = status]
           s2 == QSt(o2, L, F, n)
<1>1. [st EXCEPT !.orders[k].filled = c] = s1
  <2>1. st.orders = o /\ \A x : [st EXCEPT !.orders = x] = QSt(x, L, F, n)
    BY StateIs
  <2> HIDE DEF st
  <2> QED  BY <2>1
<1>2. [s1 EXCEPT !.orders[k].status = status] = s2
  <2>1. s1.orders = o1 /\ \A x : [s1 EXCEPT !.orders = x] = QSt(x, L, F, n)
    BY StateIs
  <2> HIDE DEF s1
  <2> QED  BY <2>1
<1>3. [s2 EXCEPT !.filled_total = G] = QSt(o2, L, G, n)
  <2> HIDE DEF o2
  <2>1. \A x : [s2 EXCEPT !.filled_total = x] = QSt(o2, L, x, n)
    BY StateIs
  <2> QED  BY <2>1
<1>4. o2 = [o EXCEPT ![k].filled = c, ![k].status = status]
  OBVIOUS
<1>5. [st EXCEPT !.orders[k].filled = c, !.orders[k].status = status, !.filled_total = G] =
        [[[st EXCEPT !.orders[k].filled = c] EXCEPT !.orders[k].status = status]
           EXCEPT !.filled_total = G]
  OBVIOUS
<1>6. FilledState(st, k, c, status, G) = QSt(o2, L, G, n)
  <2> HIDE DEF s1, s2
  <2> QED  BY <1>1, <1>2, <1>3, <1>5 DEF FilledState
<1> QED BY <1>4, <1>6

\* _apply_fill(): a fill of at most what an order has left keeps the book and the statistics.
LEMMA FillKeeps ==
  ASSUME NEW o, NEW L, NEW F, NEW n, Kept(o, L, F), NEW k \in OpenIn(o), NEW m \in Nat,
         m <= o[k].quantity - o[k].filled
  PROVE  Led(Queue!ApplyFill(QSt(o, L, F, n), k, m), o, F + m, n)
<1> DEFINE st == QSt(o, L, F, n)
           full == o[k].filled + m >= o[k].quantity
           status == IF full THEN "FILLED" ELSE "PARTIALLY_FILLED"
           q == FilledBy(o, k, m, status)
           s1 == QSt(q, L, F + m, n)
           lev == Place(o[k])
<1>1. /\ BookOK(o, L) /\ F = FilledOf(o) /\ OrdersOK(o) /\ o \in Seq(QOrder) /\ k \in 1..Len(o)
      /\ o[k] \in QOrder /\ o[k].status \notin {"FILLED", "CANCELLED"} /\ o[k].filled < o[k].quantity
      /\ lev \in DOMAIN L /\ L[lev] \in [ids : Seq(1..Len(o)), total : Int]
      /\ L[lev].ids \in Seq(1..Len(o))
  BY OpenLevel DEF Kept, BookOK, OrdersOK
<1>2. Queue!ApplyFill(st, k, m) =
        Queue!UpdateQueuePosition(IF full THEN Queue!RemoveFromBook(s1, k) ELSE s1, k)
  <2> DEFINE a == [st EXCEPT !.orders[k].filled = @ + m, !.orders[k].status = status,
                             !.filled_total = @ + m]
  <2>1. st.orders = o
    BY StateIs
  <2>2. a = s1
    <3> DEFINE c == o[k].filled + m
               z == QSt(o, L, F, n)
    <3>1. z.orders = o /\ z.filled_total = F
      BY StateIs
    <3>2. a = [z EXCEPT !.orders[k].filled = c, !.orders[k].status = status, !.filled_total = F + m]
      BY <3>1
    <3> HIDE DEF c, status, a
    <3>3. q = [o EXCEPT ![k].filled = c, ![k].status = status]
      BY DEF FilledBy, c
    <3>4. FilledState(z, k, c, status, F + m) =
            QSt([o EXCEPT ![k].filled = c, ![k].status = status], L, F + m, n)
      BY FillState
    <3> HIDE DEF q, z
    <3> QED  BY <3>2, <3>3, <3>4 DEF FilledState
  <2> HIDE DEF st
  <2>3. Queue!ApplyFill(st, k, m) =
          Queue!UpdateQueuePosition(IF full THEN Queue!RemoveFromBook(a, k) ELSE a, k)
    BY <2>1 DEF Queue!ApplyFill
  <2> QED  BY <2>2, <2>3
<1>3. /\ q \in Seq(QOrder) /\ Len(q) = Len(o) /\ \A i \in 1..Len(o) : i # k => q[i] = o[i]
      /\ q[k].filled = o[k].filled + m /\ q[k].status = status
      /\ q[k].quantity = o[k].quantity /\ q[k].side = o[k].side /\ q[k].price = o[k].price
      /\ q[k].submitted = o[k].submitted
      /\ FilledOf(q) = F + m
  <2>1. status \in {"OPEN", "PARTIALLY_FILLED", "FILLED", "CANCELLED"}
    OBVIOUS
  <2> HIDE DEF status
  <2> QED  BY <1>1, <2>1, FilledMore
<1> HIDE DEF q, st
<1>4. Place(q[k]) = lev /\ o[k].filled \in Nat /\ o[k].quantity \in Nat
      /\ o[k].filled <= q[k].filled /\ q[k].filled <= q[k].quantity
  <2>1. o[k].filled \in Nat /\ o[k].quantity \in Nat
    BY <1>1 DEF QOrder
  <2>2. Place(q[k]) = lev
    BY <1>3 DEF Place
  <2> QED  BY <1>1, <1>3, <2>1, <2>2
<1>5. OrdersOK(q)
  <2>1. ASSUME NEW i \in 1..Len(q)
        PROVE  q[i].filled <= q[i].quantity /\ (i \in OpenIn(q) => q[i].filled < q[i].quantity)
    <3>1. CASE i = k
      BY <1>3, <1>4, <3>1 DEF OpenIn
    <3>2. CASE i # k
      BY <1>1, <1>3, <3>2 DEF OrdersOK, OpenIn
    <3> QED  BY <3>1, <3>2
  <2> QED  BY <1>3, <2>1 DEF OrdersOK
<1>6. CASE ~full
  <2> DEFINE a == SumFunctionOnSet(Rests(q), Earlier(q, L, k))
             p == WithAhead(q, k, a)
  <2>1. Earlier(q, L, k) \in SUBSET (1..Len(q))
    <3>1. Earlier(q, L, k) \subseteq In(L[lev].ids)
      BY <1>4, EarlierListed DEF Earlier
    <3>2. In(L[lev].ids) \subseteq 1..Len(o)
      BY <1>1, ElementOfSeq DEF In
    <3> QED  BY <1>3, <3>1, <3>2
  <2>2. a \in Nat
    BY <1>5, <2>1, OrderFacts
  <2>3. Queue!UpdateQueuePosition(s1, k) = QSt(p, L, F + m, n)
    BY <1>1, <1>4, UpdateIs
  <2> HIDE DEF a
  <2>4. /\ p \in Seq(QOrder) /\ Len(p) = Len(q) /\ \A i \in 1..Len(q) : i # k => p[i] = q[i]
        /\ p[k] = [q[k] EXCEPT !.ahead = a] /\ Rests(p) = Rests(q) /\ FilledOf(p) = FilledOf(q)
        /\ Earlier(p, L, k) = Earlier(q, L, k)
    BY SMTT(30), <1>1, <1>3, <1>4, <2>2, AheadSet
  <2> HIDE DEF p
  <2>5. q[k] \in QOrder
    BY <1>1, <1>3, ElementOfSeq
  <2>6. /\ p[k].side = o[k].side /\ p[k].price = o[k].price /\ p[k].quantity = o[k].quantity
        /\ p[k].submitted = o[k].submitted /\ p[k].filled = q[k].filled /\ p[k].status = q[k].status
        /\ p[k].ahead = a
    BY <1>3, <2>4, <2>5 DEF QOrder
  <2>7. p[k].ahead = SumFunctionOnSet(Rests(p), Earlier(p, L, k))
    BY <2>4, <2>6 DEF a
  <2>8. p[k].filled < p[k].quantity /\ o[k].filled <= p[k].filled
    BY <1>3, <1>4, <1>6, <2>6
  <2>9. p[k].status \notin {"FILLED", "CANCELLED"}
    BY <1>3, <1>6, <2>6
  <2>10. Len(p) = Len(o) /\ \A i \in 1..Len(o) : i # k => p[i] = o[i]
    BY <1>3, <2>4
  <2>11. BookOK(p, L)
    <3>1. FillOf(o, p, k)
      BY <1>3, <1>4, <2>4, <2>6, <2>10 DEF FillOf
    <3> QED  BY <1>1, <2>7, <2>8, <2>9, <3>1, BookAfterFill
  <2>12. Queue!ApplyFill(st, k, m) = QSt(p, L, F + m, n)
    BY <1>2, <1>6, <2>3
  <2>13. Kept(p, L, F + m)
    BY <1>3, <2>4, <2>11 DEF Kept
  <2> QED  BY <2>10, <2>12, <2>13 DEF st, Led
<1>7. CASE full
  <2> DEFINE M == Dequeue(L, q, k)
             t == Queue!RemoveFirst(L[lev].ids, k)
             a == SumFunctionOnSet(Rests(q), Earlier(q, M, k))
             p == WithAhead(q, k, a)
  <2>1. Queue!RemoveFromBook(s1, k) = QSt(q, M, F + m, n)
    BY <1>1, <1>4, RemoveIs
  <2>2. /\ DOMAIN M = DOMAIN L /\ \A l \in DOMAIN L : l # lev => M[l] = L[l]
        /\ M[lev] = [ids |-> t, total |-> L[lev].total - (q[k].quantity - q[k].filled)]
    BY <1>1, <1>4 DEF Dequeue
  <2>3. t \in Seq(1..Len(o))
    <3>1. LevelOK(o, L[lev], lev) /\ k \in OpenAt(o, lev)
      BY <1>1 DEF BookOK, OpenAt
    <3>2. Once(L[lev].ids) /\ k \in In(L[lev].ids)
      BY <3>1 DEF LevelOK
    <3>3. PICK c \in 1..Len(L[lev].ids) : L[lev].ids[c] = k
      BY <3>2 DEF In
    <3> DEFINE s == L[lev].ids
    <3>4. s \in Seq(1..Len(o)) /\ Once(s) /\ c \in 1..Len(s) /\ s[c] = k
      BY <1>1, <3>2, <3>3
    <3> HIDE DEF s, lev
    <3>5. Queue!RemoveFirst(s, s[c]) \in Seq(1..Len(o))
      BY <3>4, RemovedFirst
    <3> QED  BY <3>4, <3>5 DEF s
  <2> HIDE DEF M
  <2>4. M[lev].ids = t
    BY <2>2
  <2>5. Earlier(q, M, k) \in SUBSET (1..Len(q))
    <3>1. Earlier(q, M, k) \subseteq In(t)
      BY <1>4, <2>4, EarlierListed DEF Earlier
    <3> HIDE DEF t
    <3>2. In(t) \subseteq 1..Len(o)
      BY <2>3, ElementOfSeq DEF In
    <3> QED  BY <1>3, <3>1, <3>2
  <2>6. a \in Nat
    BY <1>5, <2>5, OrderFacts
  <2>7. Queue!UpdateQueuePosition(QSt(q, M, F + m, n), k) = QSt(p, M, F + m, n)
    BY <1>4, <2>3, <2>4, UpdateIs
  <2> HIDE DEF a
  <2>8. /\ p \in Seq(QOrder) /\ Len(p) = Len(q) /\ \A i \in 1..Len(q) : i # k => p[i] = q[i]
        /\ p[k] = [q[k] EXCEPT !.ahead = a] /\ FilledOf(p) = FilledOf(q)
    BY <1>1, <1>3, <2>6, AheadSet
  <2> HIDE DEF p
  <2>9. q[k] \in QOrder
    BY <1>1, <1>3, ElementOfSeq
  <2>10. /\ p[k].side = o[k].side /\ p[k].price = o[k].price /\ p[k].quantity = o[k].quantity
         /\ p[k].submitted = o[k].submitted /\ p[k].filled = q[k].filled /\ p[k].status = "FILLED"
    BY <1>3, <1>7, <2>8, <2>9 DEF QOrder
  <2>11. o[k].filled <= p[k].filled /\ p[k].filled <= p[k].quantity
    BY <1>3, <1>4, <2>10
  <2>12. Len(p) = Len(o) /\ \A i \in 1..Len(o) : i # k => p[i] = o[i]
    BY <1>3, <2>8
  <2>13. M[lev] = [ids |-> t, total |-> L[lev].total - (p[k].quantity - p[k].filled)]
    BY <1>3, <2>2, <2>10
  <2>14. p[k].status \in {"FILLED", "CANCELLED"}
    BY <2>10
  <2>15. BookOK(p, M)
    <3>1. FillOf(o, p, k)
      BY <2>8, <2>10, <2>11, <2>12 DEF FillOf
    <3>2. Delisted(L, M, lev, k, p[k])
      BY <2>2, <2>13 DEF Delisted
    <3> QED  BY <1>1, <2>14, <3>1, <3>2, BookAfterClose
  <2>16. Queue!ApplyFill(st, k, m) = QSt(p, M, F + m, n)
    BY <1>2, <1>7, <2>1, <2>7
  <2>17. Kept(p, M, F + m)
    BY <1>3, <2>8, <2>15 DEF Kept
  <2> QED  BY <2>12, <2>16, <2>17 DEF st, Led
<1> QED BY <1>6, <1>7

\* Part of m rounded is at most m: halves go up only where the part is not the whole.
LEMMA RoundedPart ==
  ASSUME NEW m \in Nat, NEW a \in Nat, NEW d \in Nat \ {0}, a <= d
  PROVE  Queue!RoundHalfEven(m * a, d) \in Nat /\ Queue!RoundHalfEven(m * a, d) <= m
<1> DEFINE x == m * a
           q == x \div d
           r == x % d
<1>1. x \in Nat /\ m * d \in Nat /\ x <= m * d
  BY ProductGrows
<1> HIDE DEF x
<1>2. q \in Nat /\ r \in 0..d - 1 /\ x = d * q + r
  BY <1>1, Divided
<1>3. Queue!RoundHalfEven(x, d) = IF 2 * r > d \/ (2 * r = d /\ q % 2 = 1) THEN q + 1 ELSE q
  BY DEF Queue!RoundHalfEven
<1> HIDE DEF q, r
<1>4. CASE q < m
  BY <1>2, <1>3, <1>4 DEF x
<1>5. CASE q >= m
  <2>1. d * m \in Nat /\ d * q \in Nat /\ d * m <= d * q
    BY <1>2, <1>5, ProductGrows
  <2>2. d * m = m * d
    OBVIOUS
  <2> DEFINE u == d * m
             v == d * q
  <2>3. u \in Nat /\ v \in Nat /\ u <= v /\ x <= u /\ x = v + r
    BY <1>1, <1>2, <2>1, <2>2
  <2> HIDE DEF u, v
  <2>4. r = 0 /\ v = u
    BY <1>1, <1>2, <2>3
  <2>5. ~(2 * r > d) /\ 2 * r # d
    BY <2>4
  <2>6. Queue!RoundHalfEven(x, d) = q
    BY <1>3, <2>5
  <2>7. q = m
    <3>1. CASE q = m
      BY <3>1
    <3>2. CASE q > m
      <4>1. m + 1 <= q /\ m + 1 \in Nat
        BY <1>2, <3>2
      <4>2. d * (m + 1) <= d * q
        BY <1>2, <4>1, ProductGrows
      <4>3. d * (m + 1) = d * m + d
        OBVIOUS
      <4>4. u + d <= v
        BY <4>2, <4>3 DEF u, v
      <4> QED  BY <2>3, <2>4, <4>4
    <3> QED  BY <1>2, <1>5, <3>1, <3>2
  <2> QED  BY <1>2, <2>6, <2>7 DEF x
<1> QED BY <1>2, <1>4, <1>5 DEF x

\* At least one share.
LEMMA AtLeastOne ==
  ASSUME NEW b \in Nat
  PROVE  Queue!Max({1, b}) = IF 1 <= b THEN b ELSE 1
BY DEF Queue!Max

\* _calculate_fill_probability() is a part of one.
LEMMA Probable ==
  ASSUME NEW o, o.ahead \in Nat, NEW deal, deal.quantity \in Nat \ {0}
  PROVE  LET p == Queue!FillProbability(o, deal)
         IN p[1] \in Nat /\ p[2] \in Nat \ {0} /\ p[1] <= p[2]
<1> DEFINE through == \/ o.side = "BUY" /\ deal.price < o.price
                      \/ o.side = "SELL" /\ deal.price > o.price
           n == deal.quantity * (IF through THEN 3 ELSE 2)
           d == (deal.quantity + o.ahead) * 2
<1>1. n \in Nat
  <2>1. deal.quantity * 3 \in Nat /\ deal.quantity * 2 \in Nat
    OBVIOUS
  <2> HIDE DEF through
  <2> QED  BY <2>1
<1>2. d \in Nat \ {0}
  OBVIOUS
<1>3. Queue!FillProbability(o, deal) = IF o.ahead = 0 \/ n > d THEN <<1, 1>> ELSE <<n, d>>
  BY DEF Queue!FillProbability
<1> HIDE DEF n, d
<1> QED BY <1>1, <1>2, <1>3

\* The statistics are a natural number.
LEMMA FilledNat ==
  ASSUME NEW o, OrdersOK(o)
  PROVE  FilledOf(o) \in Nat
<1> DEFINE D == 1..Len(o)
           f == [i \in DOMAIN o |-> o[i].filled]
<1>1. IsFiniteSet(D) /\ DOMAIN o = D
  BY OrderFacts
<1>2. \A i \in D : o[i].filled \in Nat
  <2> SUFFICES ASSUME NEW i \in D PROVE o[i].filled \in Nat
    OBVIOUS
  <2>1. o[i] \in QOrder
    BY OrderFacts
  <2> QED  BY <2>1 DEF QOrder
<1>3. FilledOf(o) = SumFunctionOnSet(f, D)
  BY DEF FilledOf
<1>4. \A i \in D : f[i] \in Nat /\ f[i] \in Int /\ f[i] <= f[i]
  BY <1>1, <1>2
<1> HIDE DEF D, f
<1>5. D \in SUBSET D
  OBVIOUS
<1>6. SumFunctionOnSet(f, D) \in Nat
  BY <1>1, <1>4, <1>5, SumLess
<1> QED BY <1>3, <1>6

\* x is a state with as many orders as o, the books kept, and c shared between the statistics
\* and what a trade has left.
Shared(x, o, c) == \E p, M, G : \E r \in Nat : /\ x = QSt(p, M, G, r) /\ Kept(p, M, G)
                                              /\ Len(p) = Len(o) /\ G + r = c

\* One round of process_trade(): what it fills comes out of what the trade has left.
LEMMA FillOneKeeps ==
  ASSUME NEW o, NEW L, NEW F, NEW n \in Nat, Kept(o, L, F), NEW k \in 1..Len(o),
         NEW deal, deal.quantity \in Nat \ {0}
  PROVE  Shared(Queue!FillOne(QSt(o, L, F, n), k, deal), o, F + n)
<1> DEFINE st == QSt(o, L, F, n)
           pr == Queue!FillProbability(o[k], deal)
           rem == o[k].quantity - o[k].filled
           m == Queue!Min({n, rem})
           rounded == Queue!RoundHalfEven(m * pr[1], pr[2])
           want == Queue!Min({Queue!Max({1, rounded}), rem})
           go == n > 0 /\ o[k].status \notin Queue!Complete /\ Queue!WouldFill(o[k], deal)
                 /\ 2 * pr[1] > pr[2]
<1>1. Queue!FillOne(st, k, deal) =
        IF go THEN [Queue!ApplyFill(st, k, want) EXCEPT !.left = @ - want] ELSE st
  <2>1. st.orders = o /\ st.left = n
    BY StateIs
  <2> HIDE DEF st
  <2> QED  BY <2>1 DEF Queue!FillOne, Queue!remaining_quantity
<1>2. OrdersOK(o) /\ F \in Nat
  BY FilledNat DEF Kept, BookOK
<1>3. CASE ~go
  <2>1. Queue!FillOne(st, k, deal) = QSt(o, L, F, n)
    BY <1>1, <1>3
  <2> QED  BY <2>1 DEF Shared
<1>4. CASE go
  <2>1. k \in OpenIn(o) /\ n > 0
    BY <1>4 DEF OpenIn, Queue!Complete
  <2>2. o[k] \in QOrder /\ o[k].filled < o[k].quantity
    BY <2>1, OpenLevel DEF Kept
  <2>3. rem \in Nat /\ rem > 0 /\ o[k].ahead \in Nat
    BY <2>2 DEF QOrder
  <2>4. pr[1] \in Nat /\ pr[2] \in Nat \ {0} /\ pr[1] <= pr[2]
    BY <2>3, Probable
  <2> HIDE DEF pr, rem
  <2>5. m \in Nat /\ m <= n /\ m <= rem
    <3>1. m = IF n <= rem THEN n ELSE rem
      BY <2>3, SimLibrary
    <3> QED  BY <2>3, <3>1
  <2> HIDE DEF m
  <2>6. rounded \in Nat /\ rounded <= m
    BY <2>4, <2>5, RoundedPart
  <2> HIDE DEF rounded
  <2>7. want \in Nat /\ want <= n /\ want <= rem
    <3> DEFINE b == Queue!Max({1, rounded})
    <3>1. b = IF 1 <= rounded THEN rounded ELSE 1
      BY <2>6, AtLeastOne
    <3>2. b \in Nat /\ b <= n
      BY <2>1, <2>5, <2>6, <3>1
    <3> HIDE DEF b
    <3>3. Queue!Min({b, rem}) = IF b <= rem THEN b ELSE rem
      BY <2>3, <3>2, SimLibrary
    <3>4. want = Queue!Min({b, rem})
      BY DEF b
    <3> QED  BY <2>3, <3>2, <3>3, <3>4
  <2> HIDE DEF want
  <2>0. Led(Queue!ApplyFill(st, k, want), o, F + want, n)
    <3>1. want <= o[k].quantity - o[k].filled
      BY <2>7 DEF rem
    <3> HIDE DEF go
    <3> QED  BY <2>1, <2>7, <3>1, FillKeeps
  <2>8. PICK p, M : /\ Queue!ApplyFill(st, k, want) = QSt(p, M, F + want, n)
                    /\ Kept(p, M, F + want) /\ Len(p) = Len(o)
    BY <2>0 DEF Led
  <2>9. [QSt(p, M, F + want, n) EXCEPT !.left = @ - want] = QSt(p, M, F + want, n - want)
    <3> DEFINE z == QSt(p, M, F + want, n)
    <3>1. z.left = n /\ \A x : [z EXCEPT !.left = x] = QSt(p, M, F + want, x)
      BY StateIs
    <3> HIDE DEF z
    <3>2. [z EXCEPT !.left = @ - want] = QSt(p, M, F + want, n - want)
      BY <3>1
    <3> QED  BY <3>2 DEF z
  <2>10. Queue!FillOne(st, k, deal) = QSt(p, M, F + want, n - want)
    BY <1>1, <1>4, <2>8, <2>9
  <2>11. n - want \in Nat /\ (F + want) + (n - want) = F + n
    BY <1>2, <2>7
  <2> QED  BY <2>8, <2>10, <2>11 DEF Shared
<1> QED BY <1>3, <1>4

\* What a loop that extends a list round by round has after each round.
Joins(g, e, K) == g = [k \in 0..K |-> IF k = 0 THEN << >> ELSE g[k - 1] \o e[k]]

\* Sequences joined one after another, from a function that gives each: there is such a function.
LEMMA JoinedExists ==
  ASSUME NEW e, NEW K \in Nat
  PROVE  \E g : Joins(g, e, K)
<1> USE DEF Joins
<1> DEFINE S == {n \in Nat : \E g : g = [k \in 0..n |-> IF k = 0 THEN << >> ELSE g[k - 1] \o e[k]]}
<1>1. 0 \in S
  <2> DEFINE g == [k \in 0..0 |-> << >>]
  <2>1. g = [k \in 0..0 |-> IF k = 0 THEN << >> ELSE g[k - 1] \o e[k]]
    OBVIOUS
  <2> HIDE DEF g
  <2> QED  BY <2>1
<1>2. ASSUME NEW n \in S PROVE n + 1 \in S
  <2>1. PICK g : g = [k \in 0..n |-> IF k = 0 THEN << >> ELSE g[k - 1] \o e[k]]
    OBVIOUS
  <2> DEFINE h == [k \in 0..n + 1 |-> IF k = 0 THEN << >> ELSE g[k - 1] \o e[k]]
  <2>2. n \in Nat
    OBVIOUS
  <2>3. \A k \in 0..n + 1 : h[k] = IF k = 0 THEN << >> ELSE g[k - 1] \o e[k]
    OBVIOUS
  <2> HIDE DEF h, S
  <2>4. \A k \in 0..n : g[k] = h[k]
    BY <2>1, <2>2, <2>3
  <2>5. ASSUME NEW k \in 0..n + 1, k # 0 PROVE g[k - 1] = h[k - 1]
    <3>1. k - 1 \in 0..n
      BY <2>2, <2>5
    <3> QED  BY <2>4, <3>1
  <2>6. h = [k \in 0..n + 1 |-> IF k = 0 THEN << >> ELSE h[k - 1] \o e[k]]
    BY <2>5 DEF h
  <2>7. n + 1 \in Nat /\ \E f : f = [k \in 0..n + 1 |-> IF k = 0 THEN << >> ELSE f[k - 1] \o e[k]]
    BY <2>2, <2>6
  <2> QED  BY <2>7 DEF S
<1>3. S = Nat
  <2>1. S \in SUBSET Nat
    OBVIOUS
  <2> HIDE DEF S
  <2> QED  BY <1>1, <1>2, <2>1, SetInduction
<1> QED BY <1>3

\* Every value of it is a sequence of the same elements.
LEMMA JoinedAll ==
  ASSUME NEW e, NEW K \in Nat, NEW S, \A k \in 1..K : e[k] \in Seq(S),
         NEW g, Joins(g, e, K)
  PROVE  g[K] \in Seq(S)
<1> DEFINE T == {n \in Nat : n <= K => g[n] \in Seq(S)}
<1>0. \A k \in 0..K : g[k] = IF k = 0 THEN << >> ELSE g[k - 1] \o e[k]
  BY DEF Joins
<1>1. /\ g[0] = << >> /\ \A n \in Nat : n + 1 <= K => g[n + 1] = g[n] \o e[n + 1]
  <2>1. g[0] = << >>
    BY <1>0
  <2>2. ASSUME NEW n \in Nat, n + 1 <= K PROVE g[n + 1] = g[n] \o e[n + 1]
    <3>1. n + 1 \in 0..K /\ n + 1 # 0 /\ (n + 1) - 1 = n
      BY <2>2
    <3> QED  BY <1>0, <3>1
  <2> QED  BY <2>1, <2>2
<1>2. 0 \in T
  BY <1>1, NothingIn
<1>3. ASSUME NEW n \in T PROVE n + 1 \in T
  <2>1. n \in Nat /\ n + 1 \in Nat
    OBVIOUS
  <2>2. CASE n + 1 <= K
    <3>0. n <= K /\ n + 1 \in 1..K
      BY <2>1, <2>2
    <3>1. g[n] \in Seq(S) /\ e[n + 1] \in Seq(S) /\ g[n + 1] = g[n] \o e[n + 1]
      BY <1>1, <2>1, <2>2, <3>0
    <3>2. g[n + 1] \in Seq(S)
      BY <3>1, Joined
    <3> QED  BY <2>1, <3>2
  <2> QED  BY <2>1, <2>2
<1>4. T = Nat
  <2>1. T \in SUBSET Nat
    OBVIOUS
  <2> HIDE DEF T
  <2> QED  BY <1>2, <1>3, <2>1, SetInduction
<1> QED BY <1>4

\* The rounds of process_trade(), one after another: there is such a function.
Rounds(g, x, ids, deal, K) ==
  g = [k \in 0..K |-> IF k = 0 THEN x ELSE Queue!FillOne(g[k - 1], ids[k], deal)]

\* A loop over the orders at a price has a state after each round.
LEMMA RoundsExist ==
  ASSUME NEW x, NEW ids, NEW deal, NEW K \in Nat
  PROVE  \E g : Rounds(g, x, ids, deal, K)
<1> DEFINE S == {n \in Nat : \E g : Rounds(g, x, ids, deal, n)}
<1>1. 0 \in S
  <2> DEFINE g == [k \in 0..0 |-> x]
  <2>1. Rounds(g, x, ids, deal, 0)
    BY DEF Rounds
  <2> HIDE DEF g
  <2> QED  BY <2>1
<1>2. ASSUME NEW n \in S PROVE n + 1 \in S
  <2>1. PICK g : Rounds(g, x, ids, deal, n)
    OBVIOUS
  <2> DEFINE h == [k \in 0..n + 1 |-> IF k = 0 THEN x ELSE Queue!FillOne(g[k - 1], ids[k], deal)]
  <2>2. n \in Nat
    OBVIOUS
  <2>3. \A k \in 0..n + 1 : h[k] = IF k = 0 THEN x ELSE Queue!FillOne(g[k - 1], ids[k], deal)
    OBVIOUS
  <2>4. \A k \in 0..n : g[k] = IF k = 0 THEN x ELSE Queue!FillOne(g[k - 1], ids[k], deal)
    BY <2>1 DEF Rounds
  <2> HIDE DEF h, S
  <2>5. \A k \in 0..n : g[k] = h[k]
    BY <2>2, <2>3, <2>4
  <2>6. ASSUME NEW k \in 0..n + 1, k # 0 PROVE g[k - 1] = h[k - 1]
    <3>1. k - 1 \in 0..n
      BY <2>2, <2>6
    <3> QED  BY <2>5, <3>1
  <2>7. h = [k \in 0..n + 1 |-> IF k = 0 THEN x ELSE Queue!FillOne(h[k - 1], ids[k], deal)]
    BY <2>6 DEF h
  <2>8. Rounds(h, x, ids, deal, n + 1)
    BY <2>7 DEF Rounds
  <2> QED  BY <2>2, <2>8 DEF S
<1>3. S = Nat
  <2>1. S \in SUBSET Nat
    OBVIOUS
  <2> HIDE DEF S
  <2> QED  BY <1>1, <1>2, <2>1, SetInduction
<1> QED BY <1>3

\* Every value of it keeps the books.
LEMMA RoundsKeep ==
  ASSUME NEW o, NEW c, NEW deal, deal.quantity \in Nat \ {0},
         NEW ids \in Seq(1..Len(o)), NEW x, Shared(x, o, c),
         NEW g, Rounds(g, x, ids, deal, Len(ids))
  PROVE  Shared(g[Len(ids)], o, c)
<1> DEFINE K == Len(ids)
           T == {n \in Nat : n <= K => Shared(g[n], o, c)}
<1>0. K \in Nat /\ \A n \in 1..K : ids[n] \in 1..Len(o)
  BY ElementOfSeq
<1>1. /\ g[0] = x /\ \A n \in Nat : n + 1 <= K => g[n + 1] = Queue!FillOne(g[n], ids[n + 1], deal)
  BY <1>0 DEF Rounds
<1>2. 0 \in T
  BY <1>1
<1>3. ASSUME NEW n \in T PROVE n + 1 \in T
  <2>1. n \in Nat /\ n + 1 \in Nat
    OBVIOUS
  <2>2. CASE n + 1 <= K
    <3>1. Shared(g[n], o, c) /\ ids[n + 1] \in 1..Len(o)
          /\ g[n + 1] = Queue!FillOne(g[n], ids[n + 1], deal)
      BY <1>0, <1>1, <2>1, <2>2
    <3>2. PICK p, M, G : \E r \in Nat : /\ g[n] = QSt(p, M, G, r) /\ Kept(p, M, G)
                                        /\ Len(p) = Len(o) /\ G + r = c
      BY <3>1 DEF Shared
    <3>3. PICK r \in Nat : /\ g[n] = QSt(p, M, G, r) /\ Kept(p, M, G)
                           /\ Len(p) = Len(o) /\ G + r = c
      BY <3>2
    <3>4. ids[n + 1] \in 1..Len(p)
      BY <3>1, <3>3
    <3>5. Shared(Queue!FillOne(QSt(p, M, G, r), ids[n + 1], deal), p, G + r)
      BY <3>3, <3>4, FillOneKeeps
    <3>6. Shared(g[n + 1], p, c)
      BY <3>1, <3>3, <3>5
    <3>7. Shared(g[n + 1], o, c)
      BY <3>3, <3>6 DEF Shared
    <3> QED  BY <2>1, <3>7
  <2> QED  BY <2>1, <2>2
<1>4. T = Nat
  <2>1. T \in SUBSET Nat
    OBVIOUS
  <2> HIDE DEF T
  <2> QED  BY <1>2, <1>3, <2>1, SetInduction
<1> HIDE DEF K
<1>5. Shared(g[K], o, c)
  BY <1>0, <1>4
<1> QED BY <1>5 DEF K

\* _find_matching_orders() returns orders.
LEMMA MatchingListed ==
  ASSUME BookOK(orders, levels), NEW deal, deal.price \in SimMinTick..SimMaxTick
  PROVE  Queue!MatchingOrders(deal) \in Seq(1..Len(orders))
<1> DEFINE side == IF deal.side = "buy" THEN "SELL" ELSE "BUY"
           Rank(k) == <<side, IF side = "SELL" THEN SimMinTick + k - 1 ELSE SimMaxTick - k + 1>>
           reached == IF side = "SELL" THEN deal.price - SimMinTick + 1
                                       ELSE SimMaxTick - deal.price + 1
           at(k) == IF Rank(k) \in DOMAIN levels THEN levels[Rank(k)].ids ELSE << >>
           e == [k \in 1..reached |-> at(k)]
           S == 1..Len(orders)
<1>1. reached \in Nat
  BY SimBounds
<1>2. \A k \in 1..reached : at(k) \in Seq(S)
  <2> SUFFICES ASSUME NEW k \in 1..reached PROVE at(k) \in Seq(S)
    OBVIOUS
  <2> DEFINE l == Rank(k)
  <2> HIDE DEF l
  <2>1. CASE l \in DOMAIN levels
    <3>1. LevelOK(orders, levels[l], l)
      BY <2>1 DEF BookOK
    <3>2. levels[l].ids \in Seq(S)
      BY <3>1 DEF LevelOK
    <3> QED  BY <2>1, <3>2 DEF l
  <2>2. CASE l \notin DOMAIN levels
    <3> HIDE DEF S
    <3>1. << >> \in Seq(S)
      BY NothingIn
    <3> QED  BY <2>2, <3>1 DEF l
  <2> QED  BY <2>1, <2>2
<1> DEFINE IsIds(g) == g = [k \in 0..reached |-> IF k = 0 THEN << >> ELSE g[k - 1] \o at(k)]
<1>3. Queue!MatchingOrders(deal) = (CHOOSE g : IsIds(g))[reached]
  BY DEF Queue!MatchingOrders
<1> HIDE DEF at, reached
<1>4. \A g : IsIds(g) <=> Joins(g, e, reached)
  <2> SUFFICES ASSUME NEW g
               PROVE  [k \in 0..reached |-> IF k = 0 THEN << >> ELSE g[k - 1] \o at(k)] =
                      [k \in 0..reached |-> IF k = 0 THEN << >> ELSE g[k - 1] \o e[k]]
    BY DEF Joins
  <2>1. \A k \in 0..reached : k # 0 => e[k] = at(k)
    BY <1>1
  <2> HIDE DEF e
  <2> QED  BY <2>1
<1>5. \A k \in 1..reached : e[k] \in Seq(S)
  BY <1>2
<1> HIDE DEF e, S, IsIds
<1>6. \E g : IsIds(g)
  BY <1>1, <1>4, JoinedExists
<1>7. IsIds(CHOOSE g : IsIds(g))
  BY <1>6
<1> DEFINE f == CHOOSE g : IsIds(g)
<1> HIDE DEF f
<1>8. IsIds(f)
  BY <1>7 DEF f
<1>9. Joins(f, e, reached)
  BY <1>4, <1>8
<1>10. f[reached] \in Seq(S)
  BY <1>1, <1>5, <1>9, JoinedAll
<1> QED BY <1>3, <1>10 DEF f, S

\* Inductive: the book is in order and no more is filled than was traded.
QueueIInv ==
  Kept(orders, levels, filled_total) /\ traded \in Nat /\ filled_total <= traded

\* The handlers start from the state of the variables, and leave it in them.
LEMMA QueueState ==
  /\ Queue!State = QSt(orders, levels, filled_total, 0)
  /\ \A q : [Queue!State EXCEPT !.left = q] = QSt(orders, levels, filled_total, q)
  /\ \A q : [Queue!State EXCEPT !.orders = q] = QSt(q, levels, filled_total, 0)
  /\ \A o, L, F, n : Queue!Becomes(QSt(o, L, F, n)) =>
       orders' = o /\ levels' = L /\ filled_total' = F
<1>1. Queue!State = QSt(orders, levels, filled_total, 0)
  BY DEF Queue!State, QSt
<1>2. \A o, L, F, n : Queue!Becomes(QSt(o, L, F, n)) =>
        orders' = o /\ levels' = L /\ filled_total' = F
  BY StateIs DEF Queue!Becomes
<1> QED BY <1>1, <1>2, StateIs

\* No orders, no book.
LEMMA QueueStart == Queue!Init => QueueIInv
<1> SUFFICES ASSUME Queue!Init PROVE QueueIInv
  OBVIOUS
<1>1. orders = << >> /\ levels = << >> /\ filled_total = 0 /\ traded = 0
  BY DEF Queue!Init
<1>2. Len(<< >>) = 0 /\ DOMAIN << >> = {} /\ 1..0 = {}
  OBVIOUS
<1>3. OrdersOK(orders)
  <2>1. << >> \in Seq(QOrder)
    BY NothingIn
  <2> QED  BY <1>1, <1>2, <2>1 DEF OrdersOK
<1>4. OpenIn(orders) = {} /\ DOMAIN levels = {}
  BY <1>1, <1>2 DEF OpenIn
<1>5. BookOK(orders, levels)
  BY <1>3, <1>4 DEF BookOK
<1>6. FilledOf(orders) = 0
  BY <1>1, <1>2, SumEmpty DEF FilledOf
<1> QED BY <1>1, <1>5, <1>6 DEF QueueIInv, Kept

\* process_trade(): the fills come out of the trade.
LEMMA QueueTrade ==
  ASSUME QueueIInv, NEW deal, deal.quantity \in Nat \ {0}, deal.price \in SimMinTick..SimMaxTick,
         Queue!ProcessTrade(deal)
  PROVE  QueueIInv'
<1> DEFINE ids == Queue!MatchingOrders(deal)
           x == QSt(orders, levels, filled_total, deal.quantity)
           K == Len(ids)
           c == filled_total + deal.quantity
           f == CHOOSE g : Rounds(g, x, ids, deal, K)
<1>1. BookOK(orders, levels) /\ filled_total \in Nat /\ traded \in Nat /\ filled_total <= traded
  BY FilledNat DEF QueueIInv, Kept, BookOK
<1>2. ids \in Seq(1..Len(orders)) /\ K \in Nat
  BY <1>1, MatchingListed
<1>3. Queue!Becomes(f[K]) /\ traded' = traded + deal.quantity
  <2>1. [Queue!State EXCEPT !.left = deal.quantity] = x
    BY QueueState
  <2> HIDE DEF ids, x
  <2> QED  BY <2>1 DEF Queue!ProcessTrade, Rounds, ids
<1> HIDE DEF ids
<1>4. Rounds(f, x, ids, deal, K)
  <2> HIDE DEF x, K
  <2>1. \E g : Rounds(g, x, ids, deal, K)
    BY <1>2, RoundsExist DEF K
  <2> QED  BY <2>1
<1> HIDE DEF f
<1>5. Shared(x, orders, c)
  <2>1. Kept(orders, levels, filled_total)
    BY DEF QueueIInv
  <2> QED  BY <2>1 DEF Shared
<1>6. Shared(f[K], orders, c)
  BY <1>2, <1>4, <1>5, RoundsKeep
<1>7. PICK p, M, G : \E r \in Nat : f[K] = QSt(p, M, G, r) /\ Kept(p, M, G) /\ G + r = c
  BY <1>6 DEF Shared
<1>8. PICK r \in Nat : f[K] = QSt(p, M, G, r) /\ Kept(p, M, G) /\ G + r = c
  BY <1>7
<1>9. orders' = p /\ levels' = M /\ filled_total' = G
  BY <1>3, <1>8, QueueState
<1>10. G \in Nat
  BY <1>8, FilledNat DEF Kept, BookOK
<1>11. filled_total' <= traded' /\ traded' \in Nat
  BY <1>1, <1>3, <1>8, <1>9, <1>10
<1> QED BY <1>8, <1>9, <1>11 DEF QueueIInv

\* cancel_order() takes the order out of the book.
LEMMA QueueCancel ==
  ASSUME QueueIInv, NEW k \in DOMAIN orders, Queue!CancelOrder(k)
  PROVE  QueueIInv'
<1> DEFINE o == orders
           L == levels
           lev == Place(o[k])
           M == Dequeue(L, o, k)
           p == FilledBy(o, k, 0, "CANCELLED")
<1>1. BookOK(o, L) /\ filled_total = FilledOf(o) /\ OrdersOK(o) /\ o \in Seq(QOrder)
      /\ traded \in Nat /\ filled_total <= traded /\ filled_total \in Nat
  BY FilledNat DEF QueueIInv, Kept, BookOK, OrdersOK
<1>2. k \in 1..Len(o) /\ o[k].status \notin {"FILLED", "CANCELLED"} /\ k \in OpenIn(o)
  BY <1>1, OrderFacts DEF Queue!CancelOrder, Queue!Complete, OpenIn
<1>3. /\ o[k] \in QOrder /\ lev \in DOMAIN L /\ L[lev] \in [ids : Seq(1..Len(o)), total : Int]
  BY <1>1, <1>2, OpenLevel
<1>4. Queue!RemoveFromBook(Queue!State, k) = QSt(o, M, filled_total, 0)
  BY <1>3, QueueState, RemoveIs
<1>5. [QSt(o, M, filled_total, 0) EXCEPT !.orders[k].status = "CANCELLED"] =
        QSt([o EXCEPT ![k].status = "CANCELLED"], M, filled_total, 0)
  <2> DEFINE st == QSt(o, M, filled_total, 0)
  <2> HIDE DEF o, M
  <2>1. st.orders = o /\ \A x : [st EXCEPT !.orders = x] = QSt(x, M, filled_total, 0)
    BY StateIs
  <2> HIDE DEF st
  <2>2. [st EXCEPT !.orders[k].status = "CANCELLED"] =
          QSt([o EXCEPT ![k].status = "CANCELLED"], M, filled_total, 0)
    BY <2>1
  <2> QED  BY <2>2 DEF st
<1>6. /\ p \in Seq(QOrder) /\ Len(p) = Len(o) /\ \A i \in 1..Len(o) : i # k => p[i] = o[i]
      /\ p[k].filled = o[k].filled + 0 /\ p[k].status = "CANCELLED"
      /\ p[k].quantity = o[k].quantity /\ p[k].side = o[k].side /\ p[k].price = o[k].price
      /\ p[k].submitted = o[k].submitted /\ FilledOf(p) = FilledOf(o) + 0
  <2> DEFINE zero == 0
             gone == "CANCELLED"
             w == FilledBy(o, k, zero, gone)
  <2>1. zero \in Nat /\ gone \in {"OPEN", "PARTIALLY_FILLED", "FILLED", "CANCELLED"}
    OBVIOUS
  <2> HIDE DEF zero, gone
  <2>2. /\ w \in Seq(QOrder) /\ Len(w) = Len(o) /\ \A i \in 1..Len(o) : i # k => w[i] = o[i]
        /\ w[k].filled = o[k].filled + zero /\ w[k].status = gone
        /\ w[k].quantity = o[k].quantity /\ w[k].side = o[k].side /\ w[k].price = o[k].price
        /\ w[k].submitted = o[k].submitted /\ FilledOf(w) = FilledOf(o) + zero
    BY <1>1, <1>2, <2>1, FilledMore
  <2> QED  BY <2>2 DEF zero, gone
<1>7. o[k].filled \in Nat /\ o[k].quantity \in Nat /\ o[k].filled <= o[k].quantity
  BY <1>1, <1>2, <1>3 DEF QOrder, OrdersOK
<1>8. p = [o EXCEPT ![k].status = "CANCELLED"]
  <2>1. o[k].filled + 0 = o[k].filled
    BY <1>7
  <2> DEFINE a == [o[k] EXCEPT !.filled = o[k].filled + 0]
  <2>2. a = o[k]
    BY <1>3, <2>1 DEF QOrder
  <2>3. p = [o EXCEPT ![k] = [a EXCEPT !.status = "CANCELLED"]]
    BY <1>1, <1>2 DEF FilledBy
  <2> HIDE DEF a
  <2>4. [o EXCEPT ![k].status = "CANCELLED"] = [o EXCEPT ![k] = [o[k] EXCEPT !.status = "CANCELLED"]]
    OBVIOUS
  <2> QED  BY <2>2, <2>3, <2>4
<1> HIDE DEF p
<1>9. orders' = p /\ levels' = M /\ filled_total' = filled_total /\ traded' = traded
  <2>1. Queue!Becomes([Queue!RemoveFromBook(Queue!State, k) EXCEPT !.orders[k].status = "CANCELLED"])
        /\ traded' = traded
    BY DEF Queue!CancelOrder
  <2>2. Queue!Becomes(QSt(p, M, filled_total, 0))
    BY <1>4, <1>5, <1>8, <2>1
  <2> HIDE DEF M
  <2> QED  BY <2>1, <2>2, QueueState
<1>10. p[k].filled = o[k].filled /\ FilledOf(p) = FilledOf(o)
  BY <1>1, <1>6, <1>7
<1>11. FillOf(o, p, k)
  BY <1>6, <1>7, <1>10 DEF FillOf
<1>12. Delisted(L, M, lev, k, p[k])
  BY <1>3, <1>6, <1>10 DEF Delisted, Dequeue
<1>13. p[k].status \in {"FILLED", "CANCELLED"}
  BY <1>6
<1> HIDE DEF M, o, L
<1>14. BookOK(p, M)
  BY <1>1, <1>2, <1>11, <1>12, <1>13, BookAfterClose
<1> QED BY <1>1, <1>9, <1>10, <1>14 DEF QueueIInv, Kept

\* The levels after an order has been listed.
Enqueued(L, r, n) ==
  LET old == IF Place(r) \in DOMAIN L THEN L[Place(r)] ELSE [ids |-> << >>, total |-> 0]
  IN [l \in DOMAIN L \cup {Place(r)} |->
        IF l = Place(r) THEN [ids |-> Append(old.ids, n), total |-> old.total + r.quantity]
                        ELSE L[l]]

\* _add_to_book() lists the order at its level.
LEMMA AddIs ==
  ASSUME NEW o, NEW L, NEW F, NEW n, NEW k
  PROVE  Queue!AddToBook(QSt(o, L, F, n), k) = QSt(o, Enqueued(L, o[k], k), F, n)
<1> DEFINE st == QSt(o, L, F, n)
<1>1. st.orders = o /\ st.levels = L /\ \A x : [st EXCEPT !.levels = x] = QSt(o, x, F, n)
  BY StateIs
<1>2. Queue!LevelOf(o[k]) = Place(o[k]) /\ Queue!NoLevel = [ids |-> << >>, total |-> 0]
  BY DEF Queue!LevelOf, Place, Queue!NoLevel
<1> HIDE DEF st
<1>3. Queue!AddToBook(st, k) = [st EXCEPT !.levels = Enqueued(L, o[k], k)]
  BY <1>1, <1>2 DEF Queue!AddToBook, Enqueued
<1> QED BY <1>1, <1>3 DEF st

\* create_order() puts the order at the end of its level.
LEMMA QueueCreate ==
  ASSUME QueueIInv, NEW side \in Queue!Sides, NEW ask_price \in SimPrices,
         NEW quantity \in SimQuantities, NEW latency \in SimLatencies,
         Queue!CreateOrder(side, ask_price, quantity, latency)
  PROVE  QueueIInv'
<1> DEFINE o == orders
           L == levels
           n == Len(o) + 1
           at == Queue!Max({SimMinTick, Queue!Min({SimMaxTick, ask_price})})
           r0 == [side |-> side, price |-> at, quantity |-> quantity, filled |-> 0, status |-> "OPEN",
                  submitted |-> n + latency, ahead |-> 0]
           q == Append(o, r0)
           M == Enqueued(L, r0, n)
           a == SumFunctionOnSet(Rests(q), Earlier(q, M, n))
           p == WithAhead(q, n, a)
           r == p[n]
           lev == Place(r0)
           old == IF lev \in DOMAIN L THEN L[lev] ELSE [ids |-> << >>, total |-> 0]
<1>1. BookOK(o, L) /\ filled_total = FilledOf(o) /\ OrdersOK(o) /\ o \in Seq(QOrder)
      /\ traded \in Nat /\ filled_total <= traded /\ filled_total \in Nat
  BY FilledNat DEF QueueIInv, Kept, BookOK, OrdersOK
<1>2. Len(o) \in Nat /\ n \in Nat /\ n \in 1..n /\ DOMAIN o = 1..Len(o) /\ IsFiniteSet(1..Len(o))
  BY <1>1, OrderFacts
<1>3. at \in SimMinTick..SimMaxTick
  <2> DEFINE b == Queue!Min({SimMaxTick, ask_price})
  <2>1. b = IF SimMaxTick <= ask_price THEN SimMaxTick ELSE ask_price
    BY SimBounds, SimLibrary
  <2>2. b \in Int /\ b <= SimMaxTick
    BY <2>1, SimBounds
  <2> HIDE DEF b
  <2>3. Queue!Max({SimMinTick, b}) = IF SimMinTick <= b THEN b ELSE SimMinTick
    BY <2>2, SimBounds, SimMax
  <2>4. at = Queue!Max({SimMinTick, b})
    BY DEF b
  <2> HIDE DEF at
  <2> QED  BY <2>2, <2>3, <2>4, SimBounds
<1>4. quantity \in Nat /\ 0 < quantity /\ side \in {"BUY", "SELL"} /\ n + latency \in Int
  BY <1>2, SimBounds DEF Queue!Sides
<1> HIDE DEF at
<1>5. r0 \in QOrder /\ r0.filled = 0 /\ r0.status = "OPEN" /\ r0.quantity = quantity
  BY <1>3, <1>4 DEF QOrder
<1>6. /\ orders' = p /\ levels' = M /\ filled_total' = filled_total /\ traded' = traded
  <2> DEFINE F == filled_total
  <2>1. [Queue!State EXCEPT !.orders = Append(@, r0)] = QSt(q, L, F, 0)
    <3>1. Queue!State.orders = orders
      BY QueueState, StateIs
    <3> HIDE DEF r0
    <3> QED  BY <3>1, QueueState
  <2>2. q[n] = r0
    <3> HIDE DEF r0
    <3> QED  BY <1>1
  <2>3. Queue!AddToBook(QSt(q, L, F, 0), n) = QSt(q, M, F, 0)
    <3> HIDE DEF q, r0
    <3>1. Queue!AddToBook(QSt(q, L, F, 0), n) = QSt(q, Enqueued(L, q[n], n), F, 0)
      BY AddIs
    <3> QED  BY <2>2, <3>1
  <2>4. M[lev].ids = Append(old.ids, n)
    BY DEF Enqueued
  <2>5. \E S : M[Place(q[n])].ids \in Seq(S)
    <3>1. old.ids \in Seq(1..Len(o))
      <4>1. CASE lev \in DOMAIN L
        BY <1>1, <4>1 DEF BookOK, LevelOK
      <4>2. CASE lev \notin DOMAIN L
        <5>1. old.ids = << >>
          BY <4>2
        <5> HIDE DEF old
        <5> QED  BY <5>1, NothingIn
      <4> QED  BY <4>1, <4>2
    <3> HIDE DEF old, M, lev
    <3>2. old.ids \in Seq(1..n)
      BY <1>2, <3>1, WiderSeq
    <3>3. Append(old.ids, n) \in Seq(1..n)
      BY <1>2, <3>2
    <3> QED  BY <2>2, <2>4, <3>3 DEF lev
  <2>6. Queue!UpdateQueuePosition(QSt(q, M, F, 0), n) = QSt(p, M, F, 0)
    <3> HIDE DEF q, M
    <3> QED  BY <2>5, UpdateIs
  <2>7. Queue!Becomes(QSt(p, M, F, 0)) /\ traded' = traded
    <3>1. Queue!CreateOrder(side, ask_price, quantity, latency) =>
            Queue!Becomes(Queue!UpdateQueuePosition(
              Queue!AddToBook([Queue!State EXCEPT !.orders = Append(@, r0)], n), n))
              /\ traded' = traded
      BY DEF Queue!CreateOrder, at
    <3> HIDE DEF q, M, p, n, r0
    <3> QED  BY <2>1, <2>3, <2>6, <3>1
  <2> HIDE DEF M, p
  <2> QED  BY <2>7, QueueState
<1> HIDE DEF r0
<1>7. q \in Seq(QOrder) /\ Len(q) = n /\ q[n] = r0 /\ \A i \in 1..Len(o) : q[i] = o[i]
  BY <1>1, <1>2, <1>5
<1>8. 1..Len(q) = 1..Len(o) \cup {n} /\ n \notin 1..Len(o)
  BY <1>2, <1>7
<1> HIDE DEF q
<1>9. OrdersOK(q)
  <2>1. ASSUME NEW i \in 1..Len(q)
        PROVE  q[i].filled <= q[i].quantity /\ (i \in OpenIn(q) => q[i].filled < q[i].quantity)
    <3>1. CASE i = n
      BY <1>4, <1>5, <1>7, <3>1
    <3>2. CASE i \in 1..Len(o)
      BY <1>1, <1>7, <3>2 DEF OrdersOK, OpenIn
    <3> QED  BY <1>8, <3>1, <3>2
  <2> QED  BY <1>7, <2>1 DEF OrdersOK
<1>10. /\ DOMAIN M = DOMAIN L \cup {lev} /\ \A l \in DOMAIN L : l # lev => M[l] = L[l]
       /\ M[lev] = [ids |-> Append(old.ids, n), total |-> old.total + r0.quantity]
  BY DEF Enqueued
<1>11. M[lev].ids \in Seq(1..n)
  <2>1. old.ids \in Seq(1..Len(o))
    <3>1. CASE lev \in DOMAIN L
      BY <1>1, <3>1 DEF BookOK, LevelOK
    <3>2. CASE lev \notin DOMAIN L
      <4>1. old.ids = << >>
        BY <3>2
      <4> HIDE DEF old
      <4> QED  BY <4>1, NothingIn
    <3> QED  BY <3>1, <3>2
  <2> HIDE DEF old
  <2>2. old.ids \in Seq(1..n)
    BY <1>2, <2>1, WiderSeq
  <2>3. Append(old.ids, n) \in Seq(1..n)
    BY <1>2, <2>2
  <2>4. M[lev].ids = Append(old.ids, n)
    BY <1>10
  <2> QED  BY <2>3, <2>4
<1> HIDE DEF M
<1>12. a \in Nat
  <2>1. Earlier(q, M, n) \subseteq In(M[lev].ids)
    BY <1>7, EarlierListed DEF Earlier
  <2> DEFINE t == M[lev].ids
  <2>2. t \in Seq(1..n)
    BY <1>11
  <2> HIDE DEF t
  <2>3. In(t) \subseteq 1..n
    BY <2>2, ElementOfSeq DEF In
  <2>4. Earlier(q, M, n) \in SUBSET (1..Len(q))
    BY <1>7, <2>1, <2>3 DEF t
  <2> QED  BY <1>9, <2>4, OrderFacts
<1> HIDE DEF a
<1>13. /\ p \in Seq(QOrder) /\ Len(p) = n /\ \A i \in 1..n : i # n => p[i] = q[i]
       /\ r = [r0 EXCEPT !.ahead = a] /\ Rests(p) = Rests(q) /\ FilledOf(p) = FilledOf(q)
       /\ Earlier(p, M, n) = Earlier(q, M, n)
  <2>1. n \in 1..Len(q) /\ M[Place(q[n])].ids \in Seq(1..Len(q))
    BY <1>2, <1>7, <1>11
  <2> HIDE DEF n
  <2> QED  BY <1>7, <1>12, <2>1, AheadSet
<1> HIDE DEF p
<1>14. r \in QOrder /\ r.filled = 0 /\ 0 < r.quantity /\ r.status = "OPEN" /\ r.quantity = r0.quantity
       /\ Place(r) = lev /\ r.ahead = SumFunctionOnSet(Rests(p), Earlier(p, M, n))
  <2>1. r \in QOrder /\ r.filled = r0.filled /\ r.quantity = r0.quantity /\ r.status = r0.status
        /\ r.side = r0.side /\ r.price = r0.price /\ r.ahead = a
    BY <1>5, <1>12, <1>13 DEF QOrder
  <2> QED  BY <1>4, <1>5, <1>13, <2>1 DEF Place, a
<1>15. \A i \in 1..Len(o) : p[i] = o[i]
  BY <1>2, <1>7, <1>13
<1>16. FilledOf(p) = FilledOf(o)
  <2> DEFINE D == 1..Len(o)
             f == [i \in DOMAIN o |-> o[i].filled]
             h == [i \in DOMAIN q |-> q[i].filled]
  <2>1. DOMAIN q = D \cup {n}
    BY <1>7, <1>8
  <2>2. FilledOf(o) = SumFunctionOnSet(f, D) /\ FilledOf(q) = SumFunctionOnSet(h, D \cup {n})
    BY <1>8 DEF FilledOf
  <2>3. h[n] = 0 /\ \A i \in D : h[i] = f[i]
    BY <1>2, <1>5, <1>7, <2>1
  <2>4. \A i \in D : o[i].filled \in Int
    <3> SUFFICES ASSUME NEW i \in D PROVE o[i].filled \in Int
      OBVIOUS
    <3>1. o[i] \in QOrder
      BY <1>1, OrderFacts
    <3> QED  BY <3>1 DEF QOrder
  <2>5. \A i \in D : f[i] \in Int
    BY <1>2, <2>4
  <2>6. IsFiniteSet(D) /\ n \notin D
    BY <1>2, <1>8
  <2> HIDE DEF D, f, h, n
  <2>7. \A i \in D \cup {n} : h[i] \in Int
    BY <2>3, <2>5
  <2>8. SumFunctionOnSet(h, D \cup {n}) = h[n] + SumFunctionOnSet(h, D)
    BY <2>6, <2>7, SumInsert
  <2>9. SumFunctionOnSet(h, D) = SumFunctionOnSet(f, D)
    BY <2>3, <2>6, SumAgree
  <2>10. SumFunctionOnSet(f, D) \in Int
    BY <2>5, <2>6, SumType
  <2>11. h[n] + SumFunctionOnSet(h, D) = SumFunctionOnSet(f, D)
    BY <2>3, <2>9, <2>10
  <2> QED  BY <1>13, <2>2, <2>8, <2>11
<1>17. BookOK(p, M)
  <2>1. Len(p) = Len(o) + 1 /\ p[Len(o) + 1] = r /\ p \in Seq(QOrder)
    BY <1>13
  <2>2. r.ahead = SumFunctionOnSet(Rests(p), Earlier(p, M, Len(o) + 1))
    BY <1>14
  <2>3. /\ DOMAIN M = DOMAIN L \cup {Place(r)} /\ \A l \in DOMAIN L : l # Place(r) => M[l] = L[l]
        /\ old = IF Place(r) \in DOMAIN L THEN L[Place(r)] ELSE [ids |-> << >>, total |-> 0]
        /\ M[Place(r)] = [ids |-> Append(old.ids, Len(o) + 1), total |-> old.total + r.quantity]
    BY <1>10, <1>14
  <2>4. Enlisted(L, M, Place(r), Len(o) + 1, r.quantity)
    BY <2>3 DEF Enlisted
  <2> HIDE DEF r, n, o, L
  <2> QED  BY <1>1, <1>14, <1>15, <2>1, <2>2, <2>4, BookAfterAdd
<1> QED BY <1>1, <1>6, <1>16, <1>17 DEF QueueIInv, Kept

\* Every step of the simulator keeps its invariant.
LEMMA QueuePreserved ==
  ASSUME QueueIInv, Queue!Next
  PROVE  QueueIInv'
<1>1. ASSUME NEW side \in Queue!Sides, NEW p \in SimPrices, NEW q \in SimQuantities,
             NEW l \in SimLatencies, Queue!CreateOrder(side, p, q, l)
      PROVE  QueueIInv'
  BY <1>1, QueueCreate
<1>2. ASSUME NEW k \in DOMAIN orders, Queue!CancelOrder(k) PROVE QueueIInv'
  BY <1>2, QueueCancel
<1>3. ASSUME NEW side \in {"buy", "sell"}, NEW p \in SimMinTick..SimMaxTick, NEW q \in SimQuantities,
             Queue!ProcessTrade([side |-> side, price |-> p, quantity |-> q])
      PROVE  QueueIInv'
  <2> DEFINE deal == [side |-> side, price |-> p, quantity |-> q]
  <2>1. deal.quantity \in Nat \ {0} /\ deal.price \in SimMinTick..SimMaxTick
    BY SimBounds
  <2>2. Queue!ProcessTrade(deal)
    BY <1>3
  <2> HIDE DEF deal
  <2> QED  BY <2>1, <2>2, QueueTrade
<1> QED BY <1>1, <1>2, <1>3 DEF Queue!Next

\* A step of another component leaves it as it is.
LEMMA QueueStutter ==
  ASSUME QueueIInv, UNCHANGED queue_vars
  PROVE  QueueIInv'
<1>1. orders' = orders /\ levels' = levels /\ filled_total' = filled_total /\ traded' = traded
  BY DEF queue_vars
<1> QED BY <1>1 DEF QueueIInv

\* It is enough for the properties of the queue.
LEMMA QueueProperties ==
  ASSUME QueueIInv
  PROVE  QueueInv
<1> DEFINE o == orders
           L == levels
           st == QSt(o, L, filled_total, 0)
<1>1. BookOK(o, L) /\ filled_total = FilledOf(o) /\ OrdersOK(o) /\ o \in Seq(QOrder)
      /\ traded \in Nat /\ filled_total <= traded /\ filled_total \in Nat
      /\ DOMAIN o = 1..Len(o) /\ Queue!State = st
  BY FilledNat, OrderFacts, QueueState DEF QueueIInv, Kept, BookOK, OrdersOK
<1> HIDE DEF st
<1>2. Queue!TypeOK
  <2>1. ASSUME NEW i \in DOMAIN o
        PROVE  /\ o[i].price \in SimMinTick..SimMaxTick /\ o[i].filled \in 0..o[i].quantity
               /\ o[i].status \in {"OPEN", "PARTIALLY_FILLED"} \cup Queue!Complete
    <3>1. i \in 1..Len(o) /\ o[i] \in QOrder /\ o[i].filled <= o[i].quantity
      BY <1>1, OrderFacts DEF OrdersOK
    <3> QED  BY <3>1 DEF QOrder, Queue!Complete
  <2> QED  BY <1>1, <2>1 DEF Queue!TypeOK
<1>3. Queue!BookListsOpenOrders
  <2> SUFFICES ASSUME NEW l \in DOMAIN L
               PROVE  /\ Queue!Range(L[l].ids) =
                           {i \in DOMAIN o : Queue!LevelOf(o[i]) = l /\ o[i].status \notin Queue!Complete}
                      /\ L[l].total >= Queue!SizeOf(Queue!State, Queue!Range(L[l].ids))
    BY DEF Queue!BookListsOpenOrders
  <2>1. LevelOK(o, L[l], l)
    BY <1>1 DEF BookOK
  <2>2. L[l].ids \in Seq(1..Len(o)) /\ In(L[l].ids) = OpenAt(o, l) /\ L[l].total \in Int
        /\ SumFunctionOnSet(Rests(o), In(L[l].ids)) <= L[l].total
    BY <2>1 DEF LevelOK
  <2>3. Queue!Range(L[l].ids) = In(L[l].ids)
    BY <2>2, SimLibrary
  <2>4. OpenAt(o, l) = {i \in DOMAIN o : Queue!LevelOf(o[i]) = l /\ o[i].status \notin Queue!Complete}
    BY <1>1 DEF OpenAt, OpenIn, Place, Queue!LevelOf, Queue!Complete
  <2>5. \A T : Queue!SizeOf(st, T) = SumFunctionOnSet(Rests(o), T)
    BY SizeIs DEF st
  <2>6. In(L[l].ids) \in SUBSET (1..Len(o))
    BY <2>2 DEF OpenAt, OpenIn
  <2>7. SumFunctionOnSet(Rests(o), In(L[l].ids)) \in Int
    BY <1>1, <2>6, OrderFacts
  <2> QED  BY <1>1, <2>2, <2>3, <2>4, <2>5, <2>7
<1>4. Queue!PositionIsCautious
  <2> SUFFICES ASSUME NEW i \in DOMAIN o, o[i].status \notin Queue!Complete
               PROVE  o[i].ahead >= Queue!SizeOf(Queue!State, Queue!Ahead(Queue!State, i))
    BY DEF Queue!PositionIsCautious
  <2>1. i \in OpenIn(o)
    BY <1>1 DEF OpenIn, Queue!Complete
  <2>2. L[Place(o[i])].ids \in Seq(1..Len(o)) /\ o[i] \in QOrder
    BY <1>1, <2>1, OpenLevel
  <2>3. Queue!Ahead(st, i) = Earlier(o, L, i)
    BY <2>2, AheadIs DEF st
  <2>4. \A T : Queue!SizeOf(st, T) = SumFunctionOnSet(Rests(o), T)
    BY SizeIs DEF st
  <2> DEFINE T == Earlier(o, L, i)
  <2>5. SumFunctionOnSet(Rests(o), T) <= o[i].ahead
    BY <1>1, <2>1 DEF BookOK
  <2>6. T \in SUBSET (1..Len(o))
    <3>1. T \subseteq In(L[Place(o[i])].ids)
      BY EarlierListed DEF Earlier
    <3>2. In(L[Place(o[i])].ids) \subseteq 1..Len(o)
      BY <2>2, ElementOfSeq DEF In
    <3> QED  BY <3>1, <3>2
  <2>7. SumFunctionOnSet(Rests(o), T) \in Int
    BY <1>1, <2>6, OrderFacts
  <2>8. o[i].ahead \in Int
    BY <2>2 DEF QOrder
  <2> HIDE DEF T, o
  <2>9. o[i].ahead >= SumFunctionOnSet(Rests(o), T)
    BY <2>5, <2>7, <2>8
  <2>10. Queue!SizeOf(Queue!State, Queue!Ahead(Queue!State, i)) = SumFunctionOnSet(Rests(o), T)
    BY <1>1, <2>3, <2>4 DEF T
  <2> QED  BY <2>9, <2>10
<1>5. Queue!FillsAreBacked
  <2>1. FilledOf(o) = SumFunctionOnSet([i \in DOMAIN o |-> o[i].filled], DOMAIN o)
    BY <1>1 DEF FilledOf
  <2> QED  BY <1>1, <2>1, SimLibrary DEF Queue!FillsAreBacked
<1> QED BY <1>2, <1>3, <1>4, <1>5 DEF QueueInv

-----------------------------------------------------------------------------
(* The parts together                                                      *)

\* A step moves the part it is about and leaves the others alone.
LEMMA OneMoves ==
  ASSUME [MCNext]_all_vars
  PROVE  /\ Arb!Next \/ UNCHANGED arb_vars
         /\ Fills!Next \/ UNCHANGED fills_vars
         /\ Queue!Next \/ UNCHANGED queue_vars
         /\ Grid!Next \/ UNCHANGED grid_vars
<1>1. CASE UNCHANGED all_vars
  BY <1>1 DEF all_vars, portfolio_vars
<1>2. CASE MCNext
  BY <1>2 DEF MCNext, portfolio_vars, PortfolioMoves, SniperFeedMoves, ArbitrageMoves, AdverseSelectionMoves,
    QueuePositionMoves, RiskBreakerMoves, FlashCrashMoves, GridPricerMoves, AutoHedgerMoves,
    TokenMergerMoves, MarketEnvMoves
<1> QED BY <1>1, <1>2

\* The grids of all markets stay within the capital given, for any capital, limits, order flow and
\* markets, and a refresh visits every market that was there all along.
THEOREM TradingGrids == MCSpec => []GridInv
<1>1. MCInit => GridIInv
  BY GridStart DEF MCInit
<1>2. GridIInv /\ [MCNext]_all_vars => GridIInv'
  BY OneMoves, GridPreserved, GridStutter
<1>3. GridIInv => GridInv
  BY GridProperties DEF GridInv
<1> QED BY <1>1, <1>2, <1>3, PTL DEF MCSpec

\* The adverse selection tracker, for any table size, number of fills, prices and horizons: a fill
\* is pending or completed, none is stranded half-measured unless the table overflowed, and each
\* toxic one is reported once.
THEOREM TradingFills == MCSpec => []AdverseInv
<1>1. MCInit => FillsIInv
  BY FillsStart DEF MCInit
<1>2. FillsIInv /\ [MCNext]_all_vars => FillsIInv'
  BY OneMoves, FillsPreserved, FillsStutter
<1>3. FillsIInv => AdverseInv
  BY FillsProperties
<1> QED BY <1>1, <1>2, <1>3, PTL DEF MCSpec

\* The arbitrage engine, for any list of markets, prices, limits and threshold: what reaches a
\* callback was sound when it was found, and callbacks hear of the most profitable one first.
THEOREM TradingArbitrage == MCSpec => []ArbitrageInv
<1>1. MCInit => ArbIInv
  BY ArbStart DEF MCInit
<1>2. ArbIInv /\ [MCNext]_all_vars => ArbIInv'
  BY OneMoves, ArbPreserved, ArbStutter
<1>3. ArbIInv => ArbitrageInv
  BY ArbProperties
<1> QED BY <1>1, <1>2, <1>3, PTL DEF MCSpec

\* The queue position simulator, for any prices, quantities, latencies and numbers of orders and
\* trades: a level lists its open orders and has at least what they have left, the size ahead of an
\* order is never less than what is ahead of it, and the fills never exceed what was traded.
THEOREM TradingQueue == MCSpec => []QueueInv
<1>1. MCInit => QueueIInv
  BY QueueStart DEF MCInit
<1>2. QueueIInv /\ [MCNext]_all_vars => QueueIInv'
  BY OneMoves, QueuePreserved, QueueStutter
<1>3. QueueIInv => QueueInv
  BY QueueProperties
<1> QED BY <1>1, <1>2, <1>3, PTL DEF MCSpec
=============================================================================
