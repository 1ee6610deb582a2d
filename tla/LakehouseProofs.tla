-------------------------- MODULE LakehouseProofs --------------------------
(***************************************************************************)
(* Proofs about Lakehouse.tla, for every set of trades, every length of a  *)
(* window and of a day, and any number of runs of the DAG.                 *)
(***************************************************************************)
EXTENDS Lakehouse, SequenceTheorems, WellFoundedInduction, TLAPS

USE WarehouseAssumption, LakehouseAssumption

Trades(w) == {t \in silver : WindowOf(t) = w}

\* gold_vwap_1min aggregates nothing but the first n rows of bronze.
VwapFrom(n) == \A w \in Window : \A t \in vwap[w] : \E i \in 1..n : rawTrades[i] = t

\* ... and of them it misses only what VwapMissesOnly says.
VwapSeen(n) ==
    /\ VwapFrom(n)
    /\ \A i \in 1..n : \/ rawTrades[i] \in vwap[WindowOf(rawTrades[i])]
                       \/ VwapMissesOnly(rawTrades[i])

\* What the tables are to each other in every state.
TablesInv ==
    /\ WarehouseTypeOK
    /\ \A i \in 1..Len(rawTrades) : rawTrades[i] <= now
    /\ \A t \in Trade : t \in silver <=> \E i \in 1..ingested : rawTrades[i] = t
    /\ \A w \in Window : vwap[w] \subseteq Trades(w) /\ stats[w] \subseteq Trades(w)

----------------------------------------------------------------------------
\* Windows.

LEMMA WindowProperties ==
    ASSUME NEW t \in Trade
    PROVE  /\ WindowOf(t) \in Window /\ WindowOf(t) \in Nat
           /\ Start(WindowOf(t)) \in Nat /\ Start(WindowOf(t)) <= t
           /\ t < Start(WindowOf(t)) + Minute
<1>1. t \in Nat /\ Minute \in Nat \ {0}
  OBVIOUS
<1>2. t \div Minute \in Nat /\ (t \div Minute) * Minute <= t
  BY <1>1
<1>3. t < (t \div Minute) * Minute + Minute
  BY <1>1
<1>4. (t \div Minute) * Minute \in Nat
  BY <1>1, <1>2
<1>5. QED
  BY <1>1, <1>2, <1>3, <1>4 DEF WindowOf, Start, Window

LEMMA WindowsAreNat ==
    ASSUME NEW w \in Window
    PROVE  w \in Nat /\ Start(w) \in Nat
<1>1. PICK t \in Trade : w = WindowOf(t)
  BY DEF Window
<1>2. QED
  BY <1>1, WindowProperties

\* A trade of an earlier window was made before the later window began.
LEMMA EarlierWindow ==
    ASSUME NEW t \in Trade, NEW w \in Window, WindowOf(t) < w
    PROVE  t < Start(w)
<1>1. WindowOf(t) \in Nat /\ w \in Nat /\ Minute \in Nat
  BY WindowProperties, WindowsAreNat
<1>2. (WindowOf(t) + 1) * Minute <= w * Minute
  BY <1>1
<1>3. (WindowOf(t) + 1) * Minute = WindowOf(t) * Minute + Minute
  BY <1>1
<1>4. t \in Nat /\ t < WindowOf(t) * Minute + Minute /\ WindowOf(t) * Minute \in Nat
  BY WindowProperties DEF Start
<1>5. w * Minute \in Nat
  BY <1>1
<1>6. QED
  BY <1>2, <1>3, <1>4, <1>5 DEF Start

\* A bounded set of numbers that is not empty has a greatest.
LEMMA GreatestOf ==
    ASSUME NEW S \in SUBSET Nat, S # {}, NEW b \in Nat, \A s \in S : s <= b
    PROVE  Max(S) \in S /\ \A s \in S : s <= Max(S)
<1> DEFINE T == {b - s : s \in S}
<1>1. T \subseteq Nat /\ T # {}
  <2>1. \A s \in S : b - s \in Nat
    OBVIOUS
  <2>2. QED
    BY <2>1
<1>2. PICK x \in T : \A y \in T : ~ (<<y, x>> \in OpToRel(<, Nat))
  BY <1>1, WFMin, NatLessThanWellFounded, Zenon
<1>3. \A y \in T : ~ (y < x)
  BY <1>1, <1>2, Zenon DEF OpToRel
<1>4. PICK m \in S : x = b - m
  BY <1>2
<1>5. \A s \in S : m >= s
  <2>1. TAKE s \in S
  <2>2. b - s \in T /\ ~ (b - s < b - m)
    BY <1>3, <1>4
  <2>3. b \in Nat /\ s \in Nat /\ m \in Nat
    OBVIOUS
  <2>4. QED
    BY <2>2, <2>3
<1>6. Max(S) \in S /\ \A s \in S : Max(S) >= s
  BY <1>4, <1>5 DEF Max
<1>7. QED
  BY <1>6

----------------------------------------------------------------------------
\* The tables.

\* Bronze and silver only grow.
Grows ==
    /\ silver \subseteq silver'
    /\ rawTrades' \in Seq(Trade) /\ Len(rawTrades) <= Len(rawTrades')
    /\ \A i \in 1..Len(rawTrades) : rawTrades'[i] = rawTrades[i]

\* Whatever gold_vwap_1min is excused for, it stays excused for.
LEMMA SeenIsKept ==
    ASSUME TablesInv, NEW n \in 0..ingested, VwapSeen(n), Grows, vwap' = vwap
    PROVE  VwapSeen(n)'
<1>1. rawTrades \in Seq(Trade) /\ ingested \in 0..Len(rawTrades)
  BY DEF TablesInv, WarehouseTypeOK
<1>2. \A i \in 1..n : i \in 1..Len(rawTrades) /\ rawTrades'[i] = rawTrades[i]
  BY <1>1 DEF Grows
<1>3. DOMAIN rawTrades = 1..Len(rawTrades) /\ DOMAIN rawTrades' = 1..Len(rawTrades')
  BY <1>1, LenProperties DEF Grows
<1>4. \A u, t : Before(u, t) => Before(u, t)'
  BY <1>1, <1>3 DEF Grows, Before
<1>5. \A t : VwapMissesOnly(t) => VwapMissesOnly(t)'
  BY <1>4 DEF Grows, VwapMissesOnly
<1>6. QED
  BY <1>2, <1>5 DEF VwapSeen, VwapFrom

LEMMA TablesInvInit == WarehouseInit => TablesInv
<1> SUFFICES ASSUME WarehouseInit
             PROVE  TablesInv
  OBVIOUS
<1>1. rawTrades \in Seq(Trade) /\ Len(rawTrades) = 0 /\ DOMAIN rawTrades = {}
  BY EmptySeq DEF WarehouseInit
<1>2. WarehouseTypeOK
  BY <1>1 DEF WarehouseInit, WarehouseTypeOK, IsInjective
<1>3. QED
  BY <1>1, <1>2 DEF WarehouseInit, TablesInv

\* Time passes, or nothing happens here.
LEMMA TickKeepsTables ==
    ASSUME TablesInv, now' \in Nat, now <= now',
           UNCHANGED <<rawTrades, ingested, silver, vwap, stats>>
    PROVE  TablesInv' /\ Grows
<1>1. now \in Nat /\ rawTrades \in Seq(Trade)
  BY DEF TablesInv, WarehouseTypeOK
<1>2. Grows
  BY <1>1 DEF Grows
<1>3. \A i \in 1..Len(rawTrades) : rawTrades[i] \in Nat /\ rawTrades[i] <= now
  BY <1>1, ElementOfSeq DEF TablesInv
<1>4. \A i \in 1..Len(rawTrades') : rawTrades'[i] <= now'
  BY <1>1, <1>3
<1>5. QED
  BY <1>2, <1>4 DEF TablesInv, WarehouseTypeOK, Trades

LEMMA ArriveKeepsTables ==
    ASSUME TablesInv, NEW t \in Trade, Arrive(t)
    PROVE  TablesInv' /\ Grows
<1>1. /\ now \in Nat /\ rawTrades \in Seq(Trade) /\ IsInjective(rawTrades)
      /\ ingested \in 0..Len(rawTrades) /\ Len(rawTrades) \in Nat
  BY LenProperties DEF TablesInv, WarehouseTypeOK
<1>2. /\ rawTrades' \in Seq(Trade) /\ Len(rawTrades') = Len(rawTrades) + 1
      /\ \A i \in 1..Len(rawTrades) : rawTrades'[i] = rawTrades[i]
      /\ rawTrades'[Len(rawTrades) + 1] = t
  BY <1>1, AppendProperties DEF Arrive
<1>3. DOMAIN rawTrades = 1..Len(rawTrades) /\ DOMAIN rawTrades' = 1..Len(rawTrades')
  BY <1>1, <1>2, LenProperties
<1>4. \A i \in 1..Len(rawTrades) : rawTrades[i] # t
  BY <1>3 DEF Arrive, Range
<1>5. IsInjective(rawTrades')
  BY <1>1, <1>2, <1>3, <1>4 DEF IsInjective
<1>6. Grows
  BY <1>1, <1>2 DEF Grows, Arrive
<1>7. \A i \in 1..Len(rawTrades') : rawTrades'[i] <= now'
  BY <1>1, <1>2 DEF TablesInv, Arrive
<1>8. \A i \in 1..ingested : i \in 1..Len(rawTrades)
  BY <1>1
<1>9. \A u \in Trade : u \in silver' <=> \E i \in 1..ingested' : rawTrades'[i] = u
  BY <1>2, <1>8 DEF TablesInv, Arrive
<1>10. WarehouseTypeOK'
  BY <1>1, <1>2, <1>5 DEF TablesInv, WarehouseTypeOK, Arrive
<1>11. QED
  BY <1>6, <1>7, <1>9, <1>10 DEF TablesInv, Trades, Arrive

LEMMA StgRunKeepsTables ==
    ASSUME TablesInv, StgRun
    PROVE  TablesInv' /\ Grows
<1> DEFINE fresh == SubSeq(rawTrades, ingested + 1, Len(rawTrades))
<1>1. /\ now \in Nat /\ rawTrades \in Seq(Trade) /\ silver \subseteq Trade
      /\ ingested \in 0..Len(rawTrades) /\ Len(rawTrades) \in Nat
  BY LenProperties DEF TablesInv, WarehouseTypeOK
<1>2. \A i \in (ingested + 1)..Len(rawTrades) : rawTrades[i] \in Trade
  BY <1>1, ElementOfSeq
<1>3. /\ fresh \in Seq(Trade) /\ Len(fresh) = Len(rawTrades) - ingested
      /\ \A i \in 1..Len(fresh) : fresh[i] = rawTrades[ingested + i]
  BY <1>1, <1>2, SubSeqProperties
<1>4. Range(fresh) = {rawTrades[i] : i \in (ingested + 1)..Len(rawTrades)}
  <2>1. DOMAIN fresh = 1..Len(fresh)
    BY <1>3, LenProperties
  <2>2. \A i \in (ingested + 1)..Len(rawTrades) :
          i - ingested \in 1..Len(fresh) /\ rawTrades[i] = fresh[i - ingested]
    BY <1>1, <1>3
  <2>3. \A i \in 1..Len(fresh) :
          ingested + i \in (ingested + 1)..Len(rawTrades)
    BY <1>1, <1>3
  <2>4. QED
    BY <1>3, <2>1, <2>2, <2>3 DEF Range
<1>5. /\ silver' = silver \cup Range(fresh) /\ ingested' = Len(rawTrades)
      /\ UNCHANGED <<now, rawTrades, vwap, stats>>
  BY DEF StgRun
<1>6. \A i \in 1..Len(rawTrades) : i \in 1..ingested \/ i \in (ingested + 1)..Len(rawTrades)
  BY <1>1
<1>7. \A i \in 1..ingested : i \in 1..Len(rawTrades)
  BY <1>1
<1>8. \A i \in (ingested + 1)..Len(rawTrades) : i \in 1..Len(rawTrades)
  BY <1>1
<1>9. \A t \in Trade : t \in silver' <=> \E i \in 1..ingested' : rawTrades'[i] = t
  BY <1>4, <1>5, <1>6, <1>7, <1>8 DEF TablesInv
<1>10. Grows
  BY <1>1, <1>5 DEF Grows
<1>11. WarehouseTypeOK'
  <2>1. silver' \subseteq Trade
    BY <1>1, <1>2, <1>4, <1>5
  <2>2. QED
    BY <1>1, <1>5, <2>1 DEF TablesInv, WarehouseTypeOK
<1>12. \A w \in Window : Trades(w) \subseteq Trades(w)'
  BY <1>5 DEF Trades
<1>13. QED
  BY <1>5, <1>9, <1>10, <1>11, <1>12 DEF TablesInv

\* The newest row of gold_vwap_1min, and the trade that made it.
LEMMA WatermarkIsNewest ==
    ASSUME TablesInv, Rows(vwap) # {}
    PROVE  \E m \in Rows(vwap) :
              /\ Watermark = Start(m)
              /\ \A w \in Rows(vwap) : w <= m
<1> DEFINE S == {Start(w) : w \in Rows(vwap)}
<1>1. \A w \in Rows(vwap) : Start(w) \in Nat /\ w \in Nat /\ w \in Window
  BY WindowsAreNat DEF Rows
<1>2. S \in SUBSET Nat /\ S # {}
  BY <1>1
<1>3. \A x \in S : x <= now
  <2>1. SUFFICES ASSUME NEW w \in Rows(vwap) PROVE Start(w) <= now
    OBVIOUS
  <2>2. PICK t \in Trades(w) : TRUE
    BY <1>1 DEF Rows, TablesInv
  <2>3. t \in Trade /\ WindowOf(t) = w /\ t \in silver
    BY <2>2 DEF Trades, TablesInv, WarehouseTypeOK
  <2>4. PICK i \in 1..ingested : rawTrades[i] = t
    BY <2>3 DEF TablesInv
  <2>5. i \in 1..Len(rawTrades)
    BY <2>4, LenProperties DEF TablesInv, WarehouseTypeOK
  <2>6. t <= now /\ t \in Nat /\ now \in Nat
    BY <2>3, <2>4, <2>5 DEF TablesInv, WarehouseTypeOK
  <2>7. Start(w) \in Nat /\ Start(w) <= t
    BY <2>3, WindowProperties
  <2>8. QED
    BY <2>6, <2>7
<1>4. now \in Nat
  BY DEF TablesInv, WarehouseTypeOK
<1>5. Max(S) \in S /\ \A x \in S : x <= Max(S)
  BY <1>2, <1>3, <1>4, GreatestOf
<1>6. PICK m \in Rows(vwap) : Max(S) = Start(m)
  BY <1>5
<1>7. \A w \in Rows(vwap) : w <= m
  <2>1. TAKE w \in Rows(vwap)
  <2>2. Start(w) <= Start(m)
    BY <1>5, <1>6
  <2>3. w \in Nat /\ m \in Nat /\ Minute \in Nat \ {0}
    BY <1>1
  <2>4. QED
    BY <2>2, <2>3 DEF Start
<1>8. QED
  BY <1>6, <1>7 DEF Watermark

\* What a run of the model leaves in the row of a window.
LEMMA VwapRowIs ==
    ASSUME NEW base, VwapRun(base), NEW w \in Window
    PROVE  /\ vwap'[w] = {t \in base : WindowOf(t) = w} \/ vwap'[w] = vwap[w]
           /\ (\E t \in base : WindowOf(t) = w) => vwap'[w] = {t \in base : WindowOf(t) = w}
           /\ (\A t \in base : WindowOf(t) # w) => vwap'[w] = vwap[w]
<1> DEFINE new == {t \in base : WindowOf(t) = w}
<1>1. vwap'[w] = IF new # {} THEN new ELSE vwap[w]
  BY DEF VwapRun, Replaced, ByWindow
<1>2. (\A t \in base : WindowOf(t) # w) <=> new = {}
  OBVIOUS
<1>3. QED
  BY <1>1, <1>2

LEMMA VwapRunKeepsTables ==
    ASSUME TablesInv, NEW base \in SUBSET silver, VwapRun(base)
    PROVE  TablesInv' /\ Grows
<1>1. UNCHANGED <<now, rawTrades, ingested, silver, stats>> /\ rawTrades \in Seq(Trade)
  BY DEF VwapRun, TablesInv, WarehouseTypeOK
<1>2. silver \subseteq Trade
  BY DEF TablesInv, WarehouseTypeOK
<1>3. \A w \in Window : vwap'[w] \subseteq Trades(w)
  <2>1. TAKE w \in Window
  <2>2. {t \in base : WindowOf(t) = w} \subseteq Trades(w)
    BY DEF Trades
  <2>3. vwap[w] \subseteq Trades(w)
    BY DEF TablesInv
  <2>4. QED
    BY <2>2, <2>3, VwapRowIs
<1>4. \A w \in Window : Trades(w) \subseteq Trade
  BY <1>2 DEF Trades
<1>5. vwap' \in [Window -> SUBSET Trade]
  <2>1. vwap' = [w \in Window |-> vwap'[w]]
    BY DEF VwapRun, Replaced
  <2>2. QED
    BY <1>3, <1>4, <2>1
<1>6. Grows
  BY <1>1, LenProperties DEF Grows
<1>7. QED
  BY <1>1, <1>3, <1>5, <1>6 DEF TablesInv, WarehouseTypeOK, Trades

\* The trades were computed from gold_vwap_1min as it is, and from the first n
\* rows of bronze, which are those that it was built from, and perhaps more.
ComputedFrom(base, n) ==
    /\ base = {t \in Base : \E i \in 1..n : rawTrades[i] = t}
    /\ VwapFrom(n)

LEMMA VwapRunSeesAll ==
    ASSUME TablesInv, NEW n \in 0..ingested, NEW k \in 0..n, VwapSeen(k),
           NEW base, ComputedFrom(base, n), VwapRun(base),
           NEW j \in 1..n
    PROVE  rawTrades[j] \in vwap'[WindowOf(rawTrades[j])] \/ VwapMissesOnly(rawTrades[j])
<1> DEFINE t == rawTrades[j]
           w == WindowOf(t)
<1>1. /\ rawTrades \in Seq(Trade) /\ Len(rawTrades) \in Nat /\ ingested \in 0..Len(rawTrades)
      /\ DOMAIN rawTrades = 1..Len(rawTrades)
  BY LenProperties DEF TablesInv, WarehouseTypeOK
<1>2. j \in 1..Len(rawTrades) /\ j \in 1..ingested
  BY <1>1
<1>3. t \in Trade /\ t \in Nat /\ w \in Window /\ w \in Nat
  BY <1>1, <1>2, ElementOfSeq, WindowProperties
<1>4. t \in silver
  BY <1>2, <1>3 DEF TablesInv
<1> HIDE DEF t
<1>5. t = rawTrades[j]
  BY DEF t
<1>6. CASE t \in base
  BY <1>3, <1>5, <1>6, VwapRowIs
<1>7. CASE t \notin base
  <2>1. ~(t > Watermark)
    BY <1>4, <1>5, <1>7 DEF Base, ComputedFrom
  <2>2. Rows(vwap) # {}
    BY <1>3, <2>1 DEF Watermark
  <2>3. PICK m \in Rows(vwap) : Watermark = Start(m)
    BY <2>2, WatermarkIsNewest
  <2>4. m \in Window /\ m \in Nat /\ Start(m) \in Nat
    BY WindowsAreNat DEF Rows
  <2>5. t <= Start(m)
    BY <1>3, <2>1, <2>3, <2>4
  <2>6. CASE w = m
    <3>1. Start(w) <= t
      BY <1>3, WindowProperties
    <3>2. t = Start(w)
      BY <1>3, <2>4, <2>5, <2>6, <3>1
    <3>3. QED
      BY <1>5, <3>2 DEF VwapMissesOnly
  <2>7. CASE w < m
    <3>1. ASSUME NEW u \in base PROVE WindowOf(u) # w
      <4>1. u \in silver /\ u > Start(m)
        BY <2>3 DEF Base, ComputedFrom
      <4>2. u \in Trade /\ u \in Nat
        BY <4>1 DEF TablesInv, WarehouseTypeOK
      <4>3. ~(WindowOf(u) < m)
        BY <2>4, <4>1, <4>2, EarlierWindow
      <4>4. QED
        BY <2>7, <4>3
    <3>2. vwap'[w] = vwap[w]
      BY <1>3, <3>1, VwapRowIs
    <3>3. CASE j \in 1..k
      BY <1>5, <3>2, <3>3 DEF VwapSeen
    <3>4. CASE j \notin 1..k
      <4>1. PICK u \in vwap[m] : TRUE
        BY DEF Rows
      <4>2. PICK i \in 1..k : rawTrades[i] = u
        BY <2>4, <4>1 DEF VwapSeen, VwapFrom
      <4>3. u \in silver /\ WindowOf(u) = m
        BY <2>4, <4>1 DEF TablesInv, Trades
      <4>4. i < j /\ i \in 1..Len(rawTrades)
        BY <1>1, <1>2, <3>4, <4>2
      <4>5. Before(u, t)
        BY <1>1, <1>2, <1>5, <4>2, <4>4 DEF Before
      <4>6. WindowOf(u) > WindowOf(t)
        BY <2>4, <2>7, <4>3, <1>3
      <4>7. QED
        BY <1>5, <4>3, <4>5, <4>6 DEF VwapMissesOnly
    <3>5. QED
      BY <3>3, <3>4
  <2>8. CASE m < w
    <3>1. Start(w) <= t /\ Start(w) \in Nat
      BY <1>3, WindowProperties
    <3>2. Minute \in Nat \ {0}
      OBVIOUS
    <3>3. m * Minute < w * Minute
      BY <1>3, <2>4, <2>8, <3>2
    <3>4. QED
      BY <1>3, <2>4, <2>5, <3>1, <3>3 DEF Start
  <2>9. QED
    BY <1>3, <2>4, <2>6, <2>7, <2>8
<1>8. QED
  BY <1>6, <1>7

\* The rows that were computed come into place.
LEMMA VwapRunSees ==
    ASSUME TablesInv, NEW n \in 0..ingested, NEW k \in 0..n, VwapSeen(k),
           NEW base, ComputedFrom(base, n), VwapRun(base)
    PROVE  VwapSeen(n)'
<1>1. UNCHANGED <<rawTrades, silver>>
  BY DEF VwapRun
<1>2. VwapFrom(n)'
  <2>1. ASSUME NEW w \in Window, NEW t \in vwap'[w]
        PROVE  \E i \in 1..n : rawTrades[i] = t
    BY <2>1, VwapRowIs DEF ComputedFrom, VwapFrom
  <2>2. QED
    BY <1>1, <2>1 DEF VwapFrom
<1>3. \A i \in 1..n : \/ rawTrades[i] \in vwap'[WindowOf(rawTrades[i])]
                      \/ VwapMissesOnly(rawTrades[i])
  BY VwapRunSeesAll
<1>4. QED
  BY <1>1, <1>2, <1>3 DEF VwapSeen, VwapMissesOnly, Before

LEMMA StatsRunKeepsTables ==
    ASSUME TablesInv, StatsRun
    PROVE  TablesInv' /\ Grows /\ UNCHANGED <<silver, vwap, ingested>>
<1>1. UNCHANGED <<now, rawTrades, ingested, silver, vwap>> /\ rawTrades \in Seq(Trade)
  BY DEF StatsRun, TablesInv, WarehouseTypeOK
<1>2. Grows
  BY <1>1, LenProperties DEF Grows
<1>3. stats' \in [Window -> SUBSET Trade] /\ \A w \in Window : stats'[w] \subseteq Trades(w)
  BY DEF StatsRun, ByWindow, Trades, TablesInv, WarehouseTypeOK
<1>4. QED
  BY <1>1, <1>2, <1>3 DEF TablesInv, WarehouseTypeOK, Trades

----------------------------------------------------------------------------
\* Types.

LEMMA GoldIsTable ==
    ASSUME TablesInv, NEW T \in Table
    PROVE  /\ Gold[T] \in [Window -> SUBSET Trade]
           /\ \A w \in Window : Gold[T][w] \subseteq Trades(w)
<1>1. Gold["gold_vwap_1min"] = vwap /\ Gold["gold_trade_stats_1min"] = stats
  BY DEF Gold
<1>2. CASE T = "gold_vwap_1min"
  BY <1>1, <1>2 DEF TablesInv, WarehouseTypeOK
<1>3. CASE T = "gold_trade_stats_1min"
  BY <1>1, <1>3 DEF TablesInv, WarehouseTypeOK
<1>4. QED
  BY <1>2, <1>3 DEF Table

\* A row of gold is about a minute that has begun, and no other row is.
LEMMA GoldRowsAreRows ==
    ASSUME TablesInv, NEW T \in Table
    PROVE  /\ GoldRows(T) \subseteq Row
           /\ \A x \in GoldRows(T) : Start(x.window) \in Nat /\ Start(x.window) <= now
           /\ \A x, y \in GoldRows(T) : x.window = y.window => x = y
<1>1. \A x \in GoldRows(T) :
        /\ x = [window |-> x.window, trades |-> Gold[T][x.window]]
        /\ x.window \in Window /\ Gold[T][x.window] # {}
  BY DEF GoldRows, Rows
<1>2. GoldRows(T) \subseteq Row
  BY <1>1, GoldIsTable DEF Row
<1>3. ASSUME NEW x \in GoldRows(T)
      PROVE  Start(x.window) \in Nat /\ Start(x.window) <= now
  <2>1. PICK t \in Trades(x.window) : TRUE
    BY <1>1, GoldIsTable
  <2>2. t \in Trade /\ WindowOf(t) = x.window /\ t \in silver
    BY <2>1 DEF Trades, TablesInv, WarehouseTypeOK
  <2>3. PICK i \in 1..ingested : rawTrades[i] = t
    BY <2>2 DEF TablesInv
  <2>4. i \in 1..Len(rawTrades)
    BY <2>3, LenProperties DEF TablesInv, WarehouseTypeOK
  <2>5. t <= now /\ t \in Nat /\ now \in Nat
    BY <2>2, <2>3, <2>4 DEF TablesInv, WarehouseTypeOK
  <2>6. Start(x.window) \in Nat /\ Start(x.window) <= t
    BY <2>2, WindowProperties
  <2>7. QED
    BY <2>5, <2>6
<1>4. QED
  BY <1>1, <1>2, <1>3

Steps == {"open", "hwm", "rmtree", "select", "write", "bookmark", "catalog"}

LEMMA BeginIsJob ==
    ASSUME NEW name \in {"due", "dbt_run", "dbt_test", "export", "over"},
           NEW n \in 1..2, NEW alone \in BOOLEAN
    PROVE  Begin(name, n, alone) \in Job
BY DEF Begin, Job, Table

LEMMA NewIsJob ==
    /\ Begin("over", 1, TRUE) \in Job
    /\ Begin("dbt_run", 1, \A p \in DagRun : ~Active(p)) \in Job
<1>1. Begin("over", 1, TRUE) \in Job
  BY DEF Begin, Job, Table
<1>2. Begin("dbt_run", 1, TRUE) \in Job /\ Begin("dbt_run", 1, FALSE) \in Job
  BY DEF Begin, Job, Table
<1>3. CASE \A p \in DagRun : ~Active(p)
  <2>1. (\A p \in DagRun : ~Active(p)) = TRUE
    BY <1>3
  <2>2. QED
    BY <1>1, <1>2, <2>1, Zenon
<1>4. CASE ~\A p \in DagRun : ~Active(p)
  <2>1. (\A p \in DagRun : ~Active(p)) = FALSE
    BY <1>4
  <2>2. QED
    BY <1>1, <1>2, <2>1, Zenon
<1>5. QED
  BY <1>3, <1>4, Zenon

\* The jobs after a step of run r.
OnlyJob(r) ==
    /\ job' \in [DagRun -> Job]
    /\ \A q \in DagRun \ {r} : job'[q] = job[q]

\* A task that begins is not in the loop of run_export.
LEMMA StartsType ==
    ASSUME LakehouseTypeOK, NEW r \in DagRun,
           NEW name \in {"due", "dbt_run", "dbt_test", "export", "over"}, NEW n \in 1..2,
           Starts(r, name, n)
    PROVE  OnlyJob(r) /\ job'[r] = Begin(name, n, job[r].alone) /\ ~Exporting(r)'
<1>1. job \in [DagRun -> Job] /\ job[r].alone \in BOOLEAN
  BY DEF LakehouseTypeOK, Job
<1>2. job'[r] = Begin(name, n, job[r].alone) /\ job'[r] \in Job
  BY <1>1, BeginIsJob DEF Starts
<1>3. job'[r].step = "open"
  BY <1>2 DEF Begin
<1>4. QED
  BY <1>1, <1>2, <1>3 DEF Starts, OnlyJob, Exporting

LEMMA EndsType ==
    ASSUME LakehouseTypeOK, NEW r \in DagRun, Ends(r)
    PROVE  OnlyJob(r) /\ job'[r] = Begin("over", 1, TRUE) /\ ~Exporting(r)'
<1>1. job \in [DagRun -> Job] /\ Begin("over", 1, TRUE) \in Job
  BY NewIsJob DEF LakehouseTypeOK
<1>2. job'[r] = Begin("over", 1, TRUE) /\ job'[r] \in Job
  BY <1>1 DEF Ends
<1>3. job'[r].step = "open"
  BY <1>2 DEF Begin
<1>4. QED
  BY <1>1, <1>2, <1>3 DEF Ends, OnlyJob, Exporting

LEMMA TaskFailsType ==
    ASSUME LakehouseTypeOK, NEW r \in DagRun, TaskFails(r)
    PROVE  /\ OnlyJob(r) /\ ~Exporting(r)'
           /\ \/ job'[r] = Begin(job[r].task, 2, job[r].alone)
              \/ job'[r] = Begin("over", 1, TRUE)
<1>1. job[r].task \in {"due", "dbt_run", "dbt_test", "export", "over"} /\ 2 \in 1..2
  BY DEF LakehouseTypeOK, Job
<1>2. QED
  BY <1>1, StartsType, EndsType DEF TaskFails

LEMMA TaskBegins ==
    ASSUME LakehouseTypeOK, NEW r \in DagRun,
           \/ TaskFails(r) \/ Ends(r)
           \/ \E name \in {"dbt_test", "export"} : Starts(r, name, 1)
    PROVE  OnlyJob(r) /\ \E name, n, alone : job'[r] = Begin(name, n, alone)
<1>1. CASE TaskFails(r)
  BY <1>1, TaskFailsType, Zenon
<1>2. CASE Ends(r)
  BY <1>2, EndsType, Zenon
<1>3. CASE \E name \in {"dbt_test", "export"} : Starts(r, name, 1)
  <2>1. PICK name \in {"dbt_test", "export"} : Starts(r, name, 1)
    BY <1>3
  <2>2. OnlyJob(r) /\ job'[r] = Begin(name, 1, job[r].alone)
    BY <2>1, StartsType
  <2>3. QED
    BY <2>2, Zenon
<1>4. QED
  BY <1>1, <1>2, <1>3

\* What is left to show of a step of run r.
LEMMA JobStepType ==
    ASSUME LakehouseTypeOK, NEW r \in DagRun, OnlyJob(r), WarehouseTypeOK',
           hwm' \in [Table -> Nat \cup {Never}], \A T \in Table : hwm'[T] <= now',
           files' \in [Table -> Seq(SUBSET Row)],
           interrupted' \subseteq Table, tested' \subseteq DagRun, faults' \in 0..MaxFaults,
           overtaken' \subseteq DagRun, crossed' \in BOOLEAN,
           duckdb' = IF Exporting(r)' THEN r ELSE Closed(r),
           Exporting(r)' => duckdb \in {r, NoRun}
    PROVE  LakehouseTypeOK'
<1>1. duckdb' \in DagRun \cup {NoRun}
  BY DEF LakehouseTypeOK, Closed
<1>2. \A q \in DagRun \ {r} : Exporting(q)' <=> Exporting(q)
  BY DEF OnlyJob, Exporting
<1>3. \A q \in DagRun : duckdb' = q <=> Exporting(q)'
  BY <1>2 DEF LakehouseTypeOK, Closed
<1>4. QED
  BY <1>1, <1>3 DEF LakehouseTypeOK, OnlyJob

\* ... of one that leaves the lake alone.
LEMMA DagStepType ==
    ASSUME LakehouseTypeOK, NEW r \in DagRun, OnlyJob(r), UNCHANGED lakeVars,
           Exporting(r)' <=> Exporting(r), WarehouseTypeOK', now' = now,
           overtaken' \subseteq DagRun, crossed' \in BOOLEAN,
           tested' \subseteq DagRun, UNCHANGED faults
    PROVE  LakehouseTypeOK'
<1>1. duckdb' = IF Exporting(r)' THEN r ELSE Closed(r)
  BY DEF LakehouseTypeOK, lakeVars, Closed
<1>2. Exporting(r)' => duckdb \in {r, NoRun}
  BY DEF LakehouseTypeOK
<1>3. QED
  BY <1>1, <1>2, JobStepType DEF LakehouseTypeOK, lakeVars

LEMMA OutsideType == LakehouseTypeOK /\ TablesInv' /\ Outside => LakehouseTypeOK'
<1> SUFFICES ASSUME LakehouseTypeOK, TablesInv', Outside
             PROVE  LakehouseTypeOK'
  OBVIOUS
<1>1. now \in Nat /\ now' \in Nat /\ now <= now'
  BY DEF Outside, Tick, Arrive, LakehouseTypeOK, WarehouseTypeOK
<1>2. \A T \in Table : hwm[T] \in Nat \cup {Never} /\ hwm[T] <= now'
  BY <1>1 DEF LakehouseTypeOK, Never
<1>3. UNCHANGED <<job, duckdb, hwm, files, interrupted, overtaken, crossed, tested, faults>>
  BY DEF Outside, lakeVars, vwapVars
<1>4. QED
  BY <1>2, <1>3 DEF LakehouseTypeOK, TablesInv, Exporting

\* A step of dbt run, whichever model it is of.
LEMMA BuildsIs ==
    ASSUME LakehouseTypeOK, NEW r \in DagRun, NEW model \in Model, NEW needs,
           NEW base \in SUBSET Trade, Builds(r, model, needs, base)
    PROVE  /\ OnlyJob(r) /\ job[r].task = "dbt_run" /\ job'[r].task = "dbt_run"
           /\ job'[r].done = job[r].done \cup {model} /\ job'[r].base = base
           /\ job'[r].alone = job[r].alone /\ job'[r].table = job[r].table
           /\ job'[r].selected = job[r].selected /\ job'[r].rows = job[r].rows
           /\ ~Exporting(r) /\ ~Exporting(r)' /\ UNCHANGED <<lakeVars, faults>>
<1> DEFINE next == [job[r] EXCEPT !.done = @ \cup {model}, !.base = base]
<1>1. job \in [DagRun -> Job] /\ job[r] \in Job
  BY DEF LakehouseTypeOK
<1>2. /\ job[r].task = "dbt_run" /\ job' = [job EXCEPT ![r] = next]
      /\ UNCHANGED <<lakeVars, faults>>
  BY <1>1 DEF Builds
<1>3. /\ next \in Job /\ next.task = "dbt_run"
      /\ next.done = job[r].done \cup {model} /\ next.base = base
      /\ next.table = job[r].table
      /\ next.selected = job[r].selected /\ next.rows = job[r].rows
  BY <1>1, <1>2 DEF Job
<1>4. next.alone = job[r].alone
  BY <1>1 DEF Job
<1>5. job'[r] = next /\ OnlyJob(r)
  BY <1>1, <1>2, <1>3 DEF OnlyJob
<1>6. ~Exporting(r) /\ ~Exporting(r)'
  BY <1>2, <1>3, <1>5 DEF Exporting
<1>7. QED
  BY <1>2, <1>3, <1>4, <1>5, <1>6

BuildsModel(r) == BuildsStg(r) \/ ComputesVwap(r) \/ BuildsVwap(r) \/ BuildsStats(r)

LEMMA BuildsSome ==
    ASSUME LakehouseTypeOK, NEW r \in DagRun, BuildsModel(r)
    PROVE  /\ \E model \in Model, base \in SUBSET Trade : \E needs : Builds(r, model, needs, base)
           /\ now' = now /\ tested' \in {tested, {}}
           /\ overtaken' \subseteq DagRun /\ crossed' \in BOOLEAN
<1>1. /\ job[r].base \in SUBSET Trade /\ Base \in SUBSET Trade
      /\ overtaken \subseteq DagRun /\ crossed \in BOOLEAN
  BY DEF LakehouseTypeOK, WarehouseTypeOK, Job, Base
<1>2. CASE BuildsStg(r)
  BY <1>1, <1>2 DEF BuildsStg, StgRun, Model, vwapVars
<1>3. CASE ComputesVwap(r)
  BY <1>1, <1>3 DEF ComputesVwap, Model, warehouseVars
<1>4. CASE BuildsVwap(r)
  BY <1>1, <1>4 DEF BuildsVwap, VwapRun, Model
<1>5. CASE BuildsStats(r)
  BY <1>1, <1>5 DEF BuildsStats, StatsRun, Model, vwapVars
<1>6. QED
  BY <1>2, <1>3, <1>4, <1>5 DEF BuildsModel

LEMMA DagType ==
    ASSUME LakehouseTypeOK, TablesInv, TablesInv', NEW r \in DagRun, DagStep(r)
    PROVE  LakehouseTypeOK'
<1>1. job \in [DagRun -> Job] /\ WarehouseTypeOK' /\ job[r] \in Job
  BY DEF LakehouseTypeOK, TablesInv
<1>2. CASE StartRun(r)
  <2>1. \A p \in DagRun : job[p].alone \in BOOLEAN /\ job[p].task # "export" => ~Exporting(p)
    BY <1>1 DEF Job, Exporting
  <2>2. Begin("dbt_run", 1, \A p \in DagRun : ~Active(p)) \in Job
    BY NewIsJob
  <2>3. job' \in [DagRun -> Job]
    <3>1. \A q \in DagRun : [job[q] EXCEPT !.alone = @ /\ ~Active(q)] \in Job
      BY <1>1 DEF Job
    <3>2. QED
      BY <2>2, <3>1, <1>2 DEF StartRun
  <2>4. \A q \in DagRun \ {r} : job'[q].task = job[q].task /\ job'[q].step = job[q].step
    BY <1>1, <1>2 DEF StartRun, Job
  <2>5. \A q \in DagRun \ {r} : Exporting(q)' <=> Exporting(q)
    BY <2>4 DEF Exporting
  <2>6. ~Exporting(r) /\ ~Exporting(r)'
    BY <1>2 DEF StartRun, Begin, Exporting
  <2>7. QED
    BY <1>1, <1>2, <2>3, <2>5, <2>6 DEF StartRun, LakehouseTypeOK, lakeVars, vwapVars, warehouseVars
<1>3. CASE TaskDies(r)
  <2>1. OnlyJob(r) /\ ~Exporting(r)'
    BY <1>3, TaskFailsType DEF TaskDies
  <2>2. interrupted' \subseteq Table
    BY <1>1, <1>3 DEF TaskDies, LeavesFiles, LakehouseTypeOK, Job
  <2>3. faults' \in 0..MaxFaults
    BY <1>3 DEF TaskDies, Fault, LakehouseTypeOK
  <2>4. /\ UNCHANGED <<warehouseVars, hwm, files, overtaken, crossed, tested>>
        /\ duckdb' = Closed(r)
    BY <1>3 DEF TaskDies, vwapVars
  <2>5. QED
    BY <1>1, <2>1, <2>2, <2>3, <2>4, JobStepType DEF LakehouseTypeOK, warehouseVars
<1>4. CASE BuildsModel(r)
  <2>1. PICK model \in Model, base \in SUBSET Trade : \E needs : Builds(r, model, needs, base)
    BY <1>4, BuildsSome
  <2>2. OnlyJob(r) /\ ~Exporting(r) /\ ~Exporting(r)' /\ UNCHANGED <<lakeVars, faults>>
    BY <2>1, BuildsIs
  <2>3. /\ now' = now /\ tested' \subseteq DagRun
        /\ overtaken' \subseteq DagRun /\ crossed' \in BOOLEAN
    BY <1>4, BuildsSome DEF LakehouseTypeOK
  <2>4. QED
    BY <1>1, <2>2, <2>3, DagStepType
<1>5. CASE DbtRunSucceeds(r)
  <2>1. OnlyJob(r) /\ ~Exporting(r)'
    BY <1>5, StartsType DEF DbtRunSucceeds
  <2>2. ~Exporting(r) /\ now' = now
    BY <1>5 DEF DbtRunSucceeds, Exporting, warehouseVars
  <2>3. QED
    BY <1>1, <1>5, <2>1, <2>2, DagStepType DEF DbtRunSucceeds, LakehouseTypeOK, vwapVars
<1>6. CASE DbtTestSucceeds(r)
  <2>1. OnlyJob(r) /\ ~Exporting(r)'
    BY <1>6, StartsType DEF DbtTestSucceeds
  <2>2. ~Exporting(r) /\ now' = now
    BY <1>6 DEF DbtTestSucceeds, Exporting, warehouseVars
  <2>3. QED
    BY <1>1, <1>6, <2>1, <2>2, DagStepType DEF DbtTestSucceeds, LakehouseTypeOK, vwapVars
<1>7. QED
  BY <1>2, <1>3, <1>4, <1>5, <1>6 DEF DagStep, BuildsModel

\* The run goes on to another step of the export.
LEMMA ToStep ==
    ASSUME LakehouseTypeOK, NEW r \in DagRun, NEW s \in Steps,
           job[r].task = "export", job' = [job EXCEPT ![r].step = s]
    PROVE  /\ OnlyJob(r) /\ job'[r] = [job[r] EXCEPT !.step = s]
           /\ Exporting(r)' <=> s \notin {"open", "catalog"}
<1>1. job \in [DagRun -> Job]
  BY DEF LakehouseTypeOK
<1>2. [job[r] EXCEPT !.step = s] \in Job
  BY <1>1 DEF Job, Steps
<1>3. job'[r] = [job[r] EXCEPT !.step = s]
  BY <1>1
<1>4. job'[r].step = s /\ job'[r].task = "export"
  BY <1>1, <1>3 DEF Job
<1>5. QED
  BY <1>1, <1>2, <1>3, <1>4 DEF OnlyJob, Exporting

LEMMA NextTableType ==
    ASSUME LakehouseTypeOK, NEW r \in DagRun, Exporting(r), NEW failed \in SUBSET Table,
           NextTable(r, failed)
    PROVE  /\ OnlyJob(r) /\ duckdb' = IF Exporting(r)' THEN r ELSE Closed(r)
           /\ job'[r].task = "export" /\ job'[r].step \in {"hwm", "catalog"}
           /\ job'[r].selected = {} /\ job'[r].rows = {} /\ job'[r].alone = job[r].alone
<1> DEFINE s == IF job[r].table = "gold_trade_stats_1min" THEN "catalog" ELSE "hwm"
           next == [job[r] EXCEPT !.table = "gold_trade_stats_1min", !.step = s,
                                  !.selected = {}, !.rows = {}, !.failed = failed]
<1>1. job \in [DagRun -> Job] /\ job[r].task = "export"
  BY DEF LakehouseTypeOK, Exporting
<1>2. s \in {"hwm", "catalog"}
  OBVIOUS
<1>3. /\ next \in Job
      /\ next.task = "export" /\ next.step = s /\ next.selected = {} /\ next.rows = {}
      /\ next.alone = job[r].alone
  <2> HIDE DEF s
  <2>1. job[r] \in Job
    BY <1>1
  <2>2. next \in Job
    BY <1>2, <2>1 DEF Job, Table
  <2>3. next.task = "export" /\ next.step = s /\ next.selected = {} /\ next.rows = {}
    BY <1>1, <2>1 DEF Job
  <2>4. next.alone = job[r].alone
    BY <2>1 DEF Job
  <2>5. QED
    BY <2>2, <2>3, <2>4
<1>4. job' = [job EXCEPT ![r] = next]
  BY <1>1 DEF NextTable
<1>5. job'[r] = next /\ OnlyJob(r)
  BY <1>1, <1>3, <1>4 DEF OnlyJob
<1>6. duckdb = r
  BY DEF LakehouseTypeOK
<1>7. duckdb' = IF s = "catalog" THEN Closed(r) ELSE r
  BY <1>6 DEF NextTable
<1>8. Exporting(r)' <=> s # "catalog"
  BY <1>2, <1>3, <1>5 DEF Exporting
<1>9. QED
  BY <1>2, <1>3, <1>5, <1>7, <1>8

LEMMA SelectsIs ==
    ASSUME LakehouseTypeOK, TablesInv, NEW r \in DagRun, Selects(r)
    PROVE  LET new == Newer(job[r].table) IN
           /\ OnlyJob(r) /\ Exporting(r) /\ Exporting(r)'
           /\ job'[r].task = "export" /\ job'[r].alone = job[r].alone
           /\ job'[r].table = job[r].table /\ job'[r].selected = new /\ job'[r].rows = new
           /\ job'[r].step = IF new = {} THEN "bookmark" ELSE "write"
<1> DEFINE new == Newer(job[r].table)
           s == IF new = {} THEN "bookmark" ELSE "write"
           next == [job[r] EXCEPT !.selected = new, !.rows = new, !.step = s]
<1>1. job \in [DagRun -> Job] /\ job[r] \in Job /\ job[r].table \in Table
  BY DEF LakehouseTypeOK, Job
<1>2. new \subseteq Row
  BY <1>1, GoldRowsAreRows DEF Newer
<1>3. s \in {"bookmark", "write"}
  OBVIOUS
<1>4. /\ next \in Job /\ next.step = s /\ next.task = job[r].task /\ next.table = job[r].table
      /\ next.selected = new /\ next.rows = new
  BY <1>1, <1>2, <1>3 DEF Job
<1>5. next.alone = job[r].alone
  BY <1>1 DEF Job
<1>6. job' = [job EXCEPT ![r] = next]
  BY <1>1 DEF Selects
<1>7. OnlyJob(r) /\ job'[r] = next
  BY <1>1, <1>4, <1>6 DEF OnlyJob
<1>8. job[r].task = "export" /\ Exporting(r) /\ Exporting(r)'
  BY <1>3, <1>4, <1>7 DEF Selects, At, Exporting
<1>9. QED
  BY <1>4, <1>5, <1>7, <1>8

LEMMA WritesDayIs ==
    ASSUME LakehouseTypeOK, NEW r \in DagRun, WritesDay(r)
    PROVE  LET day == FirstDay(job[r].rows) IN
           /\ OnlyJob(r) /\ Exporting(r) /\ Exporting(r)'
           /\ job'[r].task = "export" /\ job'[r].alone = job[r].alone
           /\ job'[r].table = job[r].table /\ job'[r].selected = job[r].selected
           /\ job'[r].rows = job[r].rows \ day
           /\ job'[r].step = IF job[r].rows = day THEN "bookmark" ELSE "write"
<1> DEFINE day == FirstDay(job[r].rows)
           s == IF job[r].rows = day THEN "bookmark" ELSE "write"
           next == [job[r] EXCEPT !.rows = @ \ day, !.step = s]
<1>1. job \in [DagRun -> Job] /\ job[r] \in Job
  BY DEF LakehouseTypeOK
<1>2. s \in {"bookmark", "write"}
  OBVIOUS
<1>3. /\ next \in Job /\ next.step = s /\ next.task = job[r].task /\ next.table = job[r].table
      /\ next.selected = job[r].selected /\ next.rows = job[r].rows \ day
  BY <1>1, <1>2 DEF Job
<1>4. next.alone = job[r].alone
  BY <1>1 DEF Job
<1>5. job' = [job EXCEPT ![r] = next]
  BY <1>1 DEF WritesDay
<1>6. OnlyJob(r) /\ job'[r] = next
  BY <1>1, <1>3, <1>5 DEF OnlyJob
<1>7. job[r].task = "export" /\ Exporting(r) /\ Exporting(r)'
  BY <1>2, <1>3, <1>6 DEF WritesDay, At, Exporting
<1>8. QED
  BY <1>3, <1>4, <1>6, <1>7

LEMMA ExportType ==
    ASSUME LakehouseTypeOK, TablesInv, TablesInv', NEW r \in DagRun, ExportStep(r)
    PROVE  LakehouseTypeOK'
<1>1. job \in [DagRun -> Job] /\ WarehouseTypeOK' /\ job[r] \in Job /\ job[r].table \in Table
  BY DEF LakehouseTypeOK, TablesInv, Job
<1>2. CASE Opens(r)
  <2>1. OnlyJob(r) /\ Exporting(r)'
    BY <1>2, ToStep DEF Opens, At, Steps
  <2>2. duckdb = NoRun /\ duckdb' = r
    BY <1>2 DEF Opens, Unlocked
  <2>3. UNCHANGED <<now, hwm, files, interrupted, overtaken, crossed, tested, faults>>
    BY <1>2 DEF Opens, vwapVars, warehouseVars
  <2>4. QED
    BY <1>1, <2>1, <2>2, <2>3, JobStepType DEF LakehouseTypeOK
<1>3. CASE LockedOut(r)
  <2>1. OnlyJob(r) /\ ~Exporting(r)'
    BY <1>3, TaskFailsType DEF LockedOut
  <2>2. ~Exporting(r)
    BY <1>3 DEF LockedOut, At, Exporting
  <2>3. UNCHANGED <<now, lakeVars, overtaken, crossed, tested, faults>>
    BY <1>3 DEF LockedOut, vwapVars, warehouseVars
  <2>4. QED
    BY <1>1, <2>1, <2>2, <2>3, DagStepType DEF LakehouseTypeOK
<1>4. CASE ReadsHwm(r)
  <2>1. OnlyJob(r) /\ Exporting(r)' /\ Exporting(r)
    <3>1. CASE hwm[job[r].table] = Never
      BY <1>4, <3>1, ToStep DEF ReadsHwm, At, Steps, Exporting
    <3>2. CASE hwm[job[r].table] # Never
      BY <1>4, <3>2, ToStep DEF ReadsHwm, At, Steps, Exporting
    <3>3. QED
      BY <3>1, <3>2
  <2>2. UNCHANGED <<now, lakeVars, overtaken, crossed, tested, faults>>
    BY <1>4 DEF ReadsHwm, vwapVars, warehouseVars
  <2>3. QED
    BY <1>1, <2>1, <2>2, DagStepType DEF LakehouseTypeOK
<1>5. CASE RemovesTree(r)
  <2>1. OnlyJob(r) /\ Exporting(r)' /\ Exporting(r)
    BY <1>5, ToStep DEF RemovesTree, At, Steps, Exporting
  <2>2. files' \in [Table -> Seq(SUBSET Row)] /\ interrupted' \subseteq Table
    BY <1>5, EmptySeq DEF RemovesTree, LakehouseTypeOK
  <2>3. UNCHANGED <<now, duckdb, hwm, overtaken, crossed, tested, faults>>
    BY <1>5 DEF RemovesTree, vwapVars, warehouseVars
  <2>4. duckdb = r
    BY <2>1 DEF LakehouseTypeOK
  <2>5. QED
    BY <1>1, <2>1, <2>2, <2>3, <2>4, JobStepType DEF LakehouseTypeOK
<1>6. CASE Selects(r)
  <2>1. OnlyJob(r) /\ Exporting(r) /\ Exporting(r)'
    BY <1>6, SelectsIs
  <2>2. UNCHANGED <<now, lakeVars, overtaken, crossed, tested, faults>>
    BY <1>6 DEF Selects, vwapVars, warehouseVars
  <2>3. QED
    BY <1>1, <2>1, <2>2, DagStepType DEF LakehouseTypeOK
<1>7. CASE WritesDay(r)
  <2>1. OnlyJob(r) /\ Exporting(r) /\ Exporting(r)'
    BY <1>7, WritesDayIs
  <2>2. UNCHANGED <<now, duckdb, hwm, interrupted, overtaken, crossed, tested, faults>>
    BY <1>7 DEF WritesDay, vwapVars, warehouseVars
  <2>3. files' \in [Table -> Seq(SUBSET Row)]
    <3>1. FirstDay(job[r].rows) \subseteq Row
      BY <1>1 DEF Job, FirstDay
    <3>2. Append(files[job[r].table], FirstDay(job[r].rows)) \in Seq(SUBSET Row)
      BY <1>1, <3>1, AppendProperties DEF LakehouseTypeOK
    <3>3. QED
      BY <1>7, <3>2 DEF WritesDay, LakehouseTypeOK
  <2>4. duckdb = r
    BY <2>1 DEF LakehouseTypeOK
  <2>5. QED
    BY <1>1, <2>1, <2>2, <2>3, <2>4, JobStepType DEF LakehouseTypeOK
<1>8. CASE SetsBookmark(r)
  <2>1. Exporting(r) /\ job[r].failed \in SUBSET Table
    BY <1>1, <1>8 DEF SetsBookmark, At, Exporting, Job
  <2>2. OnlyJob(r) /\ duckdb' = IF Exporting(r)' THEN r ELSE Closed(r)
    BY <1>8, <2>1, NextTableType DEF SetsBookmark
  <2>3. UNCHANGED <<now, files, interrupted, overtaken, crossed, tested, faults>>
    BY <1>8 DEF SetsBookmark, vwapVars, warehouseVars
  <2>4. now \in Nat
    BY DEF LakehouseTypeOK, WarehouseTypeOK
  <2>5. hwm' \in [Table -> Nat \cup {Never}] /\ \A T \in Table : hwm'[T] <= now
    <3>1. hwm \in [Table -> Nat \cup {Never}] /\ \A T \in Table : hwm[T] <= now
      BY DEF LakehouseTypeOK
    <3>2. hwm' = [hwm EXCEPT ![job[r].table] = now]
      BY <1>8 DEF SetsBookmark
    <3>3. hwm' \in [Table -> Nat \cup {Never}]
      BY <2>4, <3>1, <3>2
    <3>4. ASSUME NEW T \in Table PROVE hwm'[T] <= now
      BY <2>4, <3>1, <3>2
    <3>5. QED
      BY <3>3, <3>4
  <2>6. duckdb = r
    BY <2>1 DEF LakehouseTypeOK
  <2>7. QED
    BY <1>1, <2>2, <2>3, <2>5, <2>6, JobStepType DEF LakehouseTypeOK
<1>9. CASE ExportRaises(r)
  <2>1. Exporting(r) /\ job[r].failed \cup {job[r].table} \in SUBSET Table
    BY <1>1, <1>9 DEF ExportRaises, Job
  <2>2. OnlyJob(r) /\ duckdb' = IF Exporting(r)' THEN r ELSE Closed(r)
    BY <1>9, <2>1, NextTableType DEF ExportRaises
  <2>3. UNCHANGED <<now, hwm, files, overtaken, crossed, tested>>
    BY <1>9 DEF ExportRaises, vwapVars, warehouseVars
  <2>4. interrupted' \subseteq Table /\ faults' \in 0..MaxFaults
    BY <1>1, <1>9 DEF ExportRaises, LeavesFiles, Fault, LakehouseTypeOK
  <2>5. duckdb = r
    BY <2>1 DEF LakehouseTypeOK
  <2>6. QED
    BY <1>1, <2>2, <2>3, <2>4, <2>5, JobStepType DEF LakehouseTypeOK
<1>10. CASE RefreshesCatalog(r)
  <2>1. OnlyJob(r) /\ ~Exporting(r)'
    BY <1>10, TaskFailsType, EndsType DEF RefreshesCatalog
  <2>2. ~Exporting(r)
    BY <1>10 DEF RefreshesCatalog, At, Exporting
  <2>3. UNCHANGED <<now, lakeVars, overtaken, crossed, tested, faults>>
    BY <1>10 DEF RefreshesCatalog, vwapVars, warehouseVars
  <2>4. QED
    BY <1>1, <2>1, <2>2, <2>3, DagStepType DEF LakehouseTypeOK
<1>11. QED
  BY <1>2, <1>3, <1>4, <1>5, <1>6, <1>7, <1>8, <1>9, <1>10 DEF ExportStep

\* The trades that were computed for gold_vwap_1min and are not yet in it.
BasesInv == \A r \in DagRun : job[r].base \subseteq silver

LEMMA TablesKept ==
    TablesInv /\ BasesInv /\ [LakehouseNext]_lakehouseVars => TablesInv' /\ Grows
<1> SUFFICES ASSUME TablesInv, BasesInv, [LakehouseNext]_lakehouseVars
             PROVE  TablesInv' /\ Grows
  OBVIOUS
<1>1. now \in Nat
  BY DEF TablesInv, WarehouseTypeOK
<1>2. CASE UNCHANGED warehouseVars
  BY <1>1, <1>2, TickKeepsTables DEF warehouseVars
<1>3. CASE Outside
  <2>1. CASE Tick
    BY <1>1, <2>1, TickKeepsTables DEF Tick
  <2>2. CASE \E t \in Trade : Arrive(t)
    BY <2>2, ArriveKeepsTables
  <2>3. QED
    BY <1>3, <2>1, <2>2 DEF Outside
<1>4. ASSUME NEW r \in DagRun, DagStep(r)
      PROVE  TablesInv' /\ Grows
  <2>1. CASE BuildsStg(r)
    BY <2>1, StgRunKeepsTables DEF BuildsStg
  <2>2. CASE BuildsVwap(r)
    BY <2>2, VwapRunKeepsTables DEF BuildsVwap, BasesInv
  <2>3. CASE BuildsStats(r)
    BY <2>3, StatsRunKeepsTables DEF BuildsStats
  <2>4. QED
    BY <1>2, <1>4, <2>1, <2>2, <2>3
       DEF DagStep, StartRun, TaskDies, ComputesVwap, DbtRunSucceeds, DbtTestSucceeds
<1>5. ASSUME NEW r \in DagRun, ExportStep(r)
      PROVE  TablesInv' /\ Grows
  BY <1>2, <1>5
     DEF ExportStep, Opens, LockedOut, ReadsHwm, RemovesTree, Selects, WritesDay,
         SetsBookmark, ExportRaises, RefreshesCatalog
<1>6. QED
  BY <1>2, <1>3, <1>4, <1>5 DEF LakehouseNext, lakehouseVars

\* What a step of one run does to what it has computed.
LEMMA BaseOfStep ==
    ASSUME LakehouseTypeOK, NEW r \in DagRun, DagStep(r) \/ ExportStep(r)
    PROVE  /\ \A q \in DagRun \ {r} : job'[q].base = job[q].base
           /\ \/ job'[r].base \in {job[r].base, {}}
              \/ ComputesVwap(r) /\ job'[r].base = Base
<1>1. job \in [DagRun -> Job] /\ job[r] \in Job
  BY DEF LakehouseTypeOK
<1>2. CASE StartRun(r)
  <2>1. job'[r] = Begin("dbt_run", 1, \A p \in DagRun : ~Active(p))
    BY <1>1, <1>2 DEF StartRun
  <2>2. job'[r].base = {}
    BY <2>1 DEF Begin
  <2>3. ASSUME NEW q \in DagRun \ {r} PROVE job'[q].base = job[q].base
    <3>1. job'[q] = [job[q] EXCEPT !.alone = @ /\ ~Active(q)] /\ job[q] \in Job
      BY <1>1, <1>2 DEF StartRun
    <3>2. QED
      BY <3>1 DEF Job
  <2>4. QED
    BY <2>2, <2>3
<1>3. CASE BuildsModel(r)
  <2>1. ASSUME NEW model, NEW needs, NEW base, Builds(r, model, needs, base)
        PROVE  job'[r].base = base /\ \A q \in DagRun \ {r} : job'[q] = job[q]
    <3>1. job' = [job EXCEPT ![r] = [job[r] EXCEPT !.done = @ \cup {model}, !.base = base]]
      BY <1>1, <2>1 DEF Builds
    <3>2. QED
      BY <1>1, <3>1 DEF Job
  <2>2. CASE BuildsStg(r)
    BY <2>1, <2>2 DEF BuildsStg
  <2>3. CASE ComputesVwap(r)
    BY <2>1, <2>3 DEF ComputesVwap
  <2>4. CASE BuildsVwap(r)
    BY <2>1, <2>4 DEF BuildsVwap
  <2>5. CASE BuildsStats(r)
    BY <2>1, <2>5 DEF BuildsStats
  <2>6. QED
    BY <1>3, <2>2, <2>3, <2>4, <2>5 DEF BuildsModel
<1>4. CASE \/ TaskFails(r) \/ Ends(r)
           \/ \E name \in {"dbt_test", "export"} : Starts(r, name, 1)
  <2>1. OnlyJob(r) /\ \E name, n, alone : job'[r] = Begin(name, n, alone)
    BY <1>4, TaskBegins
  <2>2. ASSUME NEW name, NEW n, NEW alone, job'[r] = Begin(name, n, alone)
        PROVE  job'[r].base = {}
    BY <2>2 DEF Begin
  <2>3. job'[r].base = {}
    BY <2>1, <2>2, Zenon
  <2>4. QED
    BY <2>1, <2>3 DEF OnlyJob
<1>5. CASE Opens(r) \/ ReadsHwm(r) \/ RemovesTree(r) \/ Selects(r) \/ WritesDay(r)
  <2>1. \A q \in DagRun \ {r} : job'[q] = job[q]
    BY <1>1, <1>5 DEF Opens, ReadsHwm, RemovesTree, Selects, WritesDay
  <2>2. job'[r].base = job[r].base
    BY <1>1, <1>5 DEF Opens, ReadsHwm, RemovesTree, Selects, WritesDay, Job
  <2>3. QED
    BY <2>1, <2>2
<1>6. CASE SetsBookmark(r) \/ ExportRaises(r)
  <2>1. \E failed : NextTable(r, failed)
    BY <1>6 DEF SetsBookmark, ExportRaises
  <2>2. QED
    BY <1>1, <2>1 DEF NextTable, Job
<1>7. QED
  BY <1>2, <1>3, <1>4, <1>5, <1>6
     DEF DagStep, ExportStep, BuildsModel, TaskDies, DbtRunSucceeds, DbtTestSucceeds,
         LockedOut, RefreshesCatalog

LEMMA BasesKept ==
    LakehouseTypeOK /\ TablesInv /\ BasesInv /\ [LakehouseNext]_lakehouseVars => BasesInv'
<1> SUFFICES ASSUME LakehouseTypeOK, TablesInv, BasesInv, [LakehouseNext]_lakehouseVars
             PROVE  BasesInv'
  OBVIOUS
<1>1. silver \subseteq silver'
  BY TablesKept DEF Grows
<1>2. CASE UNCHANGED job
  BY <1>1, <1>2 DEF BasesInv
<1>3. ASSUME NEW r \in DagRun, DagStep(r) \/ ExportStep(r)
      PROVE  BasesInv'
  <2>1. Base \subseteq silver
    BY DEF Base
  <2>2. QED
    BY <1>1, <1>3, <2>1, BaseOfStep DEF BasesInv
<1>4. QED
  BY <1>2, <1>3 DEF LakehouseNext, Outside, lakehouseVars

\* Types and tables together, by induction.
TypeInv == LakehouseTypeOK /\ TablesInv /\ BasesInv

LEMMA TypeInvInit == LakehouseInit => TypeInv
<1> SUFFICES ASSUME LakehouseInit
             PROVE  TypeInv
  OBVIOUS
<1>1. TablesInv /\ now = 0
  BY TablesInvInit DEF LakehouseInit, WarehouseInit
<1>2. /\ Begin("due", 1, TRUE) \in Job /\ Begin("due", 1, TRUE).task = "due"
      /\ Begin("due", 1, TRUE).base = {}
  BY DEF Begin, Job, Table
<1>3. job \in [DagRun -> Job] /\ \A r \in DagRun : ~Exporting(r)
  BY <1>2 DEF LakehouseInit, Exporting
<1>4. files \in [Table -> Seq(SUBSET Row)]
  BY EmptySeq DEF LakehouseInit
<1>5. hwm \in [Table -> Nat \cup {Never}] /\ \A T \in Table : hwm[T] <= now
  BY <1>1 DEF LakehouseInit, Never
<1>6. \A r \in DagRun : duckdb = r <=> Exporting(r)
  BY <1>3 DEF LakehouseInit
<1>7. /\ duckdb \in DagRun \cup {NoRun} /\ interrupted \subseteq Table
      /\ overtaken \subseteq DagRun /\ crossed \in BOOLEAN
      /\ tested \subseteq DagRun /\ faults \in 0..MaxFaults /\ WarehouseTypeOK
  <2>1. overtaken \subseteq DagRun /\ tested \subseteq DagRun /\ interrupted \subseteq Table
    BY DEF LakehouseInit
  <2>2. crossed \in BOOLEAN
    BY Zenon DEF LakehouseInit
  <2>3. duckdb \in DagRun \cup {NoRun} /\ faults \in 0..MaxFaults
    BY DEF LakehouseInit
  <2>4. QED
    BY <1>1, <2>1, <2>2, <2>3 DEF TablesInv
<1>8. BasesInv
  BY <1>2 DEF LakehouseInit, BasesInv
<1>9. QED
  BY <1>1, <1>3, <1>4, <1>5, <1>6, <1>7, <1>8 DEF TypeInv, LakehouseTypeOK

LEMMA TypeInvNext == TypeInv /\ [LakehouseNext]_lakehouseVars => TypeInv'
<1> SUFFICES ASSUME TypeInv, [LakehouseNext]_lakehouseVars
             PROVE  TypeInv'
  OBVIOUS
<1>1. TablesInv' /\ BasesInv'
  BY TablesKept, BasesKept DEF TypeInv
<1>2. CASE UNCHANGED lakehouseVars
  BY <1>1, <1>2 DEF TypeInv, LakehouseTypeOK, TablesInv, lakehouseVars, lakeVars, vwapVars,
                    warehouseVars, Exporting
<1>3. QED
  BY <1>1, <1>2, OutsideType, DagType, ExportType DEF TypeInv, LakehouseNext

\* Each run of the DAG is at a place the DAG and run_export have, the marks
\* are not ahead of the clock, and the DuckDB file is open in the process of the
\* one run that is in its loop over the tables, and in no other.
THEOREM LakehouseTypeCorrect == LakehouseSpec => []LakehouseTypeOK
<1>1. TypeInv => LakehouseTypeOK
  BY DEF TypeInv
<1>2. QED
  BY <1>1, TypeInvInit, TypeInvNext, PTL DEF LakehouseSpec

----------------------------------------------------------------------------
\* Runs of the DAG that have no other beside them.

\* The dbt_run of r has built the model.
Built(r, model) ==
    \/ job[r].task \in {"dbt_test", "export"}
    \/ job[r].task = "dbt_run" /\ model \in job[r].done

\* What such a run has made of the gold tables is still there.
AloneOf(r) ==
    job[r].alone /\ Active(r) =>
        /\ \A q \in DagRun \ {r} : ~Active(q)
        /\ job[r].task = "dbt_run" /\ job[r].done # {} => "stg" \in job[r].done
        /\ Built(r, "vwap") /\ ~crossed => VwapSeen(ingested)
        /\ Built(r, "stats") => \A w \in Window : stats[w] = Trades(w)
        /\ job[r].task = "export" => r \in tested

AloneInv == \A r \in DagRun : AloneOf(r)

\* What a run that no other has overtaken has still to put in place was computed
\* from gold_vwap_1min as it is, and, with no other run beside it, from silver
\* as it is; and nobody crossed means that gold_vwap_1min misses nothing but
\* what VwapMissesOnly says.
ComputedOf(r) ==
    Computed(r) /\ r \notin overtaken =>
        \E n \in 0..ingested :
            /\ ComputedFrom(job[r].base, n)
            /\ ~crossed => \E k \in 0..n : VwapSeen(k)
            /\ job[r].alone => n = ingested

SeenInv == ~crossed => \E n \in 0..ingested : VwapSeen(n)

VwapInv == SeenInv /\ \A r \in DagRun : ComputedOf(r)

\* A step of a run has to be looked at for that run only.
LEMMA OnlyItself ==
    ASSUME TypeInv, AloneInv, NEW r \in DagRun, Active(r), OnlyJob(r),
           job'[r].alone /\ Active(r)' => job[r].alone,
           job[r].alone /\ Active(r) /\ (\A q \in DagRun \ {r} : ~Active(q)) /\ Active(r)' =>
               /\ job'[r].task = "dbt_run" /\ job'[r].done # {} => "stg" \in job'[r].done
               /\ Built(r, "vwap")' /\ ~crossed' => VwapSeen(ingested)'
               /\ Built(r, "stats")' => \A w \in Window : stats'[w] = Trades(w)'
               /\ job'[r].task = "export" => r \in tested'
    PROVE  AloneInv'
<1>1. \A q \in DagRun \ {r} : job'[q] = job[q] /\ (Active(q)' <=> Active(q))
  BY DEF OnlyJob, Active
<1>2. ASSUME NEW q \in DagRun \ {r} PROVE AloneOf(q)'
  <2>1. AloneOf(q)
    BY DEF AloneInv
  <2>2. ~(job[q].alone /\ Active(q))
    BY <2>1 DEF AloneOf
  <2>3. QED
    BY <1>1, <2>2 DEF AloneOf
<1>3. AloneOf(r)'
  <2>1. SUFFICES ASSUME job'[r].alone, Active(r)' PROVE AloneOf(r)'
    BY DEF AloneOf
  <2>2. \A q \in DagRun \ {r} : ~Active(q)
    BY <2>1 DEF AloneInv, AloneOf
  <2>3. QED
    BY <1>1, <2>1, <2>2 DEF AloneOf
<1>4. QED
  BY <1>2, <1>3 DEF AloneInv

\* It does not change the tables.
LEMMA KeepsTables ==
    ASSUME UNCHANGED <<warehouseVars>>
    PROVE  /\ VwapSeen(ingested) => VwapSeen(ingested)'
           /\ \A w \in Window : stats[w] = Trades(w) => stats'[w] = Trades(w)'
BY DEF warehouseVars, VwapSeen, VwapFrom, VwapMissesOnly, Before, Trades

\* The task of a run goes on, begins again, or the next one begins.
LEMMA SameRun ==
    ASSUME TypeInv, AloneInv, NEW r \in DagRun, OnlyJob(r), Active(r),
           UNCHANGED <<warehouseVars, crossed>>, job'[r].alone = job[r].alone,
           Built(r, "vwap")' => Built(r, "vwap"), Built(r, "stats")' => Built(r, "stats"),
           job'[r].task = "dbt_run" => job'[r].done = {},
           job'[r].task = "export" =>
               (job[r].task = "export" /\ tested' = tested) \/ r \in tested'
    PROVE  AloneInv'
<1>1. ASSUME job[r].alone
      PROVE  /\ Built(r, "vwap")' /\ ~crossed' => VwapSeen(ingested)'
             /\ Built(r, "stats")' => \A w \in Window : stats'[w] = Trades(w)'
             /\ job'[r].task = "export" => r \in tested'
  BY <1>1, KeepsTables DEF AloneInv, AloneOf
<1>2. QED
  BY <1>1, OnlyItself

LEMMA RetryIsAlone ==
    ASSUME TypeInv, AloneInv, NEW r \in DagRun, Active(r), TaskFails(r),
           UNCHANGED <<warehouseVars, crossed, tested>>
    PROVE  AloneInv'
<1>1. LakehouseTypeOK
  BY DEF TypeInv
<1>2. OnlyJob(r)
  BY <1>1, TaskFailsType
<1>3. CASE job'[r] = Begin("over", 1, TRUE)
  <2>1. ~Active(r)'
    BY <1>3 DEF Begin, Active
  <2>2. QED
    BY <1>2, <2>1, OnlyItself
<1>4. CASE job'[r] = Begin(job[r].task, 2, job[r].alone)
  <2>1. /\ job'[r].task = job[r].task /\ job'[r].alone = job[r].alone
        /\ job'[r].done = {}
    BY <1>4 DEF Begin
  <2>2. Built(r, "vwap")' => Built(r, "vwap")
    BY <2>1 DEF Built
  <2>3. Built(r, "stats")' => Built(r, "stats")
    BY <2>1 DEF Built
  <2>4. QED
    BY <1>2, <2>1, <2>2, <2>3, SameRun
<1>5. QED
  BY <1>1, <1>3, <1>4, TaskFailsType

LEMMA AloneDagStep ==
    ASSUME TypeInv, AloneInv, VwapInv, NEW r \in DagRun, DagStep(r)
    PROVE  AloneInv'
<1>1. job \in [DagRun -> Job] /\ job[r] \in Job /\ LakehouseTypeOK /\ TablesInv
  BY DEF TypeInv, LakehouseTypeOK
<1>2. CASE StartRun(r)
  <2>1. job'[r] = Begin("dbt_run", 1, \A p \in DagRun : ~Active(p))
    BY <1>1, <1>2 DEF StartRun
  <2>2. job'[r].task = "dbt_run" /\ job'[r].done = {}
    BY <2>1 DEF Begin
  <2>3. job'[r].alone = (\A p \in DagRun : ~Active(p))
    BY <2>1 DEF Begin
  <2>4. job'[r].alone => \A p \in DagRun : ~Active(p)
    BY <2>3, Zenon
  <2>5. \A q \in DagRun \ {r} : job'[q] = [job[q] EXCEPT !.alone = @ /\ ~Active(q)]
    BY <1>1, <1>2 DEF StartRun
  <2>6. \A q \in DagRun \ {r} : job'[q].task = job[q].task
    BY <1>1, <2>5 DEF Job
  <2>7. \A q \in DagRun \ {r} : Active(q)' <=> Active(q)
    BY <2>6 DEF Active
  <2>8. \A q \in DagRun \ {r} : ~(job'[q].alone /\ Active(q)')
    <3>1. ASSUME NEW q \in DagRun \ {r}, Active(q) PROVE job'[q].alone = FALSE
      <4>1. job[q] \in Job /\ (job[q].alone /\ ~Active(q)) = FALSE
        BY <1>1, <3>1
      <4>2. job'[q].alone = (job[q].alone /\ ~Active(q))
        BY <2>5, <4>1 DEF Job
      <4>3. QED
        BY <4>1, <4>2, Zenon
    <3>2. QED
      BY <2>7, <3>1
  <2>9. AloneOf(r)'
    BY <2>2, <2>4, <2>7 DEF AloneOf, Built
  <2>10. QED
    BY <2>8, <2>9 DEF AloneInv, AloneOf
<1>3. CASE TaskDies(r)
  BY <1>3, RetryIsAlone DEF TaskDies, vwapVars
<1>4. ASSUME NEW model \in Model, NEW needs, NEW base \in SUBSET Trade,
             Builds(r, model, needs, base)
      PROVE  /\ OnlyJob(r) /\ Active(r) /\ job'[r].task = "dbt_run"
             /\ job'[r].done = job[r].done \cup {model} /\ job'[r].alone = job[r].alone
             /\ job[r].task = "dbt_run" /\ needs \subseteq job[r].done
  BY <1>1, <1>4, BuildsIs DEF Builds, Active
<1>5. job[r].base \in SUBSET Trade /\ Base \in SUBSET Trade
  BY <1>1 DEF Job, Base, TablesInv, WarehouseTypeOK
<1>6. job[r].alone /\ job[r].task = "dbt_run" /\ job[r].done # {} => "stg" \in job[r].done
  BY DEF AloneInv, AloneOf, Active
<1>7. CASE BuildsStg(r)
  <2>1. /\ OnlyJob(r) /\ Active(r) /\ job'[r].task = "dbt_run"
        /\ job'[r].done = job[r].done \cup {"stg"} /\ job'[r].alone = job[r].alone
    BY <1>4, <1>5, <1>7 DEF BuildsStg, Model
  <2>2. job[r].task = "dbt_run" /\ "stg" \notin job[r].done
    BY <1>7 DEF BuildsStg, Builds
  <2>3. job[r].alone => job[r].done = {}
    BY <1>6, <2>1, <2>2
  <2>4. job[r].alone => ~Built(r, "vwap")' /\ ~Built(r, "stats")'
    BY <2>1, <2>3 DEF Built
  <2>5. QED
    BY <2>1, <2>4, OnlyItself
<1>8. CASE ComputesVwap(r)
  <2>1. /\ OnlyJob(r) /\ Active(r) /\ job'[r].task = "dbt_run"
        /\ job'[r].done = job[r].done \cup {"vwap_rows"} /\ job'[r].alone = job[r].alone
        /\ job[r].task = "dbt_run" /\ "stg" \in job[r].done
    BY <1>4, <1>5, <1>8 DEF ComputesVwap, Model
  <2>2. UNCHANGED <<warehouseVars, crossed>>
    BY <1>8 DEF ComputesVwap
  <2>3. /\ Built(r, "vwap")' => Built(r, "vwap")
        /\ Built(r, "stats")' => Built(r, "stats")
    BY <2>1 DEF Built
  <2>4. job[r].alone =>
          /\ Built(r, "vwap")' /\ ~crossed' => VwapSeen(ingested)'
          /\ Built(r, "stats")' => \A w \in Window : stats'[w] = Trades(w)'
    BY <2>1, <2>2, <2>3, KeepsTables DEF AloneInv, AloneOf
  <2>5. QED
    BY <2>1, <2>4, OnlyItself
<1>9. CASE BuildsVwap(r)
  <2> DEFINE base == job[r].base
  <2>1. /\ OnlyJob(r) /\ Active(r) /\ job'[r].task = "dbt_run"
        /\ job'[r].done = job[r].done \cup {"vwap"} /\ job'[r].alone = job[r].alone
        /\ job[r].task = "dbt_run" /\ "vwap_rows" \in job[r].done
    BY <1>4, <1>9 DEF BuildsVwap, Model
  <2>2. VwapRun(base) /\ Computed(r) /\ UNCHANGED <<silver, stats, ingested>>
    BY <1>9 DEF BuildsVwap, Builds, VwapRun, Computed
  <2>3. ASSUME job[r].alone, ~crossed'
        PROVE  VwapSeen(ingested)'
    <3>1. r \notin overtaken /\ ~crossed
      BY <1>9, <2>3 DEF BuildsVwap
    <3>2. PICK n \in 0..ingested :
            /\ ComputedFrom(base, n) /\ n = ingested
            /\ \E k \in 0..n : VwapSeen(k)
      BY <2>2, <2>3, <3>1 DEF VwapInv, ComputedOf
    <3>3. VwapSeen(n)'
      BY <1>1, <2>2, <3>2, VwapRunSees
    <3>4. ingested' = n
      BY <2>2, <3>2
    <3>5. QED
      BY <3>3, <3>4 DEF VwapSeen, VwapFrom
  <2>4. Built(r, "stats")' => Built(r, "stats")
    BY <2>1 DEF Built
  <2>5. job[r].alone => (Built(r, "stats")' => \A w \in Window : stats'[w] = Trades(w)')
    BY <2>1, <2>2, <2>4 DEF AloneInv, AloneOf, Trades
  <2>6. QED
    BY <1>6, <2>1, <2>3, <2>5, OnlyItself
<1>10. CASE BuildsStats(r)
  <2>1. /\ OnlyJob(r) /\ Active(r) /\ job'[r].task = "dbt_run"
        /\ job'[r].done = job[r].done \cup {"stats"} /\ job'[r].alone = job[r].alone
        /\ job[r].task = "dbt_run" /\ "stg" \in job[r].done
    BY <1>4, <1>5, <1>10 DEF BuildsStats, Model
  <2>2. StatsRun /\ crossed' = crossed
    BY <1>10 DEF BuildsStats, vwapVars
  <2>3. \A w \in Window : stats'[w] = Trades(w)'
    BY <2>2 DEF StatsRun, ByWindow, Trades
  <2>4. VwapSeen(ingested) => VwapSeen(ingested)'
    BY <2>2 DEF StatsRun, VwapSeen, VwapFrom, VwapMissesOnly, Before
  <2>5. Built(r, "vwap")' => Built(r, "vwap")
    BY <2>1 DEF Built
  <2>6. job[r].alone => (Built(r, "vwap")' /\ ~crossed' => VwapSeen(ingested)')
    BY <2>1, <2>2, <2>4, <2>5 DEF AloneInv, AloneOf
  <2>7. QED
    BY <2>1, <2>3, <2>6, OnlyItself
<1>11. CASE DbtRunSucceeds(r)
  <2>1. /\ OnlyJob(r) /\ job'[r] = Begin("dbt_test", 1, job[r].alone)
    BY <1>1, <1>11, StartsType DEF DbtRunSucceeds
  <2>2. job'[r].task = "dbt_test" /\ job'[r].alone = job[r].alone
    BY <2>1 DEF Begin
  <2>3. Active(r) /\ Built(r, "vwap") /\ Built(r, "stats")
    BY <1>11 DEF DbtRunSucceeds, Active, Built, Model
  <2>4. QED
    BY <1>11, <2>1, <2>2, <2>3, SameRun DEF DbtRunSucceeds, vwapVars
<1>12. CASE DbtTestSucceeds(r)
  <2>1. /\ OnlyJob(r) /\ job'[r] = Begin("export", 1, job[r].alone)
    BY <1>1, <1>12, StartsType DEF DbtTestSucceeds
  <2>2. job'[r].task = "export" /\ job'[r].alone = job[r].alone
    BY <2>1 DEF Begin
  <2>3. Active(r) /\ Built(r, "vwap") /\ Built(r, "stats") /\ r \in tested'
    BY <1>12 DEF DbtTestSucceeds, Active, Built
  <2>4. QED
    BY <1>12, <2>1, <2>2, <2>3, SameRun DEF DbtTestSucceeds, vwapVars
<1>13. QED
  BY <1>2, <1>3, <1>7, <1>8, <1>9, <1>10, <1>11, <1>12 DEF DagStep

\* What every step of the export says of its run.
LEMMA ExportStepIs ==
    ASSUME LakehouseTypeOK, TablesInv, NEW r \in DagRun, ExportStep(r)
    PROVE  /\ job[r].task = "export" /\ UNCHANGED <<warehouseVars, vwapVars, tested>>
           /\ \/ TaskFails(r) \/ Ends(r)
              \/ OnlyJob(r) /\ job'[r].task = "export" /\ job'[r].alone = job[r].alone
<1>1. job \in [DagRun -> Job] /\ job[r] \in Job
  BY DEF LakehouseTypeOK
<1>2. ASSUME NEW next \in Job, next.task = "export", next.alone = job[r].alone,
             job' = [job EXCEPT ![r] = next]
      PROVE  OnlyJob(r) /\ job'[r].task = "export" /\ job'[r].alone = job[r].alone
  BY <1>1, <1>2 DEF OnlyJob
<1>3. CASE Opens(r) \/ ReadsHwm(r) \/ RemovesTree(r)
  <2>1. /\ job[r].task = "export" /\ UNCHANGED <<warehouseVars, vwapVars, tested>>
        /\ \E s \in Steps : job' = [job EXCEPT ![r] = [job[r] EXCEPT !.step = s]]
    BY <1>1, <1>3 DEF Opens, ReadsHwm, RemovesTree, At, Steps
  <2>2. PICK s \in Steps : job' = [job EXCEPT ![r] = [job[r] EXCEPT !.step = s]]
    BY <2>1
  <2>3. /\ [job[r] EXCEPT !.step = s] \in Job
        /\ [job[r] EXCEPT !.step = s].task = "export"
    BY <1>1, <2>1 DEF Job, Steps
  <2>4. [job[r] EXCEPT !.step = s].alone = job[r].alone
    BY <1>1 DEF Job
  <2>5. QED
    BY <1>2, <2>1, <2>2, <2>3, <2>4
<1>4. CASE LockedOut(r) \/ RefreshesCatalog(r)
  BY <1>4 DEF LockedOut, RefreshesCatalog, At
<1>5. CASE Selects(r)
  BY <1>5, SelectsIs DEF Selects, At
<1>6. CASE WritesDay(r)
  BY <1>6, WritesDayIs DEF WritesDay, At
<1>7. CASE SetsBookmark(r) \/ ExportRaises(r)
  <2>1. Exporting(r) /\ \E failed \in SUBSET Table : NextTable(r, failed)
    BY <1>1, <1>7 DEF SetsBookmark, ExportRaises, At, Exporting, Job
  <2>2. OnlyJob(r) /\ job'[r].task = "export" /\ job'[r].alone = job[r].alone
    BY <2>1, NextTableType
  <2>3. QED
    BY <1>7, <2>1, <2>2 DEF SetsBookmark, ExportRaises, Exporting
<1>8. QED
  BY <1>3, <1>4, <1>5, <1>6, <1>7 DEF ExportStep

LEMMA AloneExportStep ==
    ASSUME TypeInv, AloneInv, NEW r \in DagRun, ExportStep(r)
    PROVE  AloneInv'
<1>1. LakehouseTypeOK /\ TablesInv
  BY DEF TypeInv
<1>2. Active(r) /\ UNCHANGED <<warehouseVars, crossed, tested>> /\ job[r].task = "export"
  BY <1>1, ExportStepIs DEF Active, vwapVars
<1>3. CASE TaskFails(r)
  BY <1>2, <1>3, RetryIsAlone
<1>4. CASE Ends(r)
  <2>1. OnlyJob(r) /\ ~Active(r)'
    BY <1>1, <1>4, EndsType DEF Begin, Active
  <2>2. QED
    BY <1>2, <2>1, OnlyItself
<1>5. CASE OnlyJob(r) /\ job'[r].task = "export" /\ job'[r].alone = job[r].alone
  <2>1. Built(r, "vwap") /\ Built(r, "stats")
    BY <1>2 DEF Built
  <2>2. QED
    BY <1>2, <1>5, <2>1, SameRun
<1>6. QED
  BY <1>1, <1>3, <1>4, <1>5, ExportStepIs

LEMMA AloneOutside ==
    ASSUME TypeInv, AloneInv, Outside
    PROVE  AloneInv'
<1>1. TablesInv /\ now \in Nat /\ ingested \in 0..Len(rawTrades) /\ Len(rawTrades) \in Nat
  BY LenProperties DEF TypeInv, TablesInv, WarehouseTypeOK
<1>2. Grows /\ UNCHANGED <<vwap, stats, silver, ingested, job, crossed, tested>>
  <2>1. CASE Tick
    BY <1>1, <2>1, TickKeepsTables DEF Tick, Outside, vwapVars
  <2>2. CASE \E t \in Trade : Arrive(t)
    BY <1>1, <2>2, ArriveKeepsTables DEF Arrive, Outside, vwapVars
  <2>3. QED
    BY <2>1, <2>2 DEF Outside
<1>3. VwapSeen(ingested) => VwapSeen(ingested)'
  <2>1. PICK n \in 0..ingested : n = ingested
    BY <1>1
  <2>2. VwapSeen(n) => VwapSeen(n)'
    BY <1>1, <1>2, SeenIsKept
  <2>3. ingested' = n
    BY <1>2, <2>1
  <2>4. QED
    BY <2>1, <2>2, <2>3 DEF VwapSeen, VwapFrom
<1>4. QED
  BY <1>2, <1>3 DEF AloneInv, AloneOf, Active, Built, Trades

\* Whatever comes to bronze and silver, as long as gold_vwap_1min stays as it is.
LEMMA ComputedIsKept ==
    ASSUME TablesInv, NEW n \in 0..ingested, NEW base, ComputedFrom(base, n),
           Grows, vwap' = vwap
    PROVE  /\ base = {t \in Base' : \E i \in 1..n : rawTrades'[i] = t}
           /\ VwapFrom(n)'
<1>1. /\ rawTrades \in Seq(Trade) /\ ingested \in 0..Len(rawTrades) /\ Len(rawTrades) \in Nat
  BY LenProperties DEF TablesInv, WarehouseTypeOK
<1>2. \A i \in 1..n : /\ i \in 1..Len(rawTrades) /\ i \in 1..ingested
                      /\ rawTrades'[i] = rawTrades[i] /\ rawTrades[i] \in Trade
  BY <1>1, ElementOfSeq DEF Grows
<1>3. \A i \in 1..n : rawTrades[i] \in silver
  BY <1>2 DEF TablesInv
<1>4. Watermark' = Watermark
  BY DEF Watermark, Rows
<1>5. QED
  BY <1>2, <1>3, <1>4 DEF ComputedFrom, Base, VwapFrom, Grows

LEMMA ComputedOfKept ==
    ASSUME TablesInv, NEW q \in DagRun, ComputedOf(q), Grows, vwap' = vwap,
           ingested <= ingested', ingested' \in Nat,
           Computed(q)' => Computed(q), job'[q].base = job[q].base,
           q \notin overtaken' => q \notin overtaken, crossed => crossed',
           Computed(q) /\ job'[q].alone => job[q].alone /\ ingested' = ingested
    PROVE  ComputedOf(q)'
<1> SUFFICES ASSUME Computed(q)', q \notin overtaken'
             PROVE  \E n \in 0..ingested' :
                      /\ job'[q].base = {t \in Base' : \E i \in 1..n : rawTrades'[i] = t}
                      /\ VwapFrom(n)'
                      /\ ~crossed' => \E k \in 0..n : VwapSeen(k)'
                      /\ job'[q].alone => n = ingested'
  BY DEF ComputedOf, ComputedFrom
<1>1. PICK n \in 0..ingested :
        /\ ComputedFrom(job[q].base, n)
        /\ ~crossed => \E k \in 0..n : VwapSeen(k)
        /\ job[q].alone => n = ingested
  BY DEF ComputedOf
<1>2. ingested \in Nat
  BY LenProperties DEF TablesInv, WarehouseTypeOK
<1>3. n \in 0..ingested' /\ (job'[q].alone => n = ingested')
  BY <1>1, <1>2
<1>4. /\ job'[q].base = {t \in Base' : \E i \in 1..n : rawTrades'[i] = t}
      /\ VwapFrom(n)'
  BY <1>1, ComputedIsKept
<1>5. ~crossed' => \E k \in 0..n : VwapSeen(k)'
  <2>1. SUFFICES ASSUME ~crossed' PROVE \E k \in 0..n : VwapSeen(k)'
    OBVIOUS
  <2>2. PICK k \in 0..n : VwapSeen(k)
    BY <1>1, <2>1
  <2>3. k \in 0..ingested
    BY <1>2
  <2>4. VwapSeen(k)'
    BY <2>2, <2>3, SeenIsKept
  <2>5. QED
    BY <2>4
<1>6. QED
  BY <1>3, <1>4, <1>5

LEMMA SeenInvKept ==
    ASSUME TablesInv, SeenInv, Grows, vwap' = vwap, crossed => crossed',
           ingested <= ingested', ingested' \in Nat
    PROVE  SeenInv'
<1> SUFFICES ASSUME ~crossed'
             PROVE  \E n \in 0..ingested' : VwapSeen(n)'
  BY DEF SeenInv
<1>1. PICK n \in 0..ingested : VwapSeen(n)
  BY DEF SeenInv
<1>2. n \in 0..ingested'
  BY DEF TablesInv, WarehouseTypeOK
<1>3. VwapSeen(n)'
  BY <1>1, SeenIsKept
<1>4. QED
  BY <1>2, <1>3

\* A task that begins has computed nothing.
LEMMA BegunComputes ==
    ASSUME NEW r \in DagRun, NEW name, NEW n, NEW alone, job'[r] = Begin(name, n, alone)
    PROVE  ~Computed(r)'
BY DEF Begin, Computed

\* In every other step than those of gold_vwap_1min.
LEMMA ComputedBefore ==
    ASSUME LakehouseTypeOK, TablesInv, NEW r \in DagRun, DagStep(r) \/ ExportStep(r),
           ~ComputesVwap(r), ~BuildsVwap(r)
    PROVE  /\ UNCHANGED <<vwap, vwapVars>>
           /\ \A q \in DagRun : Computed(q)' =>
                /\ Computed(q) /\ job'[q].base = job[q].base
                /\ job'[q].alone => job[q].alone
<1> DEFINE SoBefore(q) == Computed(q)' =>
             /\ Computed(q) /\ job'[q].base = job[q].base
             /\ job'[q].alone => job[q].alone
<1>1. job \in [DagRun -> Job] /\ job[r] \in Job
  BY DEF LakehouseTypeOK
<1>2. ASSUME OnlyJob(r) PROVE \A q \in DagRun \ {r} : SoBefore(q)
  BY <1>2 DEF OnlyJob, Computed
<1>3. CASE StartRun(r)
  <2>1. job'[r] = Begin("dbt_run", 1, \A p \in DagRun : ~Active(p))
    BY <1>1, <1>3 DEF StartRun
  <2>2. ~Computed(r)'
    BY <2>1, BegunComputes, Zenon
  <2>3. ASSUME NEW q \in DagRun \ {r} PROVE SoBefore(q)
    <3>1. job'[q] = [job[q] EXCEPT !.alone = @ /\ ~Active(q)] /\ job[q] \in Job
      BY <1>1, <1>3 DEF StartRun
    <3>2. /\ job'[q].task = job[q].task /\ job'[q].done = job[q].done
          /\ job'[q].base = job[q].base
      BY <3>1 DEF Job
    <3>3. job'[q].alone = (job[q].alone /\ ~Active(q))
      BY <3>1 DEF Job
    <3>4. job'[q].alone => job[q].alone
      BY <3>3, Zenon
    <3>5. QED
      BY <3>2, <3>4 DEF Computed
  <2>4. QED
    BY <1>3, <2>2, <2>3 DEF StartRun, warehouseVars
<1>4. ASSUME \/ TaskFails(r) \/ Ends(r)
             \/ \E name \in {"dbt_test", "export"} : Starts(r, name, 1)
      PROVE  \A q \in DagRun : SoBefore(q)
  <2>1. OnlyJob(r) /\ \E name, n, alone : job'[r] = Begin(name, n, alone)
    BY <1>4, TaskBegins
  <2>2. ~Computed(r)'
    BY <2>1, BegunComputes, Zenon
  <2>3. QED
    BY <1>2, <2>1, <2>2
<1>5. CASE BuildsStg(r) \/ BuildsStats(r)
  <2>1. PICK model \in {"stg", "stats"} : \E needs : Builds(r, model, needs, job[r].base)
    BY <1>5 DEF BuildsStg, BuildsStats
  <2>2. job[r].base \in SUBSET Trade /\ model \in Model
    BY <1>1 DEF Job, Model
  <2>3. /\ OnlyJob(r) /\ job[r].task = "dbt_run" /\ job'[r].task = "dbt_run"
        /\ job'[r].done = job[r].done \cup {model} /\ job'[r].base = job[r].base
        /\ job'[r].alone = job[r].alone
    BY <2>1, <2>2, BuildsIs
  <2>4. UNCHANGED <<vwap, vwapVars>>
    BY <1>5 DEF BuildsStg, BuildsStats, StgRun, StatsRun
  <2>5. QED
    BY <1>2, <2>3, <2>4 DEF Computed
<1>6. CASE TaskDies(r) \/ DbtRunSucceeds(r) \/ DbtTestSucceeds(r)
  BY <1>4, <1>6 DEF TaskDies, DbtRunSucceeds, DbtTestSucceeds, warehouseVars
<1>7. CASE ExportStep(r)
  <2>1. UNCHANGED <<vwap, vwapVars>>
    BY <1>7, ExportStepIs DEF warehouseVars
  <2>2. CASE OnlyJob(r) /\ job'[r].task = "export"
    BY <1>2, <2>1, <2>2 DEF Computed
  <2>3. QED
    BY <1>4, <1>7, <2>1, <2>2, ExportStepIs
<1>8. QED
  BY <1>3, <1>5, <1>6, <1>7 DEF DagStep

LEMMA IngestedGrows ==
    ASSUME TypeInv, [LakehouseNext]_lakehouseVars
    PROVE  /\ ingested' \in Nat /\ ingested <= ingested'
           /\ \/ ingested' = ingested
              \/ \E r \in DagRun : BuildsStg(r)
<1>1. ingested \in 0..Len(rawTrades) /\ Len(rawTrades) \in Nat
  BY LenProperties DEF TypeInv, TablesInv, WarehouseTypeOK
<1>2. ingested' = ingested \/ (ingested' = Len(rawTrades) /\ \E r \in DagRun : BuildsStg(r))
  <2>1. CASE UNCHANGED lakehouseVars \/ Outside
    BY <2>1 DEF lakehouseVars, warehouseVars, Outside, Tick, Arrive
  <2>2. ASSUME NEW r \in DagRun, DagStep(r)
        PROVE  ingested' = ingested \/ (ingested' = Len(rawTrades) /\ BuildsStg(r))
    BY <2>2 DEF DagStep, StartRun, TaskDies, BuildsStg, ComputesVwap, BuildsVwap, BuildsStats,
                StgRun, VwapRun, StatsRun, DbtRunSucceeds, DbtTestSucceeds, warehouseVars
  <2>3. ASSUME NEW r \in DagRun, ExportStep(r)
        PROVE  ingested' = ingested
    <3>1. UNCHANGED warehouseVars
      BY <2>3, ExportStepIs DEF TypeInv
    <3>2. QED
      BY <3>1 DEF warehouseVars
  <2>4. QED
    BY <2>1, <2>2, <2>3 DEF LakehouseNext
<1>3. QED
  BY <1>1, <1>2

\* silver does not grow under a run with no other beside it that has computed
\* its rows of gold_vwap_1min.
LEMMA AloneSilverStays ==
    ASSUME TypeInv, AloneInv, NEW q \in DagRun, Computed(q), job[q].alone,
           NEW r \in DagRun, BuildsStg(r)
    PROVE  FALSE
<1>1. job[r].task = "dbt_run" /\ "stg" \notin job[r].done
  BY DEF BuildsStg, Builds
<1>2. CASE q = r
  BY <1>1, <1>2 DEF Computed, Active, AloneInv, AloneOf
<1>3. CASE q # r
  BY <1>1, <1>3 DEF Computed, Active, AloneInv, AloneOf
<1>4. QED
  BY <1>2, <1>3

LEMMA VwapInvNext ==
    ASSUME TypeInv, AloneInv, VwapInv, [LakehouseNext]_lakehouseVars
    PROVE  VwapInv'
<1>1. TablesInv /\ LakehouseTypeOK /\ Grows
  BY TablesKept DEF TypeInv
<1>2. /\ ingested' \in Nat /\ ingested <= ingested'
      /\ \A q \in DagRun : Computed(q) /\ job[q].alone => ingested' = ingested
  BY IngestedGrows, AloneSilverStays
<1>3. ASSUME vwap' = vwap, crossed => crossed', NEW q \in DagRun,
             Computed(q)' => Computed(q) /\ job'[q].base = job[q].base,
             Computed(q)' /\ job'[q].alone => job[q].alone,
             q \notin overtaken' => q \notin overtaken
      PROVE  ComputedOf(q)'
  <2>1. CASE ~Computed(q)'
    BY <2>1 DEF ComputedOf
  <2>2. CASE Computed(q)'
    BY <1>1, <1>2, <1>3, <2>2, ComputedOfKept DEF VwapInv
  <2>3. QED
    BY <2>1, <2>2
<1>4. CASE UNCHANGED <<vwap, vwapVars, job>>
  <2>1. SeenInv'
    BY <1>1, <1>2, <1>4, SeenInvKept DEF VwapInv, vwapVars
  <2>2. QED
    BY <1>3, <1>4, <2>1 DEF VwapInv, vwapVars, Computed
<1>5. ASSUME NEW r \in DagRun, DagStep(r) \/ ExportStep(r), ~ComputesVwap(r), ~BuildsVwap(r)
      PROVE  VwapInv'
  <2>1. /\ UNCHANGED <<vwap, vwapVars>>
        /\ \A q \in DagRun : Computed(q)' =>
             /\ Computed(q) /\ job'[q].base = job[q].base
             /\ job'[q].alone => job[q].alone
    BY <1>1, <1>5, ComputedBefore
  <2>2. SeenInv'
    BY <1>1, <1>2, <2>1, SeenInvKept DEF VwapInv, vwapVars
  <2>3. QED
    BY <1>3, <2>1, <2>2 DEF VwapInv, vwapVars
<1>6. ASSUME NEW r \in DagRun, ComputesVwap(r)
      PROVE  VwapInv'
  <2>1. UNCHANGED <<warehouseVars, crossed>> /\ overtaken' = overtaken \ {r}
    BY <1>6 DEF ComputesVwap
  <2>2. OnlyJob(r) /\ job'[r].base = Base
    <3>1. Base \in SUBSET Trade /\ "vwap_rows" \in Model
      BY <1>1 DEF Base, TablesInv, WarehouseTypeOK, Model
    <3>2. QED
      BY <1>1, <1>6, <3>1, BuildsIs DEF ComputesVwap
  <2>3. SeenInv'
    BY <1>1, <1>2, <2>1, SeenInvKept DEF VwapInv, warehouseVars
  <2>4. \A q \in DagRun \ {r} : ComputedOf(q)'
    BY <1>3, <2>1, <2>2 DEF OnlyJob, Computed, warehouseVars
  <2>5. ComputedFrom(Base, ingested)
    <3>1. \A t \in silver : \E i \in 1..ingested : rawTrades[i] = t
      BY <1>1 DEF TablesInv, WarehouseTypeOK
    <3>2. \A w \in Window : vwap[w] \subseteq silver
      BY <1>1 DEF TablesInv, Trades
    <3>3. QED
      BY <3>1, <3>2 DEF ComputedFrom, VwapFrom, Base
  <2>6. /\ ingested \in 0..ingested /\ ingested \in Nat
        /\ ~crossed => \E k \in 0..ingested : VwapSeen(k)
    BY <1>1 DEF VwapInv, SeenInv, TablesInv, WarehouseTypeOK
  <2>7. ComputedOf(r)'
    <3>1. ingested \in 0..ingested' /\ ingested' = ingested
      BY <2>1, <2>6 DEF warehouseVars
    <3>2. job'[r].base = {t \in Base' : \E i \in 1..ingested : rawTrades'[i] = t}
      BY <2>1, <2>2, <2>5 DEF ComputedFrom, Base, Watermark, Rows, warehouseVars
    <3>3. VwapFrom(ingested)'
      BY <2>1, <2>5 DEF ComputedFrom, VwapFrom, warehouseVars
    <3>4. ~crossed' => \E k \in 0..ingested : VwapSeen(k)'
      BY <2>1, <2>6 DEF VwapSeen, VwapFrom, VwapMissesOnly, Before, warehouseVars
    <3>5. QED
      BY <3>1, <3>2, <3>3, <3>4 DEF ComputedOf, ComputedFrom
  <2>8. QED
    BY <2>3, <2>4, <2>7 DEF VwapInv
<1>7. ASSUME NEW r \in DagRun, BuildsVwap(r)
      PROVE  VwapInv'
  <2>1. /\ VwapRun(job[r].base) /\ Computed(r) /\ ingested' = ingested
        /\ overtaken' = (overtaken \cup {q \in DagRun : Computed(q)}) \ {r}
        /\ crossed' = (crossed \/ r \in overtaken)
    BY <1>7 DEF BuildsVwap, Builds, Computed, VwapRun
  <2>2. OnlyJob(r) /\ job'[r].done = job[r].done \cup {"vwap"}
    <3>1. {} \in SUBSET Trade /\ "vwap" \in Model
      BY DEF Model
    <3>2. QED
      BY <1>1, <1>7, <3>1, BuildsIs DEF BuildsVwap
  <2>3. SeenInv'
    <3>1. SUFFICES ASSUME ~crossed'
                   PROVE  \E n \in 0..ingested' : VwapSeen(n)'
      BY DEF SeenInv
    <3>2. r \notin overtaken /\ ~crossed
      BY <2>1, <3>1
    <3>3. PICK n \in 0..ingested :
            ComputedFrom(job[r].base, n) /\ \E k \in 0..n : VwapSeen(k)
      BY <2>1, <3>2 DEF VwapInv, ComputedOf
    <3>4. VwapSeen(n)'
      BY <1>1, <2>1, <3>3, VwapRunSees
    <3>5. QED
      BY <2>1, <3>4
  <2>4. ASSUME NEW q \in DagRun PROVE ComputedOf(q)'
    <3>1. CASE q = r
      BY <2>2, <3>1 DEF ComputedOf, Computed
    <3>2. CASE q # r
      BY <2>1, <2>2, <3>2 DEF ComputedOf, Computed, OnlyJob
    <3>3. QED
      BY <3>1, <3>2
  <2>5. QED
    BY <2>3, <2>4 DEF VwapInv
<1>8. QED
  BY <1>4, <1>5, <1>6, <1>7 DEF LakehouseNext, Outside, Tick, Arrive, lakehouseVars, warehouseVars

LakehouseInv == TypeInv /\ AloneInv /\ VwapInv

LEMMA LakehouseInvInit == LakehouseInit => LakehouseInv
<1> SUFFICES ASSUME LakehouseInit
             PROVE  LakehouseInv
  OBVIOUS
<1>1. \A r \in DagRun : ~Active(r) /\ ~Computed(r)
  BY DEF LakehouseInit, Begin, Active, Computed
<1>2. VwapSeen(0) /\ 0 \in 0..ingested
  BY DEF LakehouseInit, WarehouseInit, VwapSeen, VwapFrom
<1>3. QED
  BY <1>1, <1>2, TypeInvInit
     DEF LakehouseInv, AloneInv, AloneOf, VwapInv, SeenInv, ComputedOf

LEMMA LakehouseInvNext == LakehouseInv /\ [LakehouseNext]_lakehouseVars => LakehouseInv'
<1> SUFFICES ASSUME LakehouseInv, [LakehouseNext]_lakehouseVars
             PROVE  LakehouseInv'
  OBVIOUS
<1>1. TypeInv' /\ VwapInv'
  BY TypeInvNext, VwapInvNext DEF LakehouseInv
<1>2. CASE UNCHANGED lakehouseVars
  <2>1. UNCHANGED <<warehouseVars, job, crossed, tested>>
    BY <1>2 DEF lakehouseVars, vwapVars
  <2>2. AloneInv'
    BY <2>1, KeepsTables
       DEF LakehouseInv, AloneInv, AloneOf, Active, Built, warehouseVars
  <2>3. QED
    BY <1>1, <2>2 DEF LakehouseInv
<1>3. QED
  BY <1>1, <1>2, AloneOutside, AloneDagStep, AloneExportStep DEF LakehouseInv, LakehouseNext

LEMMA LakehouseInvHolds == LakehouseSpec => []LakehouseInv
BY LakehouseInvInit, LakehouseInvNext, PTL DEF LakehouseSpec

\* After a dbt_run with no other run of the DAG beside it, and however many
\* failed or overlapped before, gold_vwap_1min has every trade of silver in the
\* row of its minute but those the model's own watermark shuts out, as long as
\* no run put rows in place there which another had overtaken.
THEOREM VwapComplete == LakehouseSpec => []VwapIsComplete
<1>1. LakehouseInv => VwapIsComplete
  <2> SUFFICES ASSUME LakehouseInv, Settled, ~crossed
               PROVE  VwapIsComplete
    BY DEF VwapIsComplete
  <2>1. TablesInv
    BY DEF LakehouseInv, TypeInv
  <2>2. VwapSeen(ingested)
    BY DEF Settled, LakehouseInv, AloneInv, AloneOf, Active, Built
  <2>3. ASSUME NEW t \in silver PROVE t \in vwap[WindowOf(t)] \/ VwapMissesOnly(t)
    <3>1. PICK i \in 1..ingested : rawTrades[i] = t
      BY <2>1 DEF TablesInv, WarehouseTypeOK
    <3>2. QED
      BY <2>2, <3>1 DEF VwapSeen
  <2>4. \A w \in Window : vwap[w] \subseteq {t \in silver : WindowOf(t) = w}
    BY <2>1 DEF TablesInv, Trades
  <2>5. QED
    BY <2>3, <2>4 DEF VwapIsComplete
<1>2. QED
  BY <1>1, LakehouseInvHolds, PTL

\* ... and gold_trade_stats_1min is what silver says.
THEOREM StatsComplete == LakehouseSpec => []StatsAreComplete
<1>1. LakehouseInv => StatsAreComplete
  <2> SUFFICES ASSUME LakehouseInv, Settled
               PROVE  stats = [w \in Window |-> {t \in silver : WindowOf(t) = w}]
    BY DEF StatsAreComplete
  <2>1. stats \in [Window -> SUBSET Trade]
    BY DEF LakehouseInv, TypeInv, TablesInv, WarehouseTypeOK
  <2>2. \A w \in Window : stats[w] = Trades(w)
    BY DEF Settled, LakehouseInv, AloneInv, AloneOf, Active, Built
  <2>3. QED
    BY <2>1, <2>2 DEF Trades
<1>2. QED
  BY <1>1, LakehouseInvHolds, PTL

\* A run with no other beside it exports gold tables that its own dbt_test
\* looked at and that did not change since.
THEOREM OnlyTested == LakehouseSpec => []OnlyTestedIsExported
<1>1. LakehouseInv => OnlyTestedIsExported
  BY DEF LakehouseInv, AloneInv, AloneOf, Active, OnlyTestedIsExported
<1>2. QED
  BY <1>1, LakehouseInvHolds, PTL

----------------------------------------------------------------------------
\* The files and their marks.

Writing(r) == Exporting(r) /\ job[r].step \in {"write", "bookmark"}

\* What run r has selected is newer than the mark, one row for a minute; what
\* it has not still to write is in the files; and while no other run is beside
\* it, it is still what a new SELECT would return.
ExportOf(r) ==
    LET J == job[r] IN
    /\ ~Writing(r) => J.selected = {} /\ J.rows = {}
    /\ Writing(r) =>
        /\ J.rows \subseteq J.selected
        /\ J.selected \subseteq Exported(J.table) \cup J.rows
        /\ J.step = "bookmark" => J.rows = {}
        /\ J.alone => J.selected = Newer(J.table)
        /\ \A x \in J.selected : Start(x.window) > hwm[J.table] /\ Start(x.window) <= now
        /\ \A x, y \in J.selected : x.window = y.window => x = y

NoneTwice(T) ==
    \A i, j \in DOMAIN files[T] : \A x \in files[T][i], y \in files[T][j] :
        x.window = y.window => i = j /\ x = y

\* A row in the files is not newer than the mark, unless it comes from the
\* export that goes on.
Accounted(T, x) ==
    \/ Start(x.window) <= hwm[T]
    \/ \E r \in DagRun : /\ Writing(r) /\ job[r].table = T
                         /\ x \in job[r].selected \ job[r].rows

FilesOf(T) == T \notin interrupted => NoneTwice(T) /\ \A x \in Exported(T) : Accounted(T, x)

ExportInv == (\A r \in DagRun : ExportOf(r)) /\ (\A T \in Table : FilesOf(T))

LEMMA ExportedAreRows ==
    ASSUME LakehouseTypeOK, NEW T \in Table, NEW x \in Exported(T)
    PROVE  x \in Row /\ Start(x.window) \in Nat
<1>1. files[T] \in Seq(SUBSET Row)
  BY DEF LakehouseTypeOK
<1>2. PICK i \in DOMAIN files[T] : x \in files[T][i]
  BY DEF Exported, Range
<1>3. i \in 1..Len(files[T])
  BY <1>1, <1>2, LenProperties
<1>4. x \in Row
  BY <1>1, <1>2, <1>3, ElementOfSeq
<1>5. QED
  BY <1>4, WindowsAreNat DEF Row

\* Another run of the DAG does a step, or none does.
LEMMA NotItsStep ==
    ASSUME LakehouseTypeOK, TablesInv, NEW q \in DagRun, ExportOf(q),
           Writing(q)' <=> Writing(q), job'[q].table = job[q].table,
           job'[q].step = job[q].step,
           job'[q].selected = job[q].selected, job'[q].rows = job[q].rows,
           job'[q].alone => job[q].alone,
           Writing(q) => UNCHANGED <<hwm, files>>,
           Writing(q) /\ job'[q].alone => UNCHANGED <<vwap, stats>>,
           now \in Nat, now' \in Nat, now <= now'
    PROVE  ExportOf(q)'
<1>1. CASE ~Writing(q)
  BY <1>1 DEF ExportOf
<1>2. CASE Writing(q)
  <2>1. job[q].table \in Table /\ job[q].selected \subseteq Row
    BY DEF LakehouseTypeOK, Job
  <2>2. \A x \in job[q].selected : Start(x.window) \in Nat
    BY <2>1, WindowsAreNat DEF Row
  <2>3. \A x \in job[q].selected : Start(x.window) <= now'
    BY <1>2, <2>2 DEF ExportOf
  <2>4. Exported(job[q].table)' = Exported(job[q].table)
    BY <1>2 DEF Exported
  <2>5. job'[q].alone => Newer(job[q].table)' = Newer(job[q].table)
    BY <1>2 DEF Newer, GoldRows, Gold
  <2>6. QED
    BY <1>2, <2>3, <2>4, <2>5 DEF ExportOf
<1>3. QED
  BY <1>1, <1>2

\* No file is written or removed.
LEMMA SameFiles ==
    ASSUME LakehouseTypeOK, NEW T \in Table, FilesOf(T), files'[T] = files[T],
           hwm'[T] \in Nat \cup {Never}, hwm[T] <= hwm'[T],
           T \notin interrupted' => T \notin interrupted,
           T \notin interrupted' =>
             \A r \in DagRun : Writing(r) /\ job[r].table = T =>
               \/ /\ Writing(r)' /\ job'[r].table = T /\ job'[r].rows = job[r].rows
                  /\ job'[r].selected = job[r].selected
               \/ job[r].selected = job[r].rows
               \/ \A x \in job[r].selected : Start(x.window) <= hwm'[T]
    PROVE  FilesOf(T)'
<1> SUFFICES ASSUME T \notin interrupted'
             PROVE  NoneTwice(T)' /\ \A x \in Exported(T)' : Accounted(T, x)'
  BY DEF FilesOf
<1>1. NoneTwice(T)'
  BY DEF FilesOf, NoneTwice
<1>2. hwm[T] \in Nat \cup {Never}
  BY DEF LakehouseTypeOK
<1>3. ASSUME NEW x \in Exported(T) PROVE Accounted(T, x)'
  <2>1. Accounted(T, x) /\ Start(x.window) \in Nat
    BY ExportedAreRows DEF FilesOf
  <2>2. CASE Start(x.window) <= hwm[T]
    BY <1>2, <2>1, <2>2 DEF Accounted, Never
  <2>3. CASE \E r \in DagRun : /\ Writing(r) /\ job[r].table = T
                               /\ x \in job[r].selected \ job[r].rows
    BY <2>3 DEF Accounted
  <2>4. QED
    BY <2>1, <2>2, <2>3 DEF Accounted
<1>4. Exported(T)' = Exported(T)
  BY DEF Exported
<1>5. QED
  BY <1>1, <1>3, <1>4

\* A step of a run has to be looked at for its own export.
LEMMA OnlyItsExport ==
    ASSUME LakehouseTypeOK, TablesInv, AloneInv, ExportInv, NEW r \in DagRun, OnlyJob(r),
           now' = now, Exporting(r) \/ UNCHANGED <<hwm, files>>,
           Active(r) \/ UNCHANGED <<vwap, stats>>
    PROVE  \A q \in DagRun \ {r} : ExportOf(q)'
<1> SUFFICES ASSUME NEW q \in DagRun \ {r}
             PROVE  ExportOf(q)'
  OBVIOUS
<1>1. job'[q] = job[q] /\ (Writing(q)' <=> Writing(q))
  BY DEF OnlyJob, Writing, Exporting
<1>2. Writing(q) => ~Exporting(r)
  BY DEF Writing, LakehouseTypeOK
<1>3. Writing(q) /\ job[q].alone => ~Active(r)
  BY DEF AloneInv, AloneOf, Writing, Exporting, Active
<1>4. now \in Nat
  BY DEF LakehouseTypeOK, WarehouseTypeOK
<1>5. ExportOf(q)
  BY DEF ExportInv
<1>6. QED
  BY <1>1, <1>2, <1>3, <1>4, <1>5, NotItsStep

\* The run is not at its files then, and of what it was, nothing is left over.
LEMMA NothingLeftOver ==
    ASSUME LakehouseTypeOK, TablesInv, AloneInv, ExportInv, NEW r \in DagRun, OnlyJob(r),
           now' = now, UNCHANGED files, Exporting(r) \/ UNCHANGED hwm,
           Active(r) \/ UNCHANGED <<vwap, stats>>,
           ~Writing(r)', job'[r].selected = {}, job'[r].rows = {},
           hwm' \in [Table -> Nat \cup {Never}], \A T \in Table : hwm[T] <= hwm'[T],
           interrupted \subseteq interrupted',
           Writing(r) /\ job[r].selected # job[r].rows =>
               \/ job[r].table \in interrupted'
               \/ \A x \in job[r].selected : Start(x.window) <= hwm'[job[r].table]
    PROVE  ExportInv'
<1>1. \A q \in DagRun \ {r} : ExportOf(q)'
  BY OnlyItsExport
<1>2. ExportOf(r)'
  BY DEF ExportOf
<1>3. ASSUME NEW T \in Table PROVE FilesOf(T)'
  <2>1. FilesOf(T)
    BY DEF ExportInv
  <2>2. \A q \in DagRun \ {r} : job'[q] = job[q] /\ (Writing(q)' <=> Writing(q))
    BY DEF OnlyJob, Writing, Exporting
  <2>3. QED
    BY <2>1, <2>2, SameFiles
<1>4. QED
  BY <1>1, <1>2, <1>3 DEF ExportInv

LEMMA LeavesFilesIs ==
    ASSUME NEW r \in DagRun, LeavesFiles(r)
    PROVE  /\ interrupted' \in {interrupted, interrupted \cup {job[r].table}}
           /\ interrupted \subseteq interrupted'
           /\ job[r].selected # job[r].rows => job[r].table \in interrupted'
BY DEF LeavesFiles

\* A task that fails or ends leaves nothing selected.
LEMMA BegunIs ==
    ASSUME LakehouseTypeOK, NEW r \in DagRun,
           \E name, n, alone : job'[r] = Begin(name, n, alone)
    PROVE  ~Writing(r)' /\ job'[r].selected = {} /\ job'[r].rows = {}
<1>1. PICK name, n, alone : job'[r] = Begin(name, n, alone)
  OBVIOUS
<1>2. job'[r].step = "open" /\ job'[r].selected = {} /\ job'[r].rows = {}
  BY <1>1 DEF Begin
<1>3. QED
  BY <1>2 DEF Writing, Exporting

LEMMA ExportOutside ==
    ASSUME TypeInv, ExportInv, Outside
    PROVE  ExportInv'
<1>1. LakehouseTypeOK /\ TablesInv
  BY DEF TypeInv
<1>2. /\ now \in Nat /\ now' \in Nat /\ now <= now'
      /\ UNCHANGED <<job, hwm, files, interrupted, vwap, stats>>
  BY <1>1 DEF Outside, Tick, Arrive, LakehouseTypeOK, WarehouseTypeOK, lakeVars
<1>3. ASSUME NEW q \in DagRun PROVE ExportOf(q)'
  <2>1. Writing(q)' <=> Writing(q)
    BY <1>2 DEF Writing, Exporting
  <2>2. ExportOf(q)
    BY DEF ExportInv
  <2>3. QED
    BY <1>1, <1>2, <2>1, <2>2, NotItsStep
<1>4. ASSUME NEW T \in Table PROVE FilesOf(T)'
  <2>1. FilesOf(T) /\ \A r \in DagRun : Writing(r)' <=> Writing(r)
    BY <1>2 DEF ExportInv, Writing, Exporting
  <2>2. hwm'[T] \in Nat \cup {Never} /\ hwm[T] <= hwm'[T]
    BY <1>1, <1>2 DEF LakehouseTypeOK, Never
  <2>3. QED
    BY <1>1, <1>2, <2>1, <2>2, SameFiles
<1>5. QED
  BY <1>3, <1>4 DEF ExportInv

\* The marks do not change, and nothing was selected.
LEMMA LeavesLake ==
    ASSUME LakehouseTypeOK, TablesInv, AloneInv, ExportInv, NEW r \in DagRun, OnlyJob(r),
           now' = now, UNCHANGED <<hwm, files>>, interrupted \subseteq interrupted',
           Active(r) \/ UNCHANGED <<vwap, stats>>,
           ~Writing(r)', job'[r].selected = {}, job'[r].rows = {},
           Writing(r) /\ job[r].selected # job[r].rows => job[r].table \in interrupted'
    PROVE  ExportInv'
<1>1. hwm' \in [Table -> Nat \cup {Never}] /\ \A T \in Table : hwm[T] \in Nat \cup {Never}
  BY DEF LakehouseTypeOK
<1>2. \A T \in Table : hwm[T] <= hwm'[T]
  BY <1>1 DEF Never
<1>3. QED
  BY <1>1, <1>2, NothingLeftOver

LEMMA ExportDagStep ==
    ASSUME TypeInv, AloneInv, ExportInv, NEW r \in DagRun, DagStep(r)
    PROVE  ExportInv'
<1>1. job \in [DagRun -> Job] /\ job[r] \in Job /\ LakehouseTypeOK /\ TablesInv /\ ExportOf(r)
  BY DEF TypeInv, LakehouseTypeOK, ExportInv
<1>2. CASE StartRun(r)
  <2>1. /\ now \in Nat /\ UNCHANGED <<now, hwm, files, interrupted, vwap, stats>>
    BY <1>1, <1>2 DEF StartRun, lakeVars, warehouseVars, LakehouseTypeOK, WarehouseTypeOK
  <2>2. job'[r] = Begin("dbt_run", 1, \A p \in DagRun : ~Active(p))
    BY <1>1, <1>2 DEF StartRun
  <2>3. job'[r].step = "open" /\ job'[r].selected = {} /\ job'[r].rows = {}
    BY <2>2 DEF Begin
  <2>4. ~Writing(r) /\ ~Writing(r)' /\ ExportOf(r)'
    BY <1>2, <2>3 DEF StartRun, Writing, Exporting, ExportOf
  <2>5. ASSUME NEW q \in DagRun \ {r}
        PROVE  /\ job'[q].task = job[q].task /\ job'[q].table = job[q].table
               /\ job'[q].step = job[q].step /\ job'[q].selected = job[q].selected
               /\ job'[q].rows = job[q].rows /\ (job'[q].alone => job[q].alone)
    <3>1. job'[q] = [job[q] EXCEPT !.alone = @ /\ ~Active(q)] /\ job[q] \in Job
      BY <1>1, <1>2 DEF StartRun
    <3>2. /\ job'[q].task = job[q].task /\ job'[q].table = job[q].table
          /\ job'[q].step = job[q].step /\ job'[q].selected = job[q].selected
          /\ job'[q].rows = job[q].rows
      BY <3>1 DEF Job
    <3>3. job'[q].alone = (job[q].alone /\ ~Active(q))
      BY <3>1 DEF Job
    <3>4. job'[q].alone => job[q].alone
      BY <3>3, Zenon
    <3>5. QED
      BY <3>2, <3>4
  <2>6. \A q \in DagRun \ {r} : Writing(q)' <=> Writing(q)
    BY <2>5 DEF Writing, Exporting
  <2>7. ASSUME NEW q \in DagRun \ {r} PROVE ExportOf(q)'
    <3>1. ExportOf(q)
      BY DEF ExportInv
    <3>2. QED
      BY <1>1, <2>1, <2>5, <2>6, <3>1, NotItsStep
  <2>8. ASSUME NEW T \in Table PROVE FilesOf(T)'
    <3>1. FilesOf(T) /\ hwm'[T] \in Nat \cup {Never} /\ hwm[T] <= hwm'[T]
      BY <1>1, <2>1 DEF ExportInv, LakehouseTypeOK, Never
    <3>2. QED
      BY <1>1, <2>1, <2>4, <2>5, <2>6, <3>1, SameFiles
  <2>9. QED
    BY <2>4, <2>7, <2>8 DEF ExportInv
<1>3. CASE TaskDies(r)
  <2>1. OnlyJob(r) /\ ~Writing(r)' /\ job'[r].selected = {} /\ job'[r].rows = {}
    BY <1>1, <1>3, TaskFailsType, BegunIs DEF TaskDies
  <2>2. UNCHANGED <<now, vwap, stats, hwm, files>> /\ LeavesFiles(r) /\ Active(r)
    BY <1>3 DEF TaskDies, warehouseVars
  <2>3. QED
    BY <1>1, <2>1, <2>2, LeavesFilesIs, LeavesLake
<1>4. CASE BuildsModel(r)
  <2>1. PICK model \in Model, base \in SUBSET Trade : \E needs : Builds(r, model, needs, base)
    BY <1>1, <1>4, BuildsSome
  <2>2. /\ OnlyJob(r) /\ job[r].task = "dbt_run" /\ ~Exporting(r) /\ ~Exporting(r)'
        /\ job'[r].selected = job[r].selected /\ job'[r].rows = job[r].rows
        /\ UNCHANGED <<hwm, files, interrupted>>
    BY <1>1, <2>1, BuildsIs DEF lakeVars
  <2>3. ~Writing(r) /\ ~Writing(r)' /\ Active(r)
    BY <2>2 DEF Writing, Active
  <2>4. job'[r].selected = {} /\ job'[r].rows = {}
    BY <1>1, <2>2, <2>3 DEF ExportOf
  <2>5. now' = now
    BY <1>1, <1>4, BuildsSome
  <2>6. QED
    BY <1>1, <2>2, <2>3, <2>4, <2>5, LeavesLake
<1>5. CASE DbtRunSucceeds(r) \/ DbtTestSucceeds(r)
  <2>1. \E name \in {"dbt_test", "export"} : Starts(r, name, 1)
    BY <1>5 DEF DbtRunSucceeds, DbtTestSucceeds
  <2>2. OnlyJob(r) /\ ~Writing(r)' /\ job'[r].selected = {} /\ job'[r].rows = {}
    BY <1>1, <2>1, StartsType, BegunIs
  <2>3. /\ UNCHANGED <<now, vwap, stats, hwm, files, interrupted>>
        /\ job[r].task \in {"dbt_run", "dbt_test"}
    BY <1>5 DEF DbtRunSucceeds, DbtTestSucceeds, warehouseVars, lakeVars
  <2>4. ~Writing(r)
    BY <2>3 DEF Writing, Exporting
  <2>5. QED
    BY <1>1, <2>2, <2>3, <2>4, LeavesLake
<1>6. QED
  BY <1>2, <1>3, <1>4, <1>5 DEF DagStep, BuildsModel

LEMMA ExportedWith ==
    ASSUME NEW s \in Seq(SUBSET Row), NEW d \in SUBSET Row
    PROVE  UNION Range(Append(s, d)) = (UNION Range(s)) \cup d
<1>1. <<d>> \in Seq(SUBSET Row) /\ Append(s, d) = s \o <<d>>
  OBVIOUS
<1>2. Range(<<d>>) = {d}
  BY DEF Range
<1>3. \A u, v \in Seq(SUBSET Row) : Range(u \o v) = Range(u) \cup Range(v)
  BY RangeConcatenation
<1>4. Range(Append(s, d)) = Range(s) \cup {d}
  BY <1>1, <1>2, <1>3
<1>5. QED
  BY <1>4

LEMMA WritesDayKeepsFiles ==
    ASSUME LakehouseTypeOK, TablesInv, AloneInv, ExportInv, NEW r \in DagRun, WritesDay(r)
    PROVE  ExportInv'
<1> DEFINE J == job[r]
           day == FirstDay(job[r].rows)
<1> PICK T \in Table : T = job[r].table
  BY DEF LakehouseTypeOK, Job
<1>1. /\ J \in Job /\ J.rows \subseteq Row /\ day \subseteq J.rows
      /\ files[T] \in Seq(SUBSET Row) /\ files \in [Table -> Seq(SUBSET Row)]
  BY DEF LakehouseTypeOK, Job, FirstDay
<1>2. /\ OnlyJob(r) /\ Exporting(r) /\ Exporting(r)'
      /\ job'[r].task = "export" /\ job'[r].alone = J.alone
      /\ job'[r].table = T /\ job'[r].selected = J.selected
      /\ job'[r].rows = J.rows \ day
      /\ job'[r].step = IF J.rows = day THEN "bookmark" ELSE "write"
  BY WritesDayIs
<1>3. /\ UNCHANGED <<now, hwm, interrupted, vwap, stats>>
      /\ files' = [files EXCEPT ![T] = Append(files[T], day)]
  BY DEF WritesDay, warehouseVars
<1>4. Writing(r) /\ Writing(r)' /\ ExportOf(r)
  BY <1>2 DEF WritesDay, At, Writing, ExportInv
<1>5. Exported(T)' = Exported(T) \cup day
  BY <1>1, <1>3, ExportedWith DEF Exported
<1>6. \A q \in DagRun \ {r} : ExportOf(q)'
  BY <1>2, <1>3, OnlyItsExport
<1>7. ExportOf(r)'
  <2>1. Newer(T)' = Newer(T)
    BY <1>3 DEF Newer, GoldRows, Gold
  <2>2. job'[r].step = "bookmark" => job'[r].rows = {}
    BY <1>2
  <2>3. job'[r].selected \subseteq Exported(T)' \cup job'[r].rows
    BY <1>2, <1>4, <1>5 DEF ExportOf
  <2>4. job'[r].rows \subseteq job'[r].selected
    BY <1>2, <1>4 DEF ExportOf
  <2>5. J.alone => J.selected = Newer(T)
    BY <1>4 DEF ExportOf
  <2>6. /\ \A x \in J.selected : Start(x.window) > hwm[T] /\ Start(x.window) <= now
        /\ \A x, y \in J.selected : x.window = y.window => x = y
    BY <1>4 DEF ExportOf
  <2>7. QED
    BY <1>2, <1>3, <1>4, <2>1, <2>2, <2>3, <2>4, <2>5, <2>6 DEF ExportOf
<1>8. ASSUME NEW S \in Table, S # T PROVE FilesOf(S)'
  <2>1. FilesOf(S) /\ files'[S] = files[S]
    BY <1>1, <1>3, <1>8 DEF ExportInv
  <2>2. hwm'[S] \in Nat \cup {Never} /\ hwm[S] <= hwm'[S]
    BY <1>3 DEF LakehouseTypeOK, Never
  <2>3. \A q \in DagRun : Writing(q) /\ job[q].table = S =>
          /\ Writing(q)' /\ job'[q] = job[q]
    BY <1>2, <1>8 DEF OnlyJob, Writing, Exporting
  <2>4. QED
    BY <1>3, <2>1, <2>2, <2>3, SameFiles
<1>9. FilesOf(T)'
  <2> SUFFICES ASSUME T \notin interrupted
               PROVE  NoneTwice(T)' /\ \A x \in Exported(T)' : Accounted(T, x)'
    BY <1>3 DEF FilesOf
  <2>1. NoneTwice(T) /\ \A x \in Exported(T) : Accounted(T, x)
    BY <1>1 DEF ExportInv, FilesOf
  <2>2. \A q \in DagRun : Writing(q) => q = r
    BY <1>2 DEF Writing, LakehouseTypeOK
  <2>3. day \subseteq J.selected
    BY <1>1, <1>4 DEF ExportOf
  <2>4. ASSUME NEW x \in Exported(T) PROVE Accounted(T, x)'
    <3>1. CASE Start(x.window) <= hwm[T]
      BY <1>3, <3>1 DEF Accounted
    <3>2. CASE x \in J.selected \ J.rows
      BY <1>2, <1>4, <3>2 DEF Accounted
    <3>3. QED
      BY <2>1, <2>2, <3>1, <3>2 DEF Accounted
  <2>5. ASSUME NEW x \in day PROVE Accounted(T, x)'
    BY <1>2, <1>4, <2>3 DEF Accounted
  \* No minute of this day is in the files already.
  <2>6. ASSUME NEW x \in Exported(T), NEW y \in day PROVE x.window # y.window
    <3>1. y \in J.selected /\ y \in J.rows
      BY <1>1, <2>3
    <3>2. Start(y.window) > hwm[T]
      BY <1>4, <3>1 DEF ExportOf
    <3>3. CASE Start(x.window) <= hwm[T]
      <4>1. y \in Row /\ Start(y.window) \in Nat /\ hwm[T] \in Nat \cup {Never}
        BY <1>1, <3>1, WindowsAreNat DEF Row, LakehouseTypeOK
      <4>2. QED
        BY <3>2, <3>3, <4>1 DEF Never
    <3>4. CASE x \in J.selected \ J.rows
      BY <1>4, <3>1, <3>4 DEF ExportOf
    <3>5. QED
      BY <2>1, <2>2, <3>3, <3>4 DEF Accounted
  <2>7. \A x, y \in day : x.window = y.window => x = y
    BY <1>4, <2>3 DEF ExportOf
  <2>8. NoneTwice(T)'
    <3> DEFINE f == files[T]
               g == Append(files[T], day)
    <3>1. /\ g \in Seq(SUBSET Row) /\ Len(g) = Len(f) + 1 /\ g[Len(f) + 1] = day
          /\ \A i \in 1..Len(f) : g[i] = f[i]
      BY <1>1, AppendProperties
    <3>2. DOMAIN f = 1..Len(f) /\ DOMAIN g = 1..Len(g) /\ Len(f) \in Nat
      BY <1>1, <3>1, LenProperties
    <3>3. ASSUME NEW i \in DOMAIN g
          PROVE  \/ i \in DOMAIN f /\ g[i] = f[i]
                 \/ i = Len(f) + 1 /\ g[i] = day
      <4>1. i \in 1..Len(f) \/ i = Len(f) + 1
        BY <3>1, <3>2
      <4>2. CASE i \in 1..Len(f)
        <5>1. g[i] = f[i]
          BY <3>1, <4>2
        <5>2. i \in DOMAIN f
          BY <3>2, <4>2
        <5>3. QED
          BY <5>1, <5>2
      <4>3. CASE i = Len(f) + 1
        BY <3>1, <4>3
      <4>4. QED
        BY <4>1, <4>2, <4>3
    <3>4. \A i \in DOMAIN f : f[i] \subseteq Exported(T)
      BY DEF Exported, Range
    <3>5. ASSUME NEW i \in DOMAIN g, NEW j \in DOMAIN g, NEW x \in g[i], NEW y \in g[j],
                 x.window = y.window
          PROVE  i = j /\ x = y
      <4>1. CASE i \in DOMAIN f /\ g[i] = f[i] /\ j \in DOMAIN f /\ g[j] = f[j]
        BY <2>1, <3>5, <4>1 DEF NoneTwice
      <4>2. CASE i \in DOMAIN f /\ g[i] = f[i] /\ j = Len(f) + 1 /\ g[j] = day
        BY <2>6, <3>4, <3>5, <4>2
      <4>3. CASE i = Len(f) + 1 /\ g[i] = day /\ j \in DOMAIN f /\ g[j] = f[j]
        BY <2>6, <3>4, <3>5, <4>3
      <4>4. CASE i = Len(f) + 1 /\ g[i] = day /\ j = Len(f) + 1 /\ g[j] = day
        BY <2>7, <3>5, <4>4
      <4>5. QED
        BY <3>3, <4>1, <4>2, <4>3, <4>4
    <3>6. files'[T] = g
      BY <1>1, <1>3
    <3> HIDE DEF g
    <3>7. QED
      BY <1>2, <3>5, <3>6 DEF NoneTwice
  <2>9. QED
    BY <1>5, <2>4, <2>5, <2>8
<1>10. QED
  BY <1>6, <1>7, <1>8, <1>9 DEF ExportInv

LEMMA ExportExportStep ==
    ASSUME TypeInv, TypeInv', AloneInv, ExportInv, NEW r \in DagRun, ExportStep(r)
    PROVE  ExportInv'
<1>1. job \in [DagRun -> Job] /\ job[r] \in Job /\ LakehouseTypeOK /\ TablesInv
      /\ ExportOf(r) /\ job[r].table \in Table /\ LakehouseTypeOK'
  BY DEF TypeInv, LakehouseTypeOK, ExportInv, Job
<1>2. ASSUME NEW s \in Steps \ {"write", "bookmark"}, ~Writing(r), job[r].task = "export",
             job' = [job EXCEPT ![r].step = s]
      PROVE  OnlyJob(r) /\ ~Writing(r)' /\ job'[r].selected = {} /\ job'[r].rows = {}
  <2>1. OnlyJob(r) /\ job'[r] = [job[r] EXCEPT !.step = s]
    BY <1>1, <1>2, ToStep
  <2>2. job'[r].step = s /\ job'[r].selected = {} /\ job'[r].rows = {}
    BY <1>1, <1>2, <2>1 DEF Job, ExportOf
  <2>3. QED
    BY <2>1, <2>2 DEF Writing
<1>3. CASE Opens(r) \/ ReadsHwm(r)
  <2>1. /\ \E s \in {"hwm", "rmtree", "select"} : job' = [job EXCEPT ![r].step = s]
        /\ ~Writing(r) /\ job[r].task = "export"
        /\ UNCHANGED <<now, vwap, stats, hwm, files, interrupted>>
    BY <1>3 DEF Opens, ReadsHwm, At, Writing, warehouseVars, lakeVars
  <2>2. OnlyJob(r) /\ ~Writing(r)' /\ job'[r].selected = {} /\ job'[r].rows = {}
    BY <1>2, <2>1 DEF Steps
  <2>3. QED
    BY <1>1, <2>1, <2>2, LeavesLake
<1>4. CASE LockedOut(r) \/ RefreshesCatalog(r)
  <2>1. TaskFails(r) \/ Ends(r)
    BY <1>4 DEF LockedOut, RefreshesCatalog
  <2>2. OnlyJob(r) /\ ~Writing(r)' /\ job'[r].selected = {} /\ job'[r].rows = {}
    BY <1>1, <2>1, TaskFailsType, EndsType, BegunIs
  <2>3. ~Writing(r) /\ UNCHANGED <<now, vwap, stats, hwm, files, interrupted>>
    BY <1>4 DEF LockedOut, RefreshesCatalog, At, Writing, warehouseVars, lakeVars
  <2>4. QED
    BY <1>1, <2>2, <2>3, LeavesLake
<1>5. CASE RemovesTree(r)
  <2> PICK T \in Table : T = job[r].table
    BY <1>1
  <2>1. /\ OnlyJob(r) /\ ~Writing(r)' /\ job'[r].selected = {} /\ job'[r].rows = {}
        /\ ~Writing(r) /\ Exporting(r)
    BY <1>2, <1>5 DEF RemovesTree, At, Writing, Exporting, Steps
  <2>2. /\ UNCHANGED <<now, vwap, stats, hwm>> /\ interrupted' = interrupted \ {T}
        /\ files' = [files EXCEPT ![T] = <<>>] /\ files \in [Table -> Seq(SUBSET Row)]
    BY <1>1, <1>5 DEF RemovesTree, warehouseVars, LakehouseTypeOK
  <2>3. \A q \in DagRun \ {r} : ExportOf(q)'
    BY <1>1, <2>1, <2>2, OnlyItsExport
  <2>4. ExportOf(r)'
    BY <2>1 DEF ExportOf
  <2>5. FilesOf(T)'
    <3>1. files'[T] = <<>>
      BY <1>1, <2>2
    <3>2. DOMAIN files'[T] = {}
      BY <3>1, EmptySeq
    <3>3. QED
      BY <3>2 DEF FilesOf, NoneTwice, Exported, Range
  <2>6. ASSUME NEW S \in Table, S # T PROVE FilesOf(S)'
    <3>1. FilesOf(S) /\ files'[S] = files[S]
      BY <2>2, <2>6 DEF ExportInv
    <3>2. hwm'[S] \in Nat \cup {Never} /\ hwm[S] <= hwm'[S]
      BY <1>1, <2>2 DEF LakehouseTypeOK, Never
    <3>3. \A q \in DagRun : Writing(q) => Writing(q)' /\ job'[q] = job[q]
      BY <2>1 DEF OnlyJob, Writing, Exporting
    <3>4. QED
      BY <1>1, <2>2, <2>6, <3>1, <3>2, <3>3, SameFiles
  <2>7. QED
    BY <2>3, <2>4, <2>5, <2>6 DEF ExportInv
<1>6. CASE Selects(r)
  <2> DEFINE new == Newer(job[r].table)
  <2> PICK T \in Table : T = job[r].table
    BY <1>1
  <2>1. /\ OnlyJob(r) /\ Exporting(r) /\ Exporting(r)' /\ job'[r].table = T
        /\ job'[r].selected = new /\ job'[r].rows = new
        /\ job'[r].step = IF new = {} THEN "bookmark" ELSE "write"
    BY <1>1, <1>6, SelectsIs
  <2>2. ~Writing(r) /\ UNCHANGED <<now, vwap, stats, hwm, files, interrupted>>
    BY <1>6 DEF Selects, At, Writing, warehouseVars, lakeVars
  <2>3. \A q \in DagRun \ {r} : ExportOf(q)'
    BY <1>1, <2>1, <2>2, OnlyItsExport
  <2>4. ExportOf(r)'
    <3>1. Newer(T)' = Newer(T)
      BY <2>2 DEF Newer, GoldRows, Gold
    <3>2. /\ \A x \in new : Start(x.window) > hwm[T] /\ Start(x.window) <= now
          /\ \A x, y \in new : x.window = y.window => x = y
      BY <1>1, GoldRowsAreRows DEF Newer
    <3>3. Writing(r)' /\ (job'[r].step = "bookmark" => new = {})
      BY <2>1 DEF Writing
    <3>4. QED
      BY <2>1, <2>2, <3>1, <3>2, <3>3 DEF ExportOf
  <2>5. ASSUME NEW S \in Table PROVE FilesOf(S)'
    <3>1. FilesOf(S) /\ hwm'[S] \in Nat \cup {Never} /\ hwm[S] <= hwm'[S]
      BY <1>1, <2>2 DEF ExportInv, LakehouseTypeOK, Never
    <3>2. \A q \in DagRun : Writing(q) => Writing(q)' /\ job'[q] = job[q]
      BY <2>1, <2>2 DEF OnlyJob, Writing, Exporting
    <3>3. QED
      BY <1>1, <2>2, <3>1, <3>2, SameFiles
  <2>6. QED
    BY <2>3, <2>4, <2>5 DEF ExportInv
<1>7. CASE WritesDay(r)
  BY <1>1, <1>7, WritesDayKeepsFiles
<1>8. CASE SetsBookmark(r) \/ ExportRaises(r)
  <2>1. Exporting(r) /\ \E failed \in SUBSET Table : NextTable(r, failed)
    BY <1>1, <1>8 DEF SetsBookmark, ExportRaises, At, Exporting, Job
  <2>2. /\ OnlyJob(r) /\ job'[r].step \in {"hwm", "catalog"}
        /\ job'[r].selected = {} /\ job'[r].rows = {}
    BY <1>1, <2>1, NextTableType
  <2>3. ~Writing(r)'
    BY <2>2 DEF Writing
  <2>4. UNCHANGED <<now, vwap, stats, files>>
    BY <1>8 DEF SetsBookmark, ExportRaises, warehouseVars
  <2>5. hwm' \in [Table -> Nat \cup {Never}]
    BY <1>1 DEF LakehouseTypeOK
  <2>6. CASE SetsBookmark(r)
    <3>1. hwm' = [hwm EXCEPT ![job[r].table] = now] /\ interrupted' = interrupted
      BY <2>6 DEF SetsBookmark
    <3>2. \A T \in Table : hwm[T] \in Nat \cup {Never} /\ hwm[T] <= now
      BY <1>1 DEF LakehouseTypeOK
    <3>3. ASSUME NEW T \in Table PROVE hwm[T] <= hwm'[T]
      <4>1. hwm \in [Table -> Nat \cup {Never}]
        BY <1>1 DEF LakehouseTypeOK
      <4>2. CASE T = job[r].table
        BY <3>1, <3>2, <4>1, <4>2
      <4>3. CASE T # job[r].table
        <5>1. hwm'[T] = hwm[T] /\ hwm[T] \in Nat \cup {Never}
          BY <3>1, <4>1, <4>3
        <5>2. QED
          BY <5>1 DEF Never
      <4>4. QED
        BY <4>2, <4>3
    <3>4. \A x \in job[r].selected : Start(x.window) <= hwm'[job[r].table]
      BY <1>1, <3>1 DEF ExportOf, LakehouseTypeOK
    <3>5. QED
      BY <1>1, <2>1, <2>2, <2>3, <2>4, <2>5, <3>1, <3>3, <3>4, NothingLeftOver
  <2>7. CASE ExportRaises(r)
    <3>1. UNCHANGED hwm /\ LeavesFiles(r) /\ Active(r)
      BY <2>1, <2>7 DEF ExportRaises, Exporting, Active
    <3>2. QED
      BY <1>1, <2>1, <2>2, <2>3, <2>4, <3>1, LeavesFilesIs, LeavesLake
  <2>8. QED
    BY <1>8, <2>6, <2>7
<1>9. QED
  BY <1>3, <1>4, <1>5, <1>6, <1>7, <1>8 DEF ExportStep

LEMMA ExportInvInit == LakehouseInit => ExportInv
<1> SUFFICES ASSUME LakehouseInit
             PROVE  ExportInv
  OBVIOUS
<1>1. \A r \in DagRun : ~Writing(r) /\ job[r].selected = {} /\ job[r].rows = {}
  BY DEF LakehouseInit, Begin, Writing, Exporting
<1>2. \A T \in Table : DOMAIN files[T] = {}
  BY EmptySeq DEF LakehouseInit
<1>3. QED
  BY <1>1, <1>2 DEF ExportInv, ExportOf, FilesOf, NoneTwice, Exported, Range

LEMMA ExportInvHolds == LakehouseSpec => [](LakehouseInv /\ ExportInv)
<1>1. LakehouseInit => LakehouseInv /\ ExportInv
  BY LakehouseInvInit, ExportInvInit
<1>2. LakehouseInv /\ ExportInv /\ [LakehouseNext]_lakehouseVars => LakehouseInv' /\ ExportInv'
  <2> SUFFICES ASSUME LakehouseInv, ExportInv, [LakehouseNext]_lakehouseVars
               PROVE  ExportInv'
    BY LakehouseInvNext
  <2>1. TypeInv' /\ TypeInv /\ AloneInv
    BY TypeInvNext DEF LakehouseInv
  <2>2. CASE UNCHANGED lakehouseVars
    BY <2>2 DEF ExportInv, ExportOf, FilesOf, NoneTwice, Accounted, Exported, Writing,
                Exporting, Newer, GoldRows, Gold, lakehouseVars, lakeVars, warehouseVars
  <2>3. QED
    BY <2>1, <2>2, ExportOutside, ExportDagStep, ExportExportStep DEF LakehouseNext
<1>3. QED
  BY <1>1, <1>2, PTL DEF LakehouseSpec

\* Outside of tables whose incremental export was interrupted, no minute is in
\* the files twice, however the runs of the DAG overlap and fail.
THEOREM NoMinuteTwice == LakehouseSpec => []NoDuplicates
<1>1. ExportInv => NoDuplicates
  BY DEF ExportInv, FilesOf, NoneTwice, NoDuplicates
<1>2. QED
  BY <1>1, ExportInvHolds, PTL

\* The mark moves only in the last step of an export, when the files hold what
\* the export selected, and every row newer than the old mark if no other run of
\* the DAG was beside this one.
THEOREM MarkFollows == LakehouseSpec => MarkFollowsWrite
<1>1. ASSUME LakehouseInv, ExportInv, LakehouseNext, NEW T \in Table, hwm'[T] # hwm[T]
      PROVE  \E r \in DagRun :
               /\ At(r, "bookmark") /\ job[r].table = T
               /\ job[r].selected \subseteq Exported(T)
               /\ job[r].alone => Newer(T) \subseteq Exported(T)
  <2>1. hwm \in [Table -> Nat \cup {Never}]
    BY <1>1 DEF LakehouseInv, TypeInv, LakehouseTypeOK
  <2>2. PICK r \in DagRun : SetsBookmark(r)
    BY <1>1 DEF LakehouseNext, Outside, DagStep, ExportStep, StartRun, TaskDies, BuildsStg,
         ComputesVwap, BuildsVwap, BuildsStats, Builds, DbtRunSucceeds, DbtTestSucceeds, Opens, LockedOut,
         ReadsHwm, RemovesTree, Selects, WritesDay, ExportRaises, RefreshesCatalog, lakeVars
  <2>3. At(r, "bookmark") /\ hwm' = [hwm EXCEPT ![job[r].table] = now]
    BY <2>2 DEF SetsBookmark
  <2>4. job[r].table = T
    BY <1>1, <2>1, <2>3
  <2>5. Writing(r) /\ job[r].step = "bookmark" /\ ExportOf(r)
    BY <1>1, <2>3 DEF At, Writing, Exporting, ExportInv
  <2>6. QED
    BY <2>3, <2>4, <2>5 DEF ExportOf
<1>2. LakehouseInv /\ ExportInv /\ [LakehouseNext]_lakehouseVars
        => [\A T \in Table : hwm'[T] # hwm[T] =>
              \E r \in DagRun :
                /\ At(r, "bookmark") /\ job[r].table = T
                /\ job[r].selected \subseteq Exported(T)
                /\ job[r].alone => Newer(T) \subseteq Exported(T)]_lakehouseVars
  BY <1>1
<1>3. QED
  BY <1>2, ExportInvHolds, PTL DEF LakehouseSpec, MarkFollowsWrite

----------------------------------------------------------------------------
\* What the gold tables have aggregated.

\* A run puts rows in place which another has overtaken.
Crosses == \E r \in overtaken : BuildsVwap(r)

GoldKept ==
    \A w \in Window :
        /\ stats[w] \subseteq stats'[w]
        /\ \A t \in vwap[w] \ vwap'[w] : t = Start(w) \/ Crosses

\* A row is computed again only if a trade of its minute is after the newest
\* window_start; then it is the newest row, and of its trades the filter leaves
\* out at most the one that is exact on window_start.
LEMMA VwapRunLosesOnlyExact ==
    ASSUME TablesInv, NEW n \in 0..ingested, NEW base, ComputedFrom(base, n), VwapRun(base),
           NEW w \in Window, NEW t \in vwap[w] \ vwap'[w]
    PROVE  t = Start(w)
<1>1. t \in silver /\ WindowOf(t) = w /\ t \in Trade /\ t \in Nat /\ w \in Rows(vwap)
  BY DEF TablesInv, Trades, WarehouseTypeOK, Rows
<1>2. PICK u \in base : WindowOf(u) = w
  BY VwapRowIs
<1>3. ~(t > Watermark)
  <2>1. t \notin base
    BY <1>1, <1>2, VwapRowIs
  <2>2. \E i \in 1..n : rawTrades[i] = t
    BY DEF ComputedFrom, VwapFrom
  <2>3. QED
    BY <1>1, <2>1, <2>2 DEF ComputedFrom, Base
<1>4. PICK m \in Rows(vwap) : Watermark = Start(m) /\ w <= m
  BY <1>1, WatermarkIsNewest
<1>5. m \in Window /\ m \in Nat /\ Start(m) \in Nat /\ w \in Nat
  BY WindowsAreNat DEF Rows
<1>6. ~(w < m)
  <2>1. u \in Trade /\ u \in Nat /\ u > Start(m)
    BY <1>4 DEF ComputedFrom, Base, TablesInv, WarehouseTypeOK
  <2>2. QED
    BY <1>2, <1>5, <2>1, EarlierWindow
<1>7. w = m
  BY <1>4, <1>5, <1>6
<1>8. Start(w) <= t
  BY <1>1, WindowProperties
<1>9. QED
  BY <1>1, <1>3, <1>4, <1>5, <1>7, <1>8

LEMMA GoldKeptNext ==
    ASSUME TypeInv, VwapInv, [LakehouseNext]_lakehouseVars
    PROVE  GoldKept
<1>1. TablesInv
  BY DEF TypeInv
<1>2. CASE UNCHANGED <<vwap, stats>>
  BY <1>2 DEF GoldKept
<1>3. ASSUME NEW r \in DagRun, BuildsVwap(r)
      PROVE  GoldKept
  <2>1. /\ VwapRun(job[r].base) /\ Computed(r) /\ stats' = stats
    BY <1>3 DEF BuildsVwap, Builds, Computed, VwapRun
  <2>2. CASE r \in overtaken
    BY <1>3, <2>1, <2>2 DEF GoldKept, Crosses
  <2>3. CASE r \notin overtaken
    <3>1. PICK n \in 0..ingested : ComputedFrom(job[r].base, n)
      BY <2>1, <2>3 DEF VwapInv, ComputedOf
    <3>2. \A w \in Window : \A t \in vwap[w] \ vwap'[w] : t = Start(w)
      BY <1>1, <2>1, <3>1, VwapRunLosesOnlyExact
    <3>3. QED
      BY <2>1, <3>2 DEF GoldKept
  <2>4. QED
    BY <2>2, <2>3
<1>4. CASE StatsRun
  <2>1. \A w \in Window : stats'[w] = Trades(w)
    BY <1>4 DEF StatsRun, ByWindow, Trades
  <2>2. \A w \in Window : stats[w] \subseteq Trades(w)
    BY <1>1 DEF TablesInv
  <2>3. QED
    BY <1>4, <2>1, <2>2 DEF GoldKept, StatsRun
<1>5. ASSUME NEW r \in DagRun, DagStep(r)
      PROVE  UNCHANGED <<vwap, stats>> \/ BuildsVwap(r) \/ StatsRun
  BY <1>5 DEF DagStep, StartRun, TaskDies, BuildsStg, ComputesVwap, BuildsStats,
              DbtRunSucceeds, DbtTestSucceeds, StgRun, warehouseVars
<1>6. ASSUME NEW r \in DagRun, ExportStep(r)
      PROVE  UNCHANGED <<vwap, stats>>
  <2>1. UNCHANGED warehouseVars
    BY <1>1, <1>6, ExportStepIs DEF TypeInv
  <2>2. QED
    BY <2>1 DEF warehouseVars
<1>7. QED
  BY <1>2, <1>3, <1>4, <1>5, <1>6
     DEF LakehouseNext, Outside, Tick, Arrive, lakehouseVars, warehouseVars

\* No dbt run takes back a trade that a gold table aggregates, but the one that
\* is exact on its minute, however the runs of the DAG overlap and fail; only a
\* run that is in gold_vwap_1min while another puts its rows in place there, and
\* that computed its own before, can.
THEOREM GoldGrows == LakehouseSpec => GoldOnlyGrows
<1>1. LakehouseInv /\ [LakehouseNext]_lakehouseVars
        => [\A w \in Window :
              /\ stats[w] \subseteq stats'[w]
              /\ \A t \in vwap[w] \ vwap'[w] :
                   t = Start(w) \/ \E r \in overtaken : BuildsVwap(r)]_lakehouseVars
  BY GoldKeptNext DEF GoldKept, Crosses, LakehouseInv
<1>2. QED
  BY <1>1, LakehouseInvHolds, PTL DEF LakehouseSpec, GoldOnlyGrows

----------------------------------------------------------------------------
\* Old rows: those in the files, and those an export has still to write.

\* The trade that the row of a window may have and its table may not.
Spare(T, w) == IF T = "gold_vwap_1min" THEN {Start(w)} ELSE {}

Behind(T, x) ==
    \/ T = "gold_vwap_1min" /\ crossed
    \/ x.trades \subseteq Gold[T][x.window] \cup Spare(T, x.window)

BehindInv ==
    /\ \A T \in Table : \A x \in Exported(T) : Behind(T, x)
    /\ \A r \in DagRun : \A x \in job[r].rows : Behind(job[r].table, x)

\* What has crossed stays so, and who crosses is marked.
LEMMA CrossedStays ==
    ASSUME LakehouseTypeOK, TablesInv, [LakehouseNext]_lakehouseVars, crossed \/ Crosses
    PROVE  crossed'
<1>1. CASE UNCHANGED vwapVars
  <2>1. ASSUME NEW r \in overtaken, BuildsVwap(r) PROVE crossed'
    BY <2>1 DEF BuildsVwap
  <2>2. QED
    BY <1>1, <2>1 DEF Crosses, vwapVars
<1>2. ASSUME NEW r \in DagRun, BuildsVwap(r) PROVE crossed'
  <2>1. crossed' = (crossed \/ r \in overtaken)
    BY <1>2 DEF BuildsVwap
  <2>2. ASSUME NEW q \in overtaken, BuildsVwap(q) PROVE crossed'
    BY <2>2 DEF BuildsVwap
  <2>3. QED
    BY <2>1, <2>2 DEF Crosses
<1>3. ASSUME NEW r \in DagRun, ComputesVwap(r) PROVE crossed'
  <2>1. crossed' = crossed
    BY <1>3 DEF ComputesVwap
  <2>2. ASSUME NEW q \in overtaken, BuildsVwap(q) PROVE crossed'
    BY <2>2 DEF BuildsVwap
  <2>3. QED
    BY <2>1, <2>2 DEF Crosses
<1>4. QED
  BY <1>1, <1>2, <1>3, ComputedBefore DEF LakehouseNext, Outside, lakehouseVars

LEMMA StaysBehind ==
    ASSUME GoldKept, crossed \/ Crosses => crossed', NEW T \in Table, NEW x \in Row, Behind(T, x)
    PROVE  Behind(T, x)'
<1>1. x.window \in Window
  BY DEF Row
<1>2. CASE T = "gold_vwap_1min"
  <2>1. Gold[T] = vwap /\ Gold'[T] = vwap'
    BY <1>2 DEF Gold
  <2>2. Spare(T, x.window) = {Start(x.window)}
    BY <1>2 DEF Spare
  <2>3. CASE crossed'
    BY <1>2, <2>3 DEF Behind
  <2>4. CASE ~crossed'
    <3>1. x.trades \subseteq vwap[x.window] \cup {Start(x.window)}
      BY <2>1, <2>2, <2>4 DEF Behind
    <3>2. x.trades \subseteq vwap'[x.window] \cup {Start(x.window)}
      BY <1>1, <2>4, <3>1 DEF GoldKept
    <3>3. QED
      BY <2>1, <2>2, <3>2 DEF Behind
  <2>5. QED
    BY <2>3, <2>4
<1>3. CASE T = "gold_trade_stats_1min"
  <2>1. Gold[T] = stats /\ Gold'[T] = stats'
    BY <1>3 DEF Gold
  <2>2. x.trades \subseteq stats[x.window] /\ Spare(T, x.window) = {}
    BY <1>3, <2>1 DEF Behind, Spare
  <2>3. x.trades \subseteq stats'[x.window]
    BY <1>1, <2>2 DEF GoldKept
  <2>4. QED
    BY <2>1, <2>2, <2>3 DEF Behind
<1>4. QED
  BY <1>2, <1>3 DEF Table

\* What run q has still to write, it had to write before.
StillToWrite(q) ==
    \/ job'[q].rows = {}
    \/ job'[q].table = job[q].table /\ job'[q].rows \subseteq job[q].rows

LEMMA BegunToWrite ==
    ASSUME LakehouseTypeOK, NEW r \in DagRun, OnlyJob(r),
           \/ \E name, n, alone : job'[r] = Begin(name, n, alone)
           \/ job'[r].rows = {}
    PROVE  \A q \in DagRun : StillToWrite(q)
<1>1. ASSUME NEW name, NEW n, NEW alone, job'[r] = Begin(name, n, alone)
      PROVE  job'[r].rows = {}
  BY <1>1 DEF Begin
<1>2. job'[r].rows = {}
  BY <1>1, Zenon
<1>3. QED
  BY <1>2 DEF StillToWrite, OnlyJob

LEMMA DagStepWrites ==
    ASSUME LakehouseTypeOK, TablesInv, NEW r \in DagRun, DagStep(r)
    PROVE  UNCHANGED files /\ \A q \in DagRun : StillToWrite(q)
<1>1. job \in [DagRun -> Job] /\ job[r] \in Job
  BY DEF LakehouseTypeOK
<1>2. CASE StartRun(r)
  <2>1. job'[r] = Begin("dbt_run", 1, \A p \in DagRun : ~Active(p))
    BY <1>1, <1>2 DEF StartRun
  <2>2. job'[r].rows = {}
    BY <2>1 DEF Begin
  <2>3. ASSUME NEW q \in DagRun \ {r}
        PROVE  job'[q].table = job[q].table /\ job'[q].rows = job[q].rows
    <3>1. job'[q] = [job[q] EXCEPT !.alone = @ /\ ~Active(q)] /\ job[q] \in Job
      BY <1>1, <1>2 DEF StartRun
    <3>2. QED
      BY <3>1 DEF Job
  <2>4. QED
    BY <1>2, <2>2, <2>3 DEF StillToWrite, StartRun, lakeVars
<1>3. CASE TaskDies(r)
  BY <1>3, TaskFailsType, BegunToWrite DEF TaskDies
<1>4. CASE BuildsModel(r)
  <2>1. PICK model \in Model, base \in SUBSET Trade : \E needs : Builds(r, model, needs, base)
    BY <1>4, BuildsSome
  <2>2. /\ OnlyJob(r) /\ job'[r].rows = job[r].rows /\ job'[r].table = job[r].table
        /\ UNCHANGED files
    BY <2>1, BuildsIs DEF lakeVars
  <2>3. QED
    BY <2>2 DEF StillToWrite, OnlyJob
<1>5. CASE DbtRunSucceeds(r) \/ DbtTestSucceeds(r)
  <2>1. \E name \in {"dbt_test", "export"} : Starts(r, name, 1)
    BY <1>5 DEF DbtRunSucceeds, DbtTestSucceeds
  <2>2. QED
    BY <1>5, <2>1, StartsType, BegunToWrite DEF DbtRunSucceeds, DbtTestSucceeds, lakeVars
<1>6. QED
  BY <1>2, <1>3, <1>4, <1>5 DEF DagStep, BuildsModel

LEMMA ExportStepWrites ==
    ASSUME LakehouseTypeOK, TablesInv, NEW r \in DagRun, ExportStep(r), ~Selects(r)
    PROVE  /\ \A q \in DagRun : StillToWrite(q)
           /\ \A T \in Table : \A x \in Exported(T)' :
                x \in Exported(T) \/ (T = job[r].table /\ x \in job[r].rows)
<1>1. /\ job \in [DagRun -> Job] /\ job[r] \in Job /\ job[r].table \in Table
      /\ files \in [Table -> Seq(SUBSET Row)]
  BY DEF LakehouseTypeOK, Job
<1>2. UNCHANGED files => \A T \in Table : Exported(T)' = Exported(T)
  BY DEF Exported
<1>3. CASE Opens(r) \/ ReadsHwm(r) \/ RemovesTree(r)
  <2>1. PICK s \in Steps : job' = [job EXCEPT ![r].step = s]
    BY <1>3 DEF Opens, ReadsHwm, RemovesTree, Steps
  <2>2. job[r].task = "export"
    BY <1>3 DEF Opens, ReadsHwm, RemovesTree, At
  <2>3. OnlyJob(r) /\ job'[r] = [job[r] EXCEPT !.step = s]
    BY <2>1, <2>2, ToStep
  <2>4. job'[r].rows = job[r].rows /\ job'[r].table = job[r].table
    BY <1>1, <2>3 DEF Job
  <2>5. \A q \in DagRun : StillToWrite(q)
    BY <2>3, <2>4 DEF OnlyJob, StillToWrite
  <2>6. CASE RemovesTree(r)
    <3>1. files' = [files EXCEPT ![job[r].table] = <<>>]
      BY <2>6 DEF RemovesTree
    <3>2. ASSUME NEW T \in Table PROVE Exported(T)' \subseteq Exported(T)
      <4>1. CASE T = job[r].table
        <5>1. DOMAIN files'[T] = {}
          BY <1>1, <3>1, <4>1, EmptySeq
        <5>2. QED
          BY <5>1 DEF Exported, Range
      <4>2. CASE T # job[r].table
        BY <1>1, <3>1, <4>2 DEF Exported
      <4>3. QED
        BY <4>1, <4>2
    <3>3. QED
      BY <2>5, <3>2
  <2>7. CASE Opens(r) \/ ReadsHwm(r)
    BY <1>2, <2>5, <2>7 DEF Opens, ReadsHwm, lakeVars
  <2>8. QED
    BY <1>3, <2>6, <2>7
<1>4. CASE LockedOut(r) \/ RefreshesCatalog(r)
  <2>1. TaskFails(r) \/ Ends(r)
    BY <1>4 DEF LockedOut, RefreshesCatalog
  <2>2. \A q \in DagRun : StillToWrite(q)
    BY <2>1, TaskFailsType, EndsType, BegunToWrite
  <2>3. QED
    BY <1>2, <1>4, <2>2 DEF LockedOut, RefreshesCatalog, lakeVars
<1>5. CASE WritesDay(r)
  <2> DEFINE day == FirstDay(job[r].rows)
  <2>1. /\ OnlyJob(r) /\ job'[r].table = job[r].table /\ job'[r].rows = job[r].rows \ day
    BY <1>5, WritesDayIs
  <2>2. \A q \in DagRun : StillToWrite(q)
    BY <2>1 DEF OnlyJob, StillToWrite
  <2>3. files' = [files EXCEPT ![job[r].table] = Append(@, day)]
    BY <1>5 DEF WritesDay
  <2>4. day \subseteq job[r].rows /\ day \in SUBSET Row
    BY <1>1 DEF FirstDay, Job
  <2>5. ASSUME NEW T \in Table, NEW x \in Exported(T)'
        PROVE  x \in Exported(T) \/ (T = job[r].table /\ x \in job[r].rows)
    <3>1. CASE T = job[r].table
      <4>1. files'[T] = Append(files[T], day) /\ files[T] \in Seq(SUBSET Row)
        BY <1>1, <2>3, <3>1
      <4>2. Exported(T)' = Exported(T) \cup day
        BY <2>4, <4>1, ExportedWith DEF Exported
      <4>3. QED
        BY <2>4, <2>5, <3>1, <4>2
    <3>2. CASE T # job[r].table
      <4>1. files'[T] = files[T]
        BY <1>1, <2>3, <3>2
      <4>2. QED
        BY <2>5, <4>1 DEF Exported
    <3>3. QED
      BY <3>1, <3>2
  <2>6. QED
    BY <2>2, <2>5
<1>6. CASE SetsBookmark(r) \/ ExportRaises(r)
  <2>1. Exporting(r) /\ \E failed \in SUBSET Table : NextTable(r, failed)
    BY <1>1, <1>6 DEF SetsBookmark, ExportRaises, At, Exporting, Job
  <2>2. OnlyJob(r) /\ job'[r].rows = {}
    BY <2>1, NextTableType
  <2>3. \A q \in DagRun : StillToWrite(q)
    BY <2>2, BegunToWrite
  <2>4. QED
    BY <1>2, <1>6, <2>3 DEF SetsBookmark, ExportRaises
<1>7. QED
  BY <1>3, <1>4, <1>5, <1>6 DEF ExportStep

LEMMA BehindKept ==
    ASSUME LakehouseTypeOK, BehindInv, GoldKept, crossed \/ Crosses => crossed',
           \A q \in DagRun : StillToWrite(q),
           \A T \in Table : \A x \in Exported(T)' :
              \/ x \in Exported(T)
              \/ \E q \in DagRun : T = job[q].table /\ x \in job[q].rows
    PROVE  BehindInv'
<1>1. \A q \in DagRun : job[q].table \in Table /\ job[q].rows \subseteq Row
  BY DEF LakehouseTypeOK, Job
<1>2. ASSUME NEW T \in Table, NEW x \in Exported(T)' PROVE Behind(T, x)'
  <2>1. CASE x \in Exported(T)
    BY <2>1, ExportedAreRows, StaysBehind DEF BehindInv
  <2>2. CASE \E q \in DagRun : T = job[q].table /\ x \in job[q].rows
    BY <1>1, <2>2, StaysBehind DEF BehindInv
  <2>3. QED
    BY <1>2, <2>1, <2>2
<1>3. ASSUME NEW q \in DagRun, NEW x \in job'[q].rows PROVE Behind(job[q].table, x)'
  <2>1. job'[q].table = job[q].table /\ x \in job[q].rows
    BY <1>3 DEF StillToWrite
  <2>2. PICK T \in Table : T = job[q].table
    BY <1>1
  <2>3. Behind(T, x)'
    BY <1>1, <2>1, <2>2, StaysBehind DEF BehindInv
  <2>4. QED
    BY <2>1, <2>2, <2>3
<1>4. QED
  BY <1>2, <1>3 DEF BehindInv

LEMMA BehindNext ==
    ASSUME TypeInv, VwapInv, BehindInv, [LakehouseNext]_lakehouseVars
    PROVE  BehindInv'
<1>1. LakehouseTypeOK /\ TablesInv /\ GoldKept /\ (crossed \/ Crosses => crossed')
  BY GoldKeptNext, CrossedStays DEF TypeInv
<1>2. CASE UNCHANGED <<job, files>>
  <2>1. \A q \in DagRun : StillToWrite(q)
    BY <1>2 DEF StillToWrite
  <2>2. \A T \in Table : Exported(T)' = Exported(T)
    BY <1>2 DEF Exported
  <2>3. QED
    BY <1>1, <2>1, <2>2, BehindKept
<1>3. ASSUME NEW r \in DagRun, DagStep(r) PROVE BehindInv'
  <2>1. UNCHANGED files /\ \A q \in DagRun : StillToWrite(q)
    BY <1>1, <1>3, DagStepWrites
  <2>2. \A T \in Table : Exported(T)' = Exported(T)
    BY <2>1 DEF Exported
  <2>3. QED
    BY <1>1, <2>1, <2>2, BehindKept
<1>4. ASSUME NEW r \in DagRun, ExportStep(r), ~Selects(r) PROVE BehindInv'
  BY <1>1, <1>4, ExportStepWrites, BehindKept
<1>5. ASSUME NEW r \in DagRun, Selects(r) PROVE BehindInv'
  <2> PICK T \in Table : T = job[r].table
    BY <1>1 DEF LakehouseTypeOK, Job
  <2>1. /\ job'[r].table = T /\ job'[r].rows = Newer(T)
        /\ \A q \in DagRun \ {r} : job'[q] = job[q]
    BY <1>1, <1>5, SelectsIs DEF OnlyJob
  <2>2. UNCHANGED <<files, vwap, stats, crossed>>
    BY <1>5 DEF Selects, warehouseVars, lakeVars, vwapVars
  <2>3. \A S \in Table : \A x : Behind(S, x)' <=> Behind(S, x)
    BY <2>2 DEF Behind, Gold
  \* A row that is read just now is the row of the table.
  <2>4. \A x \in Newer(T) : Behind(T, x)
    BY DEF Newer, GoldRows, Behind
  <2>5. \A S \in Table : Exported(S)' = Exported(S)
    BY <2>2 DEF Exported
  <2>6. \A q \in DagRun : job[q].table \in Table
    BY <1>1 DEF LakehouseTypeOK, Job
  <2>7. ASSUME NEW q \in DagRun, NEW x \in job'[q].rows PROVE Behind(job[q].table, x)'
    <3>1. CASE q = r
      BY <2>1, <2>3, <2>4, <2>7, <3>1
    <3>2. CASE q # r
      BY <2>1, <2>3, <2>6, <2>7, <3>2 DEF BehindInv
    <3>3. QED
      BY <3>1, <3>2
  <2>8. QED
    BY <2>3, <2>5, <2>7 DEF BehindInv
<1>6. QED
  BY <1>2, <1>3, <1>4, <1>5 DEF LakehouseNext, Outside, lakehouseVars, lakeVars

\* A Parquet file never has a trade that its gold table does not, except one
\* that is exact on its minute, whatever was built and exported in between, as
\* long as no run put rows of gold_vwap_1min in place which another had
\* overtaken.
THEOREM FilesAreBehindGold == LakehouseSpec => []FilesFollowGold
<1>1. LakehouseInit => BehindInv
  <2> SUFFICES ASSUME LakehouseInit
               PROVE  BehindInv
    OBVIOUS
  <2>1. \A r \in DagRun : job[r].rows = {}
    BY DEF LakehouseInit, Begin
  <2>2. \A T \in Table : DOMAIN files[T] = {}
    BY EmptySeq DEF LakehouseInit
  <2>3. QED
    BY <2>1, <2>2 DEF BehindInv, Exported, Range
<1>2. LakehouseInv /\ BehindInv /\ [LakehouseNext]_lakehouseVars => BehindInv'
  BY BehindNext DEF LakehouseInv
<1>3. BehindInv => FilesFollowGold
  <2> SUFFICES ASSUME BehindInv
               PROVE  FilesFollowGold
    OBVIOUS
  <2>1. /\ Gold["gold_vwap_1min"] = vwap /\ Gold["gold_trade_stats_1min"] = stats
        /\ "gold_vwap_1min" \in Table /\ "gold_trade_stats_1min" \in Table
    BY DEF Gold, Table
  <2>2. QED
    BY <2>1 DEF BehindInv, Behind, Spare, FilesFollowGold
<1>4. QED
  BY <1>1, <1>2, <1>3, LakehouseInvHolds, PTL DEF LakehouseSpec

----------------------------------------------------------------------------
\* What the marks vouch for.

\* Only a table that has no mark is removed; and as the run that is about to
\* remove it holds the DuckDB file, nobody sets its mark in the meantime.
TreeInv == \A r \in DagRun : At(r, "rmtree") => hwm[job[r].table] = Never

LEMMA TreeKept ==
    ASSUME LakehouseTypeOK, TreeInv, NEW r \in DagRun, OnlyJob(r),
           Exporting(r) \/ UNCHANGED hwm,
           At(r, "rmtree")' => hwm'[job'[r].table] = Never
    PROVE  TreeInv'
<1>1. ASSUME NEW q \in DagRun \ {r}, At(q, "rmtree")'
      PROVE  hwm'[job'[q].table] = Never
  <2>1. job'[q] = job[q] /\ At(q, "rmtree")
    BY <1>1 DEF OnlyJob, At
  <2>2. ~Exporting(r)
    BY <2>1 DEF At, Exporting, LakehouseTypeOK
  <2>3. QED
    BY <2>1, <2>2 DEF TreeInv
<1>2. QED
  BY <1>1 DEF TreeInv

LEMMA TreeDagStep ==
    ASSUME LakehouseTypeOK, TablesInv, TreeInv, NEW r \in DagRun, DagStep(r)
    PROVE  TreeInv'
<1>1. job \in [DagRun -> Job] /\ job[r] \in Job
  BY DEF LakehouseTypeOK
<1>2. ASSUME NEW name, NEW n, NEW alone, job'[r] = Begin(name, n, alone)
      PROVE  ~At(r, "rmtree")'
  BY <1>2 DEF Begin, At
<1>3. CASE StartRun(r)
  <2>1. job'[r] = Begin("dbt_run", 1, \A p \in DagRun : ~Active(p))
    BY <1>1, <1>3 DEF StartRun
  <2>2. ~At(r, "rmtree")'
    BY <1>2, <2>1, Zenon
  <2>3. ASSUME NEW q \in DagRun \ {r}
        PROVE  /\ job'[q].task = job[q].task /\ job'[q].step = job[q].step
               /\ job'[q].table = job[q].table
    <3>1. job'[q] = [job[q] EXCEPT !.alone = @ /\ ~Active(q)] /\ job[q] \in Job
      BY <1>1, <1>3 DEF StartRun
    <3>2. QED
      BY <3>1 DEF Job
  <2>4. UNCHANGED hwm
    BY <1>3 DEF StartRun, lakeVars
  <2>5. QED
    BY <2>2, <2>3, <2>4 DEF TreeInv, At
<1>4. CASE TaskDies(r)
  <2>1. OnlyJob(r) /\ UNCHANGED hwm
    BY <1>4, TaskFailsType DEF TaskDies
  <2>2. \E name, n, alone : job'[r] = Begin(name, n, alone)
    BY <1>4, TaskFailsType, Zenon DEF TaskDies
  <2>3. ~At(r, "rmtree")'
    BY <1>2, <2>2, Zenon
  <2>4. QED
    BY <2>1, <2>3, TreeKept
<1>5. CASE BuildsModel(r)
  <2>1. PICK model \in Model, base \in SUBSET Trade : \E needs : Builds(r, model, needs, base)
    BY <1>5, BuildsSome
  <2>2. OnlyJob(r) /\ job'[r].task = "dbt_run" /\ UNCHANGED hwm
    BY <2>1, BuildsIs DEF lakeVars
  <2>3. ~At(r, "rmtree")'
    BY <2>2 DEF At
  <2>4. QED
    BY <2>2, <2>3, TreeKept
<1>6. CASE DbtRunSucceeds(r) \/ DbtTestSucceeds(r)
  <2>1. PICK name \in {"dbt_test", "export"} : Starts(r, name, 1)
    BY <1>6 DEF DbtRunSucceeds, DbtTestSucceeds
  <2>2. OnlyJob(r) /\ job'[r] = Begin(name, 1, job[r].alone) /\ UNCHANGED hwm
    BY <1>6, <2>1, StartsType DEF DbtRunSucceeds, DbtTestSucceeds, lakeVars
  <2>3. ~At(r, "rmtree")'
    BY <1>2, <2>2, Zenon
  <2>4. QED
    BY <2>2, <2>3, TreeKept
<1>7. QED
  BY <1>3, <1>4, <1>5, <1>6 DEF DagStep, BuildsModel

LEMMA TreeExportStep ==
    ASSUME LakehouseTypeOK, TablesInv, TreeInv, NEW r \in DagRun, ExportStep(r)
    PROVE  TreeInv'
<1>1. job \in [DagRun -> Job] /\ job[r] \in Job
  BY DEF LakehouseTypeOK
<1>2. CASE Opens(r) \/ ReadsHwm(r) \/ RemovesTree(r)
  <2>1. PICK s \in {"hwm", "select", "rmtree"} :
          /\ job' = [job EXCEPT ![r].step = s]
          /\ s = "rmtree" => hwm[job[r].table] = Never
    BY <1>2 DEF Opens, ReadsHwm, RemovesTree
  <2>2. job[r].task = "export" /\ UNCHANGED hwm
    BY <1>2 DEF Opens, ReadsHwm, RemovesTree, At, lakeVars
  <2>3. OnlyJob(r) /\ job'[r] = [job[r] EXCEPT !.step = s]
    BY <2>1, <2>2, ToStep DEF Steps
  <2>4. job'[r].step = s /\ job'[r].table = job[r].table
    BY <1>1, <2>3 DEF Job
  <2>5. QED
    BY <2>1, <2>2, <2>3, <2>4, TreeKept DEF At
<1>3. CASE LockedOut(r) \/ RefreshesCatalog(r)
  <2>1. (TaskFails(r) \/ Ends(r)) /\ UNCHANGED hwm
    BY <1>3 DEF LockedOut, RefreshesCatalog, lakeVars
  <2>2. OnlyJob(r) /\ ~Exporting(r)'
    BY <2>1, TaskFailsType, EndsType
  <2>3. ~At(r, "rmtree")'
    BY <2>2 DEF At, Exporting
  <2>4. QED
    BY <2>1, <2>2, <2>3, TreeKept
<1>4. CASE Selects(r) \/ WritesDay(r)
  <2>1. OnlyJob(r) /\ job'[r].step \in {"bookmark", "write"} /\ UNCHANGED hwm
    BY <1>4, SelectsIs, WritesDayIs DEF Selects, WritesDay, lakeVars
  <2>2. QED
    BY <2>1, TreeKept DEF At
<1>5. CASE SetsBookmark(r) \/ ExportRaises(r)
  <2>1. Exporting(r) /\ \E failed \in SUBSET Table : NextTable(r, failed)
    BY <1>1, <1>5 DEF SetsBookmark, ExportRaises, At, Exporting, Job
  <2>2. OnlyJob(r) /\ job'[r].step \in {"hwm", "catalog"}
    BY <2>1, NextTableType
  <2>3. QED
    BY <2>1, <2>2, TreeKept DEF At
<1>6. QED
  BY <1>2, <1>3, <1>4, <1>5 DEF ExportStep

LEMMA TreeNext ==
    ASSUME TypeInv, TreeInv, [LakehouseNext]_lakehouseVars
    PROVE  TreeInv'
<1>1. UNCHANGED <<job, hwm>> => TreeInv'
  BY DEF TreeInv, At
<1>2. QED
  BY <1>1, TreeDagStep, TreeExportStep
     DEF TypeInv, LakehouseNext, Outside, lakehouseVars, lakeVars

LEMMA StartTellsWindow ==
    ASSUME NEW v \in Window, NEW w \in Window, Start(v) = Start(w)
    PROVE  v = w
<1>1. v \in Nat /\ w \in Nat /\ Minute \in Nat \ {0}
  BY WindowsAreNat
<1>2. ASSUME NEW a \in Nat, NEW b \in Nat, a < b PROVE a * Minute # b * Minute
  <2>1. (a + 1) * Minute <= b * Minute
    BY <1>1, <1>2
  <2>2. (a + 1) * Minute = a * Minute + Minute
    BY <1>1
  <2>3. a * Minute \in Nat /\ b * Minute \in Nat
    BY <1>1
  <2>4. QED
    BY <1>1, <2>1, <2>2, <2>3
<1>3. ~(v < w) /\ ~(w < v)
  BY <1>1, <1>2 DEF Start
<1>4. QED
  BY <1>1, <1>3

\* No row is before the mark of a table that has none.
LEMMA NothingVouched ==
    ASSUME LakehouseTypeOK, NEW T \in Table, hwm[T] = Never
    PROVE  Vouched(T) = {}
<1>1. \A x \in Exported(T) : ~(Start(x.window) <= hwm[T])
  <2>1. TAKE x \in Exported(T)
  <2>2. Start(x.window) \in Nat
    BY ExportedAreRows
  <2>3. QED
    BY <2>2 DEF Never
<1>2. QED
  BY <1>1 DEF Vouched

LEMMA LogStays ==
    ASSUME UNCHANGED <<hwm, files>>
    PROVE  /\ UNCHANGED hwm
           /\ UNCHANGED [T \in Table |-> Vouched(T)]
<1>1. \A T \in Table : Vouched(T)' = Vouched(T)
  BY DEF Vouched, Exported
<1>2. QED
  BY <1>1

LEMMA LogStutters ==
    ASSUME UNCHANGED <<hwm, files, interrupted>>
    PROVE  UNCHANGED Log!vars
BY LogStays DEF Log!vars

\* An export that did not end.
LEMMA LogTears ==
    ASSUME LakehouseTypeOK, NEW r \in DagRun, UNCHANGED <<hwm, files>>,
           LeavesFiles(r)
    PROVE  [Log!Next]_Log!vars
<1>1. CASE interrupted' = interrupted
  BY <1>1, LogStutters
<1>2. CASE interrupted' # interrupted
  <2>1. PICK T \in Table : T = job[r].table
    BY DEF LakehouseTypeOK, Job
  <2>2. T \notin interrupted /\ interrupted' = interrupted \cup {T}
    BY <1>2, <2>1, LeavesFilesIs
  <2>3. Log!Tear(T)
    BY <2>2, LogStays DEF Log!Tear
  <2>4. QED
    BY <2>3 DEF Log!Next
<1>3. QED
  BY <1>1, <1>2

\* The mark of a table that is removed vouches for nothing.
LEMMA LogMends ==
    ASSUME LakehouseTypeOK, LakehouseTypeOK', TreeInv, NEW r \in DagRun, RemovesTree(r)
    PROVE  [Log!Next]_Log!vars
<1>1. PICK T \in Table : T = job[r].table
  BY DEF LakehouseTypeOK, Job
<1>2. /\ UNCHANGED hwm /\ interrupted' = interrupted \ {T}
      /\ files' = [files EXCEPT ![T] = <<>>] /\ files \in [Table -> Seq(SUBSET Row)]
  BY <1>1 DEF RemovesTree, LakehouseTypeOK
<1>3. hwm[T] = Never
  BY <1>1 DEF TreeInv, RemovesTree
<1>4. Vouched(T) = {} /\ Vouched(T)' = {}
  <2>1. Vouched(T) = {}
    BY <1>3, NothingVouched
  <2>2. DOMAIN files'[T] = {}
    BY <1>2, EmptySeq
  <2>3. QED
    BY <2>1, <2>2 DEF Vouched, Exported, Range
<1>5. \A S \in Table : Vouched(S)' = Vouched(S)
  <2>1. \A S \in Table \ {T} : files'[S] = files[S]
    BY <1>2
  <2>2. \A S \in Table \ {T} : Vouched(S)' = Vouched(S)
    BY <1>2, <2>1 DEF Vouched, Exported
  <2>3. QED
    BY <1>4, <2>2
<1>6. UNCHANGED [S \in Table |-> Vouched(S)]
  BY <1>5
<1>7. CASE T \in interrupted
  BY <1>2, <1>3, <1>6, <1>7 DEF Log!Mend, Log!Next, Never
<1>8. CASE T \notin interrupted
  BY <1>2, <1>6, <1>8 DEF Log!vars
<1>9. QED
  BY <1>7, <1>8

\* A row that an export writes is newer than the mark, until the mark is set.
LEMMA LogDoesNotSeeWrites ==
    ASSUME LakehouseTypeOK, ExportInv, NEW r \in DagRun, WritesDay(r)
    PROVE  UNCHANGED Log!vars
<1> DEFINE day == FirstDay(job[r].rows)
<1>1. PICK T \in Table : T = job[r].table
  BY DEF LakehouseTypeOK, Job
<1>2. /\ UNCHANGED <<hwm, interrupted>> /\ files' = [files EXCEPT ![T] = Append(@, day)]
      /\ files \in [Table -> Seq(SUBSET Row)] /\ hwm \in [Table -> Nat \cup {Never}]
  BY <1>1 DEF WritesDay, LakehouseTypeOK
<1>3. day \subseteq job[r].rows /\ day \in SUBSET Row
  BY DEF FirstDay, LakehouseTypeOK, Job
<1>4. \A x \in day : ~(Start(x.window) <= hwm[T])
  <2>1. Writing(r) /\ ExportOf(r)
    BY DEF WritesDay, At, Writing, Exporting, ExportInv
  <2>2. \A x \in day : Start(x.window) > hwm[T] /\ Start(x.window) \in Nat
    BY <1>1, <1>3, <2>1, WindowsAreNat DEF ExportOf, Row
  <2>3. hwm[T] \in Int
    BY <1>2 DEF Never
  <2>4. QED
    BY <2>2, <2>3
<1>5. Vouched(T)' = Vouched(T)
  <2>1. files'[T] = Append(files[T], day) /\ files[T] \in Seq(SUBSET Row)
    BY <1>2
  <2>2. Exported(T)' = Exported(T) \cup day
    BY <1>3, <2>1, ExportedWith DEF Exported
  <2>3. QED
    BY <1>2, <1>4, <2>2 DEF Vouched
<1>6. \A S \in Table : Vouched(S)' = Vouched(S)
  <2>1. \A S \in Table \ {T} : files'[S] = files[S]
    BY <1>2
  <2>2. \A S \in Table \ {T} : Vouched(S)' = Vouched(S)
    BY <1>2, <2>1 DEF Vouched, Exported
  <2>3. QED
    BY <1>5, <2>2
<1>7. QED
  BY <1>2, <1>6 DEF Log!vars

\* What comes into the log when the mark is set.
LEMMA LogCommits ==
    ASSUME LakehouseTypeOK, ExportInv, NEW r \in DagRun, SetsBookmark(r)
    PROVE  [Log!Next]_Log!vars
<1>1. PICK T \in Table : T = job[r].table
  BY DEF LakehouseTypeOK, Job
<1>2. /\ UNCHANGED <<files, interrupted>> /\ hwm' = [hwm EXCEPT ![T] = now]
      /\ hwm \in [Table -> Nat \cup {Never}] /\ hwm[T] <= now /\ now \in Nat
  BY <1>1 DEF SetsBookmark, LakehouseTypeOK, WarehouseTypeOK
<1>3. hwm'[T] = now /\ hwm[T] \in Int /\ now \in Int
  BY <1>2 DEF Never
<1>4. \A S \in Table : Exported(S)' = Exported(S)
  BY <1>2 DEF Exported
<1>5. ASSUME NEW x \in Exported(T)
      PROVE  x \in Row /\ Start(x.window) \in Int /\ x.window \in Window
  BY ExportedAreRows DEF Row
<1>6. /\ Vouched(T) = {x \in Exported(T) : Start(x.window) <= hwm[T]}
      /\ Vouched(T)' = {x \in Exported(T) : Start(x.window) <= now}
  BY <1>3, <1>4 DEF Vouched
<1>7. Vouched(T) \subseteq Vouched(T)'
  BY <1>2, <1>3, <1>5, <1>6
<1>8. \A x \in Vouched(T)' \ Vouched(T) :
        x \in Row /\ hwm[T] < Start(x.window) /\ Start(x.window) <= now
  BY <1>3, <1>5, <1>6
<1>9. ASSUME T \notin interrupted, NEW x \in Vouched(T)', NEW y \in Vouched(T)',
             Start(x.window) = Start(y.window)
      PROVE  x = y
  <2>1. NoneTwice(T)
    BY <1>9 DEF ExportInv, FilesOf
  <2>2. x \in Exported(T) /\ y \in Exported(T)
    BY <1>6, <1>9
  <2>3. x.window = y.window
    BY <1>5, <1>9, <2>2, StartTellsWindow
  <2>4. PICK i \in DOMAIN files[T], j \in DOMAIN files[T] : x \in files[T][i] /\ y \in files[T][j]
    BY <2>2 DEF Exported, Range
  <2>5. QED
    BY <2>1, <2>3, <2>4 DEF NoneTwice
<1>10. \A U \in Table \ {T} : hwm'[U] = hwm[U] /\ Vouched(U)' = Vouched(U)
  <2>1. \A U \in Table \ {T} : hwm'[U] = hwm[U]
    BY <1>2
  <2>2. QED
    BY <1>4, <2>1 DEF Vouched
<1>11. CASE hwm[T] = now
  BY <1>2, <1>11, LogStutters
<1>12. ASSUME hwm[T] # now
       PROVE  Log!Commit(T)
  <2> DEFINE log == [S \in Table |-> Vouched(S)]
             at == [x \in Row |-> Start(x.window)]
  <2>1. /\ \A S \in Table : log[S] = Vouched(S) /\ log'[S] = Vouched(S)'
        /\ \A x \in Row : at[x] = Start(x.window)
    OBVIOUS
  <2>2. \A x \in log'[T] \ log[T] : hwm[T] < at[x] /\ at[x] <= hwm'[T]
    BY <1>3, <1>8, <2>1
  <2>3. T \notin interrupted =>
          \A x, y \in log'[T] \ log[T] : at[x] = at[y] => x = y
    BY <1>8, <1>9, <2>1
  <2>4. hwm[T] < hwm'[T] /\ log[T] \subseteq log'[T]
    BY <1>2, <1>3, <1>7, <1>12, <2>1
  <2>5. \A U \in Table \ {T} : hwm'[U] = hwm[U] /\ log'[U] = log[U]
    BY <1>10, <2>1
  <2>6. UNCHANGED interrupted
    BY <1>2
  <2>7. QED
    BY <2>2, <2>3, <2>4, <2>5, <2>6 DEF Log!Commit, Log!SamePlace
<1>13. QED
  BY <1>11, <1>12 DEF Log!Next

LEMMA LogInit == LakehouseInit => Log!Init
<1> SUFFICES ASSUME LakehouseInit
             PROVE  Log!Init
  OBVIOUS
<1>1. \A T \in Table : DOMAIN files[T] = {}
  BY EmptySeq DEF LakehouseInit
<1>2. \A T \in Table : Vouched(T) = {}
  BY <1>1 DEF Vouched, Exported, Range
<1>3. QED
  BY <1>2 DEF LakehouseInit, Log!Init, Never

LEMMA LogNext ==
    ASSUME TypeInv, TypeInv', ExportInv, TreeInv, [LakehouseNext]_lakehouseVars
    PROVE  [Log!Next]_Log!vars
<1>1. LakehouseTypeOK /\ LakehouseTypeOK'
  BY DEF TypeInv
<1>2. CASE UNCHANGED lakehouseVars \/ Outside
  BY <1>2, LogStutters DEF Outside, lakehouseVars, lakeVars
<1>3. ASSUME NEW r \in DagRun, DagStep(r)
      PROVE  [Log!Next]_Log!vars
  <2>1. CASE TaskDies(r)
    BY <1>1, <2>1, LogTears DEF TaskDies
  <2>2. CASE ~TaskDies(r)
    <3>1. UNCHANGED lakeVars
      BY <1>3, <2>2 DEF DagStep, StartRun, BuildsStg, ComputesVwap, BuildsVwap, BuildsStats, Builds,
                        DbtRunSucceeds, DbtTestSucceeds
    <3>2. QED
      BY <3>1, LogStutters DEF lakeVars
  <2>3. QED
    BY <2>1, <2>2
<1>4. ASSUME NEW r \in DagRun, ExportStep(r)
      PROVE  [Log!Next]_Log!vars
  <2>1. CASE RemovesTree(r)
    BY <1>1, <2>1, LogMends
  <2>2. CASE WritesDay(r)
    BY <1>1, <2>2, LogDoesNotSeeWrites
  <2>3. CASE SetsBookmark(r)
    BY <1>1, <2>3, LogCommits
  <2>4. CASE ExportRaises(r)
    BY <1>1, <2>4, LogTears DEF ExportRaises
  <2>5. CASE Opens(r) \/ LockedOut(r) \/ ReadsHwm(r) \/ Selects(r) \/ RefreshesCatalog(r)
    <3>1. UNCHANGED <<hwm, files, interrupted>>
      BY <2>5 DEF Opens, LockedOut, ReadsHwm, Selects, RefreshesCatalog, lakeVars
    <3>2. QED
      BY <3>1, LogStutters
  <2>6. QED
    BY <1>4, <2>1, <2>2, <2>3, <2>4, <2>5 DEF ExportStep
<1>5. QED
  BY <1>2, <1>3, <1>4 DEF LakehouseNext

\* The runs of the DAG, however they overlap, fail and die in the middle of an
\* export, implement the log of exported rows: what a mark vouches for comes in
\* with the mark, in one step, and never changes afterwards.
THEOREM ExportIsLog == LakehouseSpec => ImplementsExportLog
<1>1. LakehouseInit => TreeInv
  BY DEF LakehouseInit, Begin, TreeInv, At
<1>2. TypeInv /\ TreeInv /\ [LakehouseNext]_lakehouseVars => TreeInv'
  BY TreeNext
<1>3. /\ LakehouseInv /\ ExportInv /\ TreeInv /\ LakehouseInv' /\ [LakehouseNext]_lakehouseVars
      => [Log!Next]_Log!vars
  BY LogNext DEF LakehouseInv
<1>4. LakehouseInv => TypeInv
  BY DEF LakehouseInv
<1>5. QED
  BY <1>1, <1>2, <1>3, <1>4, ExportInvHolds, LogInit, PTL
     DEF LakehouseSpec, ImplementsExportLog, Log!Spec

============================================================================
