----------------------------- MODULE Warehouse -----------------------------
(***************************************************************************)
(* The medallion tables and the dbt models that build them: the rows the   *)
(* consumer commits to bronze.raw_trades, silver.stg_trades, and the two   *)
(* gold tables.  The operators are used by Lakehouse.tla.                  *)
(*                                                                         *)
(* dbt computes the rows of an incremental model into a temporary table,   *)
(* and then deletes the rows they replace and inserts them, in a READ      *)
(* COMMITTED transaction: two steps, as another run may be in the model    *)
(* too.  For stg_trades one step is enough, because the rows it computed   *)
(* are the same whenever it inserts them; and gold_trade_stats_1min is     *)
(* built under a name that one transaction at a time can have.             *)
(*                                                                         *)
(* A trade is the instant it was made at, in ticks of the clock.  A gold   *)
(* row is the set of the trades it aggregates: its volume, count, prices   *)
(* and volatility are functions of that set.  No set, no row.              *)
(***************************************************************************)
EXTENDS Integers, Sequences, FiniteSetsExt, Functions

CONSTANTS
    Trade,     \* the instants of the trades
    Minute     \* ticks of a one-minute window

ASSUME WarehouseAssumption ==
    /\ Trade \subseteq Nat /\ IsFiniteSet(Trade)
    /\ Minute \in Nat \ {0}

VARIABLES
    now,         \* the clock
    rawTrades,   \* bronze.raw_trades, in the order of received_at
    ingested,    \* the number of rows up to max(ingested_at) of silver
    silver,      \* silver.stg_trades
    vwap,        \* gold.gold_vwap_1min: window -> trades aggregated
    stats        \* gold.gold_trade_stats_1min

warehouseVars == <<now, rawTrades, ingested, silver, vwap, stats>>

WindowOf(t) == t \div Minute     \* date_trunc('minute', traded_at)
Start(w)    == w * Minute        \* window_start
Window      == {WindowOf(t) : t \in Trade}
Rows(gold)  == {w \in Window : gold[w] # {}}

WarehouseTypeOK ==
    /\ now \in Nat
    /\ rawTrades \in Seq(Trade) /\ IsInjective(rawTrades)
    /\ ingested \in 0..Len(rawTrades)
    /\ silver \subseteq Trade
    /\ vwap \in [Window -> SUBSET Trade]
    /\ stats \in [Window -> SUBSET Trade]

WarehouseInit ==
    /\ now = 0
    /\ rawTrades = <<>> /\ ingested = 0
    /\ silver = {}
    /\ vwap = [w \in Window |-> {}]
    /\ stats = [w \in Window |-> {}]

\* The trades of T by window: group by date_trunc('minute', traded_at).
ByWindow(T) == [w \in Window |-> {t \in T : WindowOf(t) = w}]

Tick ==
    /\ now' = now + 1
    /\ UNCHANGED <<rawTrades, ingested, silver, vwap, stats>>

\* The consumer commits a trade, which took any time to come; the unique index
\* on trade_id refuses it a second time.
Arrive(t) ==
    /\ t <= now
    /\ t \notin Range(rawTrades)
    /\ rawTrades' = Append(rawTrades, t)
    /\ UNCHANGED <<now, ingested, silver, vwap, stats>>

\* stg_trades: the rows received since the newest that silver has.
StgRun ==
    /\ silver' = silver \cup Range(SubSeq(rawTrades, ingested + 1, Len(rawTrades)))
    /\ ingested' = Len(rawTrades)
    /\ UNCHANGED <<now, rawTrades, vwap, stats>>

\* The incremental filter: traded_at > max(window_start), of all if no row.
Watermark == IF Rows(vwap) = {} THEN -1 ELSE Max({Start(w) : w \in Rows(vwap)})

\* Mutant: the filter is on window_start.
BaseByWindow == {t \in silver : Start(WindowOf(t)) > Watermark}

\* The trades that a run of gold_vwap_1min aggregates.
Base == {t \in silver : t > Watermark}

\* Mutant: not incremental, so that the rows computed are the whole table.
ReplacedWhole(old, new) == new

\* unique_key = window_start: the rows computed replace those that are there.
Replaced(old, new) == [w \in Window |-> IF new[w] # {} THEN new[w] ELSE old[w]]

\* gold_vwap_1min, incremental: the rows of these trades are put in place.
VwapRun(base) ==
    /\ vwap' = Replaced(vwap, ByWindow(base))
    /\ UNCHANGED <<now, rawTrades, ingested, silver, stats>>

\* Mutant: the table is incremental, and each run aggregates its new trades.
StatsRunIncremental ==
    /\ stats' = Replaced(stats, ByWindow(silver \ UNION Range(stats)))
    /\ UNCHANGED <<now, rawTrades, ingested, silver, vwap>>

\* gold_trade_stats_1min, materialized as a table: rebuilt from nothing.
StatsRun ==
    /\ stats' = ByWindow(silver)
    /\ UNCHANGED <<now, rawTrades, ingested, silver, vwap>>

----------------------------------------------------------------------------

\* Trade u was committed to bronze before trade t.
Before(u, t) ==
    \E i, j \in DOMAIN rawTrades : i < j /\ rawTrades[i] = u /\ rawTrades[j] = t

\* When the gold tables are up to date with silver, gold_vwap_1min misses a
\* trade of silver only if it is exact on its minute, or arrived after a trade
\* of a later minute.
VwapMissesOnly(t) ==
    \/ t = Start(WindowOf(t))
    \/ \E u \in silver : WindowOf(u) > WindowOf(t) /\ Before(u, t)

============================================================================
