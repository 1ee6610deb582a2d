----------------------------- MODULE Lakehouse -----------------------------
(***************************************************************************)
(* The runs of the Airflow DAG dbt_run >> dbt_test >> lakehouse_export     *)
(* (sync_metabase changes nothing here), on the tables of Warehouse.tla,   *)
(* while the consumer goes on committing trades.  A task that raises, or   *)
(* whose worker dies, is run once more from its beginning; when it fails   *)
(* again the run of the DAG is over.  Nothing keeps a run from beginning   *)
(* while another goes on: the DAG is hourly, has no max_active_runs, and   *)
(* the executor runs tasks in parallel, each in a process of its own; so   *)
(* two runs may even be in gold_vwap_1min together, each with the rows it  *)
(* computed still to be put in place.                                      *)
(*                                                                         *)
(* The export holds the DuckDB file, which one process at a time can have  *)
(* open, and treats the two gold tables one after the other:               *)
(*                                                                         *)
(*   open      open the DuckDB file; an error if another process has it    *)
(*   hwm       read the high-water mark; none means a full export          *)
(*   rmtree    a full export removes the files of the table                *)
(*   select    read the rows newer than the mark from Postgres             *)
(*   write     write a file for each day, the earliest first               *)
(*   bookmark  set the mark to the time of day                             *)
(*   catalog   the file is closed; init_catalog opens it again             *)
(***************************************************************************)
EXTENDS Warehouse, SequencesExt

CONSTANTS
    DagRun,          \* the runs of the DAG
    NoRun,           \* nobody has the DuckDB file open
    WindowsPerDay,   \* windows in a partition of the Parquet files
    Horizon,         \* bound: the clock
    MaxFaults        \* bound: tasks that raise or die

ASSUME LakehouseAssumption ==
    /\ NoRun \notin DagRun
    /\ WindowsPerDay \in Nat \ {0}
    /\ {Horizon, MaxFaults} \subseteq Nat

VARIABLES
    job,          \* what each run of the DAG is doing, see Job
    duckdb,       \* the run that has data/crypto_lakehouse.duckdb open
    hwm,          \* ducklake.export_state: last_exported_at of each table
    files,        \* the Parquet files of each table, each a set of rows
    interrupted,  \* history: tables with files of an export that did not end
    overtaken,    \* history: runs whose rows of gold_vwap_1min were computed
                  \* before another run put its own in place
    crossed,      \* history: such rows were put in place
    tested,       \* history: runs that tested the gold tables as they are now
    faults        \* counter for MaxFaults

lakeVars      == <<duckdb, hwm, files, interrupted>>
vwapVars      == <<overtaken, crossed>>
lakehouseVars == <<warehouseVars, job, lakeVars, vwapVars, tested, faults>>

Table     == {"gold_vwap_1min", "gold_trade_stats_1min"}
Never     == -1    \* no row in export_state
Model     == {"stg", "vwap_rows", "vwap", "stats"}    \* vwap_rows: the temporary table
Gold      == [gold_vwap_1min |-> vwap, gold_trade_stats_1min |-> stats]
Row       == [window : Window, trades : SUBSET Trade]
Day(row)  == row.window \div WindowsPerDay
GoldRows(T) == {[window |-> w, trades |-> Gold[T][w]] : w \in Rows(Gold[T])}

Job == [task     : {"due", "dbt_run", "dbt_test", "export", "over"},
        try      : 1..2,
        done     : SUBSET Model,   \* models the dbt_run has built
        base     : SUBSET Trade,   \* the trades that its vwap_rows aggregate
        table    : Table,          \* the table the export is at
        step     : {"open", "hwm", "rmtree", "select", "write", "bookmark", "catalog"},
        selected : SUBSET Row,     \* the rows the export of the table has read
        rows     : SUBSET Row,     \* those that are not written yet
        failed   : SUBSET Table,   \* tables whose export_table returned False
        alone    : BOOLEAN]        \* history: no other run since its beginning

\* A task at its beginning.
Begin(name, n, alone) ==
    [task |-> name, try |-> n, done |-> {}, base |-> {}, table |-> "gold_vwap_1min",
     step |-> "open", selected |-> {}, rows |-> {}, failed |-> {}, alone |-> alone]

At(r, s) == job[r].task = "export" /\ job[r].step = s

\* In gold_vwap_1min, with its rows computed and not in place.
Computed(r) ==
    job[r].task = "dbt_run" /\ "vwap_rows" \in job[r].done /\ "vwap" \notin job[r].done

\* In the loop of run_export over the tables.
Exporting(r) == job[r].task = "export" /\ job[r].step \notin {"open", "catalog"}

LakehouseTypeOK ==
    /\ WarehouseTypeOK
    /\ job \in [DagRun -> Job]
    /\ duckdb \in DagRun \cup {NoRun}
    /\ hwm \in [Table -> Nat \cup {Never}]
    /\ files \in [Table -> Seq(SUBSET Row)]
    /\ interrupted \subseteq Table
    /\ overtaken \subseteq DagRun /\ crossed \in BOOLEAN
    /\ tested \subseteq DagRun
    /\ faults \in 0..MaxFaults
    /\ \A T \in Table : hwm[T] <= now
    /\ \A r \in DagRun : duckdb = r <=> Exporting(r)

LakehouseInit ==
    /\ WarehouseInit
    /\ job = [r \in DagRun |-> Begin("due", 1, TRUE)]
    /\ duckdb = NoRun
    /\ hwm = [T \in Table |-> Never]
    /\ files = [T \in Table |-> <<>>]
    /\ interrupted = {} /\ overtaken = {} /\ crossed = FALSE
    /\ tested = {} /\ faults = 0

\* Mutant: window_start >= high_water_mark.
NewerOrEqual(T) == {r \in GoldRows(T) : Start(r.window) >= hwm[T]}

\* window_start > high_water_mark; with no mark, the whole table.
Newer(T) == {r \in GoldRows(T) : Start(r.window) > hwm[T]}

----------------------------------------------------------------------------
\* The DAG.

Active(r) == job[r].task \notin {"due", "over"}

StartRun(r) ==
    /\ job[r].task = "due"
    /\ job' = [q \in DagRun |->
                 IF q = r THEN Begin("dbt_run", 1, \A p \in DagRun : ~Active(p))
                 ELSE [job[q] EXCEPT !.alone = @ /\ ~Active(q)]]
    /\ UNCHANGED <<warehouseVars, lakeVars, vwapVars, tested, faults>>

\* A task begins, for its first or its second try.
Starts(r, name, n) == job' = [job EXCEPT ![r] = Begin(name, n, @.alone)]

Ends(r) == job' = [job EXCEPT ![r] = Begin("over", 1, TRUE)]

\* retries = 1
TaskFails(r) == IF job[r].try = 1 THEN Starts(r, job[r].task, 2) ELSE Ends(r)

\* Files are left that their mark does not vouch for: those that were written
\* before, or the one that was being written, cut short, which no reader of the
\* table gets over.
LeavesFiles(r) ==
    \/ /\ job[r].selected # job[r].rows \/ At(r, "write")
       /\ interrupted' = interrupted \cup {job[r].table}
    \/ /\ job[r].selected = job[r].rows
       /\ UNCHANGED interrupted

Fault == faults < MaxFaults /\ faults' = faults + 1

\* Mutant: duck_conn.close() is missing.
NotClosed(r) == duckdb

\* The connection is closed, or its process is gone.
Closed(r) == IF duckdb = r THEN NoRun ELSE duckdb

\* The worker dies, dbt_run or dbt_test exits with an error, or run_export
\* raises outside of export_table.
TaskDies(r) ==
    /\ Active(r)
    /\ Fault
    /\ LeavesFiles(r)
    /\ duckdb' = Closed(r)
    /\ TaskFails(r)
    /\ UNCHANGED <<warehouseVars, hwm, files, vwapVars, tested>>

----------------------------------------------------------------------------
\* dbt run: stg_trades first, then the gold models in any order.

Builds(r, model, needs, base) ==
    /\ job[r].task = "dbt_run"
    /\ model \notin job[r].done
    /\ needs \subseteq job[r].done
    /\ job' = [job EXCEPT ![r].done = @ \cup {model}, ![r].base = base]
    /\ UNCHANGED <<lakeVars, faults>>

BuildsStg(r) ==
    /\ Builds(r, "stg", {}, job[r].base)
    /\ StgRun
    /\ tested' = {}
    /\ UNCHANGED vwapVars

\* create temporary table gold_vwap_1min__dbt_tmp as ...
ComputesVwap(r) ==
    /\ Builds(r, "vwap_rows", {"stg"}, Base)
    /\ overtaken' = overtaken \ {r}
    /\ UNCHANGED <<warehouseVars, crossed, tested>>

\* delete from gold_vwap_1min ...; insert into gold_vwap_1min ...; commit
BuildsVwap(r) ==
    /\ Builds(r, "vwap", {"vwap_rows"}, {})
    /\ VwapRun(job[r].base)
    /\ overtaken' = (overtaken \cup {q \in DagRun : Computed(q)}) \ {r}
    /\ crossed' = (crossed \/ r \in overtaken)
    /\ tested' = {}

BuildsStats(r) ==
    /\ Builds(r, "stats", {"stg"}, job[r].base)
    /\ StatsRun
    /\ tested' = {}
    /\ UNCHANGED vwapVars

\* Mutant: dbt_run >> lakehouse_export.
DbtRunSucceedsUntested(r) ==
    /\ job[r].task = "dbt_run"
    /\ job[r].done = Model
    /\ Starts(r, "export", 1)
    /\ UNCHANGED <<warehouseVars, lakeVars, vwapVars, tested, faults>>

DbtRunSucceeds(r) ==
    /\ job[r].task = "dbt_run"
    /\ job[r].done = Model
    /\ Starts(r, "dbt_test", 1)
    /\ UNCHANGED <<warehouseVars, lakeVars, vwapVars, tested, faults>>

DbtTestSucceeds(r) ==
    /\ job[r].task = "dbt_test"
    /\ Starts(r, "export", 1)
    /\ tested' = tested \cup {r}
    /\ UNCHANGED <<warehouseVars, lakeVars, vwapVars, faults>>

----------------------------------------------------------------------------
\* run_export.

\* Mutant: two processes may have the file open.
UnlockedAnyway(r) == TRUE

Unlocked(r) == duckdb = NoRun

Opens(r) ==
    /\ At(r, "open")
    /\ Unlocked(r)
    /\ duckdb' = r
    /\ job' = [job EXCEPT ![r].step = "hwm"]
    /\ UNCHANGED <<warehouseVars, hwm, files, interrupted, vwapVars, tested, faults>>

\* duckdb.connect raises, in run_export or in init_catalog.
LockedOut(r) ==
    /\ At(r, "open") \/ At(r, "catalog")
    /\ ~Unlocked(r)
    /\ TaskFails(r)
    /\ UNCHANGED <<warehouseVars, lakeVars, vwapVars, tested, faults>>

ReadsHwm(r) ==
    /\ At(r, "hwm")
    /\ job' = [job EXCEPT ![r].step = IF hwm[job[r].table] = Never THEN "rmtree" ELSE "select"]
    /\ UNCHANGED <<warehouseVars, lakeVars, vwapVars, tested, faults>>

RemovesTree(r) ==
    /\ At(r, "rmtree")
    /\ job' = [job EXCEPT ![r].step = "select"]
    /\ files' = [files EXCEPT ![job[r].table] = <<>>]
    /\ interrupted' = interrupted \ {job[r].table}
    /\ UNCHANGED <<warehouseVars, duckdb, hwm, vwapVars, tested, faults>>

Selects(r) ==
    LET new == Newer(job[r].table) IN
    /\ At(r, "select")
    /\ job' = [job EXCEPT ![r].selected = new, ![r].rows = new,
                          ![r].step = IF new = {} THEN "bookmark" ELSE "write"]
    /\ UNCHANGED <<warehouseVars, lakeVars, vwapVars, tested, faults>>

FirstDay(rows) == {x \in rows : \A y \in rows : Day(x) <= Day(y)}

\* Mutant: the mark is set when the first file is there.
WritesDayOnce(r) ==
    /\ At(r, "write")
    /\ files' = [files EXCEPT ![job[r].table] = Append(@, FirstDay(job[r].rows))]
    /\ job' = [job EXCEPT ![r].rows = {}, ![r].step = "bookmark"]
    /\ UNCHANGED <<warehouseVars, duckdb, hwm, interrupted, vwapVars, tested, faults>>

\* One file part-<uuid>.parquet, at its final path from its first byte: TaskDies
\* and ExportRaises at this step leave it there cut short (LeavesFiles).
WritesDay(r) ==
    LET day == FirstDay(job[r].rows) IN
    /\ At(r, "write")
    /\ files' = [files EXCEPT ![job[r].table] = Append(@, day)]
    /\ job' = [job EXCEPT ![r].rows = @ \ day,
                          ![r].step = IF job[r].rows = day THEN "bookmark" ELSE "write"]
    /\ UNCHANGED <<warehouseVars, duckdb, hwm, interrupted, vwapVars, tested, faults>>

\* The next table, or duck_conn.close().
NextTable(r, failed) ==
    LET last == job[r].table = "gold_trade_stats_1min" IN
    /\ job' = [job EXCEPT ![r].table = "gold_trade_stats_1min",
                          ![r].step = IF last THEN "catalog" ELSE "hwm",
                          ![r].selected = {}, ![r].rows = {}, ![r].failed = failed]
    /\ duckdb' = IF last THEN Closed(r) ELSE duckdb

\* upsert_export_state with datetime.now(), and export_table returns True.
SetsBookmark(r) ==
    /\ At(r, "bookmark")
    /\ hwm' = [hwm EXCEPT ![job[r].table] = now]
    /\ NextTable(r, job[r].failed)
    /\ UNCHANGED <<warehouseVars, files, interrupted, vwapVars, tested, faults>>

\* An exception in export_table, which returns False.
ExportRaises(r) ==
    /\ Exporting(r)
    /\ Fault
    /\ LeavesFiles(r)
    /\ NextTable(r, job[r].failed \cup {job[r].table})
    /\ UNCHANGED <<warehouseVars, hwm, files, vwapVars, tested>>

\* init_catalog opens the file, replaces the views and closes it; then
\* run_export raises if a table failed.
RefreshesCatalog(r) ==
    /\ At(r, "catalog")
    /\ Unlocked(r)
    /\ IF job[r].failed = {} THEN Ends(r) ELSE TaskFails(r)
    /\ UNCHANGED <<warehouseVars, lakeVars, vwapVars, tested, faults>>

----------------------------------------------------------------------------

Outside ==
    /\ \/ now < Horizon /\ Tick
       \/ \E t \in Trade : Arrive(t)
    /\ UNCHANGED <<job, lakeVars, vwapVars, tested, faults>>

DagStep(r) ==
    \/ StartRun(r)
    \/ TaskDies(r)
    \/ BuildsStg(r)
    \/ ComputesVwap(r)
    \/ BuildsVwap(r)
    \/ BuildsStats(r)
    \/ DbtRunSucceeds(r)
    \/ DbtTestSucceeds(r)

ExportStep(r) ==
    \/ Opens(r)
    \/ LockedOut(r)
    \/ ReadsHwm(r)
    \/ RemovesTree(r)
    \/ Selects(r)
    \/ WritesDay(r)
    \/ SetsBookmark(r)
    \/ ExportRaises(r)
    \/ RefreshesCatalog(r)

LakehouseNext == Outside \/ \E r \in DagRun : DagStep(r) \/ ExportStep(r)

LakehouseSpec == LakehouseInit /\ [][LakehouseNext]_lakehouseVars

----------------------------------------------------------------------------

Exported(T) == UNION Range(files[T])

\* The gold tables are what a run made of them that had no other beside it.
Settled == \E r \in DagRun : job[r].alone /\ job[r].task \in {"dbt_test", "export"}

\* When dbt_run has succeeded, each row of gold_vwap_1min aggregates trades of
\* its minute that are in silver, and all of them but those on the minute and
\* those that arrived out of order; "late-arriving trades for a window that's
\* already been computed are still captured" (gold_vwap_1min.sql:21-22) while
\* that window is the newest.  Another run of the DAG may be anywhere in its
\* own dbt_run at that time, so only a run without another beside it says this;
\* runs that overlapped and runs that failed may have gone before, but not one
\* that put rows of gold_vwap_1min in place which another had overtaken.
VwapIsComplete ==
    Settled /\ ~crossed =>
        /\ \A w \in Window : vwap[w] \subseteq {t \in silver : WindowOf(t) = w}
        /\ \A t \in silver : t \in vwap[WindowOf(t)] \/ VwapMissesOnly(t)

\* In the same states gold_trade_stats_1min is what silver says, late trades
\* included.
StatsAreComplete ==
    Settled => stats = [w \in Window |-> {t \in silver : WindowOf(t) = w}]

\* No run takes back what the gold tables have aggregated, with two exceptions
\* in gold_vwap_1min.  A trade that is exact on its minute is lost when the row
\* of that minute is computed again from the trades after window_start
\* (gold_vwap_1min.sql:38).  And of two runs that are in the model together, the
\* one that puts its rows in place last takes back what it had not seen; every
\* other overlap, also one in which a run put its rows in place while silver
\* grew under it or while another was still to compute its own, takes nothing.
GoldOnlyGrows ==
    [][\A w \in Window :
         /\ stats[w] \subseteq stats'[w]
         /\ \A t \in vwap[w] \ vwap'[w] :
              t = Start(w) \/ \E r \in overtaken : BuildsVwap(r)]_lakehouseVars

\* So a Parquet file is never ahead of its table, however old it is and
\* whichever runs came between the dbt_run and the export that wrote it: each
\* trade it aggregates is still aggregated in gold, with the same exceptions.
FilesFollowGold ==
    /\ \A x \in Exported("gold_trade_stats_1min") : x.trades \subseteq stats[x.window]
    /\ crossed \/ \A x \in Exported("gold_vwap_1min") :
         x.trades \subseteq vwap[x.window] \cup {Start(x.window)}

\* "Blocks downstream tasks if any test fails - bad data never reaches the
\* lakehouse" (crypto_pipeline_dag.py:66): what a run exports that had no other
\* beside it is what its own dbt_test looked at.  With another run beside it,
\* whose dbt_run may follow the dbt_test of this one, that is not so.
OnlyTestedIsExported ==
    \A r \in DagRun : job[r].task = "export" /\ job[r].alone => r \in tested

\* "The high-water mark is only updated AFTER a successful Parquet write",
\* export.py:17: whatever failed before and whatever other exports go on, when
\* the mark is set, the files hold every row that was selected for it; and if
\* no other run was beside this one, every row of the table that is newer than
\* the mark it replaces.
MarkFollowsWrite ==
    [][\A T \in Table : hwm'[T] # hwm[T] =>
         \E r \in DagRun :
            /\ At(r, "bookmark") /\ job[r].table = T
            /\ job[r].selected \subseteq Exported(T)
            /\ job[r].alone => Newer(T) \subseteq Exported(T)]_lakehouseVars

\* No minute is in the files of a table twice, unless an incremental export of
\* the table was interrupted between its first file and its mark: two exports
\* at a time do not write the same rows.
NoDuplicates ==
    \A T \in Table \ interrupted :
        \A i, j \in DOMAIN files[T] : \A x \in files[T][i], y \in files[T][j] :
            x.window = y.window => i = j /\ x = y

\* The rows of a table that its mark vouches for.
Vouched(T) == {x \in Exported(T) : Start(x.window) <= hwm[T]}

\* "If the process crashes mid-export, the next run re-exports from the last
\* successful checkpoint - no data loss, no corruption", export.py:18-19:
\* whichever files a run has written or removed, and whatever other runs do
\* meanwhile, what the marks vouch for is a log that grows together with its
\* mark, in one step, and never changes (ExportLog.tla).
Log == INSTANCE ExportLog WITH
    Instant <- [x \in Row |-> Start(x.window)],
    mark    <- hwm,
    log     <- [T \in Table |-> Vouched(T)],
    torn    <- interrupted

ImplementsExportLog == Log!Spec

\* "The next run re-exports from the last successful checkpoint - no data
\* loss", export.py:18-19: when the mark is set, the files hold every minute
\* that the table has.
NoMinuteLost ==
    [][\A T \in Table : hwm'[T] # hwm[T] =>
         Rows(Gold[T]) \subseteq {x.window : x \in Exported(T)}]_lakehouseVars

=============================================================================
