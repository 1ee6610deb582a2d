# TLA+ models of crypto-streaming-lakehouse

The repository streams BTC-USD trades from Coinbase into a lakehouse: a
producer publishes them to RabbitMQ, a consumer writes them to PostgreSQL
through a batch buffer, dbt builds silver and gold tables every hour, and an
export writes the gold tables to Parquet. Two scripts prepare the database and
the broker. This directory models the parts whose correctness depends on the
order in which threads, processes and failures take their steps, checks them
with TLC on small instances, and proves their safety with TLAPS for every value
of their constants.

Source lines below are relative to the root of the repository.

## 1. The system

     operator: infra/migrate.py   and   infra/rabbitmq_setup.py
                      |                        |
                      v                        v
                 PostgreSQL     Coinbase --websocket--> producer --AMQP, confirms-->
                                            RabbitMQ queue --expire, overflow, nack--> DLQ
                                               |
                                  basic_deliver, basic_ack / nack
                                               v
      consumer: on_message --add--> BatchBuffer --insert_batch--> bronze.raw_trades
                (main thread)        ^ timer threads                  |
                                                          dbt run: silver, gold
                                                                      |
                       Airflow DAG runs: dbt_run >> dbt_test >> lakehouse_export
                                                                      |
                                              Parquet files + ducklake.export_state

| component | state it keeps | operations | what is hard |
|---|---|---|---|
| `RabbitMQPublisher` (`producer/publisher.py`) | one channel, bounded `retry_queue` | `publish` (3 attempts), `close` | a channel that dies is never reopened; a confirm may be lost after the broker took the message |
| producer process (`producer/main.py`, `utils.py`, `ws_client.py`, `schemas.py`) | `attempt`, the websocket, `_shutdown_requested` | stream loop, backoff, drain, signal handler | signals during a sleep, a frame abandoned half-way, websockets left open |
| queue and DLQ | ready and unacknowledged messages | deliver, ack, nack, expire, overflow | requeue on a lost link, expiry of requeued messages |
| bootstrap (`infra/rabbitmq_setup.py`) | what the broker has declared | connect with retries, five declarations | it runs while the producer publishes, stops half-way, or runs twice |
| migration runner (`infra/migrate.py`) | `schema_migrations`, the schema | create the databases, apply each file in a transaction | two runs at a time, a lost answer to a COMMIT, the versions are read once |
| `TradeConsumer` (`consumer/consumer.py`) | the delivery in hand | `on_message`, `start`, `close` | the ack comes before the row is durable; an ack on a dead link |
| `BatchBuffer` (`consumer/batch_buffer.py`) | `buffer`, `_flushing`, `_timer`, `is_overloaded` | `add`, `flush`, `stop`, `_reset_timer` | main thread and timer threads flush through one connection; the lock is released during the insert |
| `TradeRepository` (`consumer/repository.py`) | one psycopg2 connection and its transaction | `insert_batch` | an exception leaves the transaction aborted |
| consumer process (`consumer/main.py`) | `_shutdown_requested` | start, `finally` block, signal handler | the final flush races a timer flush; SIGTERM is not acted on |
| dbt models (`dbt/models`) | silver, two gold tables | three models | late trades, strict comparisons with a watermark, two runs in the incremental model at once |
| export (`lakehouse/export.py`, `exporter.py`, `schema.py`) | `export_state`, Parquet files, the DuckDB file | full and incremental export, bookmark, catalog | a crash between two files, inside one or before the bookmark; a mark that is ahead of the data |
| DAG (`dags/crypto_pipeline_dag.py`) | the task of each run and its try | order, one retry | a retry of a task that has half succeeded; two runs at the same time |

Not modelled: the content of the catalog views, the S3 upload, the DAG callbacks
and the Metabase sync, metrics and logging, and of the deployment what is neither
the restart policy, the grace period nor the use of the two scripts; section 8
gives the reasons.

## 2. What makes each part correct

- Buffer: two flushes never overlap; a transaction holds the rows of one batch;
  what `add` accepted is in the table, in a batch or in the buffer, in order;
  the armed timer is the one `stop` would cancel; a full buffer is never left
  without a thread that will flush it; a buffered message is flushed.
- Consumer: a message leaves the system only when the process dies holding it
  after its ack; what a process loses is the last of what it took; a message
  that cannot be parsed reaches the dead-letter queue.
- Producer: a clean trade is lost only in ways that are known; short outages do
  not add up to giving up; SIGTERM ends the process, and in bounded time.
- Migrations: what took effect is a prefix of the files, each file once,
  whatever fails and however many run; exit status 0 means all is applied.
- Bootstrap: a message is never dead-lettered into nothing; a trade the broker
  took is in one of the two queues; exit status 0 means the topology is whole.
- Gold tables: after a `dbt_run` that no other overlapped, every row aggregates
  trades of its minute, and which it misses is known; the statistics table is
  exactly what silver says; what can take back what was aggregated is known: the
  strict watermark, one trade of a minute, and a run that was overtaken inside
  `gold_vwap_1min`, and nothing else.
- Export: the mark is set only when what was selected is on disk, and what is on
  disk up to the mark never changes after; no file is ahead of its table, with the
  same exceptions; no minute is exported twice unless an incremental export was
  interrupted; a run that no other overlapped exports only what its own tests
  looked at.

## 3. Modules

| module | models | notes |
|---|---|---|
| `TradeRepository` | `repository.py`, the connection, `bronze.raw_trades` | operators on `conn`, `txn`, `bronze`. `execute_values` and `commit` are two steps, since other threads run between them. The unique index makes the table a set |
| `BatchBuffer` | `batch_buffer.py`, extends `TradeRepository` | one action per `with self.lock` block and per database call; a program counter and a local `batch` per thread |
| `OrderedSink` | the abstract specification of the buffer | accepts messages, stores longer and longer prefixes of them |
| `MortalSink` | the abstract specification of the consumer process; extends `OrderedSink` | an ordered sink that dies and begins again, and acknowledges what it has accepted |
| `Broker` | the queue and its dead-letter queue, as their clients use them | outside the repository, from the arguments in `rabbitmq_setup.py` |
| `Consumer` | `consumer.py`, `consumer/main.py`; composes `BatchBuffer` and `Broker` | `repository.insert_one` is `buffer.add`, as `main()` sets it; crash, docker stop, restart |
| `Publisher` | `publisher.py` | one step per attempt of `publish` |
| `Producer` | `producer/main.py` and what it calls; extends `Publisher` | the coroutine's places are the values of `loc`; time is what the code sleeps |
| `Migrate` | `infra/migrate.py`, any number of runs at a time | one action per transaction or statement that the rest depends on; a run keeps the versions it read before its loop; a transaction waits for the one that inserts the same version |
| `Topology` | `infra/rabbitmq_setup.py`; extends `Publisher` and `Broker` | one action per declaration; the producer publishes meanwhile to an exchange that may not exist |
| `Setup` | step 4 of the README of the repository; composes `Migrate` and `Topology` | an operator runs one script at a time, in either order and as often as he likes: the second command line does not look at the first |
| `Warehouse` | the dbt models, bronze as they read it | a trade is the instant it was made at; a gold row is the set of trades it aggregates; `gold_vwap_1min` is `Base`, the trades it computes its rows of, and `VwapRun`, which puts the rows in place |
| `Lakehouse` | the DAG runs and the export; extends `Warehouse` | any number of runs; the export is at one of seven steps (`open`, `hwm`, `rmtree`, `select`, `write`, `bookmark`, `catalog`), and may raise or die at each |
| `ExportLog` | the abstract specification of the export | of each table a mark and the rows up to it, which grow in one step; `Lakehouse` takes many steps, and several runs, for one of them |
| `MCBatchBuffer`, `MCConsumer`, `MCProducer`, `MCSetup`, `MCLakehouse` | instances for TLC | symmetry sets and the frames of the producer |
| `BatchBufferProofs`, `ConsumerProofs`, `PublisherProofs`, `ProducerProofs`, `MigrateProofs`, `TopologyProofs`, `SetupProofs`, `LakehouseProofs` | theorems | section 6 |

Definitions whose comment begins with "Mutant:" are deliberate errors (a missing
reset, an untested flag, `>=` for `>`). None is used by a specification; each is
the change of one definition that a property is known to catch.

How state maps to code, where it is not the name: `accepted`, `acked`,
`waited`, `slept`, `interrupted`, `tested`, `overtaken`, `crossed` are history variables, and so is the
field `alone` of a DAG run; `routed` is what the broker took from the producer;
`phase` and `proc` are how far `main()` of the consumer is; `inbox` is the
prefetched deliveries; `ingested` is `max(ingested_at)` of silver, as a position
in bronze; `hwm` is `last_exported_at`; `job` is what Airflow knows of each run
and where its task is; `duckdb` is the process that has
`data/crypto_lakehouse.duckdb` open, of which DuckDB allows one.

Three abstractions of the code should be known to a reader of `Lakehouse`.

A dbt model is one step, except `gold_vwap_1min`. dbt computes the rows of an
incremental model into a temporary table and then deletes the rows they replace
and inserts them, in one READ COMMITTED transaction; two runs may be between
these statements together, and the one that inserts last wins, even with rows
that are older. So `ComputesVwap` and `BuildsVwap` are two steps, and any step of
another run may come between them, its own insertion too (`overtaken`, and
`crossed` once such rows were put in place). The other models need one step:
`stg_trades` inserts rows that are the same whenever they are computed, so two
runs in it end as they would one after the other; and `gold_trade_stats_1min`
is built as a new table under a name that the second transaction waits for.
Which models have run is part of `job`, so a task that fails between two models,
or inside `gold_vwap_1min`, leaves the ones before built.

A Parquet file is written to its final path. A task that raises or dies at the
step `write` may leave it cut short: the file is then not in `files`, whose rows
can be read, and its table is in `interrupted` (`LeavesFiles`), until a full
export removes the files. For a reader an unreadable file is as bad as rows
that are there twice, and neither is promised for such a table.

And `init_catalog`, which opens the DuckDB file a second time when the tables
are exported, is the step `catalog`: what it can do to the rest is to fail.

## 4. Runs

Runs that pass:

| run | properties | what it shows |
|---|---|---|
| `buffer_safety` | `TypeOK`, `OneFlushAtATime`, `TransactionIsOneBatch`, `ArmedTimerIsKnown`, `OverloadIsReal`, `NothingLost`, `FullIsAttended`, `ImplementsOrderedSink` | all interleavings of the main thread and timer threads with two database failures; the buffer implements the ordered sink |
| `consumer_safety` | `ConsumerTypeOK`, `TransactionIsOneBatch`, `NothingLost`, `UnackedIsNeverLost`, `ImplementsMortalSink` | the same invariants through crashes and restarts; a message disappears only with a process that had acknowledged it; each life of the process stores a prefix of what it took |
| `consumer_liveness` | `PoisonReachesDlq`, `FlushFollows` | dead-lettering, and that active threads or an armed timer flush what is buffered |
| `producer` | `ProducerTypeOK`, `OutlastsOutage`, `LossIsKnown`, `ShutdownBound`, `SigtermEndsProducer` | the three ways a clean trade is lost, the meaning of ten attempts, and the shutdown |
| `setup` | `SetupTypeOK`, `SchemaIsPrefix`, `SuccessMeansApplied`, `RoutedIsKept`, `BootSucceedsOnlyWhole`, `DeadLettersHaveTarget` | two operators migrate and bootstrap in any order and at the same time, each script failing anywhere and being run again, while the producer publishes |
| `lakehouse` | `LakehouseTypeOK`, `VwapIsComplete`, `StatsAreComplete`, `OnlyTestedIsExported`, `NoDuplicates`, `FilesFollowGold`, `GoldOnlyGrows`, `MarkFollowsWrite`, `ImplementsExportLog` | what the gold tables hold after a run and keep, what of them is exported, what the files hold when the mark is set, and that this never changes after |

Runs whose property is violated. The property is what a comment or a docstring
says; the counterexample is what the code does:

| run | property | what happens |
|---|---|---|
| `buffer_timeout` | `TimeoutFlushes` | the timer fires once on an empty buffer, `flush` returns early without re-arming it, and the next message waits for `batch_size` (`batch_buffer.py:97`) |
| `buffer_retry` | `RetrySucceeds` | after one failed statement nothing rolls the transaction back, so no retry succeeds (`batch_buffer.py:107`, `repository.py:87`) |
| `consumer_ack` | `AckImpliesPersisted` | the ack follows `buffer.add`, not the insert (`consumer/main.py:67`) |
| `consumer_drain` | `DrainedOnExit` | the final `flush` finds a timer thread flushing and returns; `main()` closes the connection under it (`consumer/main.py:76`) |
| `producer_loss` | `NoSilentLoss` | the channel breaks once, every later publish fails, the full retry queue drops its oldest (`publisher.py:118`) |
| `lakehouse_loss` | `NoMinuteLost` | the mark is the time of day, so a minute that reaches gold later than the mark is never exported (`export.py:117`) |

### Consequences

What follows from the same models, or was read off the code beside them, and has
no run of its own.

- Consumer. SIGTERM and SIGINT set a flag that nothing reads while
  `start_consuming` runs (`consumer/main.py:40`), so `docker stop` always ends in
  SIGKILL with the buffer in memory: the action `GraceOver`. A flush that ends
  after `stop()` arms a timer. `is_overloaded` is not raised when a failed batch
  comes back, and nobody reads it.
- Producer. The retry queue is never retried, so its drain always takes the
  whole `DRAIN_TIMEOUT_SECONDS` when anything is in it; `ShutdownBound` is 60 + 30
  seconds with the constants of the code, against a grace period of 35. A trade
  with a null `side` raises `AttributeError`, which only the outer handler
  catches, so the clean trades behind it in the frame are dropped (the third case
  of `LossIsKnown`).
- Bootstrap. Compose starts the producer when the broker is healthy
  (`docker-compose.yml:114`), which is before the exchange exists. The first
  publish then closes its channel, and the producer confirms nothing more until
  it is restarted, although the bootstrap succeeds meanwhile.
- Order of the scripts. `python infra/migrate.py` and
  `python infra/rabbitmq_setup.py` are two lines of the README (134-135), and the
  second does not look at what became of the first: `BootPart` is enabled whether
  the migration succeeded, failed or was never run. The queue may then deliver to
  a consumer whose table does not exist; its first `INSERT` fails, and leaves the
  transaction aborted as in `buffer_retry`.
- Gold. `gold_vwap_1min` does not aggregate a trade that arrives after one of a
  later minute, nor one exact on the minute when its row is computed again (the
  two cases of `VwapMissesOnly`). The first contradicts the comment of the model,
  "late-arriving trades for a window that's already been computed are still
  captured" (`gold_vwap_1min.sql:21-22`), which is so for the newest window only.
- Two runs inside `gold_vwap_1min`. A run that computed its rows before another
  one inserted, and inserts after it, replaces newer rows by older ones: the
  trades in between are gone from gold, and the next run does not bring them back
  when they are before its watermark. Parquet files that were exported meanwhile
  are then ahead of the table. Without the exception for this case TLC finds
  `GoldOnlyGrows` violated.
- Overlapping runs of the DAG. An export that finds the DuckDB file taken fails
  and is retried; `init_catalog` can find it taken when everything is exported
  and the marks are set, and then the whole export is repeated. A run that was
  overlapped may export what only the other one tested, or nobody.
- Interrupted export. "No data loss, no corruption" (`export.py:18-19`) is more
  than the code does. An incremental export that stops between its first file
  and its mark is repeated under new file names, so its minutes are there twice;
  and a file that is cut short (`exporter.py:123` writes to the final path) is
  one that a glob over the table cannot read. Only a full export removes either,
  and there is none once the mark is set. The models say which tables this can
  be (`interrupted`), and the properties hold of the others.
- Catalog and upload. `run_export` passes `data` as the base to `init_catalog`
  and to the S3 upload, while the exporter writes below `data/gold`
  (`export.py:163`, `export.py:86`): the views read, and the upload finds, no
  files. It is a constant path, which needs no model.

## 5. Bounds and fairness

Bounds are constants, named in the modules as such, and appear in guards only.

- **Buffer.** Three trades, three timer threads, `BatchSize` 2, five adds, two
  failures. Three timers let one wait, one be in a flush and one end late; a
  timer fires only while another is spare, which delays a firing but removes no
  order of the others. Five adds exceed 2 * `BatchSize`, so the overload flag
  goes up; two failures cover an aborted transaction that is then lost. Trades
  and timers are symmetric.
- **Consumer.** Two trades and a poison message, queue of 2, prefetch 2, three
  publishes, one crash, one link loss, one database failure, two timers: overflow,
  redelivery, a crash with rows in doubt and a restart all occur. Liveness uses
  one trade and no symmetry.
- **Producer.** Two clean trades, one invalid, one that raises otherwise; every
  frame of one or two of them, two frames, three failed publishes (one of them
  may break the channel, and then all fail), retry queue of 2, two websockets.
  `MaxAttempts`, `MaxReconnectAttempts`, `DrainTimeout` and `MaxDelay` have the
  values of the code.
- **Setup.** Two operators, each of whom migrates and bootstraps; one file
  shipped and one that may be added between two runs; two trades, a queue of one
  that they overflow, prefetch 1, one failed publish, one attempt per publish, a
  retry queue of 1, two connection attempts: two million states. Two runs at a time
  are enough for either to find at any statement what the other has just done;
  the proofs cover any number. Operators and trades are symmetric. No liveness is claimed:
  nothing makes an operator run a script again.
- **Lakehouse.** Three trades in two minutes of two ticks, the second exact on
  the first tick of a minute that it shares with the third; one window to a
  day, two runs of the DAG and one fault. Late and reordered trades, two files
  per export, a run that overlaps another at any of its steps, and an interrupted
  incremental export all occur; so does a run that is overtaken inside
  `gold_vwap_1min`, and a retry that fails, as an export that finds the DuckDB
  file taken fails without counting as a fault. These are 2.2 million states;
  two faults are too many for a regular run, and the proofs cover any number of
  faults and of runs. `lakehouse_loss` has four trades, two windows to a day and
  no fault.
  The runs of the DAG are symmetric. They may overlap because the DAG is hourly,
  sets no `max_active_runs`, and its executor runs tasks in parallel; `catchup`
  is off, but a run that takes longer than its hour, or one triggered by hand,
  does it.

Fairness is weak and per thread or per handler. `BatchBuffer.Fairness`: the
operating system runs each thread that can run, an armed timer expires, and a
database call returns or raises. `ConsumerFairness` adds that the broker
delivers on a link that is up, `main()` proceeds, docker ends the grace period
and restarts the process. `ProducerFairness`: an open stream brings a frame or
ends, blocking calls return, sleeps end, docker restarts. No failure, arrival,
expiry or signal is ever fair, so no property relies on one. The safety runs,
`Setup` and `Lakehouse` assume nothing. `CHECK_DEADLOCK FALSE` is set everywhere
because each system may rest: a buffer that is stopped, a container that docker
stopped, scripts that have ended, a DAG between two runs, or the end of a bound.

## 6. Proofs

Every theorem holds for arbitrary sets of messages, trades, threads, runs and
operators (of trades in `Warehouse`: any finite set of instants), and for every
value of the limits and bounds. The assumptions are the
`ASSUME`s of the modules: limits are natural numbers, positive where zero would
make no sense, and names of different things differ. Two need a word.
`ProducerAssumption` says a frame is a non-empty sequence of trades: a frame
without a trade changes nothing. `PowerAssumption` says that `2^n` is a natural
number, which is true and which none of the provers knows.

In each proof there is a lemma per action or group of actions, the inductive
invariant is a conjunction of named parts, and a part is proved from the ones
before it.

### Buffer: `BatchBufferProofs`

| theorem | statement |
|---|---|
| `TypeCorrect` | `Spec => []TypeOK` |
| `MutualExclusion` | `Spec => []OneFlushAtATime` |
| `NoForgottenTimer` | `Spec => []ArmedTimerIsKnown` |
| `NoFalseAlarm` | `Spec => []OverloadIsReal` |
| `TransactionsDoNotMix` | `Spec => [](TransactionIsOneBatch /\ BatchesAreInserts)` |
| `AcceptedIsKept` | `Spec => []NothingLost` |
| `FullIsNeverAlone` | `Spec => []FullIsAttended` |
| `Refinement` | `Spec => ImplementsOrderedSink` |

The argument goes in that order. `_flushing` is up exactly while one thread is
between taking a batch and the `finally` block, which follows from types alone
and is inductive. With it, at most one thread has a non-empty batch
(`BatchesAreInserts`: outside the insert a thread's batch is empty), so the open
transaction can only hold the rows of that batch (`TransactionIsOneBatch`).
`NothingLost` is not inductive without both: that the rows a commit makes
durable are the batch it drops needs `TransactionIsOneBatch`, and that putting a
batch back in front keeps the order of arrival needs that no other thread took
one in between. `FullIsAttended` is inductive given `OneFlushAtATime`: the one
step that lets a thread go idle beside a buffer that is not empty is the early
return of a flush that found another one in progress, and that one always ends
by arming a timer. It is the safety half of `FlushFollows`. The refinement
needs one invariant more, that the table is a prefix of what was accepted; then
a batch whose commit is pending is the next part of that prefix
(`PendingIsPrefix`), so a commit extends it (`CommitKeepsPrefix`), and every other step leaves the table alone or accepts a
message (`StepIsSinkStep`).

### Consumer: `ConsumerProofs`

| theorem | statement |
|---|---|
| `ConsumerTypeCorrect` | `ConsumerSpec => []ConsumerTypeOK` |
| `BufferInProcess` | `ConsumerSpec => [](TransactionIsOneBatch /\ NothingLost)` |
| `UnackedIsKept` | `ConsumerSpec => UnackedIsNeverLost` |
| `TimersInProcess` | `ConsumerSpec => [](OneFlushAtATime /\ ArmedTimerIsKnown /\ OverloadIsReal /\ FullIsAttended)` |
| `ConsumerIsMortalSink` | `ConsumerSpec => ImplementsMortalSink` |

A step of `Consumer` is a step of the buffer, leaves the buffer alone, or is the
end or the beginning of a process; so the step lemmas of `BatchBufferProofs` are
used again, and only the last case is new. The broker has invariants of its own
(`BrokerInv`): the queue and the unacknowledged deliveries keep to their limits,
and when the link is lost, what the process still has in hand is back at the
broker (`Requeued`). `UnackedIsNeverLost` then needs two facts about
the process. `Owes`: at the ack, the message is in memory or in bronze already.
`Backed`: everything in memory was acknowledged or is still at the broker, so
the death of the process takes with it only what was acknowledged.

The consumer does not implement `OrderedSink`: a death empties what was
accepted, and the table then holds parts of several lives. `MortalSink` says
what is left of the promise. The map from `Consumer` is the identity but for
`stored`, which is the table. A death is the one hard step of the refinement, as the
transaction it interrupts may be committed by the server: by
`TransactionIsOneBatch` and `PendingIsPrefix` its rows are the next part of what
this life accepted (`DeathStores`). That only accepted messages are acknowledged
needs `HandledIsAccepted`: between `add` and the ack the delivery in hand is one
that the buffer of this very process accepted. `TimersInProcess` needs that a
process that is gone left no flag up (`GoneIsQuiet`).

### Producer: `PublisherProofs`, `ProducerProofs`

| theorem | statement |
|---|---|
| `ProducerTypeCorrect` | `ProducerSpec => []ProducerTypeOK` |
| `LossesAreKnown` | `ProducerSpec => LossIsKnown` |
| `GivesUpOnlyAfterOutage` | `ProducerSpec => []OutlastsOutage` |
| `ShutdownIsBounded` | `ProducerSpec => []ShutdownBound` |

`PublisherProofs` has the lemmas about `publish` that `Producer` and `Topology`
share. `LossIsKnown` is about single steps and needs `StreamInv`: the frame in
hand is what is left of the frame that was received, and a publish in progress is
one of its first trade. `OutlastsOutage` needs `LadderInv`, that the sleeps since
the last connection are the first `attempt` rungs of the ladder 1, 2, 4, ...; the
reset of `attempt` after a connection is what keeps it. `ShutdownBound` needs
`WaitInv`: what was waited since the signal, by the place the coroutine is at.

### Setup: `MigrateProofs`, `TopologyProofs`, `SetupProofs`

| theorem | statement |
|---|---|
| `MigrateTypeCorrect` | `MigrateSpec => []MigrateTypeOK` |
| `MigrationsInOrder` | `MigrateSpec => []SchemaIsPrefix` |
| `ExitStatusIsHonest` | `MigrateSpec => []SuccessMeansApplied` |
| `DeadLettersArrive` | `TopologySpec => DeadLettersHaveTarget` |
| `NothingRoutedIsLost` | `TopologySpec => []RoutedIsKept` |
| `BootStatusIsHonest` | `TopologySpec => []BootSucceedsOnlyWhole` |
| `SetupImplementsMigrate` | `SetupSpec => MigrateSpec` |
| `SetupImplementsTopology` | `SetupSpec => TopologySpec` |
| `SetupTypeCorrect` | `SetupSpec => []SetupTypeOK` |

`MigrateInv` says that every file a run has behind it is applied, by it or by
another run; that an open transaction is about a file that is not recorded; and
that no two are about the same one. So an open transaction is about the first
file that is missing, which is why the schema stays a prefix. The primary key of
`schema_migrations` is what the last two parts rest on. `TopologyInv` says that each run has declared the steps
it has behind it, so the queue is bound, which is the last step, only when the
dead-letter side is whole; and that nothing is in the queue before it is bound. The
composition implements both parts, so their theorems carry over. It adds no
property of its own: nothing in the code ties one script to the other.

### Lakehouse: `LakehouseProofs`

| theorem | statement |
|---|---|
| `LakehouseTypeCorrect` | `LakehouseSpec => []LakehouseTypeOK` |
| `VwapComplete` | `LakehouseSpec => []VwapIsComplete` |
| `StatsComplete` | `LakehouseSpec => []StatsAreComplete` |
| `OnlyTested` | `LakehouseSpec => []OnlyTestedIsExported` |
| `NoMinuteTwice` | `LakehouseSpec => []NoDuplicates` |
| `MarkFollows` | `LakehouseSpec => MarkFollowsWrite` |
| `GoldGrows` | `LakehouseSpec => GoldOnlyGrows` |
| `FilesAreBehindGold` | `LakehouseSpec => []FilesFollowGold` |
| `ExportIsLog` | `LakehouseSpec => ImplementsExportLog` |

`TablesInv` is about the tables alone and holds under any overlap of runs:
silver is the first `ingested` rows of bronze, and a gold row aggregates trades of
its minute only. `VwapInv` is about `gold_vwap_1min` and the rows on their way to
it. Unless a run crossed another there, there is some number of rows of bronze of
which the table misses only what its watermark shuts out, those that silver had
when its rows were computed (`SeenInv`); and what a run that was not overtaken
has still to put in place was computed from the table as it is now, from at least
as many rows (`ComputedOf`). The second half is what makes the first inductive:
putting such rows in place is then the same as computing and inserting in one
step. `AloneInv` is about
a run with no other beside it: what it has built was not changed since, and what
it tested is what there is. `ExportInv` is about the one run that has the
DuckDB file: what it selected is in the files or in the rows it has yet to
write; and a row in the files that is newer than the mark belongs to the export
in progress, unless one was interrupted. That the lock makes
the writer of a table unique is what lets the marks and the files be reasoned
about run by run; without it `NoDuplicates` fails.

`GoldOnlyGrows` rests on `TablesInv` and on `ComputedOf`: the rows of a run that
was not overtaken were computed from a silver that had all the table aggregates,
so a row they replace can lose no trade but one that the strict comparison with
the watermark excludes (`VwapRunLosesOnlyExact`). A run that was overtaken can
take trades back, and is the exception that the property names. The files are
then behind gold by induction, as long as nobody crossed, once the invariant
also speaks of the rows that an export in progress has selected and not yet
written (`BehindInv`).

`ExportIsLog` maps the log of a table to the rows of its files up to the mark
(`Vouched`). Most steps of an export change files and stutter in the log, which
is what has to be shown of them: a file that is written holds rows after the
mark only (`LogDoesNotSeeWrites`); the files are removed only of a table
that has no mark (`TreeInv`), of which the log is empty (`NothingVouched`); and
a run that raises or dies with files half written tears the table. The commit is the
step `SetsBookmark`: what enters the log with it are the rows newer than the
old mark, of which `ExportInv` says that there is one for a window, unless the
table is torn (`LogCommits`).

### What is only model-checked

Liveness (`SigtermEndsProducer`, `PoisonReachesDlq`, `FlushFollows`): it depends
on fairness and `ENABLED`, which is out of the reach of the prover. Every
invariant, every action property and every refinement of the passing runs is proved. The
violated properties are counterexamples and have nothing to prove.

## 7. Plan

1. *Done.* Buffer and repository, checked, refined and proved; broker and
   consumer; publisher and producer; warehouse and lakehouse.
2. *Done.* Overlapping runs of the DAG, on the same tables, marks and files.
3. *Done.* Migration runner and topology bootstrap, and their composition with
   the producer's publisher and the queue.
4. *Done.* Proofs of the safety of all of them.
5. *Dropped.* One module with the producer, the broker and the consumer. Its
   state space is the product of two that are large already, and the interfaces
   are covered: `Topology` composes the publisher with the queue, `Consumer` the
   queue with the buffer.
6. *Done.* Abstract specifications of the consumer process and of the export,
   with `Consumer` and `Lakehouse` as their refinements, checked and proved.
7. *Open.* An abstract specification of the producer (a source that loses a
   trade in three ways), of which `LossIsKnown` states the promise about single
   steps.

## 8. What is not modelled

- `TradeRepository.insert_one`: `main()` replaces the repository by the buffer,
  so the running program never calls it.
- Field rules of `TradeMessage`, arithmetic of the gold tables and dbt's tests:
  functions of one row; a trade is classified by what its validation does, and
  `dbt_test` is a task that succeeds or fails.
- What a migration file contains: one effect, applied or not.
- Statements of two dbt processes inside one model, where they are finer than
  section 3 says. The `DELETE` and the `INSERT` of two runs of `gold_vwap_1min`
  may interleave when both insert a minute that the table does not have yet, and
  leave two rows of it, which the `unique` test on `window_start` finds; the
  model has one row to a minute. A run whose model is created for the first time
  beside another one fails, which is `TaskDies`. And the snapshot of
  `gold_trade_stats_1min` is taken moments before its name is claimed, which the
  model counts as one.
- The bytes of a Parquet file: one that is cut short is recorded only by its
  table being in `interrupted`. No decision of an export depends on a file that
  was written: `_count_exported_rows` (`export.py:68`) reads them for a number to
  report, and takes an unreadable file for no rows.
- One consumer at a time, and clocks that agree.
- The content of the views of `lakehouse/init_catalog.py`, and `s3_uploader.py`:
  no state that another part reads.
- How long a websocket that was left open stays open: the keepalive of the
  library bounds it. The model counts the open ones.
- Metrics, logging, callbacks, Metabase: nothing decides on them.
- RabbitMQ's persistence across broker restarts, and its memory limits: the
  broker is modelled as the consumer sees it, and it keeps what it has.
