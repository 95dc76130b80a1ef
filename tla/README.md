# Verification of the monitoring data lake

TLA+ models, model-checking runs and machine-checked proofs for the data path of
this repository: Zabbix and OBM data on their way into PostgreSQL.

    Zabbix ──▶ collectors (3 Airflow DAGs) ──┐
                                             ├─▶ pending/*.json ──▶ generic_postgres_writer ──▶ PostgreSQL
    OBM agents ──▶ nginx ──▶ webservice ─────┘                       (Airflow DAG, every 5 min)
                              └─▶ raw archive, quarantine, JSONL

Everything meets in one directory of an NFS export. There is no queue, no lock
and no transaction that spans a file and the database: correctness rests on file
names, on `os.replace`, on the order of calls, and on `ON CONFLICT`.

## 1. Inventory

| Component | State it keeps | Operations | Talks to |
|---|---|---|---|
| Generic writer `dags/generic_postgres_writer.py` | nothing between runs but the files; in a run: snapshot of the directory, counters, payload, one connection | `process_pending`: glob and sort, budget, read, validate, `_ensure_table`, `_insert`/`_upsert`/`_copy`, remove, annotate | reads, removes and rewrites `pending/`; PostgreSQL |
| History collector `dags/zabbix_history_collector.py` | Airflow's record of the runs; in a run: item map, window, records | build the item map, `history.get` per type and chunk, write one file | Zabbix API; `pending/` (in place) |
| Inventory collector `dags/zabbix_data_collector_v2.py` | as above | list ids, details by chunk, macros and tags by chunk, reshape, write one file | Zabbix API; `pending/` (in place) |
| Metadata collector `dags/zabbix_metadata_collector.py` | as above | list ids and details by chunk, for templates and items; one file each | Zabbix API; `pending/` (tmp + rename) |
| Receiver `data-collector-webservice/app` (`api/ingest.py`, `services/*`) | raw archive, quarantine, JSONL file | certificate check, size, JSON, archive, normalize, quarantine, sinks, answer | OBM agents; `pending/` (tmp + rename) |
| Normalizer `sources/obm_agent/normalization.py` | the mapping | envelope, metric pairs, class, target table, metric mapping | called by the receiver |
| Staging builder `sources/obm_agent/staging.py` | table schemas from the mapping | group by table, rows, meta | called by the staging sink |
| SQL, views, Grafana, deployment | – | declarative | – |

What makes each of them hard, and what makes it correct:

* **Writer.** It runs while producers write, replace and rewrite files; it can
  be killed between any two calls; commit, remove and annotate are separate.
  Correct: no published file is lost; a file is not loaded again without a
  reason; a repeated load of a keyed table is harmless; a keyed row does not go
  back to an older snapshot; a poison file does not stop the others; the summary
  accounts for every file. Its load transactions meet those of another writer when
  Airflow has given up a task that is still running: each must take effect as a
  whole or not at all, and none may wait for ever.
* **History collector.** Time passes between all calls, values arrive late, items
  are switched, tasks are retried, runs can be skipped. Correct: no value falls
  between the windows of two runs in a row. Whether that is so depends on the data
  intervals Airflow passes: it holds with those of Airflow 2, and not with the empty
  ones that Airflow 3.0 gives a cron schedule by default (section 3, `HistoryWindow`).
* **Inventory and metadata collectors.** Zabbix changes between the listing and
  each chunk. Correct: one record of each entity, parts not out of order. The
  inventory file is written in place while the writer may take it, and the order of
  the files is that of their names. Correct: the table follows Zabbix and does not
  go back.
* **Receiver.** Several workers, partial failures of three kinds of storage, lost
  answers, repeats. Correct: 200 means kept; a refusal means nothing stored;
  everything can be derived from the raw archive; the flag tells the truth.
* **Normalizer and builder.** A tolerant parser whose rules overlap. Correct: every
  metric of a record that has its metrics in one place, as the contract asks, and a
  class with a table is in exactly one place of one row; no row holds what was not
  posted; all files of a table have the same columns. (A single record with its
  metrics under `data` is an exception, see `ShapingData`; a record with metrics in
  two places loses those at the top level, see section 3.)
* **COPY text.** Three escaping conventions on top of each other. Correct: a value
  is stored as it was sent.

The hazards behind these properties are listed, with their source lines, in
`PROJECT.json` (`hazards`).

## 2. Modules

| Module | Models | EXTENDed by |
|---|---|---|
| `GenericWriter` | writer, `pending/`, the publication step of all producers | `MCGenericWriter`, `GenericWriterProofs` |
| `Delivery` | abstract: a channel that delivers at least once; `GenericWriter` implements it | (`INSTANCE`d by `GenericWriter`, proofs in `GenericWriterProofs`) |
| `LoadTransaction` | the database side of a load, statement by statement, several writers | `MCLoadTransaction`, `LoadTransactionProofs` |
| `AtomicLoads` | abstract: loads that take effect as a whole, one after the other; `LoadTransaction` implements it | (`INSTANCE`d by `LoadTransaction`, proofs in `LoadTransactionProofs`) |
| `CopyText` | the text of `_build_tsv` and how COPY reads it | `MCCopyText`, `CopyTextProofs` |
| `HistoryCollector` | runs, windows and chunks of the history collector | `MCHistoryCollector`, `HistoryCollectorProofs` |
| `PagedFetch` | ids first, then details by chunk: all collectors | `InventoryCollector`, `PagedFetchProofs` |
| `InventoryCollector` | the inventory from Zabbix to its table: fetch, file, writer | `MCInventory`, `InventoryCollectorProofs` |
| `Ingestion` | the receiver, request by request, worker by worker | `MCIngestion`, `IngestionProofs` |
| `ObmShaping` | normalizer and staging builder | `MCObmShaping`, `ObmShapingProofs` |

Every module opens with what its state stands for; the `map` of `PROJECT.json`
gives the source lines of every definition. A few conventions hold throughout:

* An action ends where another process, a crash or a failing call can come in
  between. `ReadFile` is the open, the parse and the checks; `EnsureTable` and
  `Load` are separate because they commit separately; `RemoveFile` is separate
  from `Load` because the file outlives the commit; the annotation is two steps
  because `open(..., "w")` truncates before `json.dump` writes.
* Failures are actions of their own, limited by `MaxFaults` or `Retries`. A call
  may fail before its effect, after it (`CommitUnacknowledged`), or be cut short
  by the end of the process.
* History variables (`redo`, `damaged`, `retired`, `gone`, `manuals`, `unheard`) only
  record what happened, for the properties to speak about it. No guard reads them, except
  that a client repeats what was `unheard`. In `ObmShaping` a record and a row carry the
  place of their element in the body (`of`) for the same purpose.
* Definitions that are commented as slips are single wrong turns of the code (no
  sort, no overlap, one retry too many). No specification uses them; they serve
  to see that each property notices.

### GenericWriter and the code

`Batch` is one producing attempt with its `FileOf`, `Meta` (table, method,
conflict target, columns, `add_updated_at`) and the `Keys` of its rows; batches
with the same file are a task and its retry, which derive the name from the same
run id. `content[f]` is a batch, `Torn` (unparsable), `Stub` (only `_error`) or
`Absent`. A producer is atomic (`PublishAtomic`: webservice, metadata collector)
or `Direct` (`DirectOpen`, `DirectClose`, `DirectDie`: history and inventory
collectors). `linked` says whether the file the writer has opened for the
annotation is still the one its name leads to.

The database is reduced to what loads depend on: columns and key of a table as
its first file made them (`schema`), the owner of each keyed row (`row`), and the
number of committed loads of each batch (`commits`), which for tables without
a key is the number of copies of its rows. `Accepts` is what PostgreSQL demands.
Tables created beforehand by `sql/` behave as if a file with the right shape had
come first.

`KeptUntilLoaded` speaks of batches published atomically under a name of their
own (`Sole`). For the others it does not hold, which `WriterLoss` shows.

### Delivery

What a producer gets from the directory and the writer together: a batch is new,
waiting, settled or lost; it is delivered while all deliveries before are in doubt,
is settled only after one that is not, and gets lost only when a failure has put it at
risk. `ChanOf` maps the state of `GenericWriter` to this for each batch of `Soles`: a
batch is waiting while its file holds it, or while the annotation is about to write it
back (`Custody`); `commits` are the deliveries, `redo` the doubts, `damaged` the
risk. So a poison file waits for ever, a removed file never comes back, and nothing
is loaded once it has been removed. In-place producers and shared names run
alongside, but are not mapped: for them the channel's promise is false (`WriterLoss`).

### LoadTransaction and AtomicLoads

`GenericWriter` takes a load as one step. `LoadTransaction` justifies that: a
*session* is one writer with one file, two sessions with the same batch are a task
that Airflow has given up and its successor. The state of the server is the committed
rows, the rows each open transaction has written (`dirty`, which are also its locks,
as READ COMMITTED has them) and the staging tables. `WriteRow` is one row of
`execute_values`, COPY, or `INSERT ... SELECT`: it waits for a row of another open
transaction, and then is refused (`Refused`), skipped (`DO NOTHING`) or written. The
de-duplication of `_upsert` decides which rows are sent (`IsFirst`) and with which
values (`LastLike`); `touched` is what PostgreSQL remembers of one page of an upsert,
which may not touch a row twice. Two creators of the same table, two staging tables
of the same name (`ms % 1000000`), circles of waiting transactions and the victim
PostgreSQL picks, the rollback and the clean-up of `_copy`, lost connections and
unheard commits are actions. `AtomicLoads` is the promise: the table changes by whole
loads, in some order, each as if alone, and a load that is reported done has happened.

### InventoryCollector

Extends `PagedFetch` by what happens to its result: `Snapshot` is what
`format_and_clean` leaves of it (a run by hand may ask for the hosts of some groups),
`OpenFile` and `CloseFile` are `write_pending`, in place and again on a retry.
`pending` is the sequence of the files in the order of their names, which begin with
the kind of the run id: `manual__...` sorts before `scheduled__...`, whatever their
time (`Place`). The writer is reduced to its listing and one step per file; it may
find a file `Torn`, which spoils it for ever, and a file that fails goes back for the
next run. A host is reduced to the version of its configuration, a row of
`zabbix_inventory` to the version it was written from.

### HistoryCollector, PagedFetch

A run is named by the end of its data interval, for a scheduled run a tick of the
schedule. `StartScheduled` has `catchup=False`: only the latest tick can be started.
The code takes `data_interval_start` and `data_interval_end` as it gets them, and the
DAG gives its schedule as a cron string, so that their distance is decided by Airflow:
one period under Airflow 2 (and under Airflow 3 with `create_cron_data_intervals`),
nothing under Airflow 3.0 as `README.md` and `airflow/values.example.yaml` have it. This
external choice is the constant `Span`, and the window is `[end - Span - Overlap, end]`.
`WindowsCover` says when windows in a row leave nothing out. A run by hand has such an
interval too (`StartManual`), or none when it has no logical date, and then the window
ends with the moment `fetch_history` runs. A task that
fails is repeated from its beginning up to `Retries` times; the repeated
`fetch_history` computes its window again (it is the same with a data interval,
another one without). `HistoryCollector` takes the item map as one step;
`PagedFetch` is the fine-grained version of that fetch.

`PagedFetch` reduces what a call returns to the version of the entity it saw.
With `TwoPasses` it is `fetch_raw_hosts`, without it is `fetch_templates`,
`fetch_items` and `fetch_item_map`. That ids and chunks have no duplicates comes from
the external API; `seen` in the code is a second line of defence that is not
modelled.

### Ingestion, ObmShaping, CopyText

`Ingestion` reduces a payload to the tables of its records and four Booleans
(unknown class, weak identity, normalization raises, state at the door).
`handle_metrics` is asynchronous but `ingest` is not, so a worker finishes one
request before it takes the next. `strict` and `mtls` are settings: the initial
state chooses them and no step changes them.

`ObmShaping` is the step `Normalize` and the content of the files in detail. The two
loops of the code are two loops of the model: `normalize` goes through the elements of
the body (`reached`) and makes a record of each that is an object (`SkipElement`,
`NormalizeRecord`), `build_staging_payloads` goes through the records (`grouped`) and
appends a row to the file of the record's table (`GroupRecord`). The properties speak
of the records as they were posted (`Posted`, `MetricsOf`, `ClassesOf`), not of what
`Body`, `Pairs` and `Detected` make of them: what the extraction loses would be
invisible otherwise. `InOnePlace` is the "either ... or" of `docs/API_CONTRACT.md`,
`Mistaken` the single record that is taken for an envelope.

`CopyText` is the step `Load` of an append-only table in detail. The conversions are the
subject, so its texts are sequences of characters: the special ones, `n`, `t`, `r` and
`N`, and `Letter` for all that need no escape. `WriteLine` is one turn of `_build_tsv`;
the buffer keeps apart what each character of a value has become. PostgreSQL, which is
external, reads the buffer character by character (`ReadText`) by two automata: `Scan`
splits the text into fields and rows and takes the escapes of COPY away, `JsonScan` reads
what is left in the JSON column. `Copy` then stores all rows or none.

## 3. Runs

Passing runs:

| Run | Instance | Shows |
|---|---|---|
| `WriterDelivery` | 3 inventory snapshots in 2 files and 2 overlapping history windows, written in place; a metadata file, two OBM requests with different columns for one table, an empty file, published atomically; each of the three kinds with 2 faults, the first two together without, fairness | `ImplementsDelivery`, `Delivered`, `CopiesBounded`, `KeptUntilLoaded`, `Accounted`, `ReloadIsIdempotent`, `NoRegressionWithoutFaults`, `TypeOK` |
| `LoadTwins` | a given-up writer and its successor with the same file, in which a key is repeated, and a third writer with the same keys in another order; pages of 2, all methods, 1 fault, fairness | `LoadsAreAtomic`, `UpsertsFit`, `NoStagingLeft`, `TwinsDoNotDeadlock`, `AllLoaded`, `TypeOK` |
| `IngestMixed` | 2 workers, 4 requests (a repeat, a weak one, an unverified one that breaks), `strict_validation` and the certificate check on and off, 2 faults, fairness | `TypeOK`, `AcceptedIsKept`, `ArchivedFirst`, `FlagIsTrue`, `RefusedStagesNothing`, `Settled` |
| `HistoryGaps` | data intervals of one period (`Span = Interval`); 2 items, 2 values, interval 2, overlap 1, 6 instants | `TypeOK`, `NoGapBetweenRuns` |
| `Inventory` | 3 hosts in chunks of 2 through a fetch, or one host through any number of runs; 2 pending files, 2 faults, fairness | `InventoryTypeOK`, `CompleteOnce`, `PartsInOrder`, `RowsGetNewer`, `Converges` |
| `ShapingMixed` | 48 records in every envelope, with a second one, two requests in a row | `TypeOK`, `EveryRecordStaged`, `SameColumns` |
| `CopyPlain` | texts of up to two of eleven characters, one and two rows | `PlainBatchesLoad` |

Runs that refute what a document, a comment or a test says; each is a finding
in `PROJECT.json`:

| Run | Refuted | By |
|---|---|---|
| `WriterLoss` | a failed file is kept for the next run (`docs/STAGING_FORMAT.md`) | a file read while its collector writes it is overwritten by an error stub |
| `HistoryWindow` | deriving the window from the data interval avoids gaps (`docs/ARCHITECTURE.md`) | with the empty intervals of Airflow 3.0 (`Span = 0`) a window is only as long as the overlap: two runs in a row succeed and the values between their windows are in no file; the example in `docs/STAGING_FORMAT.md` has such a window, 60 s that end on a 5-minute mark |
| `IngestSoft` | quarantine writes fail softly (docstring) | they are not caught |
| `ShapingData` | metrics may lie under `data` (`docs/API_CONTRACT.md`) | a single such record is taken for an envelope |
| `CopyEscapes` | unknown metrics are never dropped (test) | JSON escapes do not survive the COPY text |

Five behaviours are known and not runs of their own:

* A record that has metrics in a wrapper *and* at the top level loses the latter
  (`_extract_metric_pairs` returns the wrapper and looks no further), although the
  docstring of `normalization.py` promises that unknown metrics are not dropped;
  `docs/API_CONTRACT.md` excludes such records. `EveryRecordStaged` claims all metrics of
  records that keep to the contract; of the others that the wrapper's metrics and the
  identity are kept; of all, that nothing is made up. A single record under `data` is
  outside the first two claims (`ShapingData`).
* After a failure an older inventory snapshot can be upserted over a newer one, since a
  failed file is retried later and the upsert does not look at ages.
* The file of a run by hand is loaded before the files of scheduled runs that wait, also
  when it is newer than they are, so that they take its rows back.
  `NoRegressionWithoutFaults` and `RowsGetNewer` state what holds otherwise, `Converges`
  that a later scheduled run heals this and the behaviour before it.
* Files are taken in the order of their names, which begin with their source, so "oldest
  first" (comment in `process_pending`) holds only within a source.
* What a run that was skipped or failed for good would have read is not collected later
  (`catchup=False`), although `docs/ARCHITECTURE.md` speaks of backfilling;
  `NoGapBetweenRuns` speaks of ticks in a row whose runs succeeded.

### Bounds

`MaxFaults` of two is enough for a fault in each of two attempts at one file, or
one on each of two files; all properties of the writer relate at most two
batches and one file that stands in between, hence two to five batches at a time: the
state constraint `Bounded` of `MCGenericWriter` follows those of one kind with two faults,
and all that are written in place, backlog and all, without any. It cuts off only
publications and faults, which no fairness forces, so that the liveness check is not
affected. The writer
keeps no state between runs but the files, so longer histories only repeat. `HistoryGaps`
has just time for two whole periods and a late start of the second run;
the overlap equals the largest delay, the tightest case that `WindowsCover` admits; the two
items are alike (symmetry). Requests of
two tables with two failures cover a partial sink failure followed by a failing
quarantine. Chunks of two over three entities give a full and a partial chunk;
a fetch with one pass is the first half of one with two.
`MCInventory` follows either several hosts through one fetch (with at most one
failed call and one edited host, until the first file is opened) or one host through
all runs, files and loads (`Bounded`, a state constraint): rows of different hosts do
not depend on each other, only a listing has more than one. Two versions of a host
are enough to see a row go back, two pending files to see them out of order. For
`LoadTwins`, three writers over three keys close every kind of circle (two or three
transactions), and a repeated key within a page and across two pages of two rows; one
fault can hit any statement, its repetition goes through all later ones. One staging
name makes every pair of sessions meet on it. Two characters are the shortest texts in which a
character can change the meaning of the next one.

### Fairness

* `StepFairness`: the scheduler starts runs and a running task goes on (Airflow,
  `*/5 * * * *`); a collector that has opened its file closes it or dies.
* `BudgetFairness`: strong fairness for the reading of each file that is published
  atomically under a name of its own, as `Delivered` is about these. Nothing in the
  code guarantees it: it is the assumption on load and time budget under which
  delivery holds. Without it a file that sorts late can be deferred by every run,
  when the files before it, poison files among them, use up each budget.
* `Fairness` of `LoadTransaction`: writers go on, PostgreSQL resolves deadlocks, and a
  transaction that waits for a row or a name is queued for it (strong fairness): the
  one it waited for, when it is repeated, does not overtake it every time. Lost
  connections are bounded, deadlock victims are not: that the same writers do not
  make a circle for ever follows.
* `InventoryFairness`: the tasks and the writer go on; the schedule starts runs of its
  own also when others are started by hand (`CloseFile("scheduled")`); and it does not
  happen to every scheduled run that the writer takes its file in the moment it is
  being written (`Undisturbed`). The code does not exclude the latter, it is the
  assumption under which a torn inventory file is only a delay.
* `Serve(w)`: a worker goes on with its request. Clients are not assumed to
  repeat anything, and no failure is assumed to happen.

## 4. Proofs

All theorems hold for every value of the constants that the named assumptions
admit. TLC has checked the invariants below on the instances first.

`GenericWriterProofs` (from `BatchAssumption`, `FileAssumption`,
`ShapeAssumption`, `SentinelAssumption`):

* `TypeCorrect`: `TypeOK`, inductive as it stands.
* `NoUnexplainedDuplicates`: `CopiesBounded` is not inductive, since a load that
  is about to happen could be one too many. The strengthening counts it: a batch
  that is still to be loaded from the writer's memory, or that still lies in a file,
  has `commits <= redo`, and the batch in memory is one of the file being handled.
* `NoLossWhileAtomic`: the invariant adds that a file of a `Sole` batch holds
  nothing but this batch, an annotation in progress or what is left of a damaged
  one, and that the payload in memory is that of the current file.
* `HistoryReloadIdempotent`: from the invariant that once a batch has been loaded
  all of its keys have an owner, so that `DO NOTHING` does nothing.
* `SummaryAccountsForEveryFile`: a sum of counters and cardinalities, with
  `FiniteSetTheorems`.

* `RowsNeverGoBack`, that is `NoRegressionWithoutFaults`, for batches in `SnapshotOrder`:
  those of a table with upserts are taken one after the other, under names in that order, as
  scheduled runs of one collector are. It is a hypothesis of the theorem and not an
  assumption of the module, because runs started by hand break it (see `InventoryCollector`);
  the instances of `MCGenericWriter` have it. `CalmInv` holds until the first failure: a
  name in a listing shows that all older snapshots were there when it was made (`Origin`,
  `InTurn`); an older file is still to be taken, or is refused for good (`Passed`, `AtFile`,
  `OnHand`); and what is older than a row is not met any more (`Overtaken`).
* `WriterImplementsDelivery`, the refinement. To the invariants above, `ChannelInv` adds
  `DoubtInv`, by which the counts tell exactly which load is in doubt (between commit and
  removal there is one delivery more than doubts), and `HandInv`, by which the text of the
  file being handled is the batch in memory, or is being written back. The lemmas
  `Mapped...` say when a step is which step of the channel, `Unnoticed` when it is none;
  `ProducerMaps`, `WriterMaps` and `FailureMaps` then place every action. A publication is
  `Submit`, a commit `Deliver`, one that is not heard of `DeliverUnheard`; a removal is
  `Settle`, one that fails after the commit `Doubt`. A failing read and an annotation cut
  short are `Endanger`. Removing the file of a batch at risk, and an annotation that is
  opened over a file which still holds such a batch when the writer does not, are `Lose`.

`LoadTransactionProofs` (from `LoadAssumption`): `LoadTypeCorrect`, `UpsertsAlwaysFit`,
`StagingIsTemporary`, `TwinsTakeTurns` and the refinement `LoadsImplementAtomicLoads`. `LoadInv` says what
an open transaction has in its hands: no two have written the same row (`RowLocks`),
what it has written are the rows it has sent so far (`Written`), every row it has sent is
there or was skipped because the table has its key (`Arrived`), and rows of a plain
insert are each of a key of their own (`Single`). When all rows are sent, this is
`Loaded` of the whole file: a commit is the one step of `AtomicLoads` (`CommitIsWhole`)
and every other step none of it (`OtherIsStutter`). The parts that `AtomicLoads` takes
the first and the last record of a key from are least and greatest of sets of numbers,
hence the well-founded induction of `HasLeast`. For `TwinsTakeTurns`: who waits for
a writer of the same file is behind it in the file (`WaiterIsBehind`), so that a circle
would need places without an end (`Unbounded`).

`IngestionProofs` (from `RequestAssumption`, `SettingAssumption`): `ServerTypeCorrect`,
`AcceptedStaysKept`, `ReplayIsPossible`, `FlagTellsTheTruth`, `RefusalStoresNothing`,
all from one `ServeInv`. A request is with one worker at most, and not answered as long
as it is (`Owned`); `Progress` says what a worker has done with its request when it
gets to each step, and why it goes to the quarantine; `Standing` says of every request
what its answer, archive, quarantine and files promise, whoever has it. A step of a
worker leaves all other workers and requests alone (`OnlyThis`), so that each action is
looked at for its own request only.

`HistoryCollectorProofs` (from `ConfigAssumption`): `NoGap`, with the hypothesis
`WindowsCover`, `Interval + Delay <= Span + Overlap` and `Delay <= Interval`. It is no
assumption of the module: the data intervals of Airflow 2 and the default overlap of 60 s
fulfil it for values that are up to 60 s late; those of Airflow 3.0 do not, unless the
overlap is set to the schedule's period plus the delay. A value with a clock in the period
before a collected tick either was there at that tick, or, being late by at most `Delay`,
lies in the window of the next one too. The invariant says for each phase of a run what
it has already seen, and that an item that was never disabled is in its map.
`CollectorTypeCorrect` needs less: what is done are ticks.

`PagedFetchProofs` (from `PagingAssumption`): `FetchTypeCorrect` and `Complete`. The invariant ties the
number of records of an entity to the chunks before `offset`, per pass. `PartsFollow`
adds that nothing has been asked for beyond the chunk (`BlankFrom`), and that what
still exists when its macros are asked for was there when its details were, because
ids are not reused (`NotReused`).

`InventoryCollectorProofs` (from `PagingAssumption`, `InventoryAssumption`):

* `InventoryFetches`: the collector with its files and the writer is still `PagedFetch`,
  since writing, listing and loading are stuttering steps of the fetch. `InventoryComplete`
  and `InventoryInOrder` follow from the theorems of `PagedFetch`.
* `InventoryTypeCorrect`: `StoreInv` has the files in the order of their places, and at most
  one of them the running collector's, of the kind of its run. That the files before
  a given place are the first ones (`PrefixIsInterval`) makes a file
  appear at its place and leave from it without disturbing the others.
* `RowsNeverGetOlder`, that is `RowsGetNewer`. `QuietInv` holds until the first fault and
  the first run by hand: the files lie in the order in which they were fetched
  (`Queue`), later fetches saw no older state of a host (`Increasing`), and nothing that
  waits is older than its row or newer than what the run has fetched (`Ages`). After the
  first such event an older snapshot can come behind a newer one: the property
  promises nothing any more, and neither does `QuietInv`.

`ObmShapingProofs` (from `MappingAssumption`, `PayloadAssumption`, `KeyAssumption`):
`ShapingTypeCorrect`, `RecordsAreStaged` and `ColumnsNeverChange`, for bodies of any
length. The invariant follows the two loops: `NormalizeInv` says of each element reached
that it has its record, at a place in the order of the body; `GroupInv` says of each
record grouped that it has its row, in its table's file and no other; `OfItsSchema`
that every file ever published has the columns of its table's schema, because a row is
projected on them. That a column of a row leads back to the one metric it came from
(`MappedBack`), and hence that a row holds what was extracted and nothing twice (`RowHolds`),
needs `MappingAssumption`: were two metrics of a class mapped to one column, one of them
would be lost. The mapping of the repository (`mappings/collection_policy_summary.json`)
satisfies the assumption. `AsPosted` and `Extracted` lead from there to the records as
posted: what is extracted from a record that keeps to the contract are all of its metrics,
and from any record nothing but metrics it has.

`CopyTextProofs` (from `CharAssumption`, `BatchesAssumption`): `PlainTextArrives`, that
`PlainBatchesLoad` holds for files of any number of records, with values of any length over
any characters. What the two automata make of a text is not proved by an induction over
the text, which the prover cannot do: the induction is carried by the steps of COPY.
`CopyInv` knows where in the buffer each line begins (`LinesAt`), and for a position
within a line how much of which field the automata have read (`ReadAt`, `InLine`) and that
the rows before it are the expected ones (`RowDone`); `TextStep`, `TextEnd`, `JsonStep`,
`JsonEnd` and `LineEnd` are the steps from one character to the next.

Only model-checked: all liveness (`Delivered`, `Settled`, `AllLoaded`, `Converges`), which is
out of the prover's reach, and the properties that `WriterLoss`, `IngestSoft`, `ShapingData`
and `CopyEscapes` refute (`HistoryWindow` refutes `NoGapBetweenRuns` where the hypothesis
of `NoGap` fails). Every other property of the passing runs is stated by a theorem.

## 5. Not modelled

* What `format_and_clean` makes of the fields of one host (no state), meta columns,
  the choice of `datasource`, logging, wording of answers, column types.
* Two writers at once on the files of `pending/`: their loads are modelled
  (`LoadTransaction`), the names and annotations are those of one writer, as
  `max_active_runs=1` has it. `InventoryCollector` leaves out the budget: a deferred
  file is one that is listed later.
* NFS caching: `os.replace` and `glob` are taken to be atomic and immediately
  visible, as `storage_service.py` assumes.
* JSONL writes of several processes; the setting is for development only.
* Logging, settings, schemas and the health route of the receiver: constants,
  formatting and fixed answers.
* Views, dashboards, deployment files.

## 6. Plan

Done, in the order of importance: `GenericWriter` with its proofs, `Ingestion`,
`HistoryCollector` and `PagedFetch` with their proofs, `ObmShaping`, `CopyText`;
then `Delivery` with the proof of the refinement, `LoadTransaction` over
`AtomicLoads` with its proof, `InventoryCollector`, and the proofs of
`Ingestion`, `InventoryCollector`, `ObmShaping` and `CopyText`.

Every safety and action property of the passing runs is proved, as are both refinements.

Next modules:

1. `Pipeline`: `Ingestion` and `GenericWriter` over one `pending/`: what is
   answered with 200 is in a table, a file or the quarantine.
2. `HistoryCollector` publishing into `GenericWriter`, with task retries that reuse
   the file name.

Next theorem: an abstract specification of what the receiver promises its clients,
implemented by `Ingestion`, along the lines of `Delivery`.
