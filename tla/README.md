# Inventory Sync Service: TLA+ models and proofs

The modules here model the inventory sync service of this repository: its
PostgreSQL tables, the two services that change them, the three Kafka consumers
that call these, reconciliation, anomaly detection and alerts. TLC checks them on
small instances (`*.cfg`), and TLAPS proves the results in the `..._proofs.tla`
for all values of the constants: every invariant, action property and refinement
of the runs, and some more. `PROJECT.json` lists the runs, the code lines behind each definition
(`map`), a mutant that each checked property catches, the hazards the
properties are for, and the findings.

    tlc -config MCRecordConsumer.cfg MCRecordConsumer.tla
    tlapm InventoryService_proofs.tla

## Inventory

| Part | State | Operations | What is hard | Module |
|---|---|---|---|---|
| Tables (`app/database/models.py`) | `inventory`, `inventory_history`, row locks | select, locked select, insert, commit, rollback | unique constraints under concurrent inserts | `InventoryStore` |
| Inventory service (`inventory_service.py`) | a session per call, Redis | `process_event`; `batch_sync_cache` is never called | duplicates, lost update, lost commit reply, cache after commit | `InventoryService` |
| Consumer, record by record (`kafka_consumer.py`) | record and attempt in hand; `processed_events`, `failed_events`, dead letter topic | `consume_forever`, `process_record`, failure handling | redelivery, crashes, commit of positions, removed workers | `RecordConsumer` |
| Consumer, in batches, the default (`batch_kafka_consumer.py`, `batch_processing_service.py`) | current batch | poll, add, flush, process, commit | positions ahead of processing, partial failure | `BatchConsumer` |
| Worker (`worker.py`, `docker-compose.yml`) | running or not | start, signal, end, restart | restart loops | both consumers |
| Kafka group (external) | offsets, assignment, positions, buffers | fetch, hand out, commit, rebalance, expiry | a removed member does not know | `ConsumerGroup` |
| Reconciliation (`reconciliation_service.py`) | `reconciliation_records` | `reconcile` | several statements, no lock | `Reconciliation` |
| Sales service (`sales_service.py`) | `sales`, and the tables above | `process_event` by sale id, `get_sales_summary` | second writer; look-up before the lock; does not write the cache | `SalesService`, `SalesLedger` |
| Sales consumer (`sales_kafka_consumer.py`) | record and attempt in hand, dead letter topic | `consume_forever`, `process_record` | no table of its own; dead letters may be lost | `SalesConsumer` |
| Anomaly detection (`anomaly_detection_service.py`) | `anomalies` | four rules, persist | after the commit, without locks, in several statements | `DetectionRules`, `AnomalyPipeline` |
| Alert producer (`alert_kafka_producer.py`) | records not yet settled | publish with attempts | timeouts and late deliveries | `AnomalyPipeline` |
| Alerts and anomalies behind the API (`alert_service.py`, `anomaly_service.py`) | `alerts`, `anomalies` | create with deduplication, acknowledge, resolve, suppress, update status, statistics | check then insert; updates without locks or guards | `IncidentDesk` |
| Event API and producers | none | publish an event, with attempts | duplicates by timeout | not modelled |
| Health, metrics, settings, logging, error handlers, migrations, Redis batch client | reports and wiring | | nothing depends on them | not modelled |

How the parts interact: the API publishes events to the inventory topic. A
worker reads the topic as a member of a consumer group and calls the inventory
service for each event. The service changes `inventory` and
`inventory_history` in one transaction, then writes Redis. The record consumer
marks the event in `processed_events`, or records it in `failed_events` and
publishes it to the dead letter topic, and commits. The sales consumer does the
like with the sales service, which changes the same rows and adds one to
`sales`. After each change the batch consumer runs the anomaly rules on the row,
stores what they find, creates an alert for what is severe and publishes it;
operators change the status of alerts and anomalies through the API.
Reconciliation and the API's queries read the same tables.

What makes the parts correct:

- **Service**: every event changes the stock at most once and atomically; the row
  is always the end of its history; stock stays in range; locks end with their
  transactions; the cache only shows quantities the row has had.
- **Consumers**: no offset passes a record that nobody dealt with; a skipped
  duplicate has really been applied; offsets do not move back; every record is
  passed at last.
- **Sales**: a sale id takes stock once, whatever event ids and consumers it comes
  by; `sales`, history and row agree; both services together are one ledger.
- **Detection**: every change is examined once; what is reported was there; a
  severe anomaly is published; a failure costs no more than the event it strikes.
- **Alerts**: one per anomaly; a status comes with its time; statistics are possible
  ones.
- **Reconciliation**: it reports numbers that the row has had, and records changes
  only.

## Modules

| Module | Extends | Content |
|---|---|---|
| `InventoryStore` | | tables, locks, and what it means for the tables to agree |
| `InventoryService` | `InventoryStore` | `process_event`, one action per round trip |
| `InventoryLedger` | | the abstract specification: a stock that each event changes at most once |
| `ConsumerGroup` | | topic and group, external |
| `InventoryTopic` | `InventoryService`, `ConsumerGroup` | records, failure budget, the end of a worker |
| `RecordConsumer`, `BatchConsumer` | `InventoryTopic` | the consumers |
| `Reconciliation` | `InventoryService` | readers beside the writers |
| `SalesLedger` | `InventoryLedger` | the ledger with sale ids: a sale counts once per sale id |
| `SalesService` | `InventoryService` | the second writer |
| `SalesConsumer` | `SalesService`, `InventoryTopic` | its consumer, and inventory clients beside it |
| `DetectionRules` | | the rules' arithmetic |
| `AnomalyPipeline` | `InventoryService`, `DetectionRules` | detection, alert and publication after each change |
| `IncidentDesk` | | the tables of anomalies and alerts under the API |
| `InventoryService_proofs` | `InventoryService`, `TLAPS` | theorems |
| `InventoryTopic_proofs` | `InventoryTopic`, `InventoryService_proofs` | lemmas that the consumers share: the group, the records |
| `RecordConsumer_proofs`, `BatchConsumer_proofs` | the consumer, `InventoryTopic_proofs` | theorems |
| `SalesConsumer_proofs` | `SalesConsumer`, `InventoryTopic_proofs` | theorems about both writers and the sales consumer |
| `AnomalyPipeline_proofs` | `AnomalyPipeline`, `InventoryService_proofs` | theorems about the rules and the pipeline |
| `Reconciliation_proofs` | `Reconciliation`, `InventoryService_proofs` | theorems |
| `IncidentDesk_proofs` | `IncidentDesk`, `TLAPS` | theorems |
| `MC...` | one of the above | constants of the runs |

**`InventoryStore`, `InventoryService`.** A key is a pair (sku, warehouse). The
history of a key is a sequence in commit order, which is the order of its row
locks. `call[c]` is the local state of `process_event` in client `c`: its stage,
its event, and the quantity it has read or written. The duplicate check, the
locked read, the flush of a new row, the commit and the Redis write are separate
actions, because other sessions act between them. `SELECT ... FOR UPDATE` and
the flush of an insert wait for the lock; a flush after somebody else's commit
of the same row is an `InsertConflict`. `Commit` writes everything at once, and
its reply may be lost (`LoseCommitReply`). `CommitConflict` is the flush of a
repeated `source_event_id` or of a quantity outside the column. The column
(`Column`) takes negative numbers, as `models.py:72` has no CHECK: what keeps the
stock from going below zero is the check of `process_event` alone (`Negative`,
`RejectNegative`), and that the quantity it checks is still current. Transactions run
under READ COMMITTED, the default that the program leaves in place.

**`ConsumerGroup`.** `commit()` without arguments, which is all the program uses,
commits the positions of all assigned partitions and fails for a removed
member. A member learns of a rebalance only when it polls; one that is busy may
be removed and goes on with what it has fetched. Two simplifications: a
rebalance is one step of all polling members together, and a fetch brings the
records of a partition that cannot be decoded or none (`Poisoned`). `End(p)` is the
number of records in a partition.

**`RecordConsumer`.** `pc[w]` is the statement the worker is about to make (see
the module's header); `rec` is the record in hand and `attempt` the attempt of
`RetryService.execute`. The variables `processed`, `failed` and `dlq` stand for
the tables and the topic of these names; `abandoned` is kept for the properties
only. Left out: sleeps, metrics, the publish attempts inside the dead letter
producer, and the branch for unexpected exceptions, which goes to the same
failure handling. `consumer_timeout_ms` may end the iteration (`IdleExit`) whenever
nothing has arrived: at the end of the log, on a slow fetch, and while the group
is still rebalancing. That is no failure and costs none of `MaxFaults`.

**`BatchConsumer`.** The worker polls at most `BatchSize` records, adds the valid
ones, drops the invalid ones, processes, commits. `dropped` and `unprocessed`
are kept for the properties only. Left out: metrics. Anomaly detection after a
change is in `AnomalyPipeline`: its errors are caught, and nothing in the
consumer reads its result.

**`SalesService`, `SalesConsumer`.** A sale is a call in the same `call[c]` record
as an inventory event, and reuses the actions of `InventoryService` where the
code does the same (the locked read, the refusal of a negative quantity, the
commit). It differs in the look-up, which is by sale id, in a row that does not
exist, which is an error, in its second unique index (`CanSell`), and in that
nothing is written to the cache. `TotalSold` is the sum that `get_sales_summary`
reports. Clients that are no workers call
`InventoryService.process_event`, so that the run composes both writers. `lost`
is kept for the properties only. A worker whose `commit()` fails logs it and
goes on.

**`DetectionRules`, `AnomalyPipeline`.** A ratio of the code is a product here:
`a / b > n` is `a > n * b`. The pipeline follows one client from the return of
`process_event` through the statements `row`, `rules`, `persist`, `alert` and
`publish`. `timeline` orders transactions by their beginning, which is what
`changed_at` (`now()`) shows and the rules sort by; the history itself is in
commit order. A transaction begins with its first statement, so a client that
waits for the row lock has an earlier time than the one it waits for may have.
`inflight` counts the copies of an alert that the producer holds and has neither
delivered nor dropped: by default `future.get` gives up after 10 seconds and the
producer after 120.
The results of the two queries of `sales` come from the constants `DaySales` and
`RapidSales`. An anomaly keeps the numbers of its description, for the
properties. Alerts are enabled for both severities, as by default.

**`IncidentDesk`.** Both tables in one module, since `acknowledge_alert`,
`resolve_alert`, `suppress_alert` and `update_anomaly_status` are the same
SELECT, assignment and COMMIT. The assignment is that of the ORM: a column is
written when its new value differs from the one that was read (`Assigned`). The
end of a suppression is no step, since nothing reads `suppressed_until`.
`create_alert` may be called at any time for any stored severe anomaly. That is
more than the batch consumer does, which calls it once, and what
`docs/alerting_system.md` describes. The statistics are one action per count.
Average times are left out. The endpoints are coroutines that call the service
without awaiting, so one process answers one request at a time; a `Desk` is a
process.

**`Reconciliation`.** The queries of one reconciliation are separate actions, with
the inventory service running in between. `at` is `reconciled_at`; only the
order of clock readings is modelled.

Definitions whose comment calls them a mutant are used by nothing in the
specifications. Each is a plausible bug in the definition that follows it, and
`PROJECT.json` pairs it with the property that catches it.

## Runs

| Run | Instance | Question |
|---|---|---|
| `service` | 2 clients, 2 rows, 5 events | tables, locks, cache and ledger under every error; every call ends |
| `one_worker` | 1 worker, 3 records, 5 failures, 3 attempts | nothing is passed unaccounted for; cache; every record is passed at last |
| `two_workers` | 2 workers, 2 partitions of 2 records, 2 failures, 2 attempts | marks, dead letters and offsets, with rebalances and removed workers |
| `batch` | 2 workers, partitions of 3 records and 1, batches of 2, 1 failure | nothing is passed unseen, with rebalances and removed workers; every good event is taken up |
| `reconciliation` | 1 reader, 1 client, 3 events | records are changes, of real numbers |
| `sales_consumer` | 2 workers, 1 inventory client, one sale under 2 event ids, 2 bad records, 1 failure, 2 attempts | one change per sale; sales match the history; requests are accounted for; ledger of both writers |
| `anomalies` | 2 workers, 2 restocks and a sale, 1 failure, 2 publish attempts | what is examined, what is reported, what is published |
| `alerts` | 2 workers, 2 API processes, 1 anomaly | one alert, times, statistics |
| `find_...` | see below | a statement of the docs that the code does not keep |

Bounds. `MaxFaults` bounds the failures in one behaviour of a consumer. It is
larger than the number of attempts in `one_worker`, so that attempts run out and
failures also strike the failure handling; with two workers, two failures are what
it takes for a worker to be removed and for its successor to fail. The two rows
and five events of `service` give two events that collide on a row that exists, one
that needs another first, one that does not fit the column, and a second row. The
quantities leave room for a lost update and for an event applied twice: with
`MaxQuantity` at 3 both would be refused by the column's range. The log of
`one_worker` has every kind of record that can be read; that of `two_workers`
(`SplitLog`) has a sale that can overtake its restock and a record that cannot be
decoded. In `batch` batches of two with three records and one give full, partial
and empty batches; one failure is what it takes to remove a worker in the middle
of a batch, or to lose its commit. Its record that cannot be decoded is the third of its
partition, so that the batch with the first ones can be taken without it: no good
event lies behind it, or with it in one batch, for such an event is never reached,
as the observations below say. `Reconciliation` needs no bound: a finite number of events gives a
finite number of changes. In `sales_consumer` the two requests of the sale are in
different partitions and have different quantities, and the client brings enough
for both but not for three: each of the two can be made first, the other one can
collide with it at the look-up, at the unique index or at the stock, and a
sale made twice would fit. One failure is enough to lose a reply, a commit or
a dead letter, or to remove a worker that is in the middle of a sale. In
`anomalies` two restocks of 4 and a sale of 3 give small and large changes, and
torn reads of every severity; `DaySales` and `RapidSales` let one or two rules
fire beside the adjustment. In `alerts` rows of the tables never interact except
in counts, so one anomaly with one severity to be alerted, and one not, is what
the statements can collide on. In `anomalies` one failure gives each way to lose an
examination or to spoil an alert, and the properties bound what it costs; two, which
take TLC three times as long, break nothing else.

Each run checks what its own module adds. The inductive invariants of the proofs
hold on these instances as well, by TLC, except for `ClockOK` of `Reconciliation`,
which is about all natural numbers. What the tables promise of every
caller (`AppliedOnce`, `StockInRange`, `ImplementsLedger` and the rest of
`InventoryService`) is checked in `service`, whose clients may call, fail and die
at any time, as those of the consumers do, and is proved for any number of them.
`HistoryChained`, `HistoryOnItsRow`, `NoLockLeaks`, `HistoryIsAppendOnly`,
`SuccessIsDurable` and `SevereAdjustmentIsTorn` are proved only.

Symmetry. `two_workers`, `sales_consumer`, `anomalies` and `alerts` treat their workers
(and API processes) as interchangeable: they start in the same state and no
definition tells them apart. These runs check no liveness; `batch` does, and uses no
symmetry.

Fairness. `FairServiceSpec`: PostgreSQL and Redis answer (weak fairness of a
call's steps) and lock waiters are queued (strong fairness of the steps that take
a lock). The consumers' `FairSpec`: a worker goes on (weak), its container is
restarted (weak; `restart: unless-stopped` in `docker-compose.yml`), a worker
that can fetch again and again does (strong), and the group's coordinator
completes rebalances (strong, as workers are in `poll` again and again but not all
the time). Both strong assumptions are about Kafka and nothing in the code ensures them: a
worker of `RecordConsumer` that hears nothing for one second ends, and its successor
joins anew, with the rebalance delay of the broker to wait for. A broker that
never answers within the second stops the consumer for ever; what is assumed is
that a rebalance, or a fetch, which is possible again and again comes in time at
last. Nothing is assumed of failures: they may or may not occur, and are finite
only by `MaxFaults`.

All runs check for deadlock.

## Findings

Each `find_...` run checks one property that the documentation states and ends in a
counterexample; `PROJECT.json` quotes the sentences.

- `find_stale_cache`: two workers may write the cache in the wrong order. With one
  worker `CacheFollowsProcessed` holds.
- `find_batch_no_dlq`: the default consumer passes failed and invalid records
  without a dead letter. What does hold is `CommittedIsAttempted`.
- `find_false_mismatch`: a reconciliation beside a change reports a mismatch that
  never was in the tables.
- `find_no_second_alert`: two findings. By `docs/alerting_system.md:147` an anomaly
  that comes again after the window gets a second alert; the unique index on
  `event_id` refuses it and `create_alert` raises `AlertTransientError`. By
  `README.md:258` a suppressed alert can return to TRIGGERED once the suppression
  is over; nothing reads `suppressed_until`, and no operation sets that status.
  `TriggeredAgain` allows either way, and the code offers neither. What does hold is
  `OneAlertPerAnomaly`, which is the index.

Observations that the models also make plain, without a run of their own:

- `RecordConsumer`: a record whose failure handling failed (`abandoned`) is passed
  by the commit of the next one, because `commit()` commits positions. This is
  why `CommittedIsAccounted` names `abandoned`; `docs/architecture.md:29` leaves
  no such exception.
- `RecordConsumer`: a redelivered sale that passed the duplicate check before its
  first delivery committed can be refused for want of the stock it has taken
  itself, and goes to the dead letter topic though it was applied. The stock
  stays right (`AppliedOnce`).
- Both consumers: a value that is not JSON raises out of the iterator or out of
  `poll`. The worker ends, is restarted and meets the record again, so its
  partition never advances; `EveryRecordCommitted` is therefore checked for logs
  that can be decoded.
- `Reconciliation`: two readers of one row may both insert the same record, as
  nothing orders them; `OnlyChangesRecorded` is checked for one reader.
- `SalesService`: the look-up by sale id precedes the row lock. A repeated request
  that passes it before the first one commits meets the unique index and is
  retried, unless the first one has left too little stock: then it is refused as
  `SalesInsufficientStockError` and goes to the dead letter topic although its
  sale was made. The docstring (`sales_service.py:61`) says that repeated calls
  "return the original result".
- `SalesService` does not write the cache, which keeps the quantity after the last
  inventory event.
- `SalesConsumer`: a record whose dead letter could not be published is committed
  all the same and leaves no trace (`lost` in `CommittedSaleIsAccounted`).
- Producers: an inventory request that the client repeats after a 503 gets a new
  event id (`inventory_events.py:62`), so that it counts twice if the first record
  was delivered after all. A repeated sale is stopped by its sale id.
- `AnomalyPipeline`: an event is examined only by the delivery that changes the
  stock. A crash, a lost reply to COMMIT or a cache error after the change leaves
  it unexamined for ever. `OneUnexaminedPerFailure` bounds the loss.
- `AnomalyPipeline`: when two rules fire on one event, both rows carry its id and
  the unique index refuses both (`PersistConflict`): neither is stored, and no
  alert is created. When a rule's query fails, the rules after it fail too, in
  the transaction that the error has aborted (`RuleError`).
- `AnomalyPipeline`: a change cannot exceed the larger of the quantities before and
  after it while both are not negative, so a large adjustment is "low" or
  "medium" when the reads agree. "High" and "critical" ones, the only ones that
  raise an alert, come from reads that do not agree (a change committed between
  them, or a first row by `changed_at` that is not the last change) and report
  numbers that do not add up (`SevereAdjustmentIsTorn`, proved only).
  `docs/anomaly_detection.md:134` has an example to the contrary, "Inventory before:
  100, after: 30 (70% adjustment) -> HIGH severity": for the code, and for the limits
  which the same page lists above the example, 70 % is "low".
  `NegativeInventoryRule` cannot fire while `StockInRange` holds.
- `AnomalyPipeline`: `future.get` may give up on a record that the producer delivers
  later, beside the copy that the next attempt sends: an alert may appear more
  than once. One whose publication failed is stored and never published.
  `OneMistoldPerFailure` bounds both.
- `IncidentDesk`: no operation looks at the current status, so a resolved alert can
  be acknowledged again. An update that found its status already set does not write
  it: the last of two overlapping operators need not decide the status.

## Proofs

### What is assumed

Only the named assumptions of the modules, which TLC evaluates in the runs. They
are about the types of the constants, and bound no number of clients, workers,
keys, events, records, partitions or failures. Those that say more:

- `StoreAssumption`, `ServiceAssumption`: `Nobody` is no client, `NoEvent` no event,
  `NotCached` no quantity.
- `SalesAssumption`: a sale takes stock away (`quantity` is a positive integer in
  the code).
- `SalesConsumerAssumption`: the sales topic carries sales, or records that are no
  event.
- `PipelineAssumption`: clients and events can be told apart, since `timeline` is a
  sequence of both.

Two theorems have a hypothesis, and a run shows why: `OneWorkerCache` is about one
worker (`find_stale_cache` has two), and `OneReaderRecordsChanges` about one
reader, since nothing orders the look-up and the insert of two.

### Along which argument

Each component has an inductive invariant, extended where a property needs more, proved of `Init` and of every step; the
properties follow from it. None of the properties is inductive by itself.

**`InventoryService_proofs`.** `ServiceInv` is types, locks and tables. A commit
writes a quantity that its client computed from an earlier read, so one must know
that the read is still current: that is `LockProtectsRead`, which needs
`NoLockLeaks` (a lock has one owner, in stage "apply", on the row of its event).
Steps are of four kinds (`StoreStep`): they touch neither tables nor locks, roll
back, take a lock or commit. There is one lemma per kind for the locks, and only
commits need an argument for the tables. The lemmas are about the kinds and not
about the actions, so that the sales service, whose steps are of the same kinds,
can use them. From `ServiceInv` come `RowLocksHold`, `TablesAgree`, `AtMostOnce`,
`NeverNegative` and `AppendOnly`. `NeverNegative` does not come from the column, which
takes negative numbers: a commit follows the check of the quantity that was read, and
`LockProtectsRead` says that this is the row's quantity still. `SuccessDurable` adds that a call with a result
has its event in the history, and `CacheIsHonest` (`CacheInv`) that a call which is
about to write the cache holds a quantity its row has had. `LedgerRefinement`: a
commit is an `Apply` of `InventoryLedger`, everything else a stutter.

**`InventoryTopic_proofs`** is the consumers' common ground. `GroupInv`: no member's
position is behind the committed offset of a partition it owns (`MembersAhead`)
and no partition has two owners (`OneOwner`). Hence no commit moves an offset
back (`OffsetsOnlyGrow`), although a removed worker goes on committing.

**`RecordConsumer_proofs`, `BatchConsumer_proofs`.** Every step of a consumer is a
step of the service or leaves it alone, in a crash too (`CrashIsAbort`):
`ConsumerIsClient` and `BatchIsClient` say `Spec => ServiceSpec`, and all that is
proved of the service carries over, the ledger included. Every step is also one
of the group's. What the consumers promise is about offsets and tables, so the
invariant follows a record from hand to hand. `HandOK` (`BatchOK`) is what a
worker knows of its record, by where it is; `ReachedOK` says that a worker's
positions pass only records that are accounted for or still in its hands; and
`PassedOK` that the committed offsets pass only the former. A commit copies
positions into offsets, so it needs `ReachedOK`; a rebalance copies offsets into
positions and needs `PassedOK`. `OneWorkerCache` is `OneWorkerInv`: while the
event in hand is not marked the property says nothing of its row, and by the time
of the mark the cache shows what the row has.

**`SalesConsumer_proofs`.** The same with two writers, so the service's invariant is
proved anew for steps of either (`SaleStepIsStoreStep`). `SalesAgree` ties `sales`
to the history: each recorded sale event has its row, and no two have one sale id
between them. With it, `WritersKeepLedger` maps each commit of either service to one
step of `SalesLedger`. `ContendOK` says what a second attempt can mean as long as
nothing has failed: its sale is in the table, so the attempt finds it.
`SalesAddUp` is about sums. `RowsPaired` pairs the rows of `sales` with the changes
they made, and `SumsMatch` says that sums over paired terms are equal. The library's
induction on finite sets takes an operator, which the provers cannot instantiate.
So a sum is taken for the cardinality of the set of its units (`SumIsUnits`), by a
smallest set for which it is not (`SmallestSet`), and a bijection does the rest.

**`AnomalyPipeline_proofs`.** `SevereIsTorn` is arithmetic, for all quantities that are
not negative: "high" and "critical" are for more than 100 % of the larger quantity,
which no difference of two such quantities exceeds. `OwnerInv`: a recorded event has
one owner at most (`Owns`), the client whose COMMIT recorded it, from there through
the cache write and the detection; an event with an owner that has not run the
rules is not examined yet. Hence `OneExamination`. `FailuresLoseOne` and
`FailuresMistellOne` count: a step that adds an event to the set in question is a
failure and adds the one event of the client it strikes (`LosesOwn`, `SpoilsOwn`), every other
step adds none (`LosesNone`, `SpoilsNone`), and a set that grows by one element at
most per failure is no larger than their number (`CountStep`). The second needs what
is true of an alert at each stage of its client (`Told`): one copy of it is with the
producer while it is being published. `TimelineInv` says
that begun transactions and recorded events are on the timeline, once each.
`ReportInv` is what a report is true of: a change that began no earlier than the
event's own, and quantities that the row has had. `TrueReportStays`: no
later step makes a true report false, since committed changes keep their order on the
timeline (`OrderStays`).

**`Reconciliation_proofs`.** Readers change no table of the service (`ReaderOnlyReads`).
`RowsAreTheirSums`: in every state the quantity of a row is the sum of its history,
so that a mismatch only comes of reading the two at two times. `ReconcileInv` says in
what order a reader's two quantities were in the row. `ChangeInv` adds, for one
reader, that its look-up is still current when it inserts, and that the clock
orders the records of a row.

**`IncidentDesk_proofs`.** Each step adds a row to a table, replaces one, or leaves both
tables alone (`StepsOnTables`). `DeskInv` says that the row which a creator or an operator
has in hand is still there, and that a creator's is severe. `StatisticsAddUp` (`StatsInv`) needs a bound that holds between
the statements: what was counted is at most what the severities will amount to, each
as it was counted or, until then, as it is (`Limit`).

### What is only model-checked

Liveness (`EveryCallEnds`, `EveryRecordCommitted`, `EveryEventAttempted`): the prover
has no rules for fairness and ENABLED. The `find_...` runs are counterexamples on
their instances and need no proof.

## Not modelled

- Event publication (`inventory_events.py`, `sales.py`, the two producers): it keeps
  no state. One request is one loop of publish attempts, the same loop as that of
  the alert producer in `AnomalyPipeline`; what it can leave in a topic, an
  event sent twice or a request repeated under a new id, is in the consumers'
  logs.
- Queries that only read (lists, look-ups, the Redis read path), health, metrics,
  observability: nothing depends on what they report.
- Settings, logging, error handlers, migrations: no state of their own.
- The Redis batch client and `batch_sync_cache`: nothing calls them.
- Durations: backoff, sleeps, poll intervals. Timeouts may strike at any time.

## Plan

Done: all components of the table above that are marked with a module, and a
theorem for each invariant, action property and refinement of the runs. Next:

1. State the observations above that are about safety as theorems or properties of
   their own where they can be made precise, such as what a redelivered sale that is
   refused leaves in the tables.
2. Shorter proofs: `AnomalyPipeline_proofs` and `SalesConsumer_proofs` repeat case
   splits that lemmas about the kinds of steps could share.
