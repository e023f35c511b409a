# Verification of the order-book pipeline

TLA+ models of the order-book pipeline in this repository (Binance order books in,
metrics, alerts and windows out), the TLC runs that check them on small
instances, and TLAPS proofs of what matters most for every instance.
Paths below are relative to the repository root (`src/` is the Python package
of the pipeline, `dashboard/` the Streamlit application).

## 1. The system

Binance WebSocket → **ingestion** → topic `raw` → **Flink jobs** → topics
`metrics`, `alerts`, `metrics.windowed` → **consumers** → CockroachDB and Redis
→ **dashboard**. Every arrow between processes is a Redpanda (Kafka) topic or a
database; inside a process everything runs on one asyncio event loop, so tasks
interleave only at awaits.

| Component | Source | State | Operations | Hard behaviour | What makes it correct |
|---|---|---|---|---|---|
| DatabaseConsumer | `src/consumers/db_consumer.py` | two batches with dedupe keys, `_running`, two tasks | start, two consume loops, flush, alert handling, stop | batches shared by two loops and `stop()`; commit by hand after writes; cancellation of an await; crash and redelivery | no record lost while the process lives; commits follow writes; offsets only advance; the loops survive any failure; stop ends everything |
| RedpandaConsumer | `src/common/redpanda_client.py` 297-483 | `_closed`, the client's position | connect, consume, commit, close | the poll and the commit run in threads; the position is past the whole poll | commits what was taken, resumes where committed |
| DatabaseClient | `src/common/database.py` | connection pool | connect, close, bulk inserts, single inserts, queries | chunks, COPY with fallback to INSERT, retry of serialization failures, concurrent calls, close while a call sleeps | a returned insert has written all; a failed one a prefix; every call ends |
| RedisConsumer | `src/consumers/redis_consumer.py` | counters, `_running`, task | start, consume loop, handlers, stop | a failed write is committed and counted; handlers return early | the cache holds the latest of each symbol; every alert reaches both feeds |
| RedisClient | `src/common/redis_client.py` | keys with TTL, sorted sets | cache writes and reads, alert feeds, statistics | several commands per operation, no transaction | both feeds agree; statistics of one window |
| BinanceWebSocketClient | `src/ingestion/websocket_client.py` | connection, failure count, `running` | connect, listen, reconnect, stop | reconnect with back-off and a budget; stop while connecting | a stream reconnects until its budget is spent; stop ends it |
| IngestionService | `src/ingestion/main.py` | client, producer, parser, tasks | start, handle message, stop | several callers of `stop()` | what was received is published; stop flushes |
| RedpandaProducer | `src/common/redpanda_client.py` 66-292 | send buffer | connect, publish, flush, close | acknowledgement after `publish` returned; flush with a timeout | nothing is reported published and dropped in silence |
| Parser, metrics | `src/ingestion/orderbook_parser.py`, `metrics_calculator.py`, `src/jobs/orderbook_metrics.py` | – | pure functions | empty sides, zero volumes, sorting | values in their ranges; both implementations agree on best prices, imbalance, spread and top share |
| OrderbookDownsampler | `src/ingestion/downsampling.py` | a bucket per symbol | add, close and emit buckets, flush | expiry, a callback that raises, reset | a bucket has the exact statistics of its own ticks, which after the first lie in its bounds |
| Alerts job | `src/jobs/orderbook_alerts.py` | keyed state per symbol | threshold, flip, velocity, spread, rate limit | partitions read in any interleaving, late timestamps, checkpoints and restarts | at most one alert per key and cool-down; no alert the job has got past is lost |
| Windows job | `src/jobs/orderbook_windows.py` | accumulators | add, merge, result | watermarks, lateness, merge order | a window's result is that of its own metrics; the average the alerts job joins never goes back |
| Consumers entry point | `src/consumers/main.py`, `src/common/utils.py` | signal handlers | gather, shutdown | the second registration replaces the first | a signal stops both consumers |
| Dashboard data layer | `dashboard/data/*.py`, `dashboard/utils/async_runner.py` | clients, one lock, one loop | cached reads, history, changes computed and cached | a call that times out leaves its coroutine running; cache miss or failure falls back to the database | every call returns unless Redis stalls the one without a timeout; answers are as fresh as the call; the cached changes do not go back |
| Models, settings, schema, deployment | `src/common/models.py`, `src/config.py`, `db/`, terraform, docker | – | validation | – | – |

## 2. What is modelled

| Module | Models | Lines of code it stands for |
|---|---|---|
| `DbConsumer` | DatabaseConsumer with RedpandaConsumer, the broker and the database around it | `db_consumer.py`, `redpanda_client.py` 297-483 |
| `BulkInsert` | what a bulk insert promises: an ordered insert-if-absent | `database.py`, the contract of `insert_batch_*` |
| `BulkWriter` | how it is done: chunks, COPY, fallback, retries, the pool | `database.py` 58-69, 110-203 |
| `RedisConsumer` | RedisConsumer, RedisClient's writes, and Redis around them | `redis_consumer.py`, `redis_client.py` 156-368 and 543-575, `redpanda_client.py` 297-483 |
| `Ingestion` | the ingestion process: service, WebSocket client, producer, signal, exit | `ingestion/main.py`, `websocket_client.py`, `redpanda_client.py` 66-292, `utils.py` |
| `AlertsJob` | the alerts job: detectors, limiter, sources, sink, checkpoints | `jobs/orderbook_alerts.py` |
| `Windows` | the windows of both jobs and the spread join | `jobs/orderbook_windows.py`, `jobs/orderbook_alerts.py` 377-595 |
| `OrderBook` | parsing, sorting, validation and metrics of a book, both ways | `orderbook_parser.py`, `metrics_calculator.py`, `models.py`, `downsampling.py` 85-396 |
| `Downsampler` | the downsampler's buckets, on top of `OrderBook` | `downsampling.py` 177-668 |
| `Dashboard` | run_async, the data layer's reads, Redis and the table around them | `data_layer.py`, `db_queries.py`, `redis_queries.py`, `async_runner.py` |

Each `MCx` is the instance of module `x` that TLC checks, each `xProofs` its
theorems. `DbConsumer`, `Ingestion`, `AlertsJob` and `Dashboard` each compose what
lives in one process with the services around it; `BulkWriter` refines
`BulkInsert`; `Downsampler` extends `OrderBook`. Some definitions in the modules
are commented "slip": a mistake the code might make at that place. The specification
does not use them; put in the place of the definition they vary (`mutants` in
`PROJECT.json`) each makes a property fail, so every property excludes something.

`DbConsumer` uses an insert as one await that writes everything, or fails after
writing a prefix of the records (`Written`). `BulkWriter` is what discharges
that: `WritesPrefix` and `ReturnedMeansWritten` are those two assumptions,
checked and proved, and `InsertsIfAbsent` says the rows it leaves are those of
`INSERT ... ON CONFLICT DO NOTHING`, as `DbConsumer!Upserts` has them.

### DbConsumer

State and code. A topic is one immutable log, `Log[t]`; a record is its offset
in it and has a dedupe key, a table row (primary key) and a validity flag.
`logEnd` and `committed` are the broker's, `stored` and `alertRows` the tables'.
`position` is the KafkaConsumer's position (past everything polled), `delivered`
the last record the loop took from `consume()`. `batch`, `keys`, `running`,
`closed` are the fields of the same names; `pc[k]` is the await at which task `k`
(main loop, windowed loop, `stop()`) is suspended and `snap[k]` the list it
passed to the insert. `base`, `origin` and `lives` are history.

An action is a run of a task from one await to the next: `Batch` is
`_process_message` with `_add_to_*_batch` and `_check_*_flush`, up to the insert
it starts; `Inserted` is the return of that insert with the clearing of the batch
and what follows, up to the next await; `Poll`, `Commit`, `StopClose` are the
calls that run in a thread. Since a loop with polled records in hand does not
await between them, no other task moves meanwhile (`OthersAwait`).
The effect of an insert or a commit is placed at the return of its await; a
failure, a cancellation or a crash may find it done or not done. So is the look at
`_closed` that a commit begins with: a commit under way when its consumer is closed is
one that finds it closed.

A record whose bytes are not JSON (`Decodes`) makes `value_deserializer` raise in the
poll that fetches it; `consume()` logs, sleeps and polls again. `Fetches` is what polls
can return: they come up to such a record and never past it (`Blocked`). That a poll
which raises moves no position is an assumption about the Kafka client.

Abstractions, and why they are sound for the properties:

* one partition per topic (the code has three for metrics and windows): nothing
  is claimed about order across partitions, and the offsets of a partition behave
  as those of a topic here;
* the flush timeout may have elapsed at any record: time is not modelled;
* a rebalance that hands records again to a consumer that lives on is left out: a
  redelivery comes with a restart;
* a group's position is resolved at `Connected` (in the client, at the first
  poll); a stop before the first poll is a stop right after it;
* messages without a value and messages of an unexpected topic do nothing to
  the state and are left out; a metric whose timestamp does not parse gets the
  current time and so is a record with a key of its own;
* `finally: if self._running: await self.stop()` of the loops is unreachable:
  a loop ends only when `_running` is false;
* dedupe keys refine primary keys, an assumption (`LogAssumption`) read off the
  two lists of fields.

### BulkWriter

Concurrent calls on one table: the two loops and `stop()` all write the windowed
batch, and a batch whose insert failed is written again by a later call. `pc[c]`
is "ready" between two statements (no connection is held: the start of a chunk,
a sleep) and "attempt" in one; `first[c]` is the first record of the chunk,
`mode[c]` COPY or INSERT, `attempt[c]` the turn of the retry loop. The table is a
set of `<<call, record>>`: who wrote the row matters, since a row once written
must stay. A COPY is all or nothing and fails on an existing key; `executemany`
is atomic (asyncpg ≥ 0.22; the repository pins 0.29). `Fails` is every error that
is not retried, a timeout, a lost connection and a cancellation, with the
statement executed or not.

### RedisConsumer

State and code. The topics and their cursors are as in `DbConsumer`. `cache` holds
the string keys (`orderbook:{S}:latest`, `:snapshot`, `orderbook:stats:{S}` and
`orderbook:stats:{1m,5m}:{S}`), each with the record it was written from; `feed`
the sorted sets `orderbook:alerts:{S}` and `orderbook:alerts:ALL`; `mortal` the feeds
with a time to live. `pc`, `topic` and `next` say where the loop's task is: awaiting
command `next` of the handler for the record it has in hand. `marked` is
`_last_snapshot_write_at`. `seen`, `fresh` and `lives` are history.

A handler is a list of commands (`Commands`, from the client's methods); every
command is an await that succeeds (`CommandSucceeds`), or fails with its effect or
without (`CommandFails`), which ends the method with False. `Take` is the loop's
routing with the handler up to its first command: the early returns, a snapshot
refused by the write interval, an alert without a usable timestamp, a value the
handler raises on. A value that is not JSON blocks
the polls, as in `DbConsumer`. `Stop` cancels the loop at its await, with the effect of
whatever was in flight or without.

Abstractions:

* `zcard` and `zremrangebyrank` are one command: this process is the only writer
  of the feeds, and a failure between them is a failure of the trim; a feed that
  expires between them is one that expires after the trim;
* two alerts have different payloads (they are members of a set by payload); the
  order of members with equal scores is any;
* time is not modelled: a snapshot of a symbol written before may be refused, a key
  with a time to live may go at any moment;
* records of a poll are taken in any order of topics; no symbol is called `ALL`;
* a `stop()` during `start()` is left out: it is the one `DbConsumer` has.

### Ingestion

State and code. `phase` is where `start()`, `main()` and `asyncio.run` are; `running`
and `wsRunning` are the two `_running` flags; `stream[s]` is the await of a
`_connect_symbol` task and `retries[s]` its counter. `threads` holds the records whose
`send()` is in a worker thread, `buffered` what the Kafka client has taken,
`landed` and `expired` how it settled them; `reported` and `refused` what `publish()`
returned. `stopper` is the await of the one `stop()` that found `_running` true.
`failures`, `submitted`, `caught` and `signalled` are history.

`Receive` is a message with `_handle_message`, the parser's verdict and `publish()` up
to its thread; `SendBuffers` and `SendFails` are the thread's end with the return of
`publish()`, if anybody still awaits it. `Signal` is `stop()` up to its first await, at
any of the awaits of `start()`; `Flush`, `CloseClient`, `CloseReturns` are its others;
`MainReturns` is the end of `gather()` and the cancellation of what is left, `Exit` the
joining of the threads and the end of the process.

Abstractions: no time (a back-off is a sleep, a flush may time out whenever it waits);
a topic is the set of records in it; a cancelled stream takes one step to close its
connection; the counters are left out.

### AlertsJob and Windows

`AlertsJob`. The state of all operators and the offsets of the sources are one
record `job`, since Flink saves (`saved`) and restores it as a whole. `Read` is a
detector taking the next metric of a partition, with the limiter applied to the alert
it raises (alerts of one key come from one detector in order, so an alert on its way is
a metric not read yet). `TimerFires` is `on_timer`; time is counted down on the timers.
`buffer` is what the sink's producer has yet to send and `topic` what it has sent, one
`Send` at a time. A checkpoint is two steps with anything in between: at `Barrier` the
operators save their states (`pending`), at `Complete` the producer has sent what
came before the barrier and the checkpoint is the one to restart from (`saved`).
`Restart` restores it and loses the producer's buffer, `Redeploy` starts without one, at
the end of the topic. History: `answers`, a part of the job's state, says of every
metric that raised an alert which alert stands for it, its own or the one it was
suppressed for; `since` and `forgotten` are outside the job's state and never restored:
the time since a key's last alert in whatever run, and the keys whose last alert the
restored job does not know of.
The metrics have no key in the topic, so those of a
symbol lie in all partitions and a detector reads them in any interleaving. The spread
detector is here a detector that may raise at any metric; what it compares is in `Windows`.

`Windows`. Accumulators, assignment, watermarks with bounded lateness, firing and
dropping of late metrics for the sliding event-time windows; the tumbling
processing-time windows; and the join (`UpdateAverage`, `Compare`) that remembers the
average that arrived last. One key; the sliding windows of both jobs are one, with the
fields of both accumulators. Averages are compared as fractions, so no float rounds.
The windows that fire at one watermark do so in the order of their starts (`InOrder`
puts a window at its rank: the number of those that start before it).

### OrderBook and Downsampler

`OrderBook` has the two ways a book is read as operators: `Parse` and `CalculateMetrics`
with the validators of the models, and `FromBinance`, `ValidTick` and the calculators of
the downsampler. Ratios are fractions. `Downsampler` has the buffers: `AddTick` (a full
bucket is flushed, handed to the callback, reset, and the tick added), `GetReadyMetrics`,
`Flush`, `FlushAll`, a callback that may raise. They are called by one thread, and the
clock does not go back.

* `add_tick` reads the clock three times: as the message is parsed (`clock`), when the
  buffer is made or asked whether it is full (`now`), and in `reset()`, after the callback
  (`end`). So the first tick of a bucket that a tick begins is stamped before the bucket's
  start; `opened` remembers, as history, whether a tick or a flush began a bucket.
* The extrema of nothing are `Infinite`, a value that is no number and that every
  number replaces: prices and ratios are not capped.

* `list.sort` is stable: a kept level comes after those with a better price and, of
  those with its own, after the earlier ones. `Sorted` says so, and puts a level
  where the number of levels ahead of it says.
* The accumulators are integers in units of 1/`Scale`, and `UnitAssumption` asks that
  `Scale` be a multiple of the denominators of the ticks' ratios times the numbers of
  ticks. For finitely many messages there is such a number. Welford's divisions are then
  exact: what is checked and proved is the recurrence, not the rounding of floats.
* A tick takes the first `Depth` levels as they come, while the parser sorts first. With
  its best level beyond `Depth` a book out of price order has different best prices on
  the two ways, so `TickAgrees` claims equal numbers of books in price order, as the
  exchange sends them, and the rest of every book: what the downsampler accepts the
  parser accepts, and the tick's weighted imbalance is in range. The two weighted
  imbalances are not compared: one weighs a level by its rank, the other by its distance
  from the mid price.

### Dashboard

`session[s]` is the thread of a Streamlit session, `lock` the lock of `run_async`,
`coros` the coroutines on the loop, each with the await it is at (`Route` lists
the awaits of each method), its connection and the rows it has in hand. `GiveUp` is the
timeout of `fut.result()`: the lock is released and the coroutine goes on. A row is its
number in the order of windows; what others cache in Redis is there or not at any
moment; the changes, which the dashboard caches itself, are state (`changes`).

Abstractions: one symbol; a query answers with the newest row or, when there is none
or it fails, with nothing; a read of Redis that fails is a miss, as in the code, but for
the `setex`, whose error is not caught. A read of Redis or a probe may also never end
(`Unbounded`): the client has a timeout for connecting, none for a command.

## 3. What the runs check

The process really may stop, so deadlock is not checked; the liveness
properties ask that it gets on instead.

| Run | Instance | Shows |
|---|---|---|
| `core` | DbConsumer: three metrics, one a duplicate, an alert, a window; batches and polls of two, two lives, `stop()` at any moment | `KeysAgree` (dedupe keys mirror the batch), `NoMetricDropped`, `AlertOncePerLife`, `CommitsFollowWrites` (a commit of the metrics group finds every metric taken written), `CommittedAdvances`, `StoppedIsQuiet` |
| `live` | DbConsumer: records that can never be written, do not validate or are not JSON, fair awaits | the inductive invariant, every record is taken whatever fails, unless one that is not JSON blocks the polls (`EveryRecordTaken`), `stop()` ends and so does the loop it did not cancel (`StopTerminates`) |
| `calls` | BulkWriter: three calls with overlapping and repeated keys, chunks of two, two attempts, the pool closed at any moment | a returned insert has written all, any other a prefix, nothing is written through a closed pool, every call ends, and the whole implements `BulkInsert` |
| `feeds` | RedisConsumer: alerts out of order, tied, refused, raising and not JSON, two symbols, feeds of two, two lives | `FeedsKeepNewest`, `AddedIsServed` (a successful `add_alert` repairs what failed ones left), `EveryRecordTaken`: the loop takes every record unless one that is not JSON blocks the polls or Redis never answers again |
| `stats` | RedisConsumer: statistics, snapshots, metrics, two lives | `LegacyKeyAhead`, the inductive invariant |
| `service` | Ingestion: two streams of two records, one malformed, two retries, a signal at any moment | `ReportedSettled` (a process stopped while streaming leaves nothing it reported as sent in the buffer), `FateKnown`, `SubmittedInOrder`, `GivesUpInTime`, `NoneTurnedAway`, and under fairness `StreamsSettle` and `StopEnds` |
| `alertsjob` | AlertsJob: two partitions, three detectors, both extremes, a flip, an invalid metric, cool-down of one tick, one restart or redeployment | `IInv` (suppression is backed by a timer, the velocity states are of one metric, flips alternate), `NoAlertLost` (a checkpoint completes only after what it covers was sent), `CooldownKept` (across runs of the job, but for alerts a restart forgot), and under fairness `ExtremeReported` (the alert that stands for the very metric) |
| `windows` | Windows: four metrics in any order of arrival, windows of four every two, a slack of one, tumbling windows of two | every window's aggregate is that of its metrics by definition, tumbling windows partition them, parts merge to the whole (`IInv`), `OnTimeCounted`, `AverageAdvances` |
| `books` | Downsampler: seven kinds of books (proper, deep, unsorted, a removed level, crossed, the best beyond `Depth`, one side), two interchangeable symbols, three messages, buckets of two seconds | `StatisticsExact`, `WithinBounds`, `BooksAgree` (parser and downsampler agree on best prices, imbalance, spread and top share of books in price order) |
| `dashboard` | Dashboard: two sessions, three calls, a pool of one, two windows, calls with and without a timeout, a Redis that may never answer | `IInv` (`EachAnswered`, `AnswersFresh`, `ChangesNewest`) and `EveryCallReturns` (unless the call without a timeout waits for Redis for ever) |
| `polled`, `signal` | | disagreements, section 5 |

Bounds. `MaxLives` starts of a process, `MaxPoll` records per poll, and the logs'
lengths in the consumers; `MaxAttempts` and `ChunkSize` in BulkWriter; `MaxAlerts` in
RedisConsumer; `MaxRecords` in Ingestion; `MaxRestarts` in AlertsJob; `MaxTicks` and
`MaxClock` in Downsampler and Windows; `MaxCalls`, `MaxWindows` in Dashboard. Two
records per batch are enough for a batch to be partly written, full, over-full after a
failure and duplicated; two lives for a crash with everything in every stage and a
redelivery; polls of two make "polled, not taken" possible. With feeds of two and three
alerts a feed is trimmed, over its size after a failed trim, and given an alert again
that it had dropped. Two retries separate "one failure too many" from "too late" and let
a count that is not reset be seen. One restart is enough for a checkpoint to be older
than what was emitted since, and to be pending when the job fails. With `VelocityLimit`
12 no metric is a spike, which would be one more key for the limiter; the states of the
velocity detector are there. Three messages, over a clock of three with buckets of two,
fill, expire and reset a bucket, with the clock moving inside a call; a window that
fires with others, a late metric and an on-time metric behind the latest all occur among
four. A call that gives up, with a pool of one, leaves a coroutine that holds the
connection the next call needs; any call with a timeout may give up. The theorems of
section 4 are for all values. The symbols of `books` are symmetric: nothing tells them
apart, and the run checks invariants only.

Fairness. `DbConsumer!Fairness` is weak fairness of each task and of the connects: an
await returns, with success or failure, and the event loop resumes the task. Failure is
among the outcomes, so nothing assumes the database works; its statements end, by
asyncpg's `command_timeout`. A poll is fair while it is not blocked.
`RedisConsumer!Fairness` has polls, the loop's own steps and commits return, and asks
nothing of Redis: with `socket_connect_timeout` and no `socket_timeout`
(`redis_client.py:53-60`) a command may never end. In `BulkWriter` it is weak fairness
of each call's step and of the pool's close: statements and sleeps end. In `Ingestion`
awaits and threads end, and the Kafka client's sender settles every record (it has a
delivery timeout); a connection need not ever succeed, and an established one need not
ever end. In `AlertsJob` the detectors read, time passes, due timers fire and the sink's
producer sends; checkpoints, failures and redeployments need not happen. In `Dashboard`
a thread takes a lock that stays free, a call with a timeout does not wait for ever, and
a query gets its answer or failure (`command_timeout`); Redis and the probes need never
answer. A lock that is passed among ever new calls would need more than weak fairness:
that every call returns is shown for the bounded number of calls of the run. `Windows`
and `Downsampler` have safety properties only. Nothing obliges anybody to produce, to
start or to stop.

## 4. What is proved

With TLAPS, for every log, batch size, poll size, number of lives, stop phase; for
every set of calls, input, chunk size and number of attempts. The assumptions are
the modules' `ASSUME`s.

`DbConsumerProofs`

* `TypeCorrect`: `TypeOK`, which includes the order of the cursors
  `base ≤ delivered ≤ position ≤ logEnd`.
* `InductiveInvariant`: `IInv`. `NoMetricDropped` is not inductive alone: clearing
  the whole batch when an insert returns is right only because nothing was added
  since its snapshot (`FlushWhole`), which holds because the main loop awaits its
  own insert and `stop()` has ended the main loop before it flushes
  (`TasksExclude`); and the rows an insert leaves are of the log
  (`RecordsInLog`).
* `DedupeSound`, `NothingDropped`: `KeysAgree` and `NoMetricDropped` follow.
* `CommitsAfterWrites`: `CommitsFollowWrites`, from `FlushWhole`: a task past the
  metrics insert has left no metric in memory, so by `NoMetricDropped` each is
  stored.
* `CommitsAdvance`, `AlertsOncePerLife`, `StoppedStaysQuiet`: `CommittedAdvances`,
  `AlertOncePerLife` and `StoppedIsQuiet`, from three more parts of `IInv`: a
  consumer that resumed is at or past its group's committed offset
  (`CommittedBehind`); an alert still to be inserted in this life has fewer rows
  than the process has had lives (`AlertsFresh`); and once `stop()` is done a loop
  waits for a poll, or for a commit on a closed consumer (`LoopsQuiet`).

`BulkWriterProofs`

* `InductiveInvariant`: `IInv`, whose part `ChunksInOrder` says that all chunks
  before the current one are written and nothing of it or later ones, but for a
  call that raised with the reply of its last statement lost.
* `ReturnsWritten`, `PrefixWritten`, `QuietWhenClosed` follow.
* `Implements`: `Spec => BulkInsert!Spec` under the mapping of "ready" and
  "attempt" to "writing". The chunk written is, since earlier ones are there, a
  prefix of the call's records (lemma `ChunkIsPrefix`).
* Lemma `Least` is the least-number principle, from the well-foundedness of `<`:
  it is what shows that among records with one key the first gets the row.

`RedisConsumerProofs`

* `TypeCorrect`: `TypeOK`, with the order of the cursors and that a handler is at one
  of its record's commands; lemma `CommandKinds` says which those can be.
* `FeedsNewest`: `FeedsKeepNewest`, inductive with the types: an alert that a trim
  drops, or that lost one of the alerts that displaced it, is outnumbered by those
  the trim kept (`TrimKeepsNewest`).
* `AddsServed`: `AddedIsServed`, from `AddProgress`: what each of the six commands has
  established by the time the next is awaited, a feed that expired excepted.
* `LegacyAhead`: `LegacyKeyAhead`, from `StatsProgress`: statistics written in this
  life are of records taken, and at the second write the first is there.
* `InductiveInvariant`: their conjunction, the `IInv` of the runs.

`IngestionProofs` (for every set of symbols, number of messages and retries, and set of
malformed messages)

* `Invariant`: an `IInv` with, beside the checked properties, `Lifecycle` (how far
  `start()`, `stop()` and the tasks have come together), `Caught` (once `stop()` has
  caught the streams none takes or sends), `Budget` (the counter is that of consecutive
  failures), `InThread` (a record in a thread is the last its stream took), `Taken`,
  `Submitted` and `Settling` (what was reported is in the buffer or settled, and what
  the buffer holds of it when the producer is flushed is awaited). `Settling` is what
  makes `ReportedSettled` inductive: a send that a cancelled stream left in its thread
  reaches the buffer later, but nobody reports it.
* `TypeCorrect`, `GivesUp`, `FatesKnown`, `InOrder`, `SettledAtExit`, `NoneTurned` follow.

`AlertsJobProofs` (for every log, partitioning, threshold, cool-down and number of
restarts)

* `OperatorsSound`: `IInv`. Every part of it is a predicate `Sound` of one job state,
  proved of the running job and of the checkpoint alike: a restart swaps one for the
  other, and time passes for both, since a timer is registered for a moment.
* `NothingLost`: `NoAlertLost`. The alert that stands for an extreme metric a job has
  got past is in the topic or in the producer's buffer for the running job, in the topic
  or among the alerts unsent at the barrier for a pending checkpoint, and in the topic for
  a completed one. A restart, which loses the buffer, is to a completed checkpoint, and a
  redeployment starts past what was read.
* `CooldownBetween`: `CooldownKept`, from the timers that back each suppression and from
  `since`, which is the job's own count for every key that is not `forgotten`.

`DashboardProofs` (for every set of sessions, of reads and of timed reads, every pool
and every bound)

* `Invariant`: lock, sessions and answers fit together (`LockedBy`), and what a
  coroutine has in hand is what its next await needs (`Sound`): the current row
  before the average, the average no older than the row, and while nobody has given up
  not older than what was stored. The last holds because then there is one coroutine at
  most (`OneCoroutine`): after a call has given up it is false.
* `ReadsSound`: `IInv`.

`WindowsProofs` (for every finite set of metrics with any times and values, every size,
slide and slack, and every order of arrival; sizes are multiples of the slide, as both
jobs have them)

* `WindowsExact`: `IInv`. `SlidingExact` needs that what is open has not fired
  (`OpenAhead`), or a metric would open a fired window again; `TumblingExact` needs
  that at most the current tumbling window is open, or two would overlap.
* `OnTime`: `OnTimeCounted`, from `WatermarkBehind`: the watermark lags some metric by the
  slack, so a window of a metric within the slack has not fired.
* `AveragesAdvance`: `AverageAdvances`, from `AveragesOrdered`: windows fire in the order
  of their ends, and all those on their way are later than the one the join has.

The windows are compared with `Reference`, the totals and extrema of a set of metrics by
definition. That these add up when a metric is added and when disjoint sets are merged
(`ReferenceAdd`, `ReferenceMerge`) is proved of the folds of the community modules, from
the existence and uniqueness of a sum over every finite set.

`DownsamplerProofs` (for every set of symbols and of messages of any length, every depth,
bucket length and number of ticks, with a callback and without)

* `WelfordExact`: one step of the recurrence keeps the statistics exact. The sum of squares
  about the new mean is that about the old one, corrected (`SumShift`); the divisions are
  exact because a number that two successive numbers divide is divided by their product
  (`Successive`).
* `Statistics`, `Bounds`: `StatisticsExact` and `WithinBounds`, from an `IInv` that says of
  every buffer in use and of that of every metric made that it has a buffer's types, that
  its statistics are exact, and that its ticks come in order and lie inside, the first
  excepted as `WithinBounds` says. Extrema are those by definition, of any integers.
* `BothWays`: `BooksAgree`, of every book, but for the weighted imbalances, which are not
  compared: the sort keeps exactly the levels with positive
  price and quantity, each at its place (`PlaceUnique`, `SortedIs`), leaves a sorted
  prefix where it is (`SortedPrefix`), and the ratios are in range since sums of positive
  numbers are positive.

A fold is a recursive function, and that one exists is itself a theorem. Both modules
prove by induction what they need of one particular fold or sum: from the
well-foundedness of `<` or of the strict subset relation a non-empty set of
counterexamples has a minimal element, and the step refutes it (`LeastNatural`, `Induct`,
`MinimalSubset`). The library's induction theorems, which take a predicate as
a parameter, are not used.

Only model-checked is everything under fairness: `EveryRecordTaken` of both consumers,
`StopTerminates`, `EveryCallEnds`, `StreamsSettle`, `StopEnds`, `ExtremeReported`,
`EveryCallReturns`. Every invariant and every action property of a passing run is a
theorem.

## 5. Disagreements found

Two are runs that must fail, and entries of `findings`.

* `polled`: `commit()` commits the client's position, past the whole poll; a flush
  in the middle of a poll commits records not yet taken, and a crash then loses them.
* `signal`: `setup_signal_handlers` registers handlers "for graceful shutdown"
  (`utils.py:24`); a signal that comes before the streams have started clears
  `_running` and is forgotten: `start()` goes on and streams, and a later
  `stop()` finds `_running` false and does nothing.

The others were seen in the code or in the models' behaviours while modelling.

Consumers

* an alert whose insert failed is passed over, and the next commit covers it;
* two tasks insert the windowed batch at once; each clears it on return, with what was
  added in between;
* `stop()` cancels the loop with polled records in hand; `close()` commits past them;
* skipping a malformed window (`SkipMalformed`) commits past windows in memory;
* `docs/DATABASE.md:70` says a second metric of one key overwrites; the bulk insert
  keeps the first;
* a record that is not JSON makes every poll that fetches it raise
  (`redpanda_client.py:360`, `429-433`): no later record of its partition is ever read;
* the Redis client sets no `socket_timeout` (`redis_client.py:53-60`): a command that is
  never answered stops the Redis consumer's loop;
* the Redis client's False for a failed write is not looked at; the loop commits the record;
* a `stop()` during `start()` leaves a consumer that connects later open for good;
* a flush timeout is looked at only when a record arrives;
* a feed whose `add_alert` failed before `expire` stays without a time to live until
  the next alert; a redelivery can set a cached value back to an older record;
* the second registration of the signal handlers replaces the first, so only the database
  consumer is stopped, and `main()` returns up to a minute later, through `log_health`.

Flink jobs

* the alerts have a `time` and no `timestamp` (`models.py:361`): `_handle_alert` of the
  database consumer (`db_consumer.py:382-384`) gives them the time of handling, and with
  that time they are stored; `add_alert` refuses them, so they are never cached.
  `docs/DATABASE.md:232` says otherwise;
* `parse_metrics` catches `ValidationError` only: a record that is not JSON fails the
  job, and again after each restart;
* the limiter's key has no severity: a high alert is suppressed by a low one; after a
  restart an alert within the cool-down may reach the topic twice;
* a late metric sets the velocity states back; a change of side through exactly zero
  raises no flip;
* a comment in the windows job says windows every 30 seconds, the code has 60.

Books and downsampler

* `downsampling.py:117` compares the lowest bid with the best ask: a crossed book is
  accepted, though the message says "Best bid must be less than best ask";
* without `on_flush`, `add_tick` discards the metric of a full bucket, so the usage its
  docstring recommends loses nearly every bucket, as does a callback that raises; with
  one, `get_ready_metrics` hands a metric over that the callback had too;
* the first tick of a bucket precedes its `bucket_start`: it is stamped as it is parsed
  (`downsampling.py:168`), before `created_at` is read (`419`, `511`);
* an empty bucket that has expired is not reset, so its first tick lies past its end, which
  `WithinBounds` therefore allows of a first tick;
* `weighted_imbalance` is two measures under one name: the metrics calculator weighs a
  level by 1/rank, the downsampler by its distance from the mid price;
* the class calls itself thread-safe; between `get_metric` and `reset` it is not;
* the parser reads `lastUpdatedId`, the exchange sends `lastUpdateId`.

Dashboard

* `add_windowed`, `insert_volatility_data`, `cache_multiple_metrics` and
  `clear_symbol_cache` are called by tests only: the windows and volatility that the
  dashboard looks for in Redis are never there;
* `compute_price_change_24h` always fails, on `datetime.timezone` (`db_queries.py:370`);
  `compute_metric_vs_windowed` compares the newest window with itself;
* `get_cached_statistics('5m')` may answer with the legacy key's one-minute window;
* a call waiting for the lock has no timeout, and one call (`multi_metric_windows.py:14`)
  holds it without one and asks Redis first: a Redis that never answers it stops every
  session; a coroutine that was given up goes on and may overwrite newer
  changes with older ones, which is why `ChangesNewest` excludes it.

## 6. Plan

The plan of modules is done: `DbConsumer`, `BulkInsert` and `BulkWriter`,
`RedisConsumer`, `Ingestion`, `AlertsJob`, `Windows`, `OrderBook` and `Downsampler`,
`Dashboard`. What would add most next:

1. `ConsumersMain`: the two consumers under one signal handler, composed of `DbConsumer`
   and `RedisConsumer`. What it would add to them is one fact, that only one of the two
   `stop()`s is ever called; the product of their states is too large for TLC as they are.
2. A refinement of `AlertsJob` by a model with the limiter behind a channel, to
   discharge the reduction described at the head of the module.

## 7. Not modelled

* the dashboard's views: rendering, without state of their own; in `Dashboard` a view is
  a thread that makes calls;
* the composition of the two consumers (`consumers/main.py`): section 6;
* Redpanda's and Flink's admin queries of the dashboard: single requests, probes in `Dashboard`;
* RedisClient's methods that no process calls, and its readers but for their order of
  reads in `Dashboard`; the DatabaseClient's queries, which only read;
* the deployment files, and the schema beyond its keys: declarations;
* single-field validators beyond "valid or not", logging, counters, and the time
  that back-offs, timeouts and expiry take.

The recursion-free style of the modules with theorems is deliberate: folds come
from the community modules.
