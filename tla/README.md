# Verification of smartenergy-api

TLA+ models of the parts of smartenergy-api where the order of steps decides
whether the result is right: the response cache, the task queue, the schedule of Celery Beat, the
backfill, the Redis client of a process, the connection pool of the API under the
system page that polls it, the life of the schema, and the worker's tasks over
readings and KPIs. TLC checks each on small instances; TLAPS proves every safety
property of theirs for every value of the constants.

## 1. Inventory

The program is a FastAPI application, a Celery worker, a Celery Beat process
and some scripts, over one PostgreSQL database and one Redis. Redis is three
things at once: response cache, broker and result backend. A browser dashboard
reads the API.

| Part | State | Operations | Talks to |
|---|---|---|---|
| Response cache (`api/utils/cache_utils.py`, `core/cache.py`) | keys `cache:*` in Redis, each with an expiry | lookup, handler, `SETEX`; fails open | every GET handler; writers do not touch it |
| Cache cleanup (`tasks/cache_tasks.py`) | none of its own | `scan_iter`, one `DEL` | Redis; called by a task, Beat and the backfill |
| Cache warmup (`tasks/cache_tasks.py`) | none | GET requests to the API | fills the response cache |
| Task endpoints (`api/tasks.py`) | none | publish (202 or 503), read a status | broker, result backend |
| Worker and broker (`tasks/celery_app.py`, `tasks/worker.py`) | messages, deliveries, results | receive, start, commit, store the result, acknowledge | Redis, PostgreSQL |
| Beat (`tasks/worker.py`, `scripts/prestart.sh`) | last run of each entry, in memory and in `/tmp/celerybeat-schedule` | publish with an expiry, write the file | broker |
| Database engine (`core/db.py`) | the connections of a process | check out, give back, discard | PostgreSQL; shared by all handlers |
| Database tasks (`tasks/refresh_kpis.py`, `tasks/demo_data.py`) | readings, KPIs | refresh, generate, clean | PostgreSQL |
| Portfolio backfill (`scripts/backfill_demo_90d.py`) | all domain tables | classify, create, commit, clean the cache, report | PostgreSQL, Redis |
| Seed (`scripts/seed_demo.py`) | the same tables | check users, commit | PostgreSQL |
| Redis client (`core/cache.py`, lifespan, `run_async`) | `_client` of the process | get, close | Redis |
| System metrics (`tasks/metrics_tasks.py`, `api/system_metrics.py`) | rows of `system_metrics` | append, read the newest | PostgreSQL |
| Meta cache, e-mail (`tasks/metrics_tasks.py`, `tasks/email.py`) | one key | set, send | Redis, a mail service |
| Authentication (`core/deps.py`, `core/security.py`, `api/auth.py`) | none; signed tokens | log in, verify | PostgreSQL |
| Health, HTTP metrics (`api/health.py`, `api/metrics.py`, `main.py`) | counters, a listener thread | probe, serve | PostgreSQL, Redis |
| Schema adoption (`scripts/adopt_legacy_schema.py`) | the Alembic stamp | compare, stamp | PostgreSQL |
| Restore and backup (`scripts/restore_postgres.sh`, `deploy/kubernetes/operations`) | dumps, target databases | dump, create, restore | PostgreSQL |
| Dashboard (`site/assets/js`) | what is drawn, a timer | fetch, poll | API |

What is hard about it, and what makes each part right:

- **Response cache.** No write invalidates. A request reads the database and
  stores what it read some time later, without a version and with a full TTL;
  after `socket_timeout` the request goes on although Redis may still apply its
  `SETEX`; a crash of Redis brings back entries that were overwritten. Right
  means: staleness is bounded, an answer not from the cache is fresh, a 404
  is never remembered, a completed clean leaves nothing stale that it was
  responsible for, and Redis can never hold a request.
- **Task queue.** Acknowledgement is late, workers and their children are lost,
  Redis restarts from its last fsync, a publisher may repeat or refuse what has
  arrived, deliveries time out while a worker is busy. Right means: accepted work
  is executed at least once, its status is true, and repetition has a cause.
- **Backfill.** Nine counts, nine statements, no lock, then a commit; runs
  overlap each other, the seed, the API and the worker, and may die anywhere.
  Right means: the dataset is created at most once and each report is true.
- **Readings and KPIs.** Tasks of several statements under READ COMMITTED, given
  to a worker again when it is lost, possibly with the first COMMIT still on
  its way. Right means: one series without gaps or repeats, three energy tables
  in step, a KPI row equal to what it aggregates.
- **Beat.** A run is noted before its message is sent, the file lags behind the
  memory and dies with the pod, a message may expire or be started on another day
  than it was published, and `kpis.refresh` takes the day from the clock. Right
  means: every day is summarised on the next unless something happened on that very
  day, and a worker that comes back is not flooded.
- **Pool and system page.** One pool without pre-ping serves cached handlers, which
  keep their connection until Redis has answered, the polls of the page and
  `readyz`, which is cancelled at its own time limit. Polls overlap, and an
  answer is drawn when it arrives. Right means: connections always come back, the
  API reports ready again after every fault, the page catches up and goes back only
  for a reason.
- **Redis client.** One module variable, shared by the coroutines of an event
  loop and outliving the loop; it is set before its first ping and reset when that
  fails, while others already use it. Right means: no loop uses the client of
  another, a client that works is not taken away, and every client is closed with
  its loop but those that `get_redis` drops after a failed ping.
- **Schema.** Migrations, adoptions, dumps and restores are programs of several
  connections without a common lock, each of which may break off. Right means:
  where Alembic's stamp is, the schema is, and a restore that reports success had
  the database to itself and is exact, as long as the application has not begun to
  change it.

`PROJECT.json` lists each hazard at its line, with the properties aimed at it.

## 2. Modules

| Module | Models | Beside it |
|---|---|---|
| `ResponseCache` | the wrapper `cache_response`, `cache_get`, `cache_set`, the keyspace with its append-only file, committed changes, `clean_stale_cache` | `MCResponseCache`, `MCStaleRead`, `ResponseCacheProofs` |
| `DurableQueue` | abstract: what `docs/deployment.md` promises of an accepted task | |
| `TaskQueue` | publishers, broker, workers, result backend, faults; implements `DurableQueue` | `MCTaskQueue`, `TaskQueueProofs` |
| `BeatSchedule` | Beat with its file, the messages in between, the worker that starts them, the days that `kpis.refresh` summarises | `MCBeatSchedule`, `BeatScheduleProofs` |
| `ApiPool` | the connections of an API process and the requests that share them; actions only | |
| `SystemPage` | `ApiPool` composed with the rows of `system_metrics` and the polling of `system.js` | `MCSystemPage`, `SystemPageProofs` |
| `Backfill` | `backfill_demo_90d.py` beside other runs, the seed, the worker and the API | `MCBackfill`, `BackfillProofs` |
| `RollingReadings` | abstract: what the docstrings of `demo_data.py` promise of the readings of a meter | |
| `Readings` | `kpis.refresh`, `demo.generate`, `demo.clean` statement by statement, beside the first dataset; implements `RollingReadings` | `MCReadings`, `ReadingsProofs` |
| `RedisClient` | `get_redis` and `close_redis` under the lifespan of the API and `run_async` of the worker | `MCRedisClient`, `RedisClientProofs` |
| `SchemaLifecycle` | `alembic upgrade head`, `adopt_legacy_schema.py`, the backup CronJob, both restores, cutover | `MCSchemaLifecycle`, `SchemaLifecycleProofs` |

`PROJECT.json` "map" gives the source lines of every definition. Operators
with the comment "Mutant" are not part of a model: each stands before the
definition it is a faulty version of, and shows that a property can fail.

### ResponseCache

`db[k]` counts the commits that changed what key `k` shows, and a response is
the version it was computed from. A request goes through
`lookup -> query -> store -> sent -> answered`; each arrow is an await of
`wrapper`. `LookupMiss` stands for no entry, no client, an error and a timeout,
which `cache_get` maps to `None` alike. `SendSet`, `ApplySet`, `Return` and
`LoseSet` separate the command from its reply: `Return` is the reply or the end
of `socket_timeout`, and leaves the command in `wire`. `Tick` is one second or
more of the clock; within a second Redis writes its file, so `Tick` copies
`cache` to `disk`. `RedisRestart` takes each key from one of the two.
`clean_stale_cache` is a scan that must yield what was there all along and may
yield the rest (the guarantee of SCAN), then one `DEL`. History: `born`,
`quiet`, `clean.settled`; no guard reads them.

### TaskQueue and DurableQueue

A task has copies: the messages that its publisher pushed, more than one if
`task_publish_retry` sent it again. `place` and `holder` are the broker's
lists and its record of unacknowledged deliveries; a worker whose delivery was
restored is no longer the holder, and its acknowledgement does nothing. A worker
goes `received -> running -> committed -> stored -> idle`, the order of
`task_track_started`, the body's commit, the stored result and the late
acknowledgement. `Raise` is possible before and after the commit, since
`finally` clauses of `run_async` and of the tasks run after it. `ChildLost` is
`task_reject_on_worker_lost`; `WorkerLost` is the whole container; `Restore` the
visibility timeout; `RedisCrash` goes back to `saved`, the last fsync.
Celery, kombu and Redis are not under `src/`: their behaviour is what
`celery_app.py` and the manifests configure. The refinement mapping is the
identity except `asked`, the tasks whose publisher has begun.

### BeatSchedule

`last` is what Beat holds in memory, `file` what `Sync` has written of it. `Publish`,
`PublishTwice` and `PublishFails` all note the run at the present time, not at the
time it was due; `PublishTwice` is `task_publish_retry` after a lost reply, as
`TaskQueue.Push` has it. `Crash` restarts the container in its pod, with the old file;
`Replace` is a new pod, whose `emptyDir` has none, so that all entries start over. A
message carries when and on which day it was published; the day is history, as are
`troubled` and `rewinds`, the moments at which Beat went back to an older run of an
entry. The worker discards an expired message and starts any other with the day before
the present one as target. A run ends in one of three ways: `Finish` commits its day;
`Fail` is a task that raises, which is stored as `FAILURE`, acknowledged and not
retried; `Lose` is a lost worker, whose message comes back as the next or as the last
one. `Forget` is a Redis that goes back to its last fsync, and `Redeliver` a message
that comes back although it is being executed (the visibility timeout, or an
acknowledgement that a crash of Redis undid). `Tick` is the clock, with a midnight
every `DayLength` ticks.

### ApiPool and SystemPage

A request goes `wait -> query -> answered`, a cached one `wait -> query -> store`,
where it still holds its connection. `con[r]` and `idle` tell the connections of the
running server from those of an earlier one (`stale`). `Checkout` takes any idle
connection and lets any waiter have it, more than the order of the queue allows.
`Disconnect` is the error of the first request that uses a dead connection:
SQLAlchemy then drops all idle ones. `GiveUp` is `pool_timeout`, or for `readyz`
its own limit; `TimeOut` is the cancelled ping, whose `async with` drops the
connection. `DbCrash`, `DbBoot` and `Restart` are the faults. SQLAlchemy and
PostgreSQL are not under `src/`; `create_async_engine` is called with defaults.

`SystemPage` adds the page: `Poll` is a run of `refresh()` up to its `await`,
`DrawAnswer` and `DrawError` the rest of it, for any answered or failed poll in any
order. `page` tells whether the first run has ended, after which `setInterval`
starts. `Record` commits rows in any order of ids, since two runs of
`metrics.record` may overlap. `Serve` joins what the pool does with a request and
what the endpoint reads.

### Backfill

A table is the set of row groups in it. `Count`, `CheckOn` and `Block` read
one table per step. `InsertOwner` holds the unique name until `Commit`, and
`OwnerExists` is the `IntegrityError`. `Die` is any database error or the end of
the process. `CleanDemo` leaves a suffix of the reading tables empty or partly
filled, because its deletes run one after another.

### Readings and RollingReadings

Hours, one meter, one site. `job` is the run on the worker's only process; its
`step` is the next statement, `at` the target day, first new hour or cutoff, and
`got` what was read. Hours are counted from one before any reading and any cutoff
(`Start` is where the clock begins), so the days to keep may be more than the dataset
has, as the default 30 of `demo.clean` are for the 7 of the seed. Writes show at `Commit`. `Lose` puts the message back and
may leave the run as `orphan`, whose `COMMIT` is on its way and holds row locks
until `OrphanCommit` or `OrphanRollback`. An existing KPI row is updated in the
columns that differ from what was read, as the session does. The value of a KPI is
the rows it was computed from, so two KPIs are equal only if they aggregate the
same rows. The refinement mapping takes from each table the hours that have rows;
a run is then a step of `RollingReadings` at its commit and a stutter before.

### RedisClient

`client` is `_client`; a client is named by the call that created it, and `conn`
is whether its connections are open or closed. `PingError` resets the variable and
leaves the client open, as `cache.py:31-33` does, even while another coroutine uses it.
A call
goes `idle -> ping -> use -> done`; between two of these others run. `Reuse` is the
first test of `get_redis`, which also passes on a client whose ping is pending;
`Pong` returns the variable, as the code does, not the client pinged; `Command` is
the caller's one use of what it was given. `loop` numbers the event loops of the
process one after another: the API has one with many calls, the worker one per
task. `CloseStart` and `CloseEnd` are the two sides of the `await` in
`close_redis`. `verified` and `failed` are history.

### SchemaLifecycle

A database is a set of facts about its schema, with rows and the stamp; `db[d]`
is what `d` holds. `Differs` is one comparison of `_inspect_schema`: equality for
tables, columns (type affinity and nullability, as the code compares) and primary
keys, inclusion for unique constraints, indexes and foreign keys. An adoption makes
the comparisons one after another, each on the database as it is then, and
`AdoptStamp` is another connection. `MigrateCommit` is the one transaction of
`upgrade`, which fails at a table that is there. A backup connects to `source`, the
`POSTGRES_DB` of the Secret, reads the revision, then dumps in one snapshot; whether
`curl` hears of the upload makes no difference to the object. A restore goes
`downloaded -> checked -> restoring -> restored -> succeeded`; `RestoreCheck`
also passes when `psql` fails, because only `grep` decides, and `RestoreBreak`
leaves the sections of the file that are in. `Stop` is every other error exit.
`Write` is a transaction of the application on a database it was ever started on
(`used`): it adds rows and deletes them, as `demo.generate` and `demo.clean` do.
`ByHand`, `Trial` and `Cutover` are what the documentation has an operator do: prepare
a legacy schema, point a temporary API at the restored database, then `DATABASE_URL`.
`PointBackups` changes `POSTGRES_DB`, which is another key of the Secret, so that
backups follow a cutover sooner, later or never. The CronJob
and the restore Job are kept in the repository but not deployed.

## 3. Runs

| Run | Specification | Checks | Bounds |
|---|---|---|---|
| `ResponseCache` | `FairSpec` | `TypeOK`, `StaleWindow`, `FreshOnMiss`, `CleanLeavesFresh`, `Answered` | 2 requests, a list and a meter, 2 commits per key, clock to 2, TTLs 2 and 1 |
| `StaleRead` | with history | `StaleForOneTtl`, **violated** | 1 commit per key, clock to 3 |
| `TaskQueue` | `FairSpec` | `TypeOK`, `NothingForgotten`, `ResultHonest`, `RepeatsNeedFaults`, `KeepsPromise` | 2 workers, 2 copies; 2 things that go wrong, a second message counted as one |
| `BeatSchedule` | `Spec` | `TypeOK`, `QuietDays`, `NoBurst` | a daily and a more frequent entry, a day of 3 ticks, clock to 7, 2 faults |
| `SystemPage` | `FairSpec` | `TypeOK`, `OnlyCrossedStepsBack`, `PageCatchesUp`, `ReadyAgain` | 2 polls, `readyz`, 1 cached request, 3 connections of which 2 are kept, 2 rows, 2 faults |
| `Backfill` | `FairSpec` | `TypeOK`, `ExactlyOnce`, `CalmVerdict`, `RunsEnd` | 2 runs, the seed, 2 other transactions |
| `BackfillRace` | `Spec` | `WritesOnlyWhenEmpty`, **violated** | 2 runs, the seed |
| `Readings` | `Spec` | `TypeOK`, `OneSeries`, `Aligned`, `CalmRefresh`, `KeepsRolling` | 3 tasks, 2 losses, days of 2 hours, a dataset of 1 day, 2 days to keep, clock 4 to 7 |
| `RedisClient` | `Spec` | `TypeOK`, `OwnLoop`, `VerifiedStays`, `OnlyFailedStayOpen` | 3 calls in a first loop, then 2 loops of one call |
| `SchemaLifecycle` | `Spec` | `TypeOK`, `StampMeansSchema`, `RestoreExact`, `OwnDatabase` | 2 migrations, 1 adoption, 2 backups, 2 restores, 2 names, 1 row; a table, 2 columns, 2 indexes |
| `RefreshRace` | `Spec` | `RefreshAggregates`, **violated** | 1 task, no loss |
| `PowerDays` | `Spec` | `OnePowerRowPerDay`, **violated** | 1 task, no loss |

Why the bounds are enough:

- *Cache.* Every property is about one key and one request against one or more
  changes. The second request fills while the first is stale, the second key
  exercises a scan that has found one key and not the other. The meter's TTL of 1
  lets its entry expire and be filled again within a clock of 2, while that of
  the list, 2, does not expire before the second change (both are 60 s in `meters.py`;
  others of the API are 120 and 300 s). All properties of this run but `Answered` are
  also proved without bounds.
- *Queue.* Messages of different tasks do not meet except in a worker's time,
  so one task with two copies and two workers has every interleaving of a
  delivery, its restored duplicate and a second publication. Two things may go wrong,
  as a crash of Redis after a lost worker, or after the second message of a
  publisher that did not hear of the first. The task may expire; a task of
  the API is one whose expiry never passes. The invariants are proved for any
  number.
- *Backfill.* Two runs are the least that race and the owner's name serialises
  any more; two foreign transactions give every way to change a counted table
  twice.
- *Beat.* Two midnights make one whole day with the day before and after it: a
  message may be late, lost or replaced on it, and its trouble must not reach the
  next. The second entry keeps the worker busy and is published twice before
  the first is due again. Two faults are a lost worker and a Beat that goes back,
  a publication repeated and forgotten, or two of a kind. Its invariants are proved for any schedule and any number.
- *Pool.* Three connections for four requests: the pool is full exactly when the
  others hold one each, and with two kept a third is closed when it comes back.
  Two polls can cross; two rows can be committed out of order; two faults are a
  crash of PostgreSQL during the recovery from another, or from a restart of the
  API. The invariants are proved for any requests and any pool.
- *Readings.* Three tasks reach generate, clean, generate and
  refresh, generate, refresh. With 2 days to keep, a clean of the first dataset finds
  nothing to delete at hour 4, a part of it later and all of it at hour 7. Two losses give a redelivered task that meets
  the orphan of its first run, and again. A day of two hours has a midnight and an
  hour that is not, which is all that `Day` and the power rows tell apart. `Hours`
  is finite, but cuts nothing off: it ends where the clock, every task and every
  redelivery can take `demo.generate` (`HoursSuffice`). The properties are proved
  for any dataset, days, tasks and losses.
- *Redis client.* Three coroutines are one whose ping is pending, one that
  reuses its client and one that connects after the ping has failed; two later
  loops are a worker's task that finds a client of the loop before, or not. Its
  invariants are proved for any calls and loops.
- *Schema.* Two restores may want one name, from objects taken before and after
  the row; the second migration is that of the restored database after a
  cutover. The schemas before Alembic are none, one without its index, one with a
  column of another type, and one with an index more. Executions of one program are
  interchangeable, hence the symmetry. A second dump may be of the same database with
  other rows, or of the restored one. Its invariants are proved for any number.

Deadlock is checked in `SystemPage`, whose polls and probes never end. It is off in
the others: clock, changes and faults are bounded and requests, tasks and runs
are served once, so each instance stops.

### Fairness

- `ResponseCache`: weak fairness of each request's next step. Redis commands end
  by `socket_timeout=1`, queries by a result or a driver error. Redis itself,
  the clock and writers get none; that is what makes `Answered` "fail open".
- `TaskQueue`: weak fairness of each worker's step, `Boot` included (the
  Deployment restarts it), and of the visibility timeout of abandoned
  deliveries. Publishers, expiry, result expiry and Redis's fsync get none. Task
  bodies are assumed to end: `celery_app.py` sets no time limit, so this is an
  assumption on the database.
- `SystemPage`: weak fairness of each request's next step, each answered poll, the
  timer of the page, the kubelet's probe and the start of PostgreSQL. An await of a
  handler ends with a result, a lost connection or `pool_timeout`, that of
  `cache_set` with `socket_timeout`, the ping with `wait_for`; a StatefulSet starts
  PostgreSQL again. Rows, load and faults get none: `PageCatchesUp` and
  `ReadyAgain` speak of the time after the last of them. Two assumptions: a
  working database answers `SELECT 1` within the two seconds of `readyz`, so that
  `TimeOut` needs a full pool or a database that is down; and a query on a
  connection whose server is gone ends with an error.
- `BeatSchedule` has no liveness property and no fairness: Beat and worker may stop
  for any time, which `QuietDays` counts as trouble once midnight has passed.
- `Backfill`: weak fairness of a started run: its statements return or fail. A
  run that waits for the unique name is released when the other commits, dies or
  fails, all of which are its own next steps.

### Findings

Four runs refute a sentence of the repository:

1. `StaleRead`. `README.md:144` bounds staleness by the TTL. A request that read
   before a write and stores after it fills the cache with old data for a full
   TTL counted from the store. `StaleWindow` is the bound that does hold: one
   TTL after the last moment an outdated response was on its way.
2. `BackfillRace`. `docs/deployment.md:61` says that the backfill writes only
   when all tables are empty. The seed can commit between count and commit.
   `ExactlyOnce` and `CalmVerdict` are what holds.
3. `RefreshRace`. `kpis.refresh` reads its aggregates before its sites; a dataset
   committed between gets KPIs of 0, or the ones it came with are overwritten.
   `CalmRefresh` is what holds.
4. `PowerDays`. The first "new day" of `demo.generate` is the day of the last
   reading, unless that was of 23:00, and gets a second power row.

Two observations that refute nothing. `readyz` also answers 503 when the pool is full
or its connection is of an earlier server, although the database works
(`README.md:127` speaks of the database only); `ReadyAgain` shows that it recovers. And
`docs/deployment.md:51` is right that Beat needs no persistent volume, at the price
that a pod replaced before the daily run leaves out that day (`QuietDays` names
the case: `troubled`).

A third: a client whose first ping fails is never closed (`cache.py:31-33`), so a worker
keeps what that client has opened once for each failed ping. `OnlyFailedStayOpen` says
that there are no others; no sentence of the repository promises more.

## 4. Proofs

The proofs hold for any finite or infinite sets of requests, keys, writes,
tasks, workers, schedules, runs, calls, pools, schemas and programs, and any bounds, under the assumptions of the
modules: `CacheAssumption` (TTLs are positive, `DetailKeys` are keys);
`QueueAssumption` with `NoOneAssumption` (at least one message per task; "no
one" is not a worker); `RunsAssumption` (the seed is not a run of the backfill);
`CallsAssumption` with `NoClientAssumption` (each call has a loop; "no client"
is not a call); `SchemaAssumption` with `ProgramsAssumption` (the baseline has a
table and only facts of the kinds that are compared; a run is of one program);
`ScheduleAssumption` with `IdleAssumption` (each expiry is below its period and
`kpis.refresh` is daily, as in `worker.py`; "idle" is not an entry);
`PoolAssumption` with `PageAssumption` (`readyz` and the polls are requests that are
not cached, and no more connections are kept than may be open);
`ReadingsAssumption` (hour 0 lies before the dataset and before what `demo.clean`
keeps; nothing relates the two).

`ResponseCacheProofs`: `TypeCorrect`, `StalenessBound`, `MissesAreFresh`,
`CleanIsComplete`. `StaleWindow` is not inductive: it speaks of entries and not of
responses that will become entries, nor of the file that may become the cache.
The inductive invariant `IInv` adds
  - `Posted`: a command on the wire belongs to a request that has passed the store,
    so its view no longer changes;
  - `WindowInv`: no entry of memory or file outlives its TTL; an outdated one ends
    one TTL after the quiet time; while an outdated response is held, the quiet
    time is now. A `SETEX` then creates a stale entry only at its quiet time, and
    a restart chooses between two keyspaces that both satisfy the bound;
  - `FreshInv`: what was read is no older than the request's arrival, and no 404
    is on its way, in the cache or in the file;
  - `ScanInv`: during a scan, a settled key is stale only through an entry that the
    scan must yield. Hence the `DEL` removes it.

`TaskQueueProofs`: `TypeCorrect`, `AcceptedIsKept`, `StatusIsHonest`,
`RepetitionHasACause`, `ImplementsPromise`. `NothingForgotten` is not inductive either: a crash goes
back to the file, and an acceptance follows its push. `IInv` adds
  - `KeptInv`: the same fact of the file, and of tasks whose publisher waits for the
    reply; the lemma `LastCopy` shows that no release takes the last copy of a task
    without an outcome;
  - `SavedInv`: what the file owes is owed;
  - `WorkInv`: a worker that is past its commit has committed, one past its result
    has an outcome, and its task was asked for;
  - `FromPublisher`: every copy, in the broker or its file, was published.

`RepeatsNeedFaults` counts executions, and no count is inductive by itself. Its
invariant `QuietInv` speaks of the time before the first fault:
  - `Held`: what a worker has received is the unacknowledged message of that worker,
    so no two work on one message;
  - `OncePerCopy`: a task was executed at most as often as copies of it are spent,
    acknowledged or past their commit. A commit spends one that was not.

`ImplementsPromise` says that the initial states and every step of `TaskQueue`
are those of `DurableQueue` or stutter.

`BeatScheduleProofs`: `TypeCorrect`, `DaysAreRefreshed`, `NoBurstAfterOutage`.
`QuietDays` says nothing of the present day, and `NoBurst` nothing of when messages
were sent. `IInv` adds
  - `TodayInv`: once Beat has noted a run of today, the day before is settled or the
    message waits; so midnight finds it settled or marks it. A run that raises and a
    message that Redis forgets settle it by marking it;
  - `NotedInv`: no message that waits or is being executed (`Held`) is younger than
    the run that is noted, unless Beat went back since it was published;
  - `SpacedInv`: two held messages of an entry that were not published at once are a
    period apart, unless Beat went back in between. With an expiry below the period,
    at most one publication of an entry is then alive, in however many copies.

`SystemPageProofs`: `TypeCorrect`, `StepsBackOnlyCrossed`. Every step of the pool is
shown to be one of four (`Moved`): nobody takes a connection, one is taken,
one is returned or dropped, or all are gone; a crash only turns connections
into stale ones. `IInv` adds
  - `SizeInv`: the holders are finitely many, so that they can be counted although
    `Requests` may be infinite;
  - `StoreInv`: only a cached handler stores;
  - `DrawnInv`: what is drawn or on its way was committed, and an answer that no other
    overtook is at least as new as the charts.

`BackfillProofs`: `TypeCorrect`, `CreatedOnce`, `CalmRunsDecideRight`. That at most
one dataset is created does not follow from the counts, which race, but from the
unique name of the owner. `IInv` adds
  - `OwnerFirst`, `UniqueName`: whoever writes has inserted the owner first, and no
    two hold or have committed it;
  - `Progress`: how far a run has come, in terms of what it has counted;
  - `CalmInv`, `Fresh`: while no one else has committed since a run began, what it
    has counted is still what the tables hold, so its verdict is of the present.

`RedisClientProofs`: `TypeCorrect`, `ClientOfOwnLoop`, `OneVerifiedClient`,
`FailedPingsStayOpen`. None of the three properties mentions the coroutine that is
pinging, on which all depend. `IInv` adds
  - `PingInv`: who pings has created the current client, and so is alone;
  - `UseInv`: a client in use is of the running loop and open, also one that a failed
    ping has taken away;
  - `ClientInv`, `OpenInv`, `PastInv`: the current client is open, of the
    running loop and has not failed; every other open client has failed, and every one
    that has failed is open.

`SchemaLifecycleProofs`: `TypeCorrect`, `StampIsTrue`, `RestoresAreExact`,
`RestoresAreAlone`. A broken restore leaves a stamp without its schema, so what
is inductive speaks of the databases that are or may become active. `IInv` adds
  - `KnownInv`, `AloneInv`: what the application or the backups are or were pointed at
    is the first database or one whose restore has reported success, and a restore
    between `createdb` and its report is in none of them and alone in its own;
  - `FillInv`: that one holds nothing, then exactly the object;
  - `StampedInv`, `FileInv`, `BaseInv`: whatever serves, is dumped or was restored
    is stamped, and the stamp is true;
  - `CompareInv`: what an adoption has found equal still is. A migration cannot
    commit in between because the tables already agree (`TablesAgree`), and at the
    end all facts of the baseline are there (`AllCompared`).

`ReadingsProofs`: `TypeCorrect`, `OneSeriesPerMeter`, `EnergyTablesAligned`,
`CalmRefreshIsExact`, `ImplementsRolling`, `LateNeedsALoss`, `HoursSuffice`. Readings are numbers of rows
from which a clean subtracts, so the type itself depends on what the runs know.
`BaseInv` therefore joins `TypeOK` with
  - `ClockInv`, `RunsInv`, `EmptyInv`: the site comes with the dataset and there are
    no readings before; a run at a step has what the earlier steps found;
  - `DeletedInv`: what a clean has deleted and not committed is still there, and two
    cleans never delete the same rows, because a `DELETE` waits for the lost one's
    locks. No subtraction goes below zero, late or not.

To it each property adds its own:
  - `IntervalInv`, `NextInv`, `CutInv` for `OneSeries`, while no `COMMIT` was late: an
    hour has one row, every energy table is an interval up to the last imported
    reading, no power row comes after it; a generate starts right behind it; a
    clean has read all rows up to its cutoff of each table it has passed, or nothing
    at all because the dataset came later. Cutting the tables off from below, one
    earlier than another, keeps all this; deleting from the middle would not;
  - `AlignedInv` for `Aligned`: while no dataset was committed under a clean either, the
    energy tables are equal and only the first kind of clean occurs;
  - `OneRowInv`, `ReadInv` for `CalmRefresh`: a day has one row, and while nobody else has
    committed, what a refresh has read is what is there;
  - `ReachInv` for `HoursSuffice`: readings end one block of days after the clock for
    each run that has committed, at most, and a run that has not has its block left;
  - all of `SeriesInv` and `ReachInv`, with `RecentInv`, for `KeepsRolling`: a clean holds
    no row of the days to keep, redelivered or late. So a late `COMMIT` may tear the
    series, but not take away what is recent.

`OneSeries` and `Aligned` except a late `COMMIT`; `LateNeedsALoss` says that only a lost
worker makes one. `Last` is a `CHOOSE` of the greatest hour; that there is one is the
lemma `Greatest`, by the well-foundedness of inclusion on finite sets, not by
induction.

Only model-checked: the liveness properties `Answered`, `RunsEnd`, `PageCatchesUp`,
`ReadyAgain` and the fair half of `KeepsPromise` (fairness and ENABLED are beyond the
prover).

## 5. What is abstracted or left out

- One task body is one commit of its work (`TaskQueue`). That its repetition
  is harmless is the subject of `Readings`, not of the queue.
- `Readings` takes one meter of one site: tasks treat all in one transaction and
  no statement relates two meters. Values of readings and of KPIs are not
  modelled, only which rows they come from.
- The backfill's values, its argument parsing and the text of reports. `ExactTable`
  asks whether a table holds the row groups of the dataset; `_reading_shape_is_complete`
  accepts any rows of the same shape and counts, so other rows that imitate it exactly
  would be taken for it. No verdict of a run depends on the difference, as nobody in
  the model writes such rows.
- Cache warmup is its GET requests. A response is the version
  it was computed from; how `json.dumps` writes Decimals and dates is not modelled.
- `BeatSchedule` has one worker process and a queue in order; the tasks that a
  user requests through the API are left out, since they only add runs. A repeated
  publication is repeated once and at once. Time is in
  ticks: a run that begins before midnight and reads the date after it is one that
  starts after it.
- `SystemPage` has one API process and one page. The measured values, the list of
  the last hundred rows and the checks of Redis by `cachez` are left out; what the
  other pages show is one `fetch` each, and its age that of `ResponseCache`.
- Authentication: tokens are signed, checked by a library and stored nowhere, and
  the program neither changes nor deletes users. There is no state of which an order
  of steps could make something wrong.
- `update_meta_cache` overwrites one key that nothing in the repository reads;
  `send_health_email` records one row (`Record`) and calls a mail service once.
- HTTP metrics, configuration, logging and telemetry: counters of a library, read
  once at import, or output only.
- `SchemaLifecycle` has one revision, as the repository; object keys, arguments and
  the downgrade are left out. The adoption compares types by affinity, so a
  database with columns of another length is stamped, although `README.md:108` says
  that types match; and what is changed by hand between comparison and stamp is
  stamped unseen, which `StampMeansSchema` excepts by name (`raced`).
- `tasks/backup.py`, a local copy of an SQLite file; `init_db.py`.
- Dashboard rendering and filtering.

## 6. Plan

1. A composition of `TaskQueue` with `Readings`, where the queue's redelivery
   replaces `Lose`, and the refinement between the two.
2. `SystemPage`: the list of the last hundred rows, of which the page draws a part.
