# cloud_canary in TLA+

Specifications of cloud_canary (`src/`), a monitor that writes a message to
every partition of a Kafka topic, reads it back, and exports what it saw to
Prometheus. The modules follow the Python code action by action; TLC checks them
on small instances and TLAPS proves part of what TLC checks for every value of
the constants.

## 1. The system

| Component | Code | State it keeps | Operations | Modelled in |
|---|---|---|---|---|
| Canary topic life cycle | `topic.py` | none; the topic lives on the cluster, each call keeps broker and partition counts in locals | `ensure_topic`, `sync_topic_partitions` (add partitions, or delete and recreate), `_delete_and_recreate` (delete, wait, create), `ensure_log_topic` | `TopicSync`, `SharedTopic`; the log topic in `Startup` |
| End-to-end check | `main.check_kafka`, `producer.py`, `consumer.py` | one producer and its queue shared by all threads, one consumer position per partition, an event and an error per message | `seek_to_end`, `produce_canary` with `on_delivery`, `consume_canary` | `CanaryCheck`, `CheckPromise` |
| Main loop | `main.run`, `_build_consumer_pool`, `_update_*_metrics`, `_handle_signal` | consumers, deserializers and streaks by partition, executor, check sequence, shutdown event | sync and pool update, submit, collect, sleep, finally block | `RunLoop`, `CheckCycle` |
| Health endpoints | `health.py`, the HTTP handler in `metrics.py` | three caches of 5 s | `/health`, `/ready` | `Health` |
| Metric definitions | `metrics.py` | the Prometheus registry | set, inc | as variables of `RunLoop` and `Health` |
| Kafka log handler | `kafka_log_handler.py` | a producer of its own and its queue | `emit`, `close` | `KafkaLogHandler`; fault kind `log` of `RunLoop` and `CanaryCheck` |
| Startup, shutdown, process | `main.run`, `validate_ssl_connectivity`, `docker-compose.example.yml` | signal event, log handler, metrics server | the steps before and after the loop; restart policy | `Startup` |
| Configuration | `config.py`, `config.ini.template` | a dictionary of texts | `load_config`, `validate_config`, the casts of `main.run` | `Config` |
| Schema Registry probe | `main.py` | two counters, a timer | `check_sr` | no |
| Error classifier, schema, constants, structured logging | the rest of `src/src` | tables, values read once | | no; values are CONSTANTS |
| Images, scripts, dashboards | `Dockerfile`, `run.sh`, `monitoring/`, ... | | | no; the restart policy is an assumption |

How they interact. `main.run` calls `ensure_topic` once, then
`sync_topic_partitions` once before the loop and again on its own cadence; the
count it returns is what the consumer pool is built from. Each cycle hands one
`check_kafka` per partition to a thread pool and waits for all of them. The
checks share the producer: the thread that calls `producer.poll()` runs whatever
delivery callbacks are due, its own or not. Results update the streaks and the
registry, which the HTTP thread reads at any moment. A signal handler sets an
event the loop looks at. With the log topic enabled every thread's log calls
reach `KafkaLogHandler.emit`, which may raise back into the caller. Several
instances may run against one cluster; they share nothing but the topics.

What is hard about it:

* instances act on metadata that another instance, or the cluster, has already
  made stale; creating and deleting a topic takes effect later than the call;
* a message whose check gave up is still in flight, and is stored, retried or
  reported in the middle of a later check;
* checks end in any order, partitions come and go between cycles, exceptions
  leave the loop with checks in flight, a signal comes at any time;
* answers about health come from caches of values that keep changing;
* `run()` ends in some twenty ways, a few of them past a log handler still in
  use by other threads.

What correctness means, by component:

* topic: growing a cluster never costs the topic or a partition; an instance
  believes in partitions that exist; syncs end; the state converges; a deleted
  topic comes back;
* check: a check that reads has its own message ahead of it; every check ends;
  with a healthy cluster it succeeds;
* loop: everything kept per partition agrees; no consumer is closed under a
  check; each check is counted once, each streak is true; the process stops when
  told to, leaving nothing open;
* health: an answer is no older than its threshold and the cache allow;
* process: what the validation accepts runs; a canary that failed to start comes
  up in the end; one told to stop is gone for good; no log record accepted for
  the log topic is thrown away.

## 2. The modules

### TopicSync

The cluster is `brokers` and `topic` (a phase and a partition count). A topic
being `creating` is not in the metadata yet; one that is `deleting` still is
(`Visible`). `Settle` finishes either. Each instance has a `pc`, the two counts
the running call has read (`want`, `seen`), and `pool`, the count `main.run`
holds. An admin call is one step, and so is a metadata fetch together with the
decision the code takes on it, because nothing happens in between but local
computation.

| Action | Code |
|---|---|
| `StartExisting`, `StartMissing`, `EnsureCreate`, `EnsureCreateFails` | `ensure_topic`, and its caller giving up |
| `StartupSyncFails`, `NoChange`, `ScaleDown`, `ScaleUp` | `sync_topic_partitions` up to its decision |
| `AddPartitions`, `AddPartitionsFails`, `Refetch` | the scale-up and its second look |
| `DeleteTopic`, `DeleteFails` | `delete_topics`; UNKNOWN_TOPIC_OR_PART is success |
| `PollGone`, `PollRecreated`, `PollRaises`, `Tick`, `GiveUp` | the wait loop |
| `Recreate`, `RecreateFails` | `_create_topic`; TOPIC_ALREADY_EXISTS is success |
| `Crash`, `Settle`, `Scale` | the environment |

A sync of the running loop that gets no metadata, or finds no topic, returns
None and changes nothing, so it is no step. Creating the consumers after a sync
is `RunLoop`'s part. The cluster is assumed not to create topics by itself when
a client asks for them.

`SharedTopic` says what instances promise together on a growing cluster: the
topic appears once and gains partitions up to the broker count, and whoever
checks checks partitions that exist. It has the variables `brokers`, `topic` and
`pool` under the same names, so the refinement is a plain `INSTANCE`
(`SharesTopic`); calls, retries, failures and crashes map to stutters, `Leave`
or `Adopt`.

### CanaryCheck

`log[p]` is what a partition stores, `flight` what librdkafka still tries to
deliver, `reports` the delivery reports no `poll()` has served. A message is
`<<p, n>>`: the check of partition `p` in cycle `n`. `Serve(q)` is the thread
of partition `q` running a callback in its `poll()`; it changes `fired[p]` only
if the check of `p` still waits for that very message. The wait is the loop of
`produce_canary` taken apart at its tests: `EnterPoll` (event not set), `Serve`,
`PollReturns` or `ProduceTimesOut` (deadline tested before the event),
`Delivered` or `DeliveryFailed`. `ConsumeBatch` takes up to `BatchSize` messages
in order. `Store` may keep the message in flight (a lost acknowledgement, hence
a retry: the message is stored again), `Refuse` may report an error for a message
that was stored. `ServeRaises` is a callback whose log call raises: the event is
not set, and the exception comes out of the `poll()` of whichever thread ran it.
`ProduceRaises` is the serializer or `produce()` raising: a KafkaException is
reported with phase `PRODUCE`, anything else as unexpected. A position survives
nothing: it is set by every seek.

`CheckPromise` is the abstract specification: per cycle and partition one
verdict, decided once; `success` and the consume errors only if this cycle's
message is stored, `PRODUCE` only if it was refused or never handed to the
client. The mapping (`Promise`) makes `verdict` the outcome, `stored` the
messages found in the logs and `sent` those with whatever is in flight or was
refused; it has no counterpart of its own in the code.

### RunLoop

The main thread is `pc`; worker threads take queued checks in order (`Start`,
`Finish`). A sync brings any count, an exception (fault `sync`), or an exception
while consumers are created (`AddFails`, fault `add`). `Collect` is one turn of
the `as_completed` loop, with the three except branches: with fault `log` a log
call raises, which after a success is caught and counted as a failure, and in
an except branch leaves the loop (`CollectRaises`). `LogRaises` is a log call
elsewhere in the cycle. `MaxMishaps` bounds each kind of fault.

Python runs a signal handler on the main thread between two bytecodes.
`Signal` sets the event; with fault `log` the handler's own log call raises
first, and the exception surfaces wherever the main thread is: it leaves the
loop (`SignalEscapes`), also in the middle of an addition to the pool
(`SignalCutsAdding`), is caught as the failure of a check (`SignalSwallowed`) or
of the Schema Registry (`SignalAtRegistry`), or cuts the finally block short
(`SignalCutsCleanup`). With fault `reentry` it interrupts `Event.wait()` while
that holds the event's lock, which `Event.set()` then waits for on the same thread
(`SignalInLock`, `pc = "stuck"`).

An update of the pool that goes through is one step: the workers have nothing to
do while it lasts. `submitted`, `failing`, `signalled` and `mishaps` are history.
The pool starts as the initial sync and `_build_consumer_pool` leave it; more
partitions than the threshold are there only with a `log.level` above WARNING,
because otherwise the startup fails (section 3, `Startup_large`).

### Health

One HTTP thread, so requests come one after another; the main thread updates the
registry between any two of its steps and the clock advances between any two
steps. `Consult` is the cache lookup both caches share. Reading the freshest
success is one step: timestamps only grow, so the maximum found by a scan is the
maximum at some moment of the scan. `Families` is how prometheus_client 0.24.1
(the pinned version) names the metric families it collects.

### Config

A configuration maps each setting to the class its text falls into (absent,
empty, whole number in range or not, a number with a point, true, false, a text
of the required form, any other). `Valid` is `validate_config` by its groups of
checks; `CastsSucceed` is the block of `float()` and `int()` calls at the head of
`main.run`, which states each type again. `Template` is what
`config.ini.template` comes to.

### KafkaLogHandler

The handler in the root logger's list (`attached`), its `_producer`, and what
librdkafka has accepted and not delivered (`pending`, by sender). `LogsAs`
(`Logs`) and `LogRaises` are a log call on the main thread, its own or the signal
handler's, which the handler's reentrant lock lets in even while
`logging.shutdown` holds it; other threads take two steps,
`Fetch` (the logger finds the handler) and `Emit` (it is called under its lock),
between which `removeHandler` and `close()` may run. `Flush` answers whether
the queue was empty in time, `Release` deletes the producer. `logging.shutdown`
holds the lock while it closes what is still in use (`Lock`).

### Startup

One process as the main thread runs it, composed with `KafkaLogHandler` and
`Config`, and the container runtime around it.

| Actions | Code |
|---|---|
| `Refuse`, `ConfigMissing`, `Configure` | `load_config`, and the casts |
| `ValidateSsl`, `StartServer`, `EnsureTopic` | as named; each may end the startup |
| `FindLogTopic`, `CreateLogTopic`, `AttachHandler`, `AnnounceLog` | `ensure_log_topic` and the handler; RuntimeError is caught |
| `CreateClients`, `AnnounceSync`, `InitialSync`, `BuildPool`, `AnnouncePool`, `WarnLarge` | the rest of the startup |
| `LoopHead`, `CollectResult`, `CollectLast`, `Wake` | a cycle, as far as logging and shutdown see it |
| `JoinExecutor`, `CloseClients`, `DetachHandler`, `FlushHandler`, `ReleaseHandler` | the finally block |
| `JoinThreads`, `ShutdownLogging`, `LastFlush`, `LastRelease` | `threading` and `logging.shutdown` at exit |
| `ThreadFetches`, `ThreadEmits`, `Finish`, `Delivered`, `OtherCreates` | the server's and the executor's threads, librdkafka, another instance |
| `SignalEarly`, `SignalHeard`, `SignalInLock`, `SignalEscapes`, `SignalSwallowed`, `SignalCutsJoin`, `SignalCutsShutdown` | a signal before `signal.signal()`, and `_handle_signal` wherever the main thread is |
| `Kill`, `Restart` | the kill after the grace period, and `restart: unless-stopped` |

The metrics server's thread is a daemon and runs until the process is gone; the
executor's threads are joined. `ending` remembers how `run()` ended.

A signal may come at any step, those of the interpreter's exit included. The
handler logs and sets the event (`SignalHeard`); between the last flush and the
release its record is enqueued and goes with the producer. If the log call
raises, the event is not set and the exception ends what the main thread was at:
`run()` (`SignalEscapes`), the wait for the executor's threads
(`SignalCutsJoin`), or `logging.shutdown`, with the handler and its queue
(`SignalCutsShutdown`, `ending = "cut"`); or it is taken for a failure of the
Schema Registry or of a check and the loop goes on (`SignalSwallowed`). In the
lock of `Event.wait()` it hangs (`SignalInLock`, `pc = "stuck"`), until it is
killed.

### CheckCycle

What `CanaryCheck` relies on the loop for: cycles of tasks, one for some of the
partitions, submitted once all of the cycle before have ended, run in order, a
bounded number at a time. `RunLoop` implements it (`KeepsCycle`) without knowing
what a check does: one that is "running" there may be doing anything. So that a
consumer is never used by two checks, which `CanaryCheck` takes for granted when
it keeps one position per partition and starts a cycle where the last one ended,
is a fact about `RunLoop`, whichever exception ended the cycle before.

### MC modules

`MCTopicSync`, `MCCanaryCheck`, `MCHealth` and `MCStartup` give the set
constants their values; `RunLoop` has only numbers as constants and is checked directly.
Operators commented as seeded faults are mutated forms of the definition that
follows them; no specification uses them, they serve to confirm that a property
notices the fault.

## 3. The runs

| Run | Checks | States |
|---|---|---|
| `TopicSync_grow` | `PoolWithinTopic`, `GrowthKeepsTopic`, `SharesTopic`, `Convergence`: 2 instances, 3 brokers, all faults, a crash, a growing cluster | 3.1k |
| `TopicSync_solo` | `PoolMatchesTopic`, `Convergence`: 1 instance, 4 brokers, 3 scalings up or down, refused creations and additions | 1.6k |
| `TopicSync_chaos` | `TypeOK`, `SyncTerminates`, `RestartHeals`, `ChangesWarranted`: 2 instances, scalings both ways, all faults | 6.6k |
| `CanaryCheck_faults` | `TypeOK`, `OwnMessageAhead`, `KeepsPromise`: 1 partition, 3 cycles, all faults but a silent cluster | 1.2M |
| `CanaryCheck_live` | `OwnMessageAhead`, `KeepsPromise`, `EveryCheckReports`: 2 workers, 3 partitions, 1 cycle, silent cluster, callbacks that raise | 26k |
| `CanaryCheck_healthy` | `HealthyChecksSucceed`, `NoFalseAlarm`: 2 workers, retries and foreign messages | 45k |
| `RunLoop_faults` | `TypeOK`, `PoolAgrees`, `NoUseAfterClose`, `StreakIsTrue`, `CountedOnce`, `AllClosedAtStop`, `KeepsCycle`, `ShutdownStops`: 3 partitions, 2 workers, 3 cycles, each kind of fault once | 0.9M |
| `Health_answers` | `TypeOK`, `HealthyIsRecent`, `AlarmIsRecent`, `ReadyDuringLast` | 1.3M |
| `Startup_runs` | `TypeOK`, `RecordsSurvive`, `AcceptedStarts`, `ExitKeepsRecords`, `ComesUp`, `StopsForGood`: every configuration one setting away from the template, two mishaps, a log queue of 3, a signal at any step | 37k |

Three more runs refute what the code or its documentation says; PROJECT.json
quotes it:

| Run | What happens |
|---|---|
| `TopicSync_lost` | Two instances scale down. The first deletes and recreates; the second deletes the new topic, sees it (still in the metadata, with the right count) and reports it recreated. The topic is gone, and no sync recreates it. |
| `RunLoop_logs` | A full log queue makes a log call raise, and one check counts as a success and as a failure. |
| `Startup_large` | With more partitions than `metrics.partition.threshold` the warning about it passes a field `message` in `extra=`, which `logging` refuses with a KeyError: the startup ends, after every restart again. |

Deadlock is not checked: every model stops when its bounds are used up, and
`RunLoop` and `Startup` stop when the process does. That the code does not get
stuck before is what the liveness runs check.

Bounds. Two instances are enough for every race of a stale read against another
writer; a third only repeats one of them. Two scalings let a growing cluster grow
again while the first growth is being applied; three let the lone instance go
down, up and down again. Three cycles give a message time to arrive two checks
late, beyond the check that follows; two partitions let a thread serve the
other's callbacks, and a third on two workers makes a check wait. `BatchSize` 2 puts the own
message first or second of a batch. Three partitions with two workers leave one
check queued; three cycles let a partition go and come back with a streak in
between. One mishap of each kind is enough there, because an exception leaves the loop,
and after one that is swallowed the others can still strike.
In `Startup` two mishaps let a start fail, the restart fail elsewhere, and the
third come up; a queue of 3 fills up during one startup and drains again. The
configurations differ from the template in one setting, or in the three of
the metrics server's TLS: no check of `validate_config` relates other settings,
except the pair of client certificate settings, which one setting alone violates.
In `Health` the thresholds keep their order (cache, degraded, unhealthy: 2, 2,
4) and time is long enough to pass all of them after a success and to be asked
several times within a cache lifetime.

Fairness. TopicSync: every loop and call of an instance goes on, because each
call of the code has a timeout and the container is restarted
(`restart: unless-stopped`); the cluster finishes what it accepted; clocks
advance. Of the calls that are made again on every sync or every start (the
metadata fetch, the creation at startup, the addition of partitions) it is
assumed that they are not refused for ever (strong fairness): no retry helps
against a cluster that always refuses. Nothing is assumed of crashes and
scalings. CanaryCheck:
threads run and clocks advance (weak fairness of `Check` and `Tick`); a thread
that polls over and over serves what is due often enough (strong fairness of
`Serve`, since `poll()` drains the report queue); and, unless the fault `stall`
is on, a message in flight is stored. RunLoop: the main thread and the workers
run, which `EveryCheckReports` justifies for the checks; no signal has to come.
Startup: the main thread runs, a worker in a log call leaves it, the runtime restarts a process
that was not stopped (weak fairness), and the executor finishes its checks
(strong fairness of `Finish`: a check may log, but only so often). The broker
need not acknowledge anything. `ComesUp` assumes of the environment that the log
queue has room in the end. `StopsForGood` and `ShutdownStops` start from the set
event, not from the signal: nothing is promised of a handler that raised or
hangs (section 4, `SignalStops`). Health has no liveness property.

## 4. Other disagreements of code and documentation

Met while modelling, not among the runs. Each is a property of its module that
TLC finds violated under the configuration named (`tlc -config X.cfg Module`):

| Property, configuration | What happens |
|---|---|
| `TopicComesBack`, `TopicSync_skipped.cfg` | A deletion outlasts the timeout and completes later: every later sync finds no topic and returns None (`topic.py:433`), although `topic.py:229` says "will retry on next sync". Only a restart creates the topic. |
| `ReturnReflectsCluster`, `TopicSync_reported.cfg` | `topic.py:448` returns the wanted count also when the deletion was refused, against `topic.py:416` ("reflecting the cluster state after any reconciliation"). |
| `LoopSurvivesSync`, `TopicSync_raises.cfg` | A metadata failure in the wait loop (`topic.py:211`) ends the process, against `topic.py:417` ("Returns None if cluster metadata could not be fetched"). |
| `AckInTimeProceeds`, `CanaryCheck_ack.cfg` | The deadline is tested before the event (`producer.py:298`): a delivery confirmed in time is reported as a timeout, against `producer.py:225`. |
| `AlertSeesStreak`, `RunLoop_alert.cfg` | Above the threshold all partitions set one gauge, and a success hides a streak, against `metrics.py:120` ("ANY partition's streak"). |
| `LabelsFollowThreshold`, `RunLoop_labels.cfg` | `num_partitions` is that of the startup (`main.py:1029`), so labels do not follow a sync across the threshold, against `README.md:602`. |
| `AlertIsCurrent`, `RunLoop_ghost.cfg` | The gauge of a removed partition keeps its streak (`main.py:950`), against `metrics.py:125` ("Current streak"). |
| `NothingLeftOpen`, `RunLoop_leak.cfg` | Consumers created next to one that failed are never closed (`main.py:937`), against `main.py:682` ("All per-partition consumers are closed"). |
| `SignalStops`, `RunLoop_signal.cfg` | The handler interrupts `Event.wait()` while it holds the event's lock and `Event.set()` waits for that lock: the process hangs until it is killed, against `main.py:153` ("thread-safe signaling"). The window is small. |
| `SignalStops`, `RunLoop_unheard.cfg` | The handler logs before it sets the event (`main.py:170`); if the log call raises while results are collected, the signal becomes the failure of a check and the loop goes on, against `main.py:162` ("Sets the shutdown event so the main loop exits"). |
| `NothingDropped`, `Startup_race.cfg` | The metrics server's thread fetched the handler before it was removed and logs after the flush; the record goes with the producer, against `kafka_log_handler.py:167` ("no log records are silently dropped on clean shutdown"). At the interpreter's exit no thread's record is lost (`ExitKeepsRecords`); there only a signal handled after the flush loses its own, or, if its handler raises, the queue. |
| `RefusedPolitely`, `Startup_unread.cfg` | A missing section is a KeyError at `config.py:232`, before the validation that has a message for it, against `config.py:216` ("a clean exit is preferable"). |
| `HealthyIsMostlyGood`, `Health_rate.cfg` | `REGISTRY.collect()` names the counter `canary_checks`, without `_total`, so the failure rate never has a value and never degrades the status, against `health.py:25`. Proved for every instance: `RateNeverCounts`. |
| `ReadyAfterCycles`, `Health_early.cfg` | The sequence gauge is set by the first result of a cycle, so `/ready` answers 200 during the tenth, against `health.py:37` ("At least 10 check cycles have completed"). It is never earlier than that: `ReadyDuringLast`. |

Read off the code, without a property: `validate_ssl_connectivity` calls
`sys.exit` but `main.py` does not import `sys`, so a failed probe ends in a
NameError (`main.py:586`; in the model the process ends either way); a number
out of range is reported as "must be a valid number", because the ValueError
raised for the range is caught two lines on (`config.py:165`); and
`README.md:604` describes `metrics.partition.threshold=0` as the opposite of
`README.md:365`.

## 5. What is proved

For every set of instances, partitions, configurations, every bound and, unless
said otherwise, every combination of faults:

* `TopicSync_proofs`: `TypeCorrect`. With nothing assumed of faults, instances
  and scalings, `TopicChangesWarranted` (`ChangesWarranted`): `DecidedInv` says
  that the comparison which chose a branch holds of the call's locals until it
  ends, also when the cluster has long moved on. Under `~CanShrink` (brokers are
  only added and the topic starts with no more partitions than brokers),
  `PoolSafe` (`PoolWithinTopic`), `TopicKept` (`GrowthKeepsTopic`) and
  `TopicShared` (`SharesTopic`, the refinement of `SharedTopic`).
  `PoolWithinTopic` is not inductive: the invariant `GrowInv` adds that the topic
  never has more partitions than brokers, that what a call has read is a lower
  bound of what holds now, and that no instance is in the delete-and-recreate
  part. For one instance, `SoloPoolMatches` (`PoolMatchesTopic`), from `SoloInv`,
  which says at each place of a call which phase the topic can be in and what the
  locals know of it. A refused creation or addition of partitions is allowed
  there, and no more can be: with a refused deletion, a timeout, a crash or a
  metadata failure alone TLC finds `PoolMatchesTopic` violated.
* `CanaryCheck_proofs`: `TypeCorrect`, `MessageAhead` (`OwnMessageAhead`) and
  `PromiseKept` (`KeepsPromise`, the refinement of `CheckPromise`). `CheckInv`
  says where the message of the running check can be at each place: not stored
  before it is produced, only beyond the position once it is, and stored once a
  positive report for it exists or was served. `PromiseInv` adds the same of
  refusals, none of which comes before its message is produced, so that each
  outcome is true when it is decided, also that of a `produce()` that raised. The
  lemmas about appending to a partition and about batches are what the steps rest
  on.
  `AlarmsAreReal` (`NoFalseAlarm`) needs `AlarmInv`: without its kind of fault no
  report is negative, no partition holds an undecodable message and no deadline
  has passed. It makes every failure category conditional on its own cause, so
  the theorem is not confined to the run's fault-free instance.
* `RunLoop_proofs`: `TypeCorrect`, `ConsumersStayOpen` (`NoUseAfterClose`),
  `PoolConsistent` (`PoolAgrees`) and `CleanStop` (`AllClosedAtStop`) from
  `LoopInv`: the pool agrees also while a sync is due, checks are unfinished only
  between their submission and the join, and what is open is listed unless an
  addition was cut short, by a failed creation or by a signal.
  `CycleKept` (`KeepsCycle`, the refinement of `CheckCycle`) follows from the
  same invariant: where the loop submits, nothing is unfinished.
  `TrueStreaks` (`StreakIsTrue`) needs `StreakInv`, which says by how much a
  streak may differ from the history while a result is not collected, and that it
  never falls short of it, log calls that raise included;
  `EachCounted` (`CountedOnce`) needs `CountInv`: what was submitted is what was
  counted plus what is still due, a cardinality, give or take the log calls that
  raised.
* `Startup_proofs`: `TypeCorrect`, `LogsKept` (`RecordsSurvive`) and `AcceptedRun`
  (`AcceptedStarts`). `LogsKept` rests on what is known between flush and release:
  no check runs and `run()` logs nothing, so only the server's thread and a signal
  can add a record. At the interpreter's exit the handler's lock keeps that thread
  out too, from the flush to the release, but not a signal, which is handled on the
  thread that holds it: `ExitKeeps` (`ExitKeepsRecords`) excepts the signal's own
  record. Both except an exit that a raising signal handler cuts
  (`ending = "cut"`).
  `AcceptedRun` is a fact about `Config` (`ValidCasts`,
  `ValidCertified`), carried along in the settings. `LargeNeverMonitored` is the
  general form of what `Startup_large` refutes: no process with a large topic
  reaches its loop.
* `Health_proofs`: `TypeCorrect`, `PositiveAnswers` (`HealthyIsRecent`),
  `NegativeAnswers` (`AlarmIsRecent`). The invariant says of a cached staleness
  that it was true at the time of its timestamp, and of the one a request goes by
  that it was true at most one cache lifetime before the request came.
  `ReadinessBound` (`ReadyDuringLast`) needs `ReadyInv`: what is counted and what
  is pending add up to the number of cycles times the number of partitions, and
  the gauge is one behind only until the first result. `RateNeverCounts` says
  that the cached failure rate is never a number.

Assumptions are the named ASSUMEs of the modules (sizes are naturals, faults are
among the fault kinds, configurations map settings to classes), which TLC
evaluates in the runs.

Only model-checked: all liveness (`Convergence`, `SyncTerminates`,
`RestartHeals`, `EveryCheckReports`, `HealthyChecksSucceed`, `ShutdownStops`,
`ComesUp`, `StopsForGood`), which is out of the prover's reach. Every invariant and
every step property of the runs is proved.

## 6. Not modelled

* The Schema Registry probe (one guarded call and two counters that nothing else
  in the process decides on), latencies, histograms, error categories, log texts.
* The tables of the error classifier, the message schema, the formatters: no
  state and no control.
* The inside of the TLS probe: its outcomes are the two that `Startup` has.
* A clock that is stepped back, which would keep `health.py`'s caches alive.
* The HTTP exchange after an answer is computed; a log call that raises in it
  leaves the client without an answer (`metrics.py:331`).
* That a topic being deleted under its consumers makes their checks fail: in
  `CanaryCheck` any phase may fail, in `RunLoop` any check.

## 7. What could come next

1. A composition of `RunLoop` and `TopicSync`: pools while the topic is deleted
   under their consumers.
2. A clock that may be stepped back in `Health`, and the bound that holds then.
3. The tables of the error classifier as a pure module.
