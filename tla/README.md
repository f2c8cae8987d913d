# Verification of the Ravan industrial data platform

Ravan collects measurements at the edge, carries them through Kafka, scores and
stores them in a historian and a lakehouse, watches them with threshold
policies, writes AI reports about what stays abnormal, and answers operators'
questions about all of it. It is built from small Python processes that hand
records to one another, and almost everything it promises is a promise about
hand-overs: nothing acknowledged is lost, nothing is done twice, what was set
through the API is what the other processes use. Those promises depend on the
order of a write, a flush, a commit, a cache update and a kill, which is why
they are modelled here.

Paths below are relative to `services/` unless they start with another
top-level directory of the repository.

## 1. Inventory

### Parts, their state and how they meet

| Part | State it keeps | Operations | Meets the others through |
|---|---|---|---|
| Edge publisher (`edge_ingest/publisher.py`, `disk_spool.py`) | `_buffer`, `_inflight`, `pending.ndjson` | `publish_event`, `service`, `flush`, delivery reports, spool replay | called by every connector thread; produces the raw, normalized, legacy and dead-letter topics |
| Connectors (`edge_ingest/main.py`, `connectors/`) | one task per active connection, the signature of what runs | read the registry, cancel, build, end | publisher, connection registry |
| Connection registry (`common/connection_registry.py`) | a file, and a copy in the API's memory | create, edit, activate, deactivate, retire, restore | API writes, connectors read |
| HTTP Push (`api_service/routers/historian.py`, `http_push_idempotency.py`, `runtime.py`) | a claim for each idempotency key, records in the Kafka client | claim, publish, complete, release | normalized topic, PostgreSQL |
| Runtime processor (`processor/runtime_processor.py`) | window and threshold state per stream, a batch | score, publish, store, commit, forget | normalized topic in, processed topic out, historian, threshold policies |
| Normalized, processed and AI-enriched fan-outs (`processor/*_fanout.py`) | batch, position, sinks | poll, write, flush, commit, dead letter, reload routes | topic of their name, sinks |
| Operational and artifact fan-out | batch, position, sinks | as above, with another order of commit and release | topics `industrial.operational`, `industrial.observation-artifacts`, sinks |
| Sinks (`sinks/`) | lakehouse buffer, producer queue | `write_batch_strict`, `flush_strict`, `close` | TimescaleDB, Iceberg, Kafka |
| Historian client (`historian/client.py`) | a connection pool, active queries by id | query, cancel, write with retries | every process with SQL; the audit log of the API |
| Threshold policies (`common/threshold_policy*.py`) | table, outbox, three caches per process | upsert, list, resolve, drain outbox, consume topic, snapshot | API routes, processors, topic `platform.metadata.threshold-policies` |
| AI reporting (`common/ai_reporting.py`, `ai_gateway/main.py`) | tracker per tag, `ai_report_jobs` | follow events, record, claim, generate, complete, fail | processed topic in, `iot.ai_enriched` out |
| Assistant (`common/assistant_*.py`, `postgres_assistant_store.py`, `assistant_worker/`, `routers/assistant.py`) | threads, turns, heartbeats, job list, cancellation keys, prepared actions | stream, start, claim, answer, cancel, reap, retry, rename, confirm | API and workers share a store and Redis |
| Model life cycle (`common/model_lifecycle.py`) | versions of models in a file | register, evaluate, promote, roll back | API |
| Replay (`api_service/replay_state.py`) | one state and stop event, a thread per replay | start, stop, finish | API, Kafka |
| MQTT source (`edge_ingest/connectors/mqtt.py`) | a bounded queue between paho's thread and a task of the event loop | receive, enqueue, drain, stop | publisher |
| Outbound bridge (`edge_ingest/outbound_bridge.py`) | position, an MQTT client, an AMQP connection | forward an event to MQTT or AMQP, commit | processed topic in, brokers out |
| Alerts (`api_service/alert_manager.py`, `alert_escalation.py`) | alerts in memory and in a file, rules in memory | raise, acknowledge, resolve, escalate, check | API |
| Dataset builds (`common/dataset_registry.py`, `datasets/dataset_worker.py`) | a table of jobs, the files of a directory | queue, cancel, claim, build, finish | API and workers share PostgreSQL and directories |
| Realtime feed (`api_service/realtime.py`) | a list of sockets, the rows sent last | open, subscribe, broadcast, heartbeat | historian, dashboards |
| Supervisor (`cli/datastreamd.py`) | `processes.json`, its children, their recent exits | supervise, up, down, restart | every service of a site without containers |
| Backup (`historian/backup.py`, `cli/datastreamctl.py`) | dump files, databases, the restoring mode | dump, restore, drill | historian, while it is written to |
| Federation (`federation/`), raw archive | delivery ledger, batch | claim, record, flush | site topics in, lakehouse out |

The remaining code (HTTP routes, dashboards, metadata stores, codecs,
analytics, benchmarks, the other commands, deployment files, the Rust fast path
and the user interfaces) is request and response or pure computation over the
parts of the table; `PROJECT.json` lists it part by part.

### What is hard in it

* *Kafka consumers that commit by hand.* A commit for offset n acknowledges
  everything below n, so a consumer that skips, drops or reorders one record
  acknowledges records that are stored nowhere. Rebalances arrive without a
  callback, `max.poll.interval` can pass in the middle of a write, and a commit
  can be applied although the call raised.
* *Clients and endpoints with their own buffers.* A lakehouse sink accepts a
  batch long before it appends it; a Kafka producer returns before the broker
  has answered, and nobody who calls `flush` learns that a delivery failed.
* *Threads over one unlocked list.* MQTT drains publish from executor threads
  while the event loop services the same publisher, and a queue made for one thread is
  filled by another.
* *Several writers of one copy.* Policy caches are written by the upsert, the
  consumer and the snapshot; the assistant's file is replaced as a whole by
  each process from its own memory; a thread is read in one transaction and
  replaced in another; the registry's memory and file part when a write fails.
* *Claims and leases.* A report job is completed by job id, whoever asks; an
  idempotency claim outlives a process that died; a turn is reaped while its
  executor still works; an action is confirmed at two replicas.
* *Shared handles.* A pool is closed under its users, a query is cancelled
  through a connection that may meanwhile serve another, a replay is started
  while the thread of the last one has not ended.
* *Children and operators.* A supervisor restarts and terminates processes while
  an operator's commands read and replace the same file of records.
* *A moving database.* A backup is dumped, restored and compared while rows are
  ingested, and a restore that stops half-way leaves a mode behind.
* *Reads that overtake.* What a handler queried before an update is sent after it.
* *Restarts.* Trackers, windows, buffers and caches vanish; spool file, offsets,
  tables, files and topics stay.

### What makes each part correct

* Fan-outs and processor: nothing below a committed offset is undelivered or
  unprocessed; every record is delivered once faults stop; a window holds the
  recent records of its stream, and its severity follows what has lasted.
* Publisher: a message it has accepted, if it fits in `max_message_bytes`, is in
  memory, in the spool or in Kafka; a buffered message does not wait for the
  next event.
* Connections: what the file enables a request has enabled; the edge ends up
  running what the file enables.
* HTTP Push: an event is published once for each claim; whoever was told that it
  was ingested, or is a duplicate, need not send it again.
* Threshold policies: each upsert reaches the topic; when nothing is under way
  all caches agree with the table; a user's policy beats the manifest's.
* AI reporting: each sustained incident gets a job, and only one; a completed
  job has been published and stays completed; a recorded job is settled.
* Assistant: an answer that was streamed as complete is stored and stays; what
  was answered is not offered for a retry; no turn stays under way; an action is
  performed once.
* Models: one version of a model is active, and only an approved one.
* Replay: a state that says running has a thread that will end it.
* Historian: a cancellation finds the query it names; a write that returned is
  in the database.
* MQTT source: what the broker was acknowledged is queued, published or a dead
  letter. Outbound bridge: only what every forwarder has taken is committed, and
  what one has not taken is delivered again (it is not, see section 3).
* Supervisor: what exits is replaced; a stop ends it, and leaves no child.
* Backup: a drill that reports a match has restored its backup; only a failed
  restore leaves the restoring mode.
* Alerts: what a client was told survives a restart, unless its write had
  failed; what is due is escalated.
* Dataset builds: a job is built once; a marked directory is whole.
* Realtime feed: clients end up with what is in the table; closed sockets are
  forgotten.

The hazards, each at its line and with the properties that would catch it, are
in `PROJECT.json`.

## 2. Modules

```
AtLeastOnce                     what a consumer promises
   ^ refined by OperationalFanout
FanoutDelivery  <--EXTENDS--  OperationalFanout, ReleasingFanout
EdgePublisher     ThresholdPolicySync

ReleasingFanout   AIReportJobs
   ^ both EXTENDed by
MCConsumers

RuntimeProcessor   SourceConnections   HttpPush         ModelLifecycle
ReplayJob          AssistantTurns      AssistantActions HistorianClient
   ^ all eight EXTENDed, and OperationalFanout instantiated, by
MCServices

OutboundBridge   MqttConnector   ProcessSupervisor   HistorianBackup
Alerts           DatasetBuilds   RealtimeFeed        ReleasingFanout
   ^ all eight EXTENDed by
MCOperations

MC*                             instances of the above for TLC

FanoutDeliveryProofs            lemmas; EXTENDed by the next two
OperationalFanoutProofs   ReleasingFanoutProofs   EdgePublisherProofs
ThresholdPolicySyncProofs AIReportJobsProofs      theorems about one module each
ServicesProofs                  about MCServices and the eight modules under it
OperationsProofs                about MCOperations; EXTENDS ReleasingFanoutProofs
```

### FanoutDelivery

The vocabulary of all fan-outs: a partition is a log read through `position`, a
record is `<<partition, offset>>`, and all that matters of its bytes is whether
they decode (`Malformed`). It defines what a call to each sink may return, what
it stores and what it keeps inside the sink object (`HistorianWrite`,
`KafkaWrite`, `LakehouseWrite`, `LakehouseFlush`, `KafkaFlush`), how
`CompositeSink` combines the sinks, what `publish_malformed_record` does, and
which offsets a commit leaves (`CommitsTo`: the last entry of the list wins,
even if it is a lower offset than an earlier one). Retries inside
`_insert_with_retry` and the like are folded into the outcome.

`Settled(r)` means delivered to each endpoint the record is due at, *or refused
for good by that endpoint's broker*. The exception is deliberate: neither the
Kafka sink nor the dead-letter publisher has a delivery callback, so the code
cannot know: a delivery that fails for good leaves the producer's queue as a
successful one does, although `sinks/base.py:103` says a flush fails "if any
endpoint fails".

### OperationalFanout

`processor/operational_fanout.py`; `artifact_fanout.py` runs the same loop over
another topic, and refuses a record that is not an object in the same branch.

| Action | Code |
|---|---|
| `FetchRecord`, `FetchMalformed` | one turn of the loop, up to the call of `flush()` |
| `FlushIdle` | `poll()` returned nothing and a second has passed |
| `WriteBatchStrict`, `FlushStrict`, `CommitBatch` / `CommitBatchFails` | the three calls of `flush()`, each able to raise |
| `PublishMalformedRecord`, `CommitMalformed` / `CommitMalformedFails` | the malformed branch after its forced flush |
| `Stop`, `Close`, `Start` | SIGTERM, `finally`, a new process |
| `Crash`, `Assign`, `Fence`, `Deliver` | kill, rebalance, removal from the group, librdkafka's delivery thread |

`why` says who called `flush()`, hence where an exception leads: the first one
enters `finally`, which flushes again; a second one ends the process.

### ReleasingFanout

`normalized_fanout.py`, `processed_fanout.py` and `ai_enriched_fanout.py`, told
apart by the variable `program`, which never changes in a behaviour. They let
go of a batch whatever becomes of it, commit a malformed record at once, and
start where `auto.offset.reset` says when the group has committed nothing;
`since` remembers where that was, and `Produce` lets records arrive meanwhile.
The history variable `dropped` holds the records whose insert
`ai_enriched_fanout` gave up. `ReloadSinkRoutes` is the forced flush, close and
rebuild of the normalized fan-out's sinks.

### EdgePublisher

One publisher with a spool directory, called from `Threads`. Each thread has its
place in the code and its local variables (`hand`, `next`, `records`, `index`,
`remaining`), so that the iteration over `_buffer`, the `clear()` after it and
the replay's read-modify-write of `pending.ndjson` interleave as they do between
bytecodes. `inflight` counts the messages with a delivery token, `routing` the
dead letters of messages above `max_message_bytes`, which have none:
`RouteFails` is the produce that raises and is passed over, `RouteReported` the
report that is only counted when it is a failure. `Raw(e)` is produced at once;
`Body(e)` stands for the normalized and legacy records, or for the dead letter
of an event refused by validation or the clock policy, which go through the same
buffer. A delivery report runs while some thread is in a poll, which is where
librdkafka's Python binding runs callbacks. `Queued >= QueueMax` is the
BufferError and its retry.

### ThresholdPolicySync

A policy has a key, a version and a body that tells two upserts apart. Each
process has a main thread (event loop of an API, loop of a processor), a
consumer thread, and in an API a relay thread; their steps are cut where the
code gives up a lock or a transaction:

| Actions | Code |
|---|---|
| `SelectVersion`, `CommitUpsert`, `CacheOwn` | `upsert_threshold_policy`: SELECT without a row lock, one transaction for table and outbox, then the process's own caches |
| `List`, `Resolve`, `ApplySnapshot` | `_load_explicit_policies` from the topic's cache or the table, the manifest's answer kept for good |
| `Assign`, `Revoke`, `Poll`, `Store` | `consume_policy_topic`: the version check and `cache_policy` are two critical sections |
| `DrainSelect`, `Publish`..., `DrainCommit`, `DrainAborts` | `drain_policy_outbox` under FOR UPDATE SKIP LOCKED |
| `Start`, `Kill` | start of the workers with or without the table, end of a process |

The consumer's group id ends with the process id. On a host every process is
its own group; in containers every replica has process id 1 and the replicas
share one, so the partition has one owner among them (`Peers`). The topic has
one partition. The position saved by auto-commit is any the process had been at
when it is killed. A list served from a cache that is not empty is left out: it
copies into a cache that only later lists read.

### AIReportJobs

One tag and a policy that reports critical anomalies, recoveries and intervals.
The tracker's clock is the event's offset, one event a second. An *instance*
gives the stream of severities, the worker slots and the bounds; an empty set
of slots stands for workers too slow to matter, so that the tracker can be
explored over longer streams. `status = "expired"` is a row still `processing`
whose `claimed_at` is older than the lease; `shared` remembers that a job was
claimed while another worker was still at it. The transitions that produce the
severities are in `RuntimeProcessor`; jobs created by hand through the API are
not modelled. The names of the specification begin with `Report`
(`ReportInit`, `ReportNext`, `ReportSpec`), since `MCConsumers` takes the module
together with a fan-out.

### RuntimeProcessor

The one process that turns `industrial.normalized` into `iot.processed`. A
record is its offset; of its value only the *level* matters: normal, warning,
critical, or near, which is normal but within the deadband of a warning bound.
An instance gives the topic, the settings, the seconds that may pass between
two records, and whether calls may fail.

| Action | Code |
|---|---|
| `Process` | the loop for a record: window, threshold transition, derived event, batch, and every `PRUNE_EVERY_N_MESSAGES` records the pruning |
| `ProcessRaises` | a record that does not decode, or a call that raises: nothing in the loop catches it |
| `FlushIdle`, `EnsureDelivery` / `DeliveryIncomplete`, `InsertProcessed` / `InsertRejected`, `CommitOffsets` / `CommitFails` | `_flush_processed_batch`: producer flush, batched insert with its single-row fallback, commit |
| `Stop`, `Close`, `Start`, `Crash`, `Deliver` | SIGTERM, the finally block, a new process, a kill, librdkafka's thread |

`TransitionThresholdState` is `transition_threshold_state` with
`evaluate_threshold`'s outcome: a level has to last the delay of the policy, a
value in the deadband keeps an alarm, and another level starts the delay again.
`PruneWindows` forgets streams that were idle too long, then the least recently
seen beyond the limit; streams seen at the same time may be forgotten in either
order. The history `trace` keeps what each stream has been through since the
process started or forgot it; the window and the severity are compared with it.

### SourceConnections

The API's registry and the edge's reconciliation over one file. A request
changes the memory and then rewrites the file; when that raises, the change
stays in memory (`Persist`). Of a definition it matters whether it is complete
(`activation_errors`) and which request it came from. `Loadable` is
`connection_from_dict`, which refuses an enabled definition that is not
complete and with it the whole file. The edge reads the file twice in a cycle:
`ReadConfigured` compares signatures, `CancelTasks` awaits the old connectors,
`BuildTasks` reads again. `raced` remembers that the two reads differed.
`permitted` is the history the property compares with: the connections enabled
by a request and not withdrawn by one whose write succeeded.

### HttpPush

Replicas of the API that answer one request at a time, for the handler awaits
nothing. `ClaimKey` / `Duplicate` / `ClaimUnavailable` are `claim`; the
publication ends in `PublishEvent` (the flush returned 0),
`PublishTimesOut` (it did not) or `RejectEvent` (dead letter); then `Complete`
/ `CompleteFails` and `ReleaseClaim`. `LeaveClient` delivers records a flush did
not wait for. `burnt` marks the keys whose claim outlived its request or whose
record the broker refused, `reopened` how often a claim was released.

### ModelLifecycle, ReplayJob

`ModelLifecycle` is the ledger file as a map; each request is one action,
`Rollback` picks the version updated last among the approved and retired ones
of the family, in service before or not. `ReplayJob` has the state and the stop
event under the lock, and a thread per replay whose loop does not hold it:
`StopReplay` does not wait, so `StartReplay` may find older threads alive.

### AssistantTurns, AssistantActions

A streamed message is a job in Redis for a worker; any other message, and a
retry, is executed by the API. `View` and `Save` are what a process reads and
writes: the tables with `Backend = "postgres"`, with `"json"` its own copy of
the file, all of which replaces the file.

| Action | Code |
|---|---|
| `StreamMessage`, `SendMessage`, `RetryTurn`, `OtherRequest` | routes of the API, `start_turn_with_user_message` |
| `CancelStream`, `CancelTurn` | `cancel_stream`: the key and the turn it found, then the update |
| `Dequeue`, `StartJob` / `StartJobFails`, `ReapTurn` | the worker's loop: a job off the list, its turn, `reap_stale_turns` |
| `ClaimTurn`, `Token`, `AppendAnswer`, `UpdateTurn`, `GiveUp` | `_send_message_impl` and `on_token` |
| `ReadThread`, `WriteThread` | `rename_thread`, `archive_thread`, `restore_thread` of PostgreSQL: two transactions |
| `Killed` | any process, at any of these points |

Times are not kept: any turn under way may be found stale. `AssistantActions`
is the confirmation: an intent is read, claimed by one statement that asks for
its status again, performed, and updated, by any number of requests at once.

### HistorianClient

The pool of the API process. Query threads run `post_query` with an id of the
client's choice and may be cancelled; coroutines write, one at a time, on the
event loop. Cancellations run in threads of their own and may overlap, but for
two of one connection at a time, a bound. `OpenPool`, `GetConnection`,
`ExecuteStatement`, `CommitWrite`, `ReleaseHandle`, `ReturnConnection` are the
steps of `get_connection` and its users; `EndAttempt` is `_execute_with_retry`,
which closes the pool under everybody (`Reopen`); `BreakConnections` is the
database or the network. A connection that nothing refers to any more gives its
number to the next one. An audit entry is a statement that goes through
`query_sql`.

### OutboundBridge, MqttConnector

`OutboundBridge` is `run` over one partition: `PollRecord`, `ForwardMqtt` /
`MqttConnectFails`, `ForwardAmqp` / `AmqpFails` / `ChannelRaises`,
`AfterForwarding`, with `SendMqtt` for paho's loop. Its commit never reaches
Kafka (section 3), so that `StartConsumer` begins at the end of the topic.
`delivered` is the local of `_handle_message` that collects what the forwarders
said of `Polled`.

`MqttConnector` cuts `on_message` (`Enqueue`, `DeadLetter`, `OnMessageRaises`)
and the drainer (`LookEmpty`, `RegisterGetter`, `Get`, `PublishItem`,
`DeadLetterItem`) where the two threads can meet: `asyncio.Queue.get` looks
whether the queue is empty and then registers to be woken. `StopConnector`,
`PutNone`, `JoinDrainer`, `CancelDrainer`, `GiveUpDrainer` and `CancelledAgain`
are the end of `run_mqtt`, which SIGTERM cuts short: `main.py:86` cancels every
connector as soon as it has set the event.

### ProcessSupervisor

A process is the k-th copy of its service. `LaunchNext`, `ChildExited`,
`Relaunch`, `EndRound`, `Terminate` / `Kill` / `KillTimesOut` and
`EndSupervise` are `cmd_supervise`; `Up`, `UpService`, `UpSave`, `Down` and
`Restart` the operator's commands beside it, over `records`, the file both
write. `down` signals process groups, and the children of a supervisor share
its own. `IsAlive` answers for what has a process number, so that an exited
child nobody has waited for is alive to an operator's command.

### HistorianBackup

A database is its tables with their row counts and the restoring mode of
TimescaleDB. `CreateBackup`, `BeginDrill` and `RestoreBackup` begin a command;
`Dump`, `DropTarget`, `CreateTarget`, `PreRestore`, `RestoreTables`,
`PostRestore` and `CompareSnapshots` are its steps, each able to fail, with
`Ingest` in between. `docker` tells the two ways: only the one through the
container calls `pre_restore`.

### Alerts

One request at a time, for the handlers call everything synchronously; only a
kill comes between the steps of one. `PersistState` replaces the file or fails,
and memory keeps the change either way. `CheckPending` lists the newest active
alerts (`Page`), `ProcessAlert` goes through them. A failing write ends the
check, and so does the pattern of a rule that does not compile, which nothing
looks at before (`broken`, `MayRaise`); of other patterns only that a rule takes
a severity is kept. Clients are told of an alert by the request that changed it
(`Tell`), by the refusal of a second acknowledgement (`RefuseAcknowledge`) and
by reading it (`ReadAlert`); the last two show what is in memory, whether or not
it was written. `told` is what a client was last told, and forgets an alert that
changed without a word; `unwritten` holds the alerts whose change was not
written and has not been since.

### DatasetBuilds

`SelectBuild` and `ClaimBuild` are the two statements of `claim_build_job`
between which the row is locked; `WriteFile` writes the next file of a build,
by manifest version (`WriteOrder`); `FinishBuild` lists what is in the
directory, whichever build left it there. `contents` remembers who wrote what.

### RealtimeFeed

Handlers of sockets, the broadcaster and the heartbeat, cut at each await:
`QueryInit` reads and `SendInit` sends, `QueryFeed` reads, `Compare` compares
with what was sent last, `BroadcastTo` sends to the copy of the list. Any
exception but `WebSocketDisconnect` ends a handler without removing its socket
(`HandlerRaises`), a failing query or send as well as a frame that is JSON but no
object (`ReceiveRaises`). `overtaken` marks the clients that were last sent something
older than what they already had. The heartbeat's round is one step.

### MCConsumers

`ReleasingFanout` and `AIReportJobs`, the consumers that commit although a step
has failed, as alternatives in the way the next section describes; `part` says
whose behaviour it is.

### MCServices

The eight modules from `RuntimeProcessor` to `HistorianClient` share no state
with one another, so one run explores them as alternatives: `part` picks one,
the rest stay as they were at the start (`OthersIdle`). This checks the same
states as a run for each would, since a behaviour of one part is not disturbed
by another. `Forward` and `Around` are the fairness of the parts taken together:
while one part runs, weak fairness of the disjunction is weak fairness of that
part's disjunct, which is no more than the module's own fairness asks for. The
ninth part is an instance of `OperationalFanout` with one member and a Kafka
sink, for its liveness; its types are those `operational_group` checks and
`OperationalFanoutProofs` proves, and are not repeated in `ServicesTypeOK`.

### MCOperations

The same for the seven modules of what runs beside the operational path, with
`ReleasingFanout` as the eighth part: the cfg makes it a group of two members of
the normalized fan-out.
Its fairness (`Running`) is that of the modules, each under its own variables.

## 3. Runs

Distinct states; all runs together take about twelve minutes on two workers.

| Run | States | What it asks and shows |
|---|---|---|
| `operational_group` | 964 k | Two members, historian and Kafka sinks, three records with an undecodable one in the middle: at-least-once, sinks never ahead of the buffer, and refinement of `AtLeastOnce` |
| `consumers` | 396 k | The three releasing programs from the start of the topic: what is missing below an offset was a dropped insert, and the rest is delivered once faults stop, refused commits included (363 k). The AI gateway in seven instances: sustained incidents get one job each, completed jobs are published and reopen only after a lost lease, recorded jobs are settled (33 k) |
| `publisher` | 899 k | Two threads, queue of one message, two oversize messages, stop, kill and restart: outside the named races no accepted message that fits is lost, an oversize one only with its dead letter, and no message waits for another event |
| `threshold_sync` | 706 k | Four deployments with upserts, a kill or a failure: every upsert reaches the topic; with nothing on its way caches equal the table but for named causes |
| `services` | 333 k | The nine parts of `MCServices`: their types, twelve safety invariants, and what each owes (`ServicesProgress`) |
| `operations` | 866 k | The eight parts of `MCOperations`: their types, six safety invariants, and what each owes (`OperationsProgress`) |

The last two compositions join properties that different parts keep in the same
sense: `ConsumersAreSound` is `CommitPointIsDelivered` (the record under a
committed offset is always delivered, from `latest` and with a malformed record
behind a buffered one), `ReloadLosesNothing` (a route reload throws away empty
sinks) and `ForwardedBeforeCommit` (the outbound bridge goes to commit what each
forwarder has taken, a success of the second not hiding a failure of the first);
`StreamsAreFollowed` is `WindowIsRecent` and `SeverityFollowsTheSignal`;
`KeyIsOnePublication` is `CopiesNeedAClaim` and `AnsweredIsPublished`;
`AnsweredIsKept` is `AcknowledgedIsKept` and `ToldIsStored`; `RestoresAreSound`
is `MatchedIsRestored` and `RestoringIsFailed`; `ServicesProgress` is
`EventuallyProcessed`, `EventuallyDelivered`, `EdgeFollowsRegistry` and
`TurnsAreSettled`; `OperationsProgress` is `WokenQueueDrains`, `StopIsFinal`,
`ExitedIsReplaced`, `PendingIsEscalated`, `QueuedIsTaken`, `ViewsConverge` and
`ClosedIsForgotten`. `FanoutDelivers` is `EventuallyDelivered` in the behaviours
of the fan-outs. Each conjunct is a definition of its module, with its own
comment.

Of the states of `services` the assistant's turns have 101 thousand, the
processor 89, models 59, HTTP Push 24, the historian client 23, connections 21,
replays 14, the fan-out 2, actions 1.

Six more runs show the code departing from a sentence of its own
documentation; TLC's counterexample is the run's result.

| Run | Sentence | What the code does |
|---|---|---|
| `normalized_malformed` | "Offsets are committed only after the sink batch succeeds" (`processor/normalized_fanout.py:5`) | a malformed record is committed while earlier records are still buffered; a kill then loses them. `processed_fanout.py:123` has the same order; `operational_fanout.py` flushes first |
| `publisher_replay` | spooled events are "retried on later flushes" (`docs/source-connection-and-deployment.md:78`) | `remaining[index + 1:]` is applied to a list already cut; with three records, two of them delivered, the third is dropped |
| `threshold_manifest` | `"user_policy_wins": True` (`common/threshold_policy.py:273`) | a processor that consumed one policy before it first resolved another key takes its cache for the whole table and keeps the manifest's policy |
| `assistant_lost` | "The API persists the final user and assistant messages through the same durable store" (`docs/ravan-assistant-orchestration.md:84-86`) | with the file store, which is the default, any request the API stores after a worker's answer replaces the file with a copy without it |
| `processor_refused` | "Never advance the source offset until Kafka has acknowledged it" (`processor/runtime_processor.py:69-71`) | `flush(10)` returns 0 for an event the broker refused, `produce` (line 238) has no delivery callback, and the offset of its record is committed |
| `bridge_redelivery` | "If a forward fails the commit is skipped and the message is re-delivered on the next poll" (`edge_ingest/outbound_bridge.py:119-121`) | the position has moved on and nothing seeks back: the next message is handled. A restart does not go back either, since no commit succeeds: `commit` (line 143) is called with a keyword the client does not have, and the `TypeError` is passed over |

### Reading the less obvious properties

`OnlyDroppedAreMissing` and `CommitPointIsDelivered` are what is left of
at-least-once in `ReleasingFanout` after its departures: `normalized_malformed`
above, and `ai_enriched_fanout.py:122`, which logs a failed insert and goes on,
so that the next commit covers it, against its line 8 ("Offsets are committed
only after a successful insert"). The rest of its behaviour (kills, rebalances,
fencing, failed batches, commits that raise) is still checked. The first needs
a group that reads from the start and nothing buffered ahead of a malformed
record; the second holds with neither restriction.

`LostOnlyInARace` enumerates the steps at which an accepted message (one
`publish_event` has been called for, appended yet or not) may disappear: the
rewrite of a spool that changed since it was read or has more than two records,
a `clear()` after another thread changed the buffer, the end of a process with a
call the final flush overtook, and a kill. Its other exception is `LossyRoute`:
of a message above `max_message_bytes` only a dead letter is produced, whose
produce may raise and be passed over (`publisher.py:203`) and whose failed
delivery is not spooled (line 200), so that such a message vanishes without a
race. A dropped delivery report, a full queue or a shutdown that lost a message
that fits would violate it, and so would an oversize message that disappeared in
any other way.

`Converged` likewise names its exceptions, each a sequence found by TLC: a
policy committed between a process's load and its subscription (`latest`); an
unguarded overwrite of a newer version by another thread of the process
(`lost`); two upserts that read the same version; a delivery the broker
refused. A consumer without its version check violates it.

`OnlyALostLeaseReopens` and the exception of `EventuallySettled` (every worker
task has ended) mark what the job table does not prevent: a late `fail` after
somebody else's `complete`, and a handler that raises inside its own `except`
and takes the task with it until the gateway is restarted.

`SeverityFollowsTheSignal` is the definition of a delayed alarm, said of the
whole history of a stream: no severity without a run of values at that level
for its delay, and none missed when there was one. The processor keeps only the
pending candidate and its time.

`CommittedIsProcessed` says what is left of the processor's promise after
`processor_refused`: below the committed offset every derived event was
acknowledged or refused by Kafka, and its row stored; nothing was skipped,
forgotten or committed before its batch was answered for. It and
`EventuallyProcessed` hold in spite of a record that does not decode: such a
record ends the process at every start, and everything behind it is never
processed; what precedes it is, by the flush of the finally block.

`AnsweredIsPublished` excepts a claim left by a crash or a failed call
(`burnt`): from then on every retry of that key is answered "duplicate" though
nothing was published, until the row is removed.

`EdgeFollowsRegistry` excepts the cycle in which the file changed between the
two reads and came back: the edge then runs what the second read said under the
signature of the first, and no later cycle finds a difference.

`AnswersAreKept` holds of both ways to answer over PostgreSQL, but for answers
a renaming overwrote: `rename_thread` reads the thread and replaces all of it,
so an answer appended in between is gone. The title of a thread's first message
is such a renaming, while the first turn is under way.

`AcknowledgedIsKept` is about a source that works. When it stops, or its drainer
has died of an exception in its own handler, what is queued is gone; a JSON
value that is no object ends paho's thread and is not acknowledged.

`WokenQueueDrains` starts from a drainer that is not between its look and its
registration: a message put there wakes nobody and waits for the next one.

`EndedLeavesNothing` is about a supervision that ends as it should; when a child
survives the kill for longer than the second wait, the exception leaves the
others running (`raised`).

`ToldIsStored` has the one exception the code makes: after a change whose write
failed, memory alone has it, answers show it, and a restart takes it back. The
exception ends with the next write that succeeds, which writes all of memory.

`PendingIsEscalated` assumes that checks come to their end again and again. That
they are made is the caller's affair, for nothing in the code makes one by
itself; and a write that fails, or a rule whose pattern does not compile and
takes an alert's severity, ends a check with the older alerts unseen. An alert
behind a page of newer active ones is not seen either, and is excepted.

`SucceededIsWhole` excepts directories more than one job was built in: a build
removes nothing an earlier one left, so that the marker and the list of files
may be another job's. A version 1 build leaves no marker at all.

`ViewsConverge` excepts the clients an update of which was overtaken by an older
answer to their own question: the broadcaster compares with what it sent last,
and sends nothing until the table changes again.

`WritesAreStoredOrRetried` counts: a write gives up only after as many faults
as it has attempts. A cancellation that hits a write, because the connection
went on from the query it was looked up for, counts as one.

## 4. Bounds and why they are enough

* Fan-outs: two members are needed for a rebalance and make the abandoned
  batch of a former owner possible; three records and batches of two give a
  record before, inside and after a malformed one, and a batch that is full,
  partial or empty. Kills, failures and rebalances are unlimited. Members are
  symmetric in `operational_group`. The operational fan-out's liveness is checked
  with one member, since another can only take over what a restart would do; that
  of the releasing ones with both.
* Publisher: two events give four messages; a batch of two and a queue of one
  reach every limit; a spool of three records is what the replay needs to go
  wrong. Events are published once (`given`); everything else is unlimited.
* Policies: two upserts of one key are the least that can be reordered, share a
  version or overwrite one another; two keys are needed only for the manifest.
  A kill, a timed-out or refused delivery and a failed statement draw from
  `faults`.
* Report jobs: streams of at most seven events contain a warning inside an
  incident, a recovery with a second incident, and one that never sustains;
  two attempts per job and two slots show races over one lease.
* Processor: all signals of five values on four levels, one a second, with
  delays of one and two seconds, which is enough for a pending transition to be
  interrupted and resumed; three streams for two places and windows of two
  records for the pruning; two streams and a record that does not decode for
  the failures, which are unlimited, with and without persistence.
* Connections: three requests on two connections (`MaxRequests`) and one failed
  write, restart or ended connector (`MaxOutages`). HTTP Push: four requests,
  three faults, two replicas, two keys one of which is invalid. Models: eight
  requests (`MaxChanges`), as many as two versions of a family need to have
  been active, and a version of another family. Replays: three, of one row,
  with one fault, since it takes two older threads to overwrite one another.
* Assistant: two turns, two streamed messages, one worker and the API, one kill
  (`MaxKills`), one renaming (`MaxTitles`); two turns are what a cancellation
  or a retry needs to meet the wrong one. The run with the file store has two
  workers. Actions: three requests on one intent and one killed replica.
* Historian: two query threads and the event loop share ids, connections and a
  pool of two; two calls, two faults, and two attempts for a write. With three
  calls the two properties hold as well (128 thousand states with a pool of one
  connection, 605 thousand with two), which takes too long beside the others.
* Outbound bridge: four records, three faults, both forwarders. MQTT: six
  messages, two objects to fill a queue of two and then each kind with and
  without room; two faults. Supervisor: two services, two exits, one restart
  allowed, two commands of an operator, of which one beside a supervision
  (`CommandBound`), and one fault. Backup: two tables of at most one row, two
  dumps, two restores, one fault.
* Alerts: three, for a page of two, one change and two faults, a write that fails
  and a kill after it; alerts come due in the order they were created, and only
  patterns on critical alerts do not compile (`AlertBound`). Builds: two jobs,
  directories and workers, two faults. Feed: two sockets, two versions of the
  table, one failed query. The normalized group: two records, two members.
* Bounded requests and faults run out and the system then rightly stops, hence
  `CHECK_DEADLOCK FALSE` where there are such bounds. The fan-outs and the
  publisher have none, and deadlock is checked.
* Data kept out: payloads, sites, formats, batch sizes above two, retry delays
  and clocks. Timeouts are steps that may happen whenever the code waits.

## 5. Fairness

Safety runs assume none. The liveness properties assume what the code's loops
and the deployment give:

* Members, relays and the processor take their next step if they can:
  single-threaded loops that do not wait for each other. A process that ended
  is started again, by the restart policies of `docker/docker-compose.yml` and
  the Helm Deployments. One service is an exception: the Compose file
  (line 510) gives `operational-fanout` and `artifact-fanout` no policy, so that
  `EventuallyDelivered` speaks of a Helm deployment there.
* The coordinator assigns a partition without an owner; librdkafka ends every
  delivery one way or the other (`message.timeout.ms`).
* The event loop calls `service` every cycle, and the flush interval passes
  after finitely many cycles: strong fairness of the flush branch of
  `MaybeFlush` on the loop's thread, weak fairness elsewhere.
* A worker slot polls for jobs for ever: strong fairness of `Claim`, since
  another slot may take the job in between; the lease of a job still
  processing runs out.
* The edge's supervisor reads the registry every few seconds for ever.
* An executor of a turn, and a renaming, take their next step; the assistant
  worker comes back to its loop, takes up the job it holds and finds turns
  without a heartbeat, as `run` does between jobs. Nothing is assumed of jobs
  being dequeued, or of a process that was killed finishing anything.
* In `operations` the drainer, the supervisor, each dataset worker that has not
  ended, the broadcaster, the heartbeat and each handler of a socket take their
  next step: tasks of a loop, or single-threaded loops. A killed dataset worker
  is not assumed to be started again, for the Compose service has no policy.

No fairness is assumed of a fault or of its absence: `EventuallyDelivered` and
`EventuallyProcessed` are conditional on faults ceasing,
with `Fault` defined from the steps that set a process back. Elsewhere faults
are bounded.

## 6. Proofs

Seven modules hold the theorems and one, `FanoutDeliveryProofs`, the lemmas the
two fan-outs share. They are about all values of the constants that meet the
assumptions the modules name, which TLC evaluates in the runs. Every invariant
and every safety action property of a run that passes is the conclusion of a
theorem. Its argument is always the same: an inductive invariant, one lemma for
the initial condition and one per action or part of the state, and a last step
in propositional temporal logic. What follows says what each invariant adds,
which is what the code relies on without saying so.

**`OperationalFanoutProofs`**: `TypeCorrect`, `AtLeastOnce`
(`CommittedIsDelivered`), `SinksNeverAhead` (`SinksHoldOnlyTheBuffer`) and
`Refinement` (`DeliveryRefined`, the abstract consumer with the settled records
for its `settled`). At-least-once alone is not inductive: a commit is safe
because of what is true before it.

1. `OwnershipInv`: the owner of a partition lives, is in the group, and every
   record below its position is settled, in its buffer, or the malformed one in
   hand. This is where a rebalance is harmless: a new owner starts at the
   committed offset, below which everything is settled.
2. `BufferInOrder` and `CurrentInOrder`: below a record a member holds there is
   no record it has lost sight of, even after it has been fenced or lost the
   partition; so a late commit of an abandoned batch may rewind the offset but
   never skips.
3. `Progress`: between `write` and `commit` the batch is first in the sinks,
   then at the endpoints; the dead letter is sent with an empty buffer and
   committed only once sent.
4. `SinksInOrder`: what a sink object holds is in its process's buffer.

Deliveries only grow (`GrowthStep`); then there is one lemma per action, with
`OthersKept` and `Bystander` for the members that do not move and `CommitSafe`
for both kinds of commit. The refinement uses that a step either settles records
or moves offsets, never both.

**`ReleasingFanoutProofs`**, about the three programs that let go of a batch:

* `CommitPointIsDeliveredAlways` and `ReloadLosesNothingAlways`, from `UInv`:
  a member about to commit has had its batch, or its dead letter, answered for
  (`Control`), and its sinks hold nothing but the batch in hand (`SinksOf`),
  hence nothing when routes are reloaded.
* `NothingPassedOverSuffices`: read from `earliest`, a group in which no
  malformed record is ever dealt with while an earlier record of its partition
  waits (`NothingPassedOver`) misses only what `ai_enriched_fanout` gave up.
  The hypothesis is a property of the behaviour, and the run
  `normalized_malformed` shows what happens without it: the theorem says that
  passing over is the only *other* way such a group can lose a record.
* `OnlyDroppedAreMissingAlways`: the hypothesis holds, and the property with it,
  when malformed records are the first of their partitions (the run
  `consumers`), when batches have one record, or when the program is
  `ai_enriched_fanout`.

**`EdgePublisherProofs`**: `TypeCorrect` and the action property
`LostOnlyInARaceAlways`. `PublisherInv` adds that the records a replay has gone
past are stored and only the first of them is rightly cut off what it writes
back (`ReplayInv`), that a flush about to clear the buffer has gone through all
of it unless somebody changed it (`IteratedAll`), and that a final flush that
overtook no call is alone and leaves nothing in memory (`QuietShutdown`);
`RoutesOversize`, that only oversize messages are without a token. Two theorems
turn the action property into statements about events, of whose records they
speak of those that fit in `max_message_bytes` (`Fitting`): an oversize one is
lost by a dead letter that fails, race or none. `AcceptedIsKeptWithoutARace`:
until the first race, these records of every event `publish_event` was ever
called with are accounted for, across failures and restarts.
`OneCallerLosesByReplayOnly`: when no connector calls the publisher
from a thread of its own, the rewrite of the spool and a kill are the only races
left. Both have a hypothesis about the behaviour; with a second thread the
conclusion of the latter fails after a few steps, in TLC.

**`ThresholdPolicySyncProofs`**: `TypeCorrect` and `ConvergedAlways`. `SyncInv`
adds that every policy anywhere is a version the database gave out or the
manifest's (`Sources`), that what the outbox calls published is in the topic or
was refused by the broker (`Relayed`), and that a process has each version it
loaded or polled, or a newer one, or has written over one (`Follows`).

**`AIReportJobsProofs`**: `TypeCorrect`, `CompletedOnlyWhenPublished`,
`SustainedIsReportedAlways`, `OneReportPerIncidentAlways` and the action property
`OnlyALostLeaseReopensAlways`. `ReportInv`: a worker about to complete a job has
seen that job's report acknowledged; as `published` only grows, two workers on
one job need no extra argument. `LoopInv` ties the tracker to the stream: it
knows the last critical event and counts those since (`TrackerFollows`), it
stays reported only where a job answers for the incident (`IncidentNoted`), and
two anomalies of one life have a rearming between them (`RearmedSince`).
`WorkInv`: two workers share a job, or one is at a job that is over, only after
its lease was lost (`LeaseWasLost`), and attempts exceed their limit only by the
workers at it at once (`AttemptsLeft`).

**`ServicesProofs`**, about each of the modules under `MCServices`:

* `CommittedIsProcessedAlways`, with the refusals of `processor_refused` excepted:
  below its position a process that is not ending
  finds every record committed, buffered or undecodable, and the batch it is
  about to commit has been answered for by Kafka, then stored (`RuntimeInv`).
* `StreamsAreFollowedAlways`: per stream, the severity changes only to a level
  that has lasted its delay, and a level that has lasted is the severity or the
  one being waited for (`StreamsInv`).
* `KeyIsOnePublicationAlways`: a call at work on a key holds its claim, alone,
  and each copy in the topic or in a queue is paid for by that claim or by one
  given back (`PushIInv`).
* `LifecycleTypeCorrect`, `OneActiveAlways` and `ServedIsApprovedAlways` are
  inductive with the types; the proof brings out (`ServiceSources`) that the only
  state from which a request leads to `active` without an approval in between is
  one the version reached by an approval.
* `RunningHasItsThreadAlways`: the step a thread ends with sets the state to
  not running, whichever replay it belongs to, and `StartReplay` gives the
  newest a thread of its own.
* `EnabledByRequestAlways`: memory and file may differ after a failed write, but
  neither enables more than the requests have (`PermittedInv`).
* `CancelFindsItsQueryAlways`: an id's handle is always the connection of a
  thread that runs a query with that id (`HandlesInv`).
  `WritesAreStoredOrRetriedAlways`: a connection is with one thread or with the
  pool (`OnePlace`), each failed attempt has met a fault of its own (`Charged`),
  and a write the loop has come through with is in the database (`Through`).
* `AnswersAreKeptAlways` and `AnsweredIsNotRetriedAlways`, for
  `Backend = "postgres"`, since over a file both are false: a message has one
  turn, turns begin in places nothing has used, an executor past its answer has
  it in the store or lost it to a renaming, and a settled turn stays at rest
  (`TurnsInv`).
* `PerformedOnceAlways`: an intent that may still be claimed has been neither
  performed nor claimed, and a request about to perform one is the only one
  (`ActionsInv`).
* `ServicesTypeCorrect` composes them: whichever part runs, the others are at
  their start (`PartInits`, `PartSteps`). Much of it is counting: a window is
  never longer than its deque, a thread publishes only while rows are left, a
  definition's number is that of a request, each message that waits for a turn
  has a free place for it, with either store, and a write makes at most
  `WRITE_MAX_RETRIES` + 1 attempts.

**`OperationsProofs`**, about each of the parts of `MCOperations`, with `UInv`
for the group:

* `ClaimedOnceAlways`: no two workers hold one build, and a build leaves the queue
  by a claim or a cancellation only (`OneWorker`, `ClaimedFirst`).
* `AnsweredIsKeptAlways`: between paho's thread and the drainer an acknowledged
  message is always in the queue, in the drainer's hand, or accounted for
  (`DrainerHolds`); the file differs from memory only in the alerts whose write
  failed (`FileIsCurrent`), and what clients were told is in memory
  (`ToldIsShown`, `AboutToTell`).
* `EndedLeavesNothingAlways`: as long as a process that was launched is alive it
  is the child of its place, and a place is free before each launch
  (`SupervisedIsChild`, `FreePlaces`, `WithinBudget`).
* `RestoresAreSoundAlways`: a drill restores into the test database, which it
  has emptied, and holds the file's whole content when it compares
  (`DrillIsWhole`, `RestoringIsKnown`).
* `SucceededIsWholeAlways`: what a worker has written so far is there and its
  own, unless another build went to the same directory (`WrittenIsThere`,
  `WrittenByClaimed`).
* `ConsumersAreSoundAlways`: to `UInv` it adds the bridge, which knows at each step
  what the forwarders before it have taken (`TakenSoFar`, `PositionInLog`).
  `OperationsTypeCorrect` composes the parts.

*Model-checked only.* The liveness properties, which need fairness and are out of
this prover's reach: `EventuallyDelivered`, `BatchDeadline`,
`EventuallyPublished`, `EventuallySettled`, `ServicesProgress` and
`OperationsProgress`. The runs that end in a violation have nothing to prove.
No module declares a RECURSIVE operator; sums and maxima over sets come from
the folds of the community modules. What a proof needs of such a fold it takes
from a lemma about the sets it meets: a fold over an arbitrary set would need
induction with an operator for a parameter, which no installed prover does.

## 7. Plan

1. Parts of the system: the federation bridge and the raw archive, once their
   sink has the method they call (section 8); redelivery by the outbound bridge,
   once its commit works; the agent's ledger of tool calls; deletion of threads
   and of connections; report jobs created through the API, and the cooldown of
   `common/ai_reporting.py:98`.
2. Theorems: safety statements that say more than a run's property, such as what
   the threshold cache of a processor misses when its user policy loses to the
   manifest's. `RuntimeProcessor` could refine `AtLeastOnce` too, but there
   `LogEnd` is a constant and the topic belongs to the instance;
   `CommittedIsProcessedAlways` says the same of it.

## 8. Not modelled, and why

* *Federation bridge and raw archive.* Both call `write_batch_strict` on a bare
  `LakehouseSink` (`federation/kafka_lakehouse_bridge.py:80`,
  `processor/raw_lakehouse_archive.py:68`), which defines `write_batch`, `flush`
  and `flush_strict` only: `write_batch_strict` belongs to `CompositeSink`. The
  first flush raises `AttributeError` at every start, nothing is stored or
  committed by a flush, and there is no protocol left to check. The bridge's
  claim refuses only a key that has *succeeded*, so a redelivered event would
  be stored again rather than lost; the commit for a duplicate (line 120) passes
  events still in the batch.
* *Table synchronisation of the federation.* Its rows hold datetimes, which the
  JSON encoder of the HTTP client refuses, so that no page is ever sent.
* *Agent ledger, permanent deletion of assistant threads, retention, the
  semantic graph of the historian*: records written by one request, or
  administrative, one at a time. The tables the semantic metadata store would
  use are created nowhere, so that it always falls back to a file written by the
  requests of one loop. The first use of the pool by several threads at once is
  taken as one step.
* *Telemetry feed*: sends whatever it reads, on every round.
* *Flink job*: checkpoints and keyed state are Flink's.
* *Codecs, normalisation, scoring, analytics, model providers*: computation
  without interaction; the models take its outcomes as given (a record decodes
  or not, a value is at a level).
* *HTTP routes, authentication, metadata stores*: single requests over the parts
  above. *The other operator commands, dashboards, deployment files and
  benchmarks*: outside the data path.

The mapped lines are about a seventh of the implementation. Most of the rest
computes without interaction (formats, codecs, manifests, analytics, providers,
package and release scripts, printing commands), and the remaining routes are
one call to a part that is modelled; a module of these would restate the code.

Met while modelling, and kept by the models as the code has it, without a run of
its own: no entry of the audit log is ever stored, for it is inserted through
`query_sql`, which raises on the dict of details and on the missing rows and
never commits, and the exception is passed over (`api_service/auth.py:246`,
against "Persistent user/audit storage in the historian DB" in its line 6;
`create_user`, line 211, likewise); the outbound bridge's AMQP forwarder imports
`pika` in the branch that connects and raises in every later call (line 93); a
JSON value that is no object ends an MQTT source's network thread
(`edge_ingest/settings.py:40`); an `up` that is interrupted, or reads a
half-written `processes.json`, leaves processes no command knows
(`cli/datastreamd.py:333`); the file a failed dump leaves is listed as a backup
(`historian/backup.py:426`), and a drill compares with a snapshot taken before
the dump; a version 1 dataset whose quality gates fail is marked succeeded
(`datasets/dataset_worker.py:24` ignores what the build returns), and the job of
a killed worker stays running; escalation rules are forgotten at a restart, the
rule named auto-resolve escalates, and a resolved alert can be acknowledged.

Known weaknesses of the code that no property covers, beside the hazard
without one in `PROJECT.json`: a sink that could not be built at startup is left
out (`sinks/base.py:175`); a record a sink refuses for ever blocks its partition
(`processor/normalized_fanout.py:167`); a line torn by a power cut makes every
later read of the spool raise (`edge_ingest/disk_spool.py:23`); a creation over
an id that is enabled can leave a file that does not load
(`common/connection_registry.py:343`, seen by `Loadable`, which
`EdgeFollowsRegistry` excepts); an action whose execution raises anything but a
`KeyError` or `ValueError` stays "executing" (`routers/assistant.py:1021`), and
a rejection overwrites whatever status the action has reached meanwhile
(line 1037); an approval accepts any passed evaluation, however many failed
since (`common/model_lifecycle.py:130`); a query or write that finds the pool
exhausted is refused at once (`historian/client.py:194`).
