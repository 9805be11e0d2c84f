# JetCore service bus: a TLA+ verification project

The modules here model the parts of JetCoreServiceBus that run concurrently,
fail half-way and recover: the service directory, the identity directory, the
bus client, and every adapter: the REST API service with its synchronous
replies, the database adapter, the file storage adapter, and the webhook
listener, webhook sender and HTTP adapter. TLC checks them on small instances;
TLAPS proves, for all parameters, every safety property that the passing runs
check: of the directories, of the bus client and of each adapter; that the bus
client implements an abstract at-least-once consumer, and that what holds of it
holds of the HTTP-facing adapters on top of it.

`PROJECT.json` is the machine-readable index: components, runs, mutants, the map
from definitions to source lines, findings, hazards and theorems.

## 1. The system

Adapters are separate processes that talk only through a NATS server with
JetStream. Every adapter embeds `libs/jetcore` and is restarted by Compose when
it ends.

| Component | State it keeps | Operations | Talks to |
|---|---|---|---|
| Service directory (`registry.py`) | KV bucket `service-directory`, one entry per subject and service with the encryption key and a 60 s TTL; in a publisher, a `RecipientCache` fed by a watch | `register`, `heartbeat`, `deregister`, `watch`, `lookup_recipients`, `_consume`, `stop` | KV server; bus client |
| Service identity (`registry.py`) | KV bucket `service-identity`, serviceId to signing key, 90-day TTL | `register_identity`, `lookup_signing_key` | bus client |
| Bus client (`bus_client.py`) | key pairs, caches per subject, pull subscriptions, background tasks; on the server the stream, its dedup window and a durable consumer per subscriber | `connect`, `connect_as_adapter`, `subscribe`, `publish`, `fetch`, `_process`, `ack`, `nak`, `close` | JetStream, both directories |
| REST API service (`app.py`, `pending_replies.py`) | table of pending futures by eventId; one watcher task | `create_order`, `register`, `resolve`, `unregister`, `run_reply_watcher`, lifespan | bus client (OrderCreated out, OrderPersisted in) |
| Database adapter, write path (`write_handler.py`) | the `orders` table | `run_once`, `_handle` | bus client, MySQL |
| Database adapter, CDC (`cdc_watcher.py`, `__main__.py`) | binlog position in a thread, two shutdown events | `_run_stream`, `_publish_row_changed`, `run`, `_bridge_shutdown` | MySQL binlog, the event loop |
| File storage adapter, command handlers | files of `watch_dir` | write, read, list and delete handlers, each with a durable and a loop | bus client, file system |
| File storage adapter, creation watch (`create_watch.py`, `recent_writes.py`) | what the watcher collected, the file that is settling; the marks in `RecentWrites`, shared with the write handler | `run_forever`, `wait_until_settled`, `mark`, `was_recent` | file system, bus client |
| File storage adapter, entrypoint | the shutdown event | `main`, `run`: five tasks under one `gather` | all of the above |
| Webhook listener, webhook sender, HTTP adapter | none of their own | publish on a request; POST on an event | bus client, HTTP |
| Crypto, creds, envelope, settings, infrastructure scripts | none at run time | | |

What is hard:

- *Freshness.* A publisher encrypts for the recipients its cache shows; the
  cache follows the bucket, the bucket follows heartbeats, and keys change at
  every start of a subscriber.
- *Redelivery.* The ack wait of a first attempt is 2 s and runs while a batch is
  being handled; restarts, naks and max_deliver interleave with it.
- *Retries.* A publish that timed out may land later, the put of a registration
  too; the dedup window turns a retry of an event into the original one.
- *Request and reply.* A future is registered after the publish; replies are
  late, repeated or orphaned; two requests may share an event.
- *A thread beside an event loop.* Each waits for the other in places.
- *Files.* A write is an open, a write and a mark with awaits between them; other
  commands, other programs and the watch look at the directory in between.
- *One client, many tasks.* First publishes race each other and `close()` for the
  dictionary of caches.

The properties that make each component correct are in section 3; the list of
hazards, each at its line, is `hazards` in `PROJECT.json`.

## 2. The modules

Each component module has an `MC...` module that gives names to the constants
for TLC. Definitions named as mutants in comments are deliberately wrong
variants of the definition that follows; nothing uses them in the specification.

### ServiceDirectory

One subject. `entry`, `age` and `late` are the bucket: the registered key, its
age in heartbeat intervals, and puts that nobody awaits any more. `mode`,
`epoch` and `missed` are the subscriber's place in `heartbeat()`, its number of
starts (= its current key, fresh at every `connect_as_adapter`) and the beats it
missed in a row. `wst`, `queue` and `cache` are a `RecipientCache`: off,
starting or ready; what the watch has still to yield; `_entries`. `unseen`
records what a stale first snapshot left out.

`Start`, `Registered`, `FirstFails`, `BeatFails`, `Stop` are `subscribe()` and
the loop of `heartbeat()`; `Deregister` is the operator's tool; `StartWatch`,
`Consume`, `StopWatch` are `RecipientCache`. `Expire`, `LatePutLands` and
`Notify` are the server. `Tick` is one heartbeat interval; it waits for
outstanding requests, whose timeout (5 s) is far below the interval (20 s).
`IndexLag` allows the stale snapshot that `lookup_recipients` documents.

### EventBus

One subject of the stream. `publish()` is split where it awaits: `Publish` reads
the cache, encrypts, signs and sends; `PublishReturns` or `PublishRaises` end
it; a publish that raised may still land (`GhostLands`). A cache's content is
any set of keys the consumers ever had: what a publisher really sees is
ServiceDirectory's subject. `Fetch` takes a batch, `Process` is one turn of its
loop over the messages, then `Ack` or `Nak`. `AckWaitExpires` may come at any
time, also while a handler works. An ack is not confirmed and may be lost.
`status` and `num` are the durable consumer; `Again` is max_deliver. `identity`
is the service-identity bucket: `Connect` writes it, and so does, at any time, the
put of a `connect()` that raised (`RegistrationLands`), of any process of a
serviceId, whether it is one of the `Publishers` or not.

`Process` ends in one of four ways: the event is handed over; its signature is
refused (`refused` counts it); the lookup of the signer's key raises, which
`fetch()` logs and which leaves the message unacked like any other failure
(`unanswered`); it cannot be decrypted. The two counters, and `runs`, are those of
the running process of a consumer.

### AtLeastOnce

What a durable consumer promises, without keys, batches, processes or time: an
append-only log, a bounded number of hand-overs of an event, none after its ack,
no ack without a hand-over. EventBus implements it under the mapping
log = `stream`, handed = `runs`, outcome = `Outcome` (acked, given up, or open).

### ClientTasks

One `BusClient` as an object that several tasks share. `publish()` is split at
the awaits of `_cache_for()`: `Publish`, `WatchStarts`, `SnapshotLoads`,
`CacheStored`, `PublishEnds`. `Subscribe`, `HeartbeatStarts` and `SubscribeEnds`
are `subscribe()`, also when called again for its durable. `close()` is
`CloseBegins`, `TasksEnd`, one `StopCache` for each entry and `CloseEnds`, which
fails when the dictionary has grown since the loop over it began. `overlap`
records that a first publish met another one of its subject, or a `close()`.
Tasks that publish are not cancelled while they do; nothing in the repository
cancels them before the event loop ends.

### IdentityDirectory

The service-identity bucket on its own, with time, for processes that may share
a serviceId. `mode` follows `connect()` through its await of
`register_identity()`: `Connect` sends the put, `PutLands` applies it,
`ConnectReturns` ends it. `ConnectRaises` is the error path, and the end of a
process in the middle: a put that was not applied is lost, or joins `late` and
is applied at some later time (`LatePutLands`). `Close` leaves the entry. `since`
and `rival` are history: the time since a process called `connect()`, and
whether another process of its serviceId had a put on its way since then.

### RestApi

`create_order()` is split at its awaits (`Receive`, `PublishLands` or
`PublishRaises`, then `Register` or `AnswerAccepted`, then `AnswerReply` or
`AnswerTimeout`); the code between two awaits is one step. `Unregister` is the
`finally`. `WatcherFetches`, `WatcherHandles`, `WatcherDies` are
`run_reply_watcher()`. `Restart` drops the requests in flight, the table and the
key. The bus is what EventBus shows of it: `Store` answers a duplicate with the
original's eventId (`RetryIsOneEvent`, `ReturnedIdsAreReal`), `Persist` may
reply to an event more than once. A reply that never gets past `_process()` in the
service is as one that was not sent. `met` is history: the waiting requests
beside which another of the same event has begun or ended its wait.

### DbAdapter

The write path splits `_handle()` at the upsert, the publish and the ack.
`Fetch` takes a batch off the durable and keeps those that `_process()` lets
through; any other one, refused or with a lookup that raised, is left unacked. The
adapter can be cut off at each of them; what was under way then has its effect
or has not (`MaybeUpserted`, `MaybeReplied`). The CDC thread publishes the
binlog from its beginning after every start. `stopping` is the `asyncio.Event`
of `main()`, `told` the `threading.Event` of `CdcWatcher`, `BridgeShutdown` the
task between them. `Teardown` is the way from the end of `gather()` to
`asyncio.run()` waiting for the thread; `Exit` needs the thread's end. MySQL is
external: a statement that leaves the row unchanged makes no binlog entry; an
outside writer changes each order at most once (the bound on the binlog).

### FileCommands and CreateWatch

FileCommands is the command side of the file storage adapter: four loops
(`Fetch`, `After`) with a durable each, and their handlers, split at the awaits.
`Fetch` leaves messages that fail in `_process()` unacked, as in DbAdapter.
A write is `TakeWrite` (decode, resolve, look whether the file exists),
`WriteOpens`, `WriteFills` or `WriteFails`, `WriteMarks`, `PublishAnswer`,
`AckJob`. A delete and a list do all their work in the turn that takes the
command. `OutsideCreates` and `OutsideRemoves` are other programs; `Unlink`
leaves a write handler with a file that nobody can see. `Sigterm`, `Exit`,
`Crash` and `StartProcess` are the entrypoint; `Crash` is also an exception that
a handler does not catch, since it ends `gather()` and `main()`.

CreateWatch extends it with the fifth task. `added` is what the watcher thread
has collected, `changes` what `awatch()` yielded, `settle` the file in
`wait_until_settled()` with its last readings, `marked` the paths of
`RecentWrites`; a mark may expire at any time after it was set.

### HttpEdge

HttpEdge extends EventBus. The webhook listener's `receive_webhook()` is
`Receive`, then `Accept` or `Fail`, on `Publish`, `PublishReturns` and
`PublishRaises`; a request that is refused (401, 400) changes nothing and has no
step. A consumer is, from the start, a webhook sender or an HTTP adapter: its
`run_once()` is `Fetch` and `Process`, its handler `StartPost` and then
`SenderDone`, or `NoResponse`, or `Respond`, `Report` and `ReportDone`. `posts`
and `reports` count what was sent, `again` records why an event may come again.
Every action conjoins an action of EventBus or leaves EventBus alone: by the way it
is written, HttpEdge adds to the bus and takes nothing away.

## 3. The runs

Passing runs:

| Run | Instance | Checked |
|---|---|---|
| `directory` | 1 service, 1 publisher, TTL 3, 2 starts, queue of 3 | `TypeOK`; `CacheFollows`: a cache with its queued updates applied is the bucket; `StaysRegistered`: fewer than TTL-1 missed beats in a row keep the entry; `RegistrationHeals`, `DeadIsForgotten`: a live subscriber's key comes back, a dead one's goes |
| `bus` | 2 processes of one serviceId, of which one publishes, 1 consumer, 2 events, 2 attempts, batch 2, 2 starts | `TypeOK`; `AckedWasHandled`; `NoSilentLoss`: every delivery of a readable event was handled, refused or ended in a failed lookup, or waits in the batch, and one that is given up used all its deliveries so; `EverySettles`: none is redelivered for ever; `ImplementsAtLeastOnce` |
| `client` | 2 tasks, 2 subjects, 3 watches, 2 heartbeat tasks | `CloseEndsHeartbeats`; `SendsFromLoadedCache`: no event is encrypted from a cache that has not read the directory; `LeftoversTakeARace`: only overlapping first publishes or a `close()` amid one leave a watch or the connection behind; `CloseCompletes`, `PublishProgresses` |
| `edge` | 1 listener, 1 adapter of either role, a request, its retry and a refused one, 2 attempts, 2 starts | `AcceptedIsStored`: a 202 has its event, a refused request never; `RetryIsOneEvent`, `ReturnedIdsAreReal`; `PostedAgainForCause`: only a nak or a lost ack repeats a POST; `AckedIsReported` |
| `rest` | 2 requests on one key, 2 replies per event, 2 starts, watcher with faults | `OwnReply`: a request gets its own event's reply; `NoStaleEntry`; `WaiterIsReachable`: a waiting request is in the table until another of its event begins or ends a wait beside it; `EveryRequestAnswered`; `LiveWatcherAcks` |
| `identity` | 3 processes, 2 serviceIds, lifetime 3, 1 late put per process | `RecentConnectIsTrusted`: a process that connected within a lifetime is trusted unless another of its serviceId connected or had a put on its way since; `DecommissionedAgesOut` |
| `db` | 2 events of one order or malformed, 2 attempts, 2 starts, 1 outside write | `AckedIsPersisted`: an ack follows an OrderPersisted follows the row, one per delivery; `NoRetryNoReorder`; `MirrorConverges`: the RowChanged events add up to the table; `EveryChangePublished`; `StopCompletes` |
| `files` | 6 pairs of commands on one file, watch_dir and bad paths, 2 attempts, batch 2, 2 starts, 1 outside change | `AnswersAreTrue`: an answer is true when sent, one at most per delivery, and an ack has one; `AckedLeavesWhole`: no acked command leaves a truncated file; `WritesInOrder`: without interference or redelivery writes take effect in order and exactly the creator is told that it created |
| `watch` | 1 write command, 1 file, 2 outside changes, 2 stable reads, 2 starts | `TypeOK`; `SettledMeansSteady`; `OutsideIsAnnounced`: a file from outside is announced unless it is removed, marked, or the adapter stops; `StopCompletes` |

The recorded runs spend their properties on behaviour: `directory`, `bus` and
`watch` check a type invariant (`watch` with that of FileCommands), and the other
modules state theirs for the proofs, each of which starts from it.

Every property has a mutant in `PROJECT.json`: a plausible error in one mapped
definition under which TLC finds that property violated.

Runs that show a disagreement between the code and what the repository says of
it (`findings`, with the quoted lines):

| Run | Property | What happens |
|---|---|---|
| `rest_watcher_dies` | `EveryReplyAcked` | the watcher's task dies unseen |
| `db_hang` | `CrashedIsRestarted` | a failed write loop leaves a process that neither works nor ends |
| `files_own_write` | `OwnWriteNotAnnounced` | the watch sees a file before its writer has marked it, or after the mark has expired, and announces the adapter's own write |

What the models show of the code beside the properties, as observations:

- The TTL of the directory is three intervals, so that one missed beat in a row
  is survived and two are not (`StaysRegistered` has TTL-1 for a reason);
  `registry.py:98` speaks of a couple.
- The identity is written by `connect()` only: a process that stays up for 90
  days loses it, although `registry.py:202` says a live one never comes near.
- The trusted key of a serviceId is that of the last put to arrive, and not that of
  the last `connect()` to succeed: the put of one that raised may land after
  another process of the serviceId has connected, whose events are then refused
  until one of them connects again (`rival` in `RecentConnectIsTrusted`).
- A lookup of the signing key that raises uses up a delivery like a refused
  signature: a correctly signed event that its consumer can read is given up
  unseen after max_deliver failed lookups (`unanswered` in `NoSilentLoss`).
- Two waiting requests with one Idempotency-Key share one slot of
  `PendingReplies`. The second takes the slot, and the `finally` of either empties
  it: when the first one times out, the future of the second is gone from the table
  although it waits on. `WaiterIsReachable` says exactly when a waiter is sure to
  be reached. A retry that arrives after the reply was consumed answers 504.
- A file whose size never stays the same for the stable reads holds up the watch,
  and with it the end of the process after SIGTERM, for good: `NeverQuiet` in
  `OutsideIsAnnounced` and `StopCompletes`. `__main__.py:33` of the adapter calls
  the fetch timeout the bound on shutdown latency.
- A delete that is delivered again after an ack was lost answers not_found for a
  file it deleted itself, and a write that is delivered again answers "written"
  for a file it created: `AnswersAreTrue` and `WritesInOrder` state what holds of
  commands delivered once.
- Two first publishes of one subject leave a watch that `close()` does not stop,
  and a first publish amid `close()` can make it raise and leave the connection
  open (`LeftoversTakeARace`).
- A watch created from a lagging index is ready and empty while someone is
  registered (`unseen` in `CacheFollows`); the next heartbeat mends it
  (`RegistrationHeals`). An event published while a subscriber was not registered
  is never readable for it: `publish()` encrypts once.

### Bounds, and why they are enough

The TTL is 3 intervals because it is in the deployment (60 s and 20 s). Two
starts of a process give an old and a new key, which is all a stale put, a stale
recipient or a replayed binlog needs. Two attempts stand for five: the
interesting cases are the first, a further one and the last. Batch 2 has an
event that waits behind another. Queue 3 lets a put, a purge and a put of a new
key wait behind each other and holds a snapshot of two services; `Room` delays
the bucket when a queue is full. A second process of the publisher's serviceId
is enough to take the identity away at any time. One put of each process in
flight, that nobody awaits (`MaxLate`), is what it takes to overtake another's
`connect()`; more of them repeat the same write. Two requests on one key show
every way two futures can meet, and when the window passes between them they are
two orders. A write with each other kind of command, on one file, has every pair
of handlers at work on it; list and read meet the refused paths. One path is
enough for the watch: what a second file adds is delay, and the watch may be
arbitrarily late as it is. Three watches for two subjects give one that loses
its place. The listener serves one request at a time, two in a row; the
publishes that overlap are those that raised and land later. In EventBus,
FileCommands and DbAdapter the last start of a process does not fail; failures
are bounded by the starts. In RestApi one `publish()` of each request is in
flight; in EventBus one of each process. The runs of RestApi switch deadlock
checking off: all requests can have been answered. No run uses symmetry.

### Fairness, and why the code justifies it

- The event loop runs ready tasks, and awaits on the bus and on futures have
  timeouts: weak fairness of the steps of caches, handlers, watchers and loops.
- The server redelivers, expires and purges, and a put in flight arrives: weak
  fairness of those steps.
- A heartbeat that is tried for ever succeeds again and again: strong fairness
  of `Registered`, which is what "NATS is up again at some time" means. Nothing
  is assumed of a single attempt.
- Compose (`restart: unless-stopped`) starts an ended process: weak fairness of
  `ConsumerStarts` and `StartProcess`. It is not assumed that a process that
  hangs is ended.
- In DbAdapter the writer's steps share one weak fairness: the loop goes on, and
  nothing says that a fetch finds something. In CreateWatch the steps of the
  command loops share one too, and the watch has one of its own; nothing is
  assumed of other programs, of acks or of marks.
- In ClientTasks the server ends the awaits of `publish()` and, while the
  connection is open, completes a snapshot. It is not assumed that a watch is
  granted: `kv.watch()` may raise instead. That a snapshot completes is an
  assumption the code does not enforce: `_ready.wait()` (`registry.py:367`) has
  no timeout. `PublishProgresses` is a claim under it, and so is
  `EveryRequestAnswered`, whose `publish()` ends one way or the other.

## 4. The proofs

Every invariant of the passing runs, and each refinement, is a theorem here. Each
proof module names its inductive invariant, which TLC checked on the component's
instance before it was proved, and has one lemma for each action.

`ServiceDirectoryProofs` (any finite set of services, any publishers, any
TTL >= 2, any bounds):

- `Invariance`: the inductive invariant `IInv` is `TypeOK` together with
  `KeyInv`, `BeatInv`, `OffInv` and `CacheFollows`. Alone, `StaysRegistered` is
  not inductive: that an entry has not expired follows from its age, so
  `BeatInv` bounds `age` by the beats missed since the last success, with one
  more while a beat is on its way. `CacheFollows` needs `OffInv` (a cache that is
  off is empty and has an empty queue) to hold when a watch starts.
- `TypeCorrect`, `CacheCorrect`, `HeartbeatCorrect` follow. The lemmas on
  `Yields` say how appending to a queue and taking its head change what the
  queue makes of a cache; `SnapshotYields` is the same for a first snapshot in
  any order.

`EventBusProofs` (any processes, consumers, msg_ids, max_deliver and bounds):

- `Invariance`: the inductive invariant is `TypeOK` with three parts.
  `DeliveryInv` relates `status`, `num`, `runs`, `inbox` and `held` of a durable
  (every run of a handler spends a delivery, what can be redelivered has
  deliveries left); without it not even `TypeOK` is inductive. `SeenInv` says
  that the deliveries of an event to a live consumer under its current key are
  exactly those `Spent`: handed to the handler, refused for the signature, ended in
  a failed lookup, or waiting in the batch. `DeliveryInv` has that `Spent` never
  exceeds `num` whatever the key, and that what is given up used all of
  max_deliver; `NoLoss` rests on the two. `KeyInv` (no event carries a key its consumer does not
  have yet) makes `SeenInv` survive a restart. From it `TypeCorrect`, `Budget`,
  `AckSafety`, `NoLoss`.
- `DedupInvariance`: the window points at the event with its msg_id, an event
  whose id never left the window is the one the window names, and every returned
  sequence number is that of a stored event. From it `RealIds`, `RetrySafety`.

- `Refinement`: EventBus implements AtLeastOnce. The initial states and every
  step map, under the inductive invariant: `DeliveryInv` gives that what is
  handed over was never acked and has hand-overs left, and that an ack follows a
  hand-over.

`HttpEdgeProofs` (in addition any requests, keys and roles):

- `WebhookRetrySafety`, `WebhookRealIds`, `EdgeAtLeastOnce`: `RetrySafety`,
  `RealIds` and `Refinement` hold of the listener and the adapters. What carries
  them over is the lemma `EdgeUsesBus` (`EdgeSpec` implies EventBus's `Spec`). It
  says nothing of the code: it only checks that HttpEdge was written as an
  extension of EventBus.
- `EdgeInvariance`: the inductive invariant `EdgeInv` adds `PostInv` and `WebInv`
  to those of the bus. `PostedAgainForCause` compares counts and says nothing of
  what can still happen; `PostInv` says that an event posted once without a cause
  for more is acked, still in `_handle()`, or under a key that its consumer has
  lost. The last case is why a restart in the middle of a POST repeats none: the
  next process cannot decrypt the event (`SeenInv`). `PostInv` also has that what
  waits in the batch has a run more than it has POSTs, and that `_handle()` is at
  its report with a POST that has none. `WebInv` traces every event, stored, late
  or in `publish()`, to the valid request of its eventId and key, so that a
  duplicate found in the window (`DedupInvariance`) is one of the same key. From
  it `EdgeTypeCorrect`, `AcceptedStored`, `PostedAgain`, `AckedReported`.

`IdentityDirectoryProofs` (any processes, serviceIds, lifetime and number of late
puts):

- `AgeInv`: from the moment its put is applied, a process without a rival whose
  call of `connect()` is younger than a lifetime is in the entry (`Holds`), and the
  entry is no older than the call; its own late puts only make it younger. Without
  the ages `RecentConnectIsTrusted` would not survive `Expire`. `RivalInv`: while
  `rival` is FALSE no other process of the serviceId has a put on its way, so that
  none can land. From these `ConnectRefreshesTrust`.

`RestApiProofs` (any requests, keys and bounds, with and without watcher faults):

- `EventInv`: an eventId in the window, or that a handler got, is a stored event
  of the handler's own request or of one with its key; none before `publish()`
  returned; a reply is that of the handler's eventId. `OwnReply` needs it together
  with `NoStaleEntry`, since `resolve()` goes by eventId alone. `TableIsClean` and
  `WaiterKeepsEntry` are part of the inductive invariant themselves. The latter
  covers requests that shared their event with others: only what happens beside a
  request while it waits (`met`) exempts it.

`ClientTasksProofs` (any callers, durables and bounds, any finite set of
subjects):

- `BeatInv`: every running heartbeat is in the list that `close()` cancels, and no
  `subscribe()` is under way once it has begun. `SendInv`: what the dictionary
  names has loaded. `RaceInv`: as long as no race was recorded, a first publish is
  alone with its subject, every running watch has an owner, and the dictionary
  has the size the loop of `close()` started with. That last count is where the
  finiteness of the subjects is used. From these `HeartbeatsEnd`, `SendsLoaded`,
  `LeftoversAreRaces`.

`DbAdapterProofs` (any number of events, any orders and bounds):

- `BusInv`, `JobInv`, `StoredInv`: what is still to be handled has a delivery that
  nobody replied to, and `_handle()` is at an await only with the ones before it
  done; `AckMeansPersisted` follows.
- `RowInv`, `MirrorInv`: a row is what its last change in the binlog made it, and
  the reader's view of it is what the last change the thread has passed made it,
  which holds again from the first position after a restart, row by row, as the
  thread passes. At the end of the binlog both are the same: `MirrorIsTable`.
- `OrderInv`: for an order that nobody else writes and none of whose events came
  twice, no event in the batch or in `_handle()` is older than a stored one.
  `NoRetryNoReorder` alone would not know what the batch may still do. From it
  `FirstDeliveriesInOrder`.

`FileStorageProofs` (any workload, any paths and bounds; the command handlers by
themselves, `CommandSpec`, and with the watch, `Spec`):

- `CommandIInv` is `CommandTypeOK` with `BusInv`, `JobInv`, `DidInv`, `FileInv`,
  `AnswersAreTrue` and `OrderInv`. `JobInv` has, for each of the four loops, that
  its batch and its command are unanswered for their last delivery, and what has
  been done at each await. `FileInv` has who the file belongs to while it is empty
  and whether the handle of the writer is still that of the file in the directory
  (`linked`): `AckedLeavesWhole` is about the file and an ack is about the
  command, and an unlink between open and write parts the two. `OrderInv` says,
  for a path where the writer is alone, that the commands to come are later than
  the one in the file, and that "created" was decided for the command that created
  it. From it `CommandTypeCorrect`, `AnswersTrue`, `AckedWhole`, `WritesOrdered`.
- `WatchInv` has `SteadyInv`: the last `matches` + 1 readings of the file that
  settles are equal. From it `SettledSteady`. The steps of the watch leave the
  commands alone, so that `WholeAdapter` gives the three promises of the command
  handlers for the whole process.

The assumptions are the named `ASSUME`s of the modules: bounds are naturals,
marker values are distinct from ordinary ones, the subjects of a client are
finite, a workload is a function from command numbers to commands. TLC evaluates
them on every run.

Only model-checked: the liveness properties (`RegistrationHeals`,
`DeadIsForgotten`, `EverySettles`, `EveryRequestAnswered`, `LiveWatcherAcks`,
`DecommissionedAgesOut`, `EveryChangePublished`, `OutsideIsAnnounced`,
`StopCompletes`, `CloseCompletes`, `PublishProgresses`), since fairness and
ENABLED are outside what the prover does. No theorem is stated of the runs that
expect a violation.

## 5. Abstractions, and what is not modelled

- Keys are numbers or process names; encryption and signatures are what they
  promise. JSON and base64 are left out; a payload is well formed or not.
- The seconds of the nak backoff are left out: a redelivery comes some time
  later. An ack may be lost in EventBus, HttpEdge and FileCommands; in DbAdapter
  one that was sent arrives (a crash before it gives the same redelivery).
- Entries of the directory are well formed (only `register` writes them), so the
  branch of `_consume` that skips a malformed entry has no step.
- In DbAdapter and RestApi a publish that raised has landed or is lost; the late
  landing is EventBus's.
- The dedup window of the server is per stream; the models have one subject, so a
  client that used one Idempotency-Key for two subjects is outside them.
- `watchfiles`' default filter (which ignores some names) and an overflow of inotify
  are outside CreateWatch: what is created is reported to the watch.
- `SettledMeansSteady` says what the watch has seen. A writer that pauses for
  longer than the stable reads is announced half-way, and nothing in the code could
  tell.
- `CloseEndsHeartbeats` says that `close()` ends every heartbeat. That a second
  `subscribe()` of a durable starts a second heartbeat task is modelled
  (`HeartbeatStarts`) and not flagged: both write the same entry.
- MySQL keeps the whole binlog; an event is encrypted for the last process that
  registered.
- In FileCommands `watch_dir` is flat, a command's content has one byte, and a
  file is known by its creator, its last writer and its size; `mkdir` of parents
  is left out. The path a write marks is the path the watch sees. What a read
  returns is not kept.
- In HttpEdge a listener serves one request at a time, and the RequestCompleted
  of the HTTP adapter is counted and not delivered to anyone. What the target of
  a POST does with it is left out.
- Not modelled: crypto, creds, envelope layout, settings and provisioning scripts,
  which have no state or step of their own (what they promise or set is in the
  constants and the external actions); `/healthz` and `lookup_recipients`, which
  change nothing; the `tools/` scripts and the examples.

## 6. Plan

Done: ServiceDirectory, EventBus, RestApi, IdentityDirectory, DbAdapter,
FileCommands, CreateWatch, AtLeastOnce, HttpEdge and ClientTasks, with their runs;
the proofs of section 4, which cover the invariants and refinements of all of
them. To come, all of it proofs:

1. What a step may never do, as action properties proved from the invariants at
   hand: a settled event stays settled, the stream and the binlog only grow, an
   answered request keeps its answer, an answer that was sent stays sent.
2. That the writes of DbAdapter and FileCommands see their durable as AtLeastOnce
   describes it (a refinement of each, with its own mapping).
