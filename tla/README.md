# GreenLab verification

TLA+ models of the GreenLab services, model-checked with TLC, and theorems about
them checked with TLAPS. Paths are relative to the repository.

## 1. Inventory

GreenLab is an IoT platform: devices send readings over HTTP, services pass them
on through Kafka, and users see them live, query them and are alerted. It has
seven Go services, two SDKs, a React frontend and an nginx gateway. Postgres,
Redis, Kafka and InfluxDB hold all state except what is marked *memory* below.

| Part | State | Operations | What is hard about it |
| --- | --- | --- | --- |
| **device-registry** `services/device-registry` | Postgres `devices`, `channels`, `fields`; Redis `device_version:{id}`; an InfluxDB bucket per channel | devices (create, edit, rotate key, delete), channels, fields, provisioning in one transaction, internal API-key lookup | a row and a version counter in two stores; whole-row writes of an image read earlier; counter expiry |
| **ingestion** `services/ingestion` | Redis API-key cache (10 min), rate windows, schema acknowledgements, replay list; *memory*: the Kafka writer's batches | `/data` in five formats, `/data/bulk`, `/replay`, ThingSpeak `/update` | a cache filled from another service; positional formats against a table that changes; batches taken in part |
| **normalization** `services/normalization` | Kafka offsets; InfluxDB points | raw message to point and to `normalized.sensor` | the offset is committed before the work |
| **alert-notification** `services/alert-notification` | Postgres `rules`, `notifications`, `webhook_delivery_logs`; *memory*: rule snapshot, last firings, dispatch goroutines | rule editing, rule reload, evaluation of readings, notifications and their dispatch, read marks | commit after the work; cooldowns in memory; several replicas; goroutines that die with the process |
| **query-realtime** `services/query-realtime` | *memory*: hub, subscriptions, connection goroutines; Redis query cache | WebSocket, SSE, history queries | slow and vanishing clients; closing Go channels others send on |
| **iam** `services/iam` | Postgres `users`, `refresh_tokens`, organisations, workspaces, keys; Redis | sign-up, login, refresh, logout, passwords, profile, tenancy | one-time use of a refresh token; whole-row writes of the user; sign-up in several statements; checks before inserts against cascades |
| **supporting** `services/supporting` | Postgres `audit_events`, `video_streams`; S3 recordings | audit consumer, video rows, upload and download URLs | an event whose record fails is committed; a row, a URL and an object without a transaction |
| **SDKs** `sdk/go`, `sdk/python` | table of fields, pending readings | set a field, send | encoding by position; retry after 409 |
| **shared, frontend, nginx** | rate windows in Redis | middleware, pages, routing | the rate limit is not atomic and fails open |

How they interact. A device's call goes to ingestion, which asks its cache and, on
a miss, device-registry for the device and field table of (API key, channel). It
publishes to `raw.sensor.ingest`. Normalization writes InfluxDB and publishes
`normalized.sensor`, which the rule engine and the realtime hub consume. The rule
engine publishes `alert.events`, which the notification side of the same service
consumes. Services publish audit events for supporting. Calls between services are
HTTP; everything else is shared stores and Kafka topics, delivered at least once,
keyed by channel, one consumer group a service.

What makes each part correct, in a sentence: a revoked credential stops working,
and no reading is attributed to the wrong device (device-registry, ingestion); an
accepted reading is on the topic, under the right names (ingestion, SDK); no
message is lost except as reported, and what is announced can be read
(normalization); rules that are off do not fire, firing rules keep their cooldown,
no alert is lost unreported (alert-notification); no goroutine panics, leaks or
stalls the others (query-realtime); one live refresh token a session, nothing
that was revoked comes back, no row outlives what it belongs to and no half account is
announced (iam); every event is in the audit log or its record failed, and a stream
leads to its recording (supporting); data is not dropped sooner than somebody asked
for (device-registry, channels).

The hazards, each with its line and the properties that watch over it, are in
`PROJECT.json`.

## 2. Modules

| Module | Models | Extends |
| --- | --- | --- |
| `CredentialGate` | abstract: what the ingestion side promises about credentials | |
| `DeviceAuth` | registry rows, version counter, API-key cache, lookups | `CredentialGate` (instance) |
| `MCDeviceAuth` | initial keys and owners of DeviceAuth for TLC | `DeviceAuth` |
| `DeviceAuthProofs` | theorems about DeviceAuth | `DeviceAuth`, `TLAPS` |
| `CompactWire`, `MCCompactWire` | field tables and the formats on the wire | |
| `Ingestion` | publication, retries and the replay list | |
| `Normalization` | raw readings to InfluxDB and to `normalized.sensor` | |
| `NormalizationProofs` | theorems about Normalization | `Normalization`, `TLAPS` |
| `RuleEngine` | rules, reloads, evaluation, cooldowns | |
| `AlertDelivery` | alert events to notifications, dispatch, read marks | |
| `Feed` | abstract: what the realtime hub promises its clients | |
| `RealtimeHub` | hub, subscriptions, WebSocket and SSE handlers | `Feed` (instance) |
| `Relay` | abstract: what the rotation of refresh tokens promises | |
| `Sessions`, `MCSessions` | refresh tokens and the user row | `Relay` (instance) |
| `CompactWireProofs`, `AlertDeliveryProofs`, `RuleEngineProofs`, `SessionsProofs`, `RealtimeHubProofs` | theorems about the module each is named after | that module, `TLAPS` |
| `Workspaces` | organisations, workspaces, members, API keys | |
| `Signup` | `SelfSignup` and `Register`, statement by statement | |
| `AuditLog` | the audit consumer | |
| `Accounts` | `Signup` and `AuditLog` with `user.events` between them | both (instances) |
| `Channels` | channels and the retention of their buckets | |
| `VideoStreams` | stream rows, upload URLs, recordings | |
| `MCServices` | one run for `Workspaces`, `Accounts`, `Channels`, `VideoStreams`, `Ingestion` | these (instances) |
| `ServicesProofs` | theorems about these five | `MCServices`, `TLAPS` |

Conventions. An action is a step between two accesses to shared state; a handler
that makes several accesses is several actions, and what it holds between them is
in a per-handler variable (`adm`, `req`, `call`, `calls`, `requests`, `edits`, `streamCalls`, `task`, `hand`,
`job`).
Variables marked *history* change no behaviour. `None` stands for nil, no row or
an idle handler. Operators marked *Mutant* are plausible faults that no
specification uses: each property is violated when its mutant takes the place of
the action named in `PROJECT.json`.

### DeviceAuth

`row` and `owner` are `devices` and `channels.device_id`, `version` is
`device_version:{id}`, `cache` the entries of `APIKeyCache` by credential (API key
and channel). Administration: `RotateAPIKey`, `UpdateDevice`, `DeleteDevice`,
`Provision` read; `WriteUpdate`, `WriteDelete`, `WriteProvision`, `WriteFails` are
the statement or transaction; `IncrDeviceVersion` and `LoseIncr` the bump that
follows a rotation or deletion and may be lost, with the process or by a Redis
error. A request is `Validate` (GET the entry), `CacheHit` or `CacheStale` (GET the
version), `LookupGranted` or `LookupRefused` (the registry's query),
`SetReadVersion` and `SetWrite`. `ExpireEntry` is the ten-minute and
`ExpireVersion` the 24-hour expiry.

The code does not promise that a stale entry is never served; the model says
exactly when it is (`StaleOnlyIfExcused`): a bump is still to come; the entry was
filled by a lookup older than the bump its version was read after (the window the
comment in `apikey_cache.go:96-99` accepts); or the device's revocation was one
that never bumps or whose bump was lost (blocking, relinking a channel, a lost
INCR, an expired counter), which `lapses` records.

### CompactWire

`row` is `fields`, `cached` the table in the API-key cache (editing fields bumps no
version, so it may be any earlier table), `layout` the table the device was built
with, `uplink` the device call of the last step. A value is modelled by the field
it was measured for, so a point shows whose value it is. The handlers are
`SendJSON`, `SendFrame` (`ingestCompact` for the compact forms, the binary frame
and the Go SDK) and `SendThingSpeak`; `DenseFrame`, `MaskFrame`, `BareFrame` and
`SdkFrame` are the encoders, `Decode`, `DecodeThingSpeak` and `DecodeJSON` the
decoders. A device call is one step: its frame meeting an older or newer table is
covered by the tables being any of the past. The branch of a version mismatch is
left out because the registry reports version 1 always (0 for ThingSpeak).

### Ingestion

A call publishes its batch; `Take` and `GiveUp` are the broker and the writer, so
that a part of a batch may arrive although, or after, its publication has failed.
`Retry`, `AttemptsExhausted` and `Push` are `IngestReplay`. `Crash` ends the
process, its calls and what its writer holds.

### Normalization

`FetchMessage`, `CommitMessage` or `CommitFails` are `ReadMessage` (which commits
before it returns), `WritePoint`, `WriteFails`, `PublishReading`, `PublishFails` are
`Process`. `lost` records what the loop logs and gives up, and what a crash takes
from a replica's hands. `stored` is the point of each series and timestamp, by the
message it was last written from. A replica that has lost the partition finishes
what it has in hand.

### RuleEngine

`db` are the rules, `adm` an edit between its read and its write. Each replica has
a `snapshot`, a reload in progress (`loaded`), `lastFired` and the reading in hand
(`task`). `ReserveSlot` is the check of the cooldown and its reservation under one
lock, `PublishAlert` and `PublishFails` come after it and never give the slot back.
The four conditions of a rule are one comparison with its threshold.

### AlertDelivery

`FetchMessage`, the save, and the commit of `AlertConsumer.Start`, with
their failures; `skipped` are the messages left uncommitted. `job` is the dispatch
goroutine of a notification. `UpdateNotification` writes the columns it owns;
`MarkRead` the others. A save may be taken by Postgres and reported as failed
(`SavedUnseen`), by the consumer (`SaveFails`) or by the API (`SendFails`): such a row
has no dispatch and stays pending, which `abandoned` records. `Restart` empties the hands and the jobs and resumes from the
committed offset.

### RealtimeHub

`Subscription.Send` and `connSend` are bounded buffers, their closing is state, and
a send on a closed one sets `panicked`. Broadcast takes its snapshot under the lock
and writes to each target afterwards. The handler's cleanup, the forwarders and the
write pump are separate processes, so every order in which they end occurs.

`Feed` says the same to a client without any of it: a message is published at one
instant to those who follow its channel, may be lost for each of them at any time, and
what is not lost is delivered oldest first. The refinement mapping takes a registration
in the hub for a follower, the snapshot of Broadcast for the publication, and for what
is owed to a follower everything on its way: among the consumer's targets, in
`Send`, with the forwarder, in `connSend`.

### Sessions

One user. `Refresh` takes the token and revokes it in one statement
(`GetAndRevokeRefreshToken`), `LoadUser` and `IssueTokenPair` follow. The operations
on the row read it (`ForgotPassword`, `ResetPassword`, `ChangePassword`, `UpdateMe`,
`VerifyEmail`), write all of it (`UpdateUser`) and, for a password, revoke all tokens
(`RevokeAllForUser`). Any statement may fail.

`Relay` says what the rotation comes to without rows, handlers' steps or expiry: a session
is a baton, held by one token or by one call, and a token that was issued once never holds
it again. The refinement mapping takes the live tokens of a family (`TokenOf`) and the calls
between `GetAndRevokeRefreshToken` and `issueTokenPair` (`CallOf`) as its holders. A
revocation in `Relay` ends what is with tokens and not what is with calls, as in the code:
a refresh that is between its statements survives `RevokeAllForUser`.

### Workspaces

A table is a function from ids to rows or `None`; ids are given out once (`used`). At the
start the organisations of the users exist, with slugs in any assignment. A
request that reads before it writes (`CreateOrg`, `CreateWorkspace`, `UpdateWorkspace`,
`CreateWorkspaceAPIKey`) leaves in `calls` what it will write, and `InsertOrg`,
`InsertWorkspace`, `WriteWorkspace`, `SaveKey` are the second statement, which meets
the unique indexes and foreign keys of `iam/migrations`. `Delete` is the cascade.
`orgKeys` is `api_keys`, which has no foreign key, so `RowsHaveParents` does not
speak of it. Columns that are neither a key nor unique are left out, and with them
`UpdateOrg`, which writes no others.

### Signup, AuditLog and Accounts

A request of `Signup` goes from statement to statement (`After`), and may fail or
meet `DeleteOrg` before each. The lookup of the address stops the call only when it
finds a user. `Publish` may lose the event, and reports nothing to the caller.
`AuditLog` reads the topic: `Fetch`, `Record` (whose failure is logged in `lost`),
`Commit` (whose failure is logged), `Restart`. `Accounts` puts both side by side with
the other events of the topic, `OtherEvent`.

### Channels

`channels` is the row, `buckets` the period of the InfluxDB bucket `channel-<id>`.
`CreateChannel` and `UpdateChannel` are followed by the statement (`WriteRow`),
`FindBucket`, and a POST or a PATCH according to what was found. An edit that names
no period sends 0, for ever, because `GetByID` does not read one. `told` collects
what calls have asked for: the last call's period when it was alone.

### VideoStreams

`streams` is the row with its storage key, `objects` the bucket, `urls` the upload URLs
that are good. Each call reads the row (`Begin`) and later writes all of it
(`WriteStatus`, `WriteKey`), or removes object (`DeleteObject`) and row (`DeleteRow`).
`excused` names the streams for which row and object may differ: a new key overtook
a call that held the row, a call failed after a part of its work, or the client's PUT
came after a deletion.

### MCServices

The five parts (`Workspaces`, `Accounts`, `Channels`, `VideoStreams` and `Ingestion`) share no
state and no property speaks of two of them. A behaviour chooses one (`moving`) and leaves
the others at their initial states, so that the run's states are the sum and not the
product of theirs.

## 3. Runs

| Run | Instance | Shows |
| --- | --- | --- |
| `device_auth` | 2 devices (one yet to be provisioned), 1 channel, 2 keys, 1 request, 2 administrators | stale entries only for the named reasons; no misattribution; a bump outdates; deletion is final; the gate is implemented; revocation takes effect |
| `wire` | 3 fields, 2 positions, 2 names, times 0 and 1 | decoded as meant; misfiled only where a position was reused; published whole |
| `wire_sdk` (violation) | 2 fields | the Go SDK's values land under other names |
| `ingestion_queue` (violation) | 1 call, 2 readings, 3 attempts | 202 although nothing was saved |
| `normalization` | 2 replicas, 2 points, 3 messages, 2 moves | every message accounted for; stored before announced; order without a rebalance; no stall |
| `rule_engine` | 2 replicas, 1 rule, 1 administrator, 1 reading, 1 move | committed means evaluated; the cooldown holds; a rule that stays off leaves; every reading evaluated |
| `alert_delivery` | 2 events, 2 notifications, 2 restarts | committed means notified or skipped; once a life; read marks stay; no stall; no row pending without a reported error or a restart |
| `alert_delivery_retry` (violation) | 2 events | a skipped alert is not retried |
| `sessions` | 2 handlers, 3 tokens, 3 hashes, 1 reset token | one live token a session; the dead stay dead; `Sessions` implements `Relay`; the replaced stay replaced |
| `hub` | 1 WebSocket, 1 SSE connection, 1 channel, 2 subscriptions, 3 broadcasts, buffers 2 and 1 | no panic; at most once and in order; nothing left behind; consumer and handlers go on |
| `hub_feed` | the same with 2 channels | `RealtimeHub` implements `Feed`: addressed to the subscribers at the snapshot, lost or delivered in order |
| `services` | 2 organisations, 2 workspaces, 1 key of each kind, 1 user, 2 handlers; 2 account requests with 2 addresses, 1 other event, 1 restart; 1 channel, periods 1, 7, 90 and for ever; 1 stream, 2 recordings; 1 device call with 2 readings and 3 attempts | no orphan rows; no half account; committed means audited; announced accounts are audited; no shorter period than asked; the row leads to the recording; 201 means published |

Why these bounds are enough. Each is the smallest at which the hazards of its
module occur: two administrators race on one row while one request is anywhere in
its fill; the second key is a rotation, the second device a provisioning onto the
channel of the first; three broadcasts overflow a buffer of two; three tokens are a
login and two competing refreshes; one reading is evaluated twice when the
partition comes back to the replica that has it, which `Rebalance` to the same
replica gives; three raw messages contain two of one point with another between;
three fields on two positions contain a reused one. For `services`: two handlers are a
check and what comes between it and its insert; two workspaces and two slugs make a slug
taken by another; two account requests with one address compete for it, and a
garbled event stands before or between them; two handlers on one channel find no bucket
both and POST twice; two recordings are a key that replaces another;
two readings are a batch taken in part, three attempts one whose parts arrive from several. Counters are bounded by
`MaxMoves`, `MaxRestarts`, `MaxBroadcasts`, `MaxRecords`, `MaxReadings`, `MaxTime`,
`MaxEvents`, `MaxOthers`, by the finite sets of keys, tokens and hashes, and by fields that are
created once each. Symmetry is used in `sessions` and `wire` only, which check no
liveness. Deadlock is allowed only where the bounds stop the environment
(`CHECK_DEADLOCK FALSE`).

## 4. Fairness

- `DeviceAuth`: handlers go on (`AdminStep`, `RequestStep`: every store call ends
  with a result, an error or a timeout) and entries expire (`ExpireEntry`, the TTL of
  `apikey_cache.go:15`). Nobody is obliged to call, bump or revoke.
- `AlertDelivery`: the consumer loop and the dispatch goroutines
  (`ConsumerStep`, `Dispatch`). Restarts and new events are free.
- `RuleEngine`: the refresh ticker and the consumer loop of each replica.
- `Normalization`: the loop of each replica.
- `Sessions`: a handler that has started goes on.
- `RealtimeHub`: the consumer, the forwarders, cleanup, the write pump (every write
  has a ten-second deadline), and the read pump once the write pump has ended (its
  deadline is 60 seconds and only pongs extend it). No fairness on clients or on the
  writes of an SSE handler, which has no deadline.
- `Accounts`: the audit consumer's loop (`Consume`); no request has to be made or to end.
- `Ingestion`, `CompactWire`, `Workspaces`, `Channels` and `VideoStreams` state no
  liveness and assume none.

## 5. What is proved

`DeviceAuthProofs` proves, for every finite or infinite set of devices, channels,
keys, administrators and requests, under `ConstantsAssumption` (`None` is no
value of the other sets; each device that exists has a key of its own):

- `TypeCorrect`: `TypeOK`, which is inductive and says what a handler holds at each
  of its steps.
- `StaleEntriesExcused`: `StaleOnlyIfExcused`. The property is not inductive: it
  speaks of entries that are fresh and refused *now*. `IInv` adds `Lifecycle` (a
  device is absent until its one provisioning commits, and no other operation finds
  it absent) and `HeldBound` (each entry, cached or in hand, is bound to the
  device's counter: its version is no later than the counter, and a difference
  between what the database accepts and the entry's generation is explained by a
  pending bump, an older lookup or a lapse). `BoundStep` shows that a step keeps the
  bound of an entry that stays, `NewEntryBound` that it holds of one that is made.
- `BumpOutdates`: the action property `BumpInvalidates`, from the same invariant.
- `DeletedStays`: `DeletedForGood`, from `Lifecycle`.
- `NothingMisattributed`: `NeverMisattributed`, from `TypeOK` and that rows and
  entries are issued to whom they name (`IssuedRows`, `IssuedEntries`).
- `GateRefined`: DeviceAuth implements `CredentialGate`; every step maps to a
  registry change, a grant learnt while valid, a grant forgotten, or a stutter.

`NormalizationProofs` proves, for any replicas and points and any bounds on records
and moves, under `BoundsAssumption` and `NoneAssumption` (`None` is neither a point nor
a message in hand), every invariant of `Normalization`:

- `TypeCorrect`: `TypeOK`, inductive; it includes that what reaches the write decoded.
- `CommitsAreAccounted`: `CommittedIsAccounted`. Not inductive: after a rebalance the
  former holder may still commit, past what the new one has done. `AccountedInv` adds
  that everything up to any message in hand, and everything the reader handed out, is
  accounted for. `WorkIsCarried` shows that each step of a loop but the fetch keeps,
  publishes or gives up the message in hand; the rest is about sets (`CarriedIsAccounted`).
- `PublicationsAreStored` and `PublicationsAreInOrder`: `NormalizedIsStored` and
  `NormalizedInOrder`, from `OrderInv`. Its first half, `StoredInv`, holds always: what
  was published, or is at its publication, has a point (`OnlyWritten`, `OnlyPublished`,
  `StoreKeeps`). Its second, `AloneInv`, holds until a rebalance: only the holder has a
  message in hand, that message is the last one fetched, above the committed offset
  until its commit and above everything published after it, and each point is as late
  as the readings published for it. `NotRebalanced` says which steps leave `rebalanced`
  false; `AloneWork`, `AloneRestart` and `AlonePublish` that they keep `AloneInv`.

`CompactWireProofs` proves, for any fields (finitely many or not), names, number of positions
and times, under `BoundsAssumption` and `NoneAssumption`, every invariant of `CompactWire`:

- `TypeCorrect`: `TypeOK`, which says that no table of fields has two entries for a
  position or for a field.
- `DevicesAreUnderstood`, `MisfilingNeedsReuse` and `CallsArePublishedWhole`:
  `DecodedAsMeant`, `MisfiledOnlyIfReused` and `PublishedWhole`. The argument has three
  parts. Each encoder makes a frame in which every measured field has exactly one place
  (`Whole`), at the field's index in the device's table (`Placed`) and with the time of the
  format (`Timed`): `MaskFrameIsWhole`, `PlainFrameIsWhole`, `DenseFrameIsWhole`, and for the
  SDK, whose slots move together, `SdkFrameIsWhole`, which has only the first and rests on
  `Ranks`: counting the members up to each one numbers a finite set from 1.
  Each decoder, given any table at all, yields points that go where the index leads
  (`Traced`), mean what the device meant if the tables agree (`AgreedFrame`), and are as many
  as the fields (`AsManyPoints`): `FrameOutcome`, `JSONOutcome` and `ThingSpeakOutcome`. The
  tables may be of any age, so `WireInv` adds that each entry of one, the device's, the
  cached one's or those of the last call, is still told by its field's row (`Held`), which
  keeps its position when it is renamed or deleted.

`AlertDeliveryProofs`, `RuleEngineProofs` and `SessionsProofs` prove `TypeCorrect`,
`Spec => []TypeOK`, for any notifications, rules, replicas, readings, handlers, tokens
and bounds. For the first two `TypeOK` is not inductive as it stands: `TypeInv` adds
that a dispatch belongs to a row that exists (AlertDelivery), and what a replica holds at
each step of an evaluation (RuleEngine).

`AlertDeliveryProofs` goes on to its safety properties:

- `ReadMarksStay`: `ReadStaysRead`, since no step removes a row, changes where it came from
  or takes its read mark (`RowsStay`).
- `CommittedAlertsAreNotified`: `CommittedIsNotified`. The commit of a message covers all
  before it, so `HandledInv` speaks of everything fetched: it is notified, skipped, garbled
  or in hand for its save, and what is in hand for a save is above the committed offset.
- `EventsNotifiedOnce`: `OncePerRun`. `OnceInv` adds that the message in hand is the last
  one fetched, and that a row of this life was made from a message already fetched and not
  from the one still to be saved (`Earlier`); `OneMore` shows that one more row keeps it.

`RuleEngineProofs` goes on to the two safety properties of the engine, from
`ConstantsAssumption` (`None` is no rule, row, snapshot or task):

- `CommittedReadingsAreEvaluated`: `CommittedIsEvaluated`. Not inductive: a replica that
  lost the partition may commit past what its successor has done. `EvaluatedInv` adds that
  everything fetched is evaluated or in the hand of the holder, and that all before a
  reading in anyone's hand is evaluated, so that its commit covers nothing else.
- `CooldownsHold`: `CooldownHolds`. The alerts say nothing of what a replica will do next,
  so `CooldownInv` adds that its map remembers, for every alert of its present life, a
  firing at least as late, and one that is a cooldown later while it fires the same rule
  again (`Remembered`); `NoneFires` covers the steps that start no firing.

`SessionsProofs` goes on to all four of its safety properties, from `NoneAssumption`
(`None` is no token, hash or reset token):

- `SessionsHaveOneToken`: `OneLiveToken`. `OneTokenInv` adds who may still make a token: a
  call carries a session from the statement that revokes its token to the one that saves
  the next (`Carries`), no two calls carry the same (`OneCarrier`), and no session has
  both a live token and a carrier (`NoneCarriedLive`). `RefreshKeepsOne` is the step from
  the live token to the carrier, `IssueKeepsOne` the one back.
- `SessionsImplementRelay`: `ImplementsRelay`. `OneTokenInv` says that a session has one
  holder (`OneHolder`), so that Refresh is `Take` (`RefreshRelays`) and IssueTokenPair is
  `Hand` or, after a login, `Open` (`IssueRelays`). Every other step either revokes tokens
  (`RevokingRelays`) or moves one call (`EndingRelays`) and never both (`OthersMoveOne`).
- `EndedSessionsStayEnded`: `DeadStaysDead`. A live token comes from a carrier and a carrier
  from a live token, so a session that has neither stays so; the type invariant is enough.
- `ReplacedSecretsStayReplaced`: `ReplacedStaysReplaced`. `RowAndImages`: what a step writes to
  the row comes from the row or from the hand of the call that writes (`FromRow`,
  `FromHand`), or is newly minted.

`RealtimeHubProofs` proves, for any sockets, streams, channels, subscriptions, buffers and
number of broadcasts (buffers hold at least one message; `Nobody` is no connection):

- `TypeCorrect`: `TypeOK`, with `Countable` and `Addressed` added to make it inductive.
- `NothingSentOnClosed` and `HandlersLeaveNothing`: `NoPanic` and `NothingLeftBehind`, from
  `HubInv`. `Shape` says who owns what is registered: the hub holds only subscriptions that
  their connection still has and is not closing. `Ending` says what the order of a
  handler's end leaves: the out channel is closed after all forwarders have ended, and the
  handler returns after its pump has.
- `ArrivalsInOrder`: `InOrder`. A message passes four places, from the buffer through the
  forwarder and the out channel to the wire. `OrderInv` says that what is nearer to the
  client was broadcast earlier (`Chain`), each place is in order (`Sorted`), a message is
  only with the connection it was for (`AtHome`), no connection gets one broadcast by two
  subscriptions (`Once`, which rests on `OnePerChannel`), and what the consumer has still
  to write is later than everything written. `DwindlingKeepsOrder` covers the steps that
  only drop messages, `ChainMoves` and `MoveKeepsOrder` those that pass one on.
- `HubImplementsFeed`: `ImplementsFeed`. `FeedStep` maps each step to one of `Feed` or to
  a stutter, from `OrderInv` and that a fetched record has a channel (`ChannelKnown`):
  Broadcast is `Publish`; Subscribe and OpenStream are `Follow`, whose guard is that of
  `conn.subs` because the hub holds only what a connection still has; Unsubscribe is
  `Unfollow`; a Write or Forward that meets a full buffer and a pump that fails
  are `Lose` of one message, of which there is no second copy (`OneCopy`); a write to the
  wire is `Deliver` of the oldest one owed (`HeadLeaves`, `StreamOwes`); Receive and the end
  of a handler change nothing that is owed.

`ServicesProofs` proves, for any values of the constants of `MCServices` that meet
`ServicesAssumption`, its type invariant and its six others; each component has an invariant of its own
and `ServicesStep` puts them together:

- `TypeCorrect`: `TypeOK` of the five components.
- `NoOrphans`: `RowsHaveParents`. Inserts meet the foreign keys, but the write of an edit
  meets only those of the row it has read, so `IdsOnce` adds that a live row has the
  organisation of every edit at work on it (`EditsAgree`), and that the id of an insert is
  used, not live, and nobody else's (`InsertsFresh`, `SpacesUsed`).
- `AnsweredAccountsAreWhole`: `SignupIsWhole`. `SignupInv` says of each request which rows
  its statements have left if its organisation stands (`RowsBehind`), what hangs on what
  (`TablesHold`), and that an organisation is made once (`TenantsMade`): one that is deleted
  never comes back under an account that lost its rows with it.
- `NothingCommittedUnseen`: `CommittedIsAudited`. `Behind` speaks of everything up to the
  reader's position: it is settled, but for the message in hand, which is not committed.
- `BucketsAsTold`: `RetentionAsTold`. `PeriodsTold` says that each call at work carries a
  period that was told, and so does a bucket that was made after it was not found.
- `RowsLeadToRecordings`: `RecordingFollowsRow`. `StreamsInv` adds that each key belongs to
  one stream (`KeysOwned`), that the key an upload call holds is nowhere else yet
  (`KeysPending`), and that the calls of a stream that is not excused hold the key of its
  last URL (`CallsAgree`).
- `CreatedCallsAreLogged`: `CreatedIsLogged`. The answer 201 is given when nothing of the
  batch is outstanding, and a batch is published in attempts, so `LoggedInv` adds that
  while a call publishes, every reading of its batch is on the topic or still with the
  writer (`OnItsWay`). A copy on the topic stays (`CopiesStay`), one that is taken is
  there (`CopyTaken`), and the rest of what is outstanding is untouched (`RestStays`).

The type invariants of these modules are theorems. The run of `CompactWire` checks its own
as well; the other runs do not.

The assumptions are as weak as the code allows: `None` and `Nobody` stand for nil and are
therefore no value of the other sets, bounds are natural numbers, a user's home is an
organisation, and the default retention is a period other than for ever.

Only model-checked: all liveness properties (fairness and ENABLED are out of the
prover's reach). Every invariant and every action property that a passing run checks is a
theorem, `MCServices`' and `CompactWire`'s included.

## 6. Disagreements between code and documents

Shown by a violation run: the Go SDK's compacted `f` (`wire_sdk`), the replay answered
as queued though nothing was saved (`ingestion_queue`), the skipped alert that is not
retried (`alert_delivery_retry`).

Met while reading, not checked by a run: the SDK sends seconds under `ts` where the
server reads milliseconds under `t`; `GET /v1/channels/:id/schema`, which both SDKs
call, is served by no ingestion route; the schema version is constant, so that the
409 and 410 answers cannot occur, while positions are reused against `TODOS.md:395`;
`UpdateChannel` sets the bucket's retention to 0 when the edit names no period, because
`retention_days` is never read or stored (`channel_service.go:165`, against its own comment
at line 123, "0 means no change", and `TODOS.md:347`), and telemetry is not written to
the per-channel buckets at all; a profile edit that read the user before a change of
password writes the old hash back (`user_repo.go:150`), and so does every operation that
writes the whole row; `docs/api.md:87` and `101` say that sign-up creates a workspace,
which it does not; only `user.registered` carries a tenant, so that every other audit
event is stored under none; organisation API keys outlive their organisation, and no
route looks one up; every upload URL is for a new key and the object of the one before is
never removed; a cooldown does not survive
a restart; a live reading may be overwritten by a replayed one (against
`TODOS.md:297`); the query cache's key omits the limit (`query_service.go:70`).

## 7. Not modelled

History queries and their cache, schema acknowledgements, rate limiting, the Python SDK,
the frontend and the deployment, each with its reason in `PROJECT.json`. In the modelled
parts: `UpdateOrg` (its columns decide nothing), role checks, the webhook delivery log (no path
creates one), the blacklist of access tokens (no request reads it), the two Redis keys
of `DeviceCache` that no route reads, the binary frame's CRC and DEVID, and everything
that is formatting or validation of one request.

## 8. Plan

Done, in this order: `DeviceAuth` with its gate and proofs, `AlertDelivery`,
`RuleEngine`, `Ingestion`, `Normalization`, `Sessions`, `RealtimeHub`, `CompactWire`, the
proofs about `Normalization` and `Ingestion`, `Workspaces`, `Signup` with `AuditLog`,
`Channels`, `VideoStreams`, the type invariants of `AlertDelivery`, `RuleEngine` and
`Sessions` as theorems, the safety properties of `AlertDelivery` and `RuleEngine`, and
those of `Sessions`, `RealtimeHub`, the components behind `MCServices` and `CompactWire`, `Feed`
and its implementation by `RealtimeHub`, `Relay` and its implementation by `Sessions`.
