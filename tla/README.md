# A verification model of plyrs

plyrs is a multi-tenant content platform on Cloudflare Workers. Each tenant is one
Durable Object (`apps/api/src/tenant-do.ts`, "the object") with a SQLite database of its
own. Administrators edit records through a sync protocol; what they publish is copied
through a queue into a shared D1 database, from which the public reads. This directory
holds TLA+ models of the parts of it where steps of several actors interleave, TLC
configurations that check them on small instances, and proofs of their main safety
properties for every instance.

Paths below are relative to the repository; `api/` stands for `apps/api/src/` and
`client/` for `packages/sync-client/src/`.

## 1. Inventory

| component | state | operations | what is hard |
|---|---|---|---|
| **Publication and outbox** (`api/do/publish.ts`, `do/outbox.ts`, `do/delete-record.ts`, `tenant-do.ts`) | `records`, `published_snapshots`, `outbox`, `do_config.publish_seq`, the counter in memory, `alarm_registry`, the physical alarm | publish (with its referenced assets), unpublish, delete, restore; drain; sweep alarm; constructor | a commit and its message are two steps; awaits let requests in; eviction; rolled-back transactions; purged rows |
| **Projection** (`api/projection/`, `index.ts`) | `PROJECTION_QUEUE`, `projected_records`, relations, index, tombstones | consume upsert / delete | at-least-once, unordered; payload fetched before it is written; several consumers |
| **Rebuild** (`consumer.ts`, `startReprojection`) | chain messages with a cursor and an epoch; `projected_at` | page, next page, sweep | concurrent rebuilds; two clocks; ordinary traffic meanwhile |
| **Dead letters** (`api/ops/dead-letters.ts`, `routes/super.ts`) | `dead_letters` | park, replay, discard | replay of old jobs |
| **Sync client** (`client/engine.ts`, `outbox.ts`, `store.ts`, `storage.ts`) | socket, generation, checkpoint, store, outbox, in-flight set, storage | start, stop, push, message and close handlers, retries, token refresh | stale continuations, lost acks, resets, reload |
| **Alarm registry** (`api/do/alarms.ts`, `tenant-do.ts` `alarm()`) | `alarm_registry`, the physical alarm | register, clear, `alarm()` over the due kinds, constructor | one physical alarm for all kinds; `alarm()` waits in between; early and repeated firing |
| **Booking** (`api/modules/booking/`) | reservations and slots (records), the module's timer | write, delete, restore, edit a slot, disable, expire | capacity on every path; an expiry racing a confirmation; a timer forgotten |
| **Sync server** (`api/sync/`, `tenant-do.ts`) | `records.seq`, sockets | hello, push, broadcast | bootstrap mixed with changes; late pushes |
| **Records and their history** (`api/do/write-record.ts`, `do/history.ts`, `do/restore-record.ts`, `do/delete-record.ts`, `ops/write.ts`) | `records`, `record_history` | write, publish, delete, restore, read a version | folding, reverse differences and pruning of versions under later ones |
| **Conflict resolution** (`packages/sync-protocol/src/resolve.ts`) | `field_versions` | merge or refuse | writes based on what has changed since |
| **Confirmations** (`api/mcp/confirm.ts`, `mcp/server.ts`) | a signed token held by the client | ask, answer | read in two calls, answered late or twice |
| **Lookup columns and unique check** (`api/do/index-ddl.ts`, `do/unique-check.ts`) | generated columns, a flag, `lookupReady` | register and drop types, add a missing column, check a write | columns added one per alarm step while types and records change |
| **Content types** (`api/do/content-types.ts`) | `content_types` | register, change, delete | columns and records of before |
| **Search index** (`api/do/search.ts`) | `records_fts`, a cursor | index a write, a step of the rebuild, start a rebuild | rebuild next to writes and deletions |
| **Module events** (`api/modules/events.ts`) | `module_events`, `MODULES_QUEUE` | emit, drain, sweep, call back into the object | as the outbox; the module is disabled meanwhile |
| **Assets** (`api/assets/store.ts`, `do/asset-uploads.ts`, `mcp/uploads.ts`, `routes/tenant.ts`, `routes/super.ts`) | files in R2, records of type asset, `asset_upload_tokens` | issue and claim a token, store, delete, restore, list and remove orphans | file and record are two systems; calls fail or throw half-way; a removal decides on what it read before |
| **Access and its end** (`api/auth/`, `middleware/`, `routes/tenant-settings.ts`, `do` sockets) | memberships, signed tokens, sockets, personal tokens, two blocks in KV | sign, connect, remove, ban, revoke | tokens already given out, a KV that lags, procedures that stop half-way |
| **Tenant deletion** (`api/ops/tenant-delete.ts`) | the stores above | cascade | stops half-way |
| Public routes, MCP dispatch, admin UI, rich text, OAuth | | | not protocols: see section 8 |

How they interact: a request commits to the object and arms its alarm in one transaction,
then drains the outbox into the queue; the consumer calls back into the object for the
payload and writes D1; the alarm re-sends what a drain left. Sync sockets end in the
object as well: a push commits, then answers its sender and broadcasts to the others; all
other write paths broadcast to all.

## 2. Modules

| module | models | composed of |
|---|---|---|
| `ProjectionJobs` | the messages, which are the outbox rows too | |
| `PublishOutbox` | the object's publication side | `ProjectionJobs` |
| `ProjectionStore` | D1 tables and the statement batches on them | `ProjectionJobs` |
| `PublicMirror` | abstract: what readers are promised | |
| `ProjectionPipeline` | object, queue, consumers, dead letters together | `PublishOutbox`, `ProjectionStore`; implements `PublicMirror` |
| `Reprojection` | rebuilds, with time | `ProjectionStore` |
| `SyncSession` | one client engine against the object | |
| `AlarmRegistry` | timers of several kinds on one physical alarm | |
| `Booking` | reservations, their capacity and expiry | `AlarmRegistry` |
| `RecordHistory` | what a write does to a record's versions; reading one | |
| `RecordWrites` | one record, those who write it, confirmations | `RecordHistory` |
| `RecordIndexes` | columns, unique check, content types, full-text index | |
| `ModuleEvents` | events from the write to the module's record | |
| `AssetFiles` | an asset's file and record, upload tokens, removal of orphans | |
| `TenantAccess` | one person in one tenant, removal, ban, deletion | |
| `*_proofs` (eight) | theorems | each extends the module it is about; `ProjectionPipeline_proofs` is about `PublishOutbox` too, `FollowUps_proofs` about `AssetFiles` and `ModuleEvents` |
| `MC*` | instances for TLC | |

### PublishOutbox

State: `live` is `records.deleted_at IS NULL`; `snapshot[r]` the `publish_seq` of the row
of `published_snapshots`, 0 for none; `publishSeq` the counter in memory, `storedSeq` the
one in `do_config`; `unsent` and `sent` the outbox rows by their `sent` column;
`registered` the `outbox_sweep` row of `alarm_registry`; `physical` the alarm of the platform;
`task` what each handler is doing between awaits. A transaction of the object is one
action (input gates), each await of a queue send is a boundary: `SendRow` and `MarkSent`
are two actions. `Evict` may strike between any two.

`Publish` takes the numbers of the cascaded assets first and its own last; the order
among the assets is a choice. `RollBack` is a transaction that throws after
`nextPublishSeq()`. `Restart` is the constructor: counter and alarm.

### ProjectionPipeline

The queue is a set from which messages are not removed until acknowledged, and an
acknowledgement may be lost; that gives redelivery and every order. `FetchPayload` and
`ProjectUpsert` are two steps, since the object and D1 are two systems. `UpsertBatch` and
`DeleteBatch` of `ProjectionStore` are one D1 `batch()` each, with the guard of each
statement. A row is represented by the number of the publication it shows.

`PublicMirror` says: each record shows the outcome of one of the tenant's operations and
only ever moves to later ones. `ProjectionPipeline` implements it with `at` mapped to
`ShownAt` (the newer of row and tombstone) and `visible` to `rows`.

### ModuleEvents

The second outbox of the object, with the same drain and sweep, followed to its end: the
consumer calls `moduleWrite`, which is refused while the module is disabled, and writes one
notification per reservation, since a second one fails the unique check. `Commit` is what
every write does after its transaction: it arms the sweep if any event is unsent, whoever
emitted it. Events of publications have no subscriber and are left out. How long the sweep
waits and how it shares the alarm is in `AlarmRegistry`.

### Reprojection

A discrete clock; `stamp` is `projected_at`. A consumer takes the time once per batch of
messages, as `queue()` does. The epoch comes from the object's clock, up to `Skew` away.
`Margin` is `SWEEP_SKEW_MARGIN_MS`. Any tables may be there at the start: a rebuild is run
because they are wrong. The object's outbox is left out: a job's delay there is a delay in
the queue. Records are numbered in the order of their ids; these numbers are also those of
the publications there at the start. `known` of a rebuild message and `removed` are history.

### SyncSession

`rows` is the `records` table with tombstones; `up` and `down` the current socket; `stray`
the pushes of closed sockets that may still arrive. `tasks` are the continuations of the
engine after a load, a connection attempt and a token refresh, with the generation they
were started in; the code checks the generation in some of them and not in others, and so
does the model. `Receive` is `handleMessage` and `handle`. The outcome of a pushed change
is a choice among what the record's state allows (`Outcomes`).

The storage is the shipped `MemorySyncStorage`. Its promises are resolved, so the loads of
`start()` run before the next event (`NextEvent`), and what follows `saveCheckpoint` and
`saveOutbox` is part of the step that called them. Nothing outlives the page: `Reload` is a
new page, without the edits that had no answer yet.

`ServerReset` is a replacement of the object's data. The roadmap
(`docs/superpowers/plans/2026-07-12-implementation-roadmap.md:189`) calls a `serverSeq`
below the checkpoint a sign of it and says the server offers no means of detection. The
model therefore keeps the object behind the client's checkpoint until the client has seen
the reset, resets only when the client has something to lose (a checkpoint and a live
record), and lets nobody remove a record in between. Without the last restriction TLC
finds that a removal, broadcast before the welcome, can empty the store of live records;
the next `start()` then sets the checkpoint to 0, no reset is seen, and the tombstones of
before the reset hide records with lower numbers. (`Bounded` keeps the object behind,
`Removable` the records in place.) The hiding needs record ids that are the same
before and after the reset, so we state it as an assumption and not as a finding.

### AlarmRegistry and Booking

`due` is the table `alarm_registry`, `physical` the platform's alarm, both `Never` where
there is none. `alarm()` takes the time (`now`) and the due kinds (`todo`) once and handles
them in order; `Handle` is one of the object's own kinds, whose row goes and comes back if
work is left. `alarm()` waits only inside the two sweeps. The model says so with `Yielded`:
a request, an eviction or the passing of time may come between its steps only while the
next kind is a sweep. (What comes after a sweep's last send, up to the next sweep's first,
is without an await.) `PublishOutbox` has one kind and the sends in detail; here a sweep is
its timer and its waiting.

The platform may fire `Early` before the time asked for, by the object's clock; this is
what `effectiveNow` is there for. An alarm cut off by an eviction comes again at once, or
not at all once its retries are used up.

`row` and `live` are the records of type `booking.reservation`; `touched` is `updated_at`,
kept only of holds, that is pending reservations. A slot is its capacity. A deleted slot
is refused as a full one is, so 0 stands for both. `Write` covers the write paths of
owners, the public endpoint and the sync protocol, which share `writeRecordCore` and its
hook; that it may leave state and slot as they are stands for an edit of other fields.
`Restore` may put back any state and slot: edits may have put any into the history.
Disabling the module takes the hook away and, when it next goes off, its timer.

### RecordHistory and RecordWrites

`hist` is `record_history` of one record: a function from a version's number to its row.
`Recorded` is `recordHistory` (fold into the newest or append, make the version that leaves
the newest `FullVersions` a difference, prune); `Load` is `loadVersion`. `RecordWrites` has
every operation as one transaction: writes of people (mode merge) and agents (mode strict)
with the field versions they read before, deletion, restoration, publication and its
removal, and the confirmation of these two. A confirmation is read in two calls (`AskRecord`,
`AskHistory`), and its answer may come late or twice. A rich text is one value, since its
block-wise patches are resolved before `writeRecordCore`; a relation is a value that a
deletion empties.

### RecordIndexes

A type's definition says of each field `none`, `plain`, `unique`, `indexed` or `both`; a
column is its name and the field it reads. `Column` joins the keys as the code does, so that
different fields may get one name. `IndexInit` is an object of before these features: only
indexed fields have columns, the full-text index is empty. `Wake` is the constructor,
`AddLookupColumnStep` and `ReindexStep` are the two steps of the alarm. A change of a type may give a
field a column of another type (`retyped`): the old one is dropped and a new one added. What
the column's type does to a comparison is left out. An entry of the
full-text index is the data it was made of. `NextRowSeq` is the counter `++this.seq`; it
equals the greatest number there is, as every new number is committed with a record in the
same transaction.

### AssetFiles

`files` are the keys in R2, `assetRecord` the records of type asset, `tokenState` the rows of
`asset_upload_tokens` (a row that has expired or been used is `closed`). Every request that
stores a file does so under a new id, so an upload and its asset are one thing; `uploadAt` is
where its request is. `storeAsset` is three steps: `PutFile`, `CreateAssetRecord`,
`RemoveRefusedFile`. A call that throws may or may not have taken effect, and the request
ends there; so may a removal in R2. The list of orphans, page by page, writes nothing and binds nobody, so it
is not a step: `LookAgain` and `RemoveOrphans` are the removals, of any keys, checked against the
records of then. Any number of them may be under way (`cleaning`), and a call to R2 may fail in part.
Only the administrator's route removes the file of a record it deletes; the sync protocol and
agents leave it to the operators. `exposed` is history: the assets the property excepts.

### TenantAccess

Persons share nothing but the rule that an owner stays, so one is followed and the other
owners are counted. Times count down by ticks. `asked` counts the requests that have passed
their check and not yet run their statement. A removal, ban or deletion is the steps of the
code (`cut`), which may stop after any of them. The deletion's read of the members and the
deletion of their rows are one step. A ban closes sockets only in the tenants where it finds a
membership (`CutTenants`); a socket that a broken-off removal has left open stays until its token
ends. A request for a token is two steps, the read of the role (`Ask`, past the
gate's look at the ban) and the look at the block with the signature (`SignToken`): a role may
change and a removal may run to its end in between. The variables marked "history" record what has
happened, for the properties only.

## 3. Runs

| run | bounds | states | what it shows |
|---|---|---|---|
| `publish_outbox` | a post and its asset, 2 requests, 3 numbers, drains of 1 row; next to it 2 reservations, 2 events | 1.4 million | no committed job is lost or stranded, no number reused, snapshots = latest jobs, no deleted record published; every event leads to its notification |
| `pipeline` | 1 record, 2 numbers, 2 consumers, 1 dead letter | 86 thousand | implements `PublicMirror`; what lags has a job; derived rows match; every publication and removal is shown unless overtaken or parked |
| `reprojection` | 2 records, 2 consumers, pages of 1, batches of 1 tick, skew 1, margin 3, clock to 4 | 1.5 million | sweeps take no current row, removals are final, rebuilds restore all |
| `reprojection_slow_batch` | batch of 2 ticks, margin 1 | violation | finding, section 6 |
| `sync_safety` | 2 records, 1 edit, pages of 1, 3 numbers, 3 starts or stops, 2 lost sockets, a reset, reloads of the page | 2.3 million | checkpoint is honest, also after a reset; on a quiet connection the store is the table and no edit waits |
| `sync_live` | 1 record, a write and a removal as edits, 1 lost socket | 0.1 million | edits are answered, the store catches up, nothing sent twice on a socket |
| `sync_stale_status` | 3 starts or stops | violation | finding |
| `booking` | 2 reservations of 1 slot, a sweep, clock to 3, alarm one tick early | 0.17 million | alarm covers every timer; no slot overfilled; no hold expires early; a hold with a timer expires |
| `booking_untimed` | 1 reservation | violation | finding |
| `access` | 2 roles, 1 other owner, 2 requests, token of 2 ticks, block of 3, KV lag of 1 | 1.9 million | authority is recent, a cut-off is complete, old personal tokens stay dead, an owner remains |
| `records` | one record of 3 fields, a person and an agent, 4 writes, 5 versions in three slices; 2 records of 2 types with 1 field, 4 numbers in a fourth; 2 uploads, 1 token in a fifth | 0.62 million | superseded versions never change, publications stay, nothing unseen is overwritten, what is published was shown; lookups find their column, no duplicates, complete index; a live asset has its file, a token makes one asset |
| `index_collision` | types `blog` and `blog_post` | violation | finding |

Why the bounds are enough. Three numbers are a publication, a removal and a publication
again, the shortest history in which an old job can undo a new one; two requests and one
alarm are all the kinds of handler that race; drains of one row make every drain leave
rows behind. Two numbers suffice for the
pipeline with its liveness, whose safety is proved for any number. One record suffices there since batches never touch two records;
the cascade needs the two of `publish_outbox`. Two pages and an empty last one occur with
two records and pages of one. In the sync runs three numbers allow a change before, during
and after a bootstrap, and two lost sockets a late push of an earlier one. For booking a full slot of one place
is what a cancelled or restored reservation runs into; slots, capacity and the time to expire
are proved for any value. The clock allows a hold to be written, prolonged and judged at
three different times.

A version is written, superseded, made a difference and pruned within five versions when two
are kept whole and three at all. The slices of `records` (stale reads, confirmations, ageing
versions, indexes, assets) start apart and never mix, since their product is out of reach; with its last version reached, a
slice of writes only goes on with reads and time. What
the first three share is proved without the slices. Two uploads are what a token used twice takes. In `access` the token outlives the lag and the block outlives the
token, the order `BlockTtl >= TokenTtl` that the code's constants have.

Deadlock is checked in `access`, where time always passes. Elsewhere counters are bounded, so
each model comes to rest.

Each property was also checked against a mistaken variant of an operation (the
definitions commented "Mistake:"): with that variant in the place of the operation TLC
finds the property violated. The variants are used by no specification here.

## 4. Fairness

* `SweepFairness`: a request to an evicted object starts it again; the platform fires an
  alarm that is set and runs it again after an eviction; a send does not fail forever.
  Strong fairness, since evictions disable these steps again and again. Nothing is assumed
  of requests: their own drain may always be cut off.
* `ConsumerFairness`: a message that stays in the queue is delivered again, and the
  object and D1 do not fail forever. A message may still be parked after its retries;
  `EventuallyShown` therefore excuses states with dead letters.
* `SyncSession`: an open socket carries what is sent, the object answers, and a
  continuation that is due runs (the delays are finite, a connection attempt times out
  after 10 seconds). Nothing is assumed of the success of connections: the properties
  excuse an engine that keeps being without one.
* `Booking`: time passes, an evicted object is called again, an alarm that is set fires,
  a sweep's sends come to an end, and a handler does not throw every time (strong
  fairness, since evictions and exceptions disable these steps again and again). Nothing
  is assumed of requests.

## 5. Proofs

All theorems hold for any sets of records, assets, requests and consumers and any bounds.
Assumptions: the named ASSUMEs of the modules, finiteness of the sets of records and
numbers as integers.

`ProjectionPipeline_proofs`, first about `PublishOutbox` alone:

* `TypeCorrect` - types of the object's state.
* `ObjectInvariant` - `ObjectInv`: the counters bound every number in use (`SeqInv`), each
  outbox row was issued (`RowsIssued`), the snapshots are the latest jobs, unsent rows
  have an alarm. None is inductive alone: that the snapshot is the *latest* job after a
  publication needs that the new number exceeds all issued ones, which after a restart
  needs that `do_config` bounds them.
* `SnapshotsMatchJobs`, `RowsAreSwept`, `NumbersNeverReused`, `NoCommittedJobLost` follow.
* `PipelineInvariant` adds that messages, payloads in hand and tables stem from issued
  jobs, that a payload is not older than its job, and that a row excludes an equal or newer tombstone.
  `NothingFallsBehind`, `DerivedRowsConsistent` and `MirrorImplemented` follow; the last is
  the refinement of `PublicMirror`, step by step.

`Booking_proofs`, whose first part is about the registry alone:

* `TypeCorrect`, `TimersCovered`: that the alarm covers every timer is inductive together
  with the types, since every path that makes a timer earlier sets the alarm again.
* `OnlyStaleHoldsExpire` needs the other direction: the alarm does not fire much too early
  for the earliest timer either (`AlarmOnTime`), for `effectiveNow` takes that timer's time
  for the present. After an eviction the alarm may come again at once; that a timer is due
  then holds because `alarm()` waits only in a kind whose row is still there, and because
  it handles no kind twice (`HandlersOnTime`).
* `CapacityRespected`: any write changes one reservation, and what the hook counts are the
  others. Finite sets of reservations and kinds are assumed (`BookingAssumption`,
  `KindsAssumption`).

`TenantAccess_proofs`: one lemma per step and property. `AuthorityStaysRecent` rests on
`since + ttl <= TokenTtl` for every token and socket; `CutOffIsComplete` on the block
outlasting the token signed before and a token still to be signed of a role read before, which
is signed within the tick of that read; `OwnersRemain` on the statement
that checks and changes in one.

`Reprojection_proofs`, for any number of consumers, records, pages and rebuilds at once:

* `NumbersAndTimes`: nothing shown, removed or in hand is ahead of the snapshot, a tombstone
  is behind it, what was removed is not in hand; no batch is older than `MaxBatch`.
* `PagesHold`: every record is behind the rebuild's cursor and as it should be (`Rebuilt`), in
  hand, or still to come (`Passing`). That no page leaves a gap and that the last one is
  the last needs `Page` and `NextCursor` to be understood, by the least record left out
  (`LastPage`). `CurrentRowsSurvive` and `RebuildsRestore` follow.
* `RemovalsAreFinal`: a removal is remembered by its tombstone, by a newer row, or by nothing
  before it being in hand (`NotForgotten`); a sweep that takes the newer row comes when what
  was in hand before that row is gone (`OldPayload`).

The last three take a premise on the margin: it covers the skew and one batch, for
`RemovalsAreFinal` two. Nothing in the code bounds a batch: the premises are what operations
have to keep (section 6).

`RecordWrites_proofs` says first what `Recorded` does to a *sound* history. No induction over
rows is needed: a field of an old version is read in the first row that holds it, and each step leaves
that row, or the next one with the same value, in place. Soundness says that above every
difference stands a whole row that is not the newest, so that folding the newest never changes
what an older version reads as.

Then `RecordInv` adds to the types and soundness that the newest version is
the record, that a client whose field version is the record's holds its value (`BaseOK`, but
for relations emptied by a deletion), and what an unspent confirmation was asked for
(`AskOK`). `LatestStaysCurrent`, `SupersededStayFixed`, `PublicationsStay`, `SeenBefore` and
`ConfirmedShown` follow.

`RecordIndexes_proofs`: `ColumnsInv` says that what must have a column has its own, that no
column is left over, and that memory knows no more than the flag; `ColumnsAlwaysServe` and
`NoDuplicates` follow, both under `NamesDistinct`: no two fields share a column name. That
assumption fails for the keys of `index_collision`. `SearchBecomesComplete` holds without it;
it needs that a live record's type is there and its number positive (`LiveRows`).

`FollowUps_proofs`, for the two things outside the object that follow a record:

* `AssetsInvariant`: a file is there from the time it is put, through the creation of the
  record and ever after, unless the asset is exposed (`FileKept`); whatever is about to be
  removed is exposed (`RemovalsExposed`) or belongs to a refused upload, which never gets a
  record (`EarlyHasNoRecord`); a claimed token is closed (`ClaimsClosed`). `AssetsStaySound`
  follows.
* `EventsInvariant`: every event whose reservation has no notification has a witness, which is
  an unsent row that is not just being marked, a message, or a parked one (`OwedHasWitness`);
  and while there are unsent rows a sweep comes (`RowsAreFetched`). `NotificationsArrive` follows.

`SyncSession_proofs`. Its first part says what the operators on sequences do: `Picked` and
`Without` keep what they should, each once; `Batches` carries every edit, and in one batch;
`Pages` has every record after the checkpoint; and a push takes no record back, its acks and
news carry nothing newer than what it leaves, and that itself (`PushResult`). A finite set of
records, no more than there are numbers, is assumed (`RecordAssumption`). Then:

* `TypeCorrect`: types, with at most one continuation per generation and none of a later one
  (`TasksOK`), and an outbox without repetition that holds just the pending edits (`OutboxOK`).
* `SentOnce`: an edit is on one socket's way at most once, and only while it is in flight
  (`FlightInv`).
* `HonestCheckpoint` and `SettledWhenQuiet`, by one invariant. `RoundInv`: on a socket is at
  most one hello or its welcome, and pages come after their welcome; only those asked for
  before a reset may be ahead of it, and they are dropped. `NewsInv`: nothing on the way is
  newer than the object's row. `ForgottenInv`: of a reset that the client does not know, the
  object is behind the checkpoint, a live record is in the store, and on an open socket the
  hello or the welcome that will tell is on its way. `HonestInv`: the store is never ahead of
  the table and knows all up to the saved checkpoint; whatever a last page that counts promises
  is in the store or arrives by then (`Reached`); and what an open socket lacks is on its way
  once the hello is answered. `ComingInv`: what is in flight is on its way, as a push or its
  ack. `SentInv`: once the last page that counts is received, the outbox is in flight. With
  nothing on the way, the last three leave nothing open.

Only model-checked: liveness (`EventuallyShown`, `EveryEditAnswered`, `CatchesUp`,
`TimedHoldsExpire`), since TLAPS has no fairness reasoning within reach here.

## 6. Findings

1. **A slow batch can sweep a published row** (`reprojection_slow_batch`). `queue()` takes
   the time once per batch (`api/index.ts:116`), and the `>=` guard lets a redelivered
   write of the same publication put `projected_at` back. If the batch ran longer than the
   margin of 60 s, a rebuild's sweep deletes the row although it is published. The comment
   at `api/projection/consumer.ts:225` excludes it. With batches shorter than the margin
   minus the skew the property holds (`reprojection`, `CurrentRowsSurvive`).
2. **A live connection shown as closed** (`sync_stale_status`). `setOffline()` at
   `client/engine.ts:267` and `:290` runs without a check of the generation.
3. **A hold without a timer** (`booking_untimed`). `beforeWrite` sets the timer for new
   reservations only (`api/modules/booking/module.ts:55`). One set back to pending, by an
   edit or by restoring a deleted one, is never turned to cancelled and keeps its place,
   unless another hold keeps the timer going.
4. **Two fields, one column** (`index_collision`). `generatedColumnName` joins the keys of
   type and field by `_`, which both may contain: field `post_slug` of type `blog` and field
   `slug` of type `blog_post` share `g_blog_post_slug`. The second is looked up in the column
   of the first, so its duplicates are accepted, and dropping either drops the column of both.

Further observations, met while modelling and without a run of their own:

* A sweep can also undo a removal (`api/projection/consumer.ts:27` says that old writes are
  refused with and without a row). An upsert that wins clears the tombstone; if its row is
  then outdated and a sweep takes it, there is neither, and a payload read before the removal
  is inserted. TLC found it with three consumers, six numbers and batches as long as the
  margin; with twice the batch and the skew within the margin it is excluded
  (`RemovalsAreFinal`). It does not last, since the later job is still to come.
* `Outbox.enqueue` (`client/outbox.ts:45`) before `hydrate()` saves over the stored outbox.
  Not reachable with the storage shipped today, which does not outlive the page.
* With a storage that does (`client/storage.ts` announces one), the checkpoint would need more
  than a live record to be trusted (`client/engine.ts:83`). After a reload the store starts
  empty; one broadcast puts a record into it, and if `start()` is called again before the
  bootstrap is complete, the stored checkpoint is trusted and the records before it never come.
* Module types are registered again at wake-up outside a transaction, with errors caught
  (`api/modules/enablement.ts:194`). If a DDL statement fails half-way, the definition stays
  without its columns while the flag says they are there, and registering again changes
  nothing. `Wake` leaves this out.
* A tenant's deletion that fails between the memberships and the blocks reads no members when
  it is run again (`api/ops/tenant-delete.ts:6`): tokens given out live until they end.
  `CutOffHolds` is about deletions that were not broken off.
* The comment at `api/ops/write.ts:301` says that an agent that saw an old record cannot
  silently set the status back. The guard compares field versions, and a change of the status
  alone moves none, so an agent that saw the record before such a change still can.
  `SeenBeforeOverwritten` is about fields.
* A deletion empties relations without moving their versions; that property names the
  exception.
* The newest version shown to a client may be folded over before it asks to restore that
  number; only superseded versions are promised to stay.
* The last step of adding a person lifts a block that a removal has just set
  (`api/routes/tenant-settings.ts:171`); the tokens in question end within 15 minutes. A
  removal whose cut-off fails half-way cannot be repeated: the person is no member any more.
* The removal of orphans looks at the records once more before it removes
  (`api/routes/super.ts:320`, "レース対策", against the race). An upload in progress has a file
  and no record yet, so it can be on the list and pass this look, and its record is then
  created without a file.
* A record of an asset deleted by the administrator's route can be restored
  (`api/do/restore-record.ts:13`), without its file; and the route does not look whether the record is
  back when it removes the file (`api/routes/tenant.ts:357`). `LiveAssetHasFile` excepts both
  through `exposed`.
* A changed definition leaves the full-text entries of existing records as they were, and
  declaring a field unique does not look at the records there are.

## 7. What is left

1. Liveness of module events and of the two migrations of `RecordIndexes` under the fairness
   of `Booking`.
2. The merge of rich text blocks and relation sets inside `writeRecordCore`.
3. The distribution of changed module types.
4. The sessions behind `/auth/token`; the grants of OAuth clients are kept by a library.

## 8. Not modelled

The catalogue table `projection_fields`, the values inside payloads, the merge inside rich
texts and relation sets, validation (a refused request changes nothing), comparison by column types,
content-type messages of the sync protocol, socket limits, the removal of a tenant's files, the audit log, the expiry
and scopes of personal tokens. The public routes and the MCP dispatch are queries and
translations over state that other components keep; the admin UI, rich text, metamodel and
e-mail packages hold no protocol; OAuth, passwords and TOTP are cryptography and external
services.
