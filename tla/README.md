# Verification of the cordn coordinator

cordn-rs is a coordinator for MLS group messaging. Clients publish key packages,
invite each other with welcomes and join requests, post opaque messages to
per-group logs and subscribe to them; the server stores everything verbatim and
never decrypts. This directory holds TLA+ models of its stateful parts, the TLC
instances that check them on small instances, and TLAPS proofs of their safety
properties for every instance.

## 1. Inventory

Paths are relative to `src/crates/`.

| Component | Code | State | Operations |
|---|---|---|---|
| Message delivery | `cordn-core/src/coordinator.rs`, group logs in `storage/` | log per group; registry (`group_subscribers`, `subscribers`, `refcounts`, `next_id`); one channel per subscription | post, fetch, subscribe (live tail; merged), recv, unsubscribe / drop |
| Key-package storage | `cordn-core/src/storage/{in_memory,sqlite}.rs` | stored records, in order | publish, list, get, remove, consume |
| Key-package handlers | `cordn-server/src/adapter.rs` | none of their own; requests in progress | publish with quota and eviction, consume, list, remove |
| Mailboxes | `coordinator.rs`, `storage/`, `adapter.rs` | welcomes by target, join requests by group | store, fetch with acknowledgements, cleanup by age |
| Rate limiter | `cordn-core/src/ratelimit.rs` | token bucket per caller | check, eviction of idle buckets |
| Streaming loop | `adapter.rs` 445-497, `methods.rs` | one subscription and its sink | forward, poll, close, drop |
| Durability | `storage/sqlite.rs`, `main.rs` | committed and not yet durable transactions, schema | open and migrate, commit, power loss, restart |
| MLS parsing and admission | `cordn-core/src/mls_parse.rs`, `methods.rs`, `adapter.rs` | none | parse, detect last resort, bind identity |
| Configuration | `config.rs` | the environment | load files, read values |
| Contracts, other tools | `contracts.rs`, `methods.rs` | none | |

**How they interact.** A tool call enters the adapter, passes the rate limiter,
and calls the coordinator, which calls storage. `main.rs` runs tokio's
multi-threaded runtime, so handlers of different requests run in parallel. Each
backend has one mutex; the registry has one; the limiter has one. No code holds
two of them at once, so every handler that makes more than one call can be
interleaved with others between the calls. `storage/mod.rs` says that the contract
"assumes a single-writer execution model, which lets the coordinator perform
read/decide/write flows"; most of what is hard here comes from flows of that kind.

**What is hard.** A post appends and fans out under different mutexes. A merged
subscription registers, reads its backlog and replays it in three critical sections
while posts go on. The quota is decided on a listing that may be stale at the
insert, and evicts before it compares and inserts. Packages are found by references
that clients choose and the server does not verify. Acknowledgements identify records by
millisecond timestamps. The limiter's clock is read before its mutex is taken. The
cleanup task works with a threshold computed earlier. A streaming task is cancelled
wherever it awaits, and its client comes back while it may still be forwarding. A
start can be cut off between two migrations, a post between two statements, and a
commit need not survive a power loss. `PROJECT.json` lists these
hazards at their lines, with the properties aimed at them.

**What makes each part correct.** *Delivery*: a subscription gets the log from its
cursors on, once, in order, backlog first, nothing after it closed; the registry
knows exactly the open subscriptions. *Key packages*: nothing is stored beyond
the limits, a regular package is handed out once, a last-resort package stays available
while others are displaced for it, a refused request displaces nothing, a removal takes
only one's own packages; both backends behave alike. *Mailboxes*: nothing is retired that
its reader did not see unless it is too old; what was acknowledged stays gone; queues
are bounded; what is too old goes. *Limiter*: never more than burst plus refill,
never less than was earned. *Streams*: a client that resumes from its last cursor reads
every message once, and a client that is gone costs nothing. *Durability*: a cursor
once given means the same message for as long as the operator asked for. *Admission*:
exactly well-formed packages, and only one's own.

## 2. Modules

### GroupDelivery

State: `log`, the registry's four fields under their own names, the two mutexes
(`storage_lock`, `registry_lock`), and per subscription the progress of its call
(`pc`, `entry`, `records`), its request, its channel (everything ever sent, `taken`
of it received). `snapshot` is a history variable: the log lengths when the backlog was
read.

| Action | Code |
|---|---|
| `PostAppend`, `PostPublish` | `post_group_message`: append; then `publish_live` |
| `SubscribeLiveTail` | `subscribe_group_messages` |
| `SubscribeMany` | `subscribe_many_group_messages` up to `register_many` |
| `FetchEntry`, `FetchFails`, `UnregisterFailed` | the backlog read, one request item per step under the storage mutex; its failure; the unregistration |
| `LockForReplay`, `EmitNext`, `FinishBuffering`, `ReturnHandle` | replay and flush under the registry mutex |
| `Recv`, `RecvNone`, `Unsubscribe` | the handle |

`MergedStream` is the abstract specification: per group a growing log, per stream a
position in it, and a delivery that hands open streams the next record of a group. The
refinement mapping takes the channel for the stream, and a failing call for a stream
that was opened and closed (`ImplementsMergedStream`).

The fan-out is one step: it runs under the registry mutex and touches nothing else.
An append that fails changes nothing and is left out. Sqlite's cursor counter
(`group_routing`) and memory's `next_cursor` are the length of the log, as nothing is
ever deleted from it. Messages carry no timestamp; no property needs it. The
unbounded channels are sequences.

### KeyPackageStore, StorageParity

`KeyPackageStore` defines the operations of both backends on one value, the stored
records in the order of `list_all_key_packages`. The memory backend's `IndexMap` of
vectors is the concatenation of its vectors; sqlite's table is the rows by id. What
differs is kept apart: where a record is inserted, sqlite's UNIQUE reference, and
consuming by first-regular-else-last or by the `ORDER BY` of
`KP_CONSUME_BY_IDENTITY_SQL`. A found record is deleted by its place; sqlite's DELETE
names it by its reference, which comes to the same because no two rows share one
(`ReferencesUnique`). The list of an identity's records is given by its places, the k-th
being the one with k - 1 before it. `StorageParity` drives the two with the same operations.

### KeyPackages

The adapter's handlers over `KeyPackageStore`, on either backend (chosen in `Init`). A
publish is a listing (`PublishList`, which fixes verdict and evictions), one step per
eviction, and the insert or its refusal; `StorageFails` ends a request in the middle
on sqlite. A removal is a get and a remove per reference. `consume_key_package` is one
storage operation. What precedes the first storage call changes no state; what it
admits is the constant `MayPublish`, and how it decides is `PublishAdmission`.

Memory starts empty, and sqlite with one of the stores of the constant `Persisted`: what
clients published to the file earlier, under limits that need not be today's.
A *package* is what a publish submits: identity, reference and kind (`Submitted`); a record
is one stored copy of it, numbered at the insert, which tells two copies apart and orders
an identity's records, so that a listing is a set. What a publish is about to evict is
likewise a set, taken oldest first. History: `spent`, the regular packages that were handed
out and not published since; `doubled`, the packages that were published once more while
stored (only memory accepts that); `requests` and `stored` count.

### Mailboxes

Both queues (as sets: the order of the records in a reply is left out, and no
property is about it), the acknowledging fetches, and the cleanup task as a sequence
wake - welcomes - join requests, which `Close` can end where it sleeps. A store is
two steps, since `created_at` is read before the storage mutex is taken. A client
acknowledges any set of records it was given before. The multi-group fetch is modelled
group by group: memory takes its mutex per group, and sqlite's one transaction is the
case in which nothing comes in between. A join request is
stamped only if the adapter finds the named key package and its owner is the caller;
packages may go at any time after that (`PackageGone` stands for what `KeyPackages` does
in detail). A delete of the cleanup task may fail, which the task ignores.

### RateLimiter

The buckets, with the clock reading and the check as separate steps of a thread.
Tokens are integers, `Unit` fractions to a token: the `f64` arithmetic without its
rounding. The disabled limiter is left out.

### SubscriptionStream

Extends `GroupDelivery` with the task of the tool `msg_sub_many`: `OpenStream` is the
request up to the subscribe call, whose steps are those of `GroupDelivery`
(`Subscribe`), then `SinkStart`, and the loop: `LoopRecv` and `LoopWrite` /
`LoopWritten` for a record, `LoopIdle` and `LoopPoll` for the timer, `CloseSink` and
`DropSubscription` at the end. The transport library is external: it flips `active`
(client abort, keepalive), accepts a frame for a client that is not there, and cancels
the task at an await. A client has one stream at a time in its own view; the server may
still be serving the previous one. It resumes from the last cursor it has read per group
(`ResumeFrom`; `ResumesAssumption` says that such requests are among the core's
`Requests`). `received` is what a client has read of each group, over all its streams.

### ServerConfig, DurableLog

`ServerConfig` is `config.rs` as operators: how the process environment, `.env` and
`.env.local` are merged, and how each variable is read, with its default and its errors.
Texts are opaque, except that empty means unset and that `synchronous` ignores case;
multiplications wrap. Which of several errors is reported is left out, and so is
`CORDN_SQLITE_PATH`: every start opens the same file. An operator who names another one, or
`:memory:`, gets another log, and no promise is checked across that.

`DurableLog` runs a server over it: `Configure` and `Start` (`main.rs`), `OpenStep` for
each statement of `init` with its guard (the column `encrypted` of old files is known and
stays, as no statement drops it), a post as `BeginPost`, `InsertMessage`,
`UpsertRouting`, `Commit` and `Reply` (or `PostFails`), and the ways a process ends. The
disk is the image that is synced and the list of images later commits leave; under FULL
a commit syncs, under NORMAL `Checkpoint` does at some time; a power loss keeps a prefix.
That is SQLite's documented behaviour in WAL mode and is marked external. One group is
followed, since groups share no rows. Its cursors start at 1, so the guard against a
counter that is not positive, which only protects a corrupt file, is not modelled. `given` is history: what clients were told, for as
long as the operator's configuration promises it, which `Asked` reads from the sources
independently of `LoadEnvFiles`.

### MlsParse, PublishAdmission

`MlsParse` works on bytes, as the code does: reads with bounds, the two-bit length
prefix, the check of the identity's UTF-8 (all lengths of characters, overlong forms and
surrogates included), and the entries of a list, which is how both the extensions and the
components of a dictionary are read. `PublishAdmission` runs a request through the checks of
`kp_publish`: one step per field of the package, then the binding of caller, event signer
and credential identity. Its inputs are descriptions (extensions, prefix sizes, junk, a
truncation), encoded field by field by a model of the client's encoder (`Fields`, one for
one with `Layout`); the properties compare the outcome with the description. `Describes`
says which descriptions can be encoded (extension types and component ids are 16-bit
numbers, and every length fits its prefix), and TLC checks it of every input. One size of
prefix is used throughout a package.

## 3. Runs

All instances are bounded by `MaxLog`, `MaxSubscribers`, `MaxPublishes`, `MaxStored`,
`MaxStores` or `MaxClock`. A bounded system stops when its bound is reached, so
deadlock is not checked, except in `StorageParity`, where some operation is always
possible. That the running system does not get stuck is what `SubscribeReturns` says.

| Run | Instance | Checks |
|---|---|---|
| `delivery_writers` | 2 groups with one poster each, 2 merged subscriptions of both, one group from its start and one from a cursor, 2 messages per group | `TypeOK`, `RegistryConsistent`, `StreamGapFree`, `DeliversEveryMessage`, `QuietAfterClose`, `ImplementsMergedStream` |
| `delivery_posters` | 2 posters sharing a group, 3 messages per group, requests with a repeated group, live tail | `StreamFaithful`, `StreamOrdered`, `BacklogBeforeLive` |
| `delivery_lost` | 2 posters to one group | `DeliversEveryMessage` is violated |
| `stream` | 1 group, 1 poster, 2 messages, a client with two streams in a row, `FairStreamSpec` | `StreamTypeOK`, `ResumeGapFree`, `SubscribeReturns`, `GoneStreamsEnd`, `EventuallyReceivedByClient` |
| `restart` | 8 configurations, a fresh and a legacy database, 3 posts, 2 crashes or power losses, `FairSpec` | `TypeOK`, `PromisesKept`, `CountersMatchLog`, `ServesCurrentSchema`, `ComesUp` |
| `admission` | all lists of up to 2 of 36 extensions, 3 prefix sizes, every truncation of 11 packages, wrong fields, callers and signers, identities in characters of 1 to 4 bytes and in bytes that are no text | `TypeOK`, `ParsesExactly`, `LastResortExact`, `OwnIdentityOnly` |
| `limiter` | 2 keys, one served by two threads; half a token per tick, burst 1, idle after 3 ticks | `TypeOK`, `WithinRate`, `NothingForfeited` |
| `keypackages` | both backends, 2 identities with a thread each that share a regular reference, limits 2 and 2, an empty sqlite file and two that are over the limits, failures, 5 publishes | `TypeOK`, `HandedOnce`, `QuotaRespected`, `LastResortKept`, `EvictsToMakeRoom` |
| `keypackages_race` | one identity on two threads | `QuotaRespected` is violated |
| `parity` | 2 identities, 4 references, up to 4 records | `SameReplies`, `SameRecords` |
| `mailboxes` | an inbox, a group with 2 requesters and room for 1, a key package each, 2 storing threads, age limit 1, 3 stores, distinct timestamps, `FairSpec` | `TypeOK`, `WelcomeNotLost`, `JoinRequestNotLost`, `AckedStaysGone`, `JoinQueueBounded`, `JoinRequestVouched`, `ExpiredGone` |
| `mailbox_rerequest` | two records may share a millisecond | `JoinRequestNotLost` is violated |

**Why the bounds suffice.** A race between backlog, buffer and fan-out needs one
message before, one during and one after the backlog read: two per group with a second
group for the cross-group order, three where a reordering needs a third. Two
subscriptions are enough for one to disturb the other through the registry or a mutex.
The quota instance has more packages than every limit allows and both kinds of them;
eviction, refusal, refusal after an eviction (of the file with a regular package), retry
and republication after a hand-out all occur. The limit on last-resort packages is 2, since
`LastResortKept` is not to be had at 1; `QuotaRespected` is proved for all. The group has
two requesters and room for one, so that a refresh meets a full queue; that a requester is
in a longer queue only once is proved (`QueueBounded`). The limiter's
clock is long enough for a burst, a denial with a fraction left, and an idle eviction.
Three clock ticks make a record expire while a later one does not, and leave room for a
request, its acknowledgement and a re-request. A stream and its successor are what a
reconnect needs; one group suffices there, as the order across groups is the matter of
`delivery_writers`. The legacy database has every column a migration is about, so that
every statement of `init` runs and can be the last one before a crash; two crashes cut
off a repair as well. Three posts are one before, one lost with and one after a power
loss. `Width`, `DayMs` and `SecondMs` are scaled down, as TLC's integers have 32 bits.
The packages include a length above 255, so that both bytes of a prefix count, and every
prefix size.

**Conditions in the properties.** `DeliversEveryMessage` and `StreamGapFree` are
checked with one poster per group, the single writer that `storage/mod.rs` assumes;
`ImplementsMergedStream` and `ResumeGapFree` are also stated for one poster per group.
`WithinRate` holds as long as clock readings are applied in order and an idle bucket would be
full again (`IdleBucketsAreFull`, true of the defaults); `WelcomeNotLost` and
`JoinRequestNotLost`, with timestamps that differ. `PromisesKept` gives up what the operator
did not ask for: the memory backend's log at the end of the process, and under NORMAL what
a power loss takes; and it is about one database file.

The key-package conditions:

* `QuotaRespected` and `LastResortKept` are checked with one request at a time per identity
  (`keypackages_race` shows why), and with last-resort references that belong to one identity.
  The latter is an assumption about clients: `kp_ref` comes from the client (`adapter.rs`
  155, 181), and the server does not compare it with the package.
* `QuotaRespected` needs a limit on last-resort packages (section 4). It speaks of what a step
  adds, so it holds on files that are over today's limits too.
* `LastResortKept` does not hold with a limit of 1, which is the default: a publish displaces
  the only last-resort package before it stores the next, and in between, or for good if
  the request is then refused or fails, there is none. With 2 or more, or no limit, one stays
  whatever is refused or fails after an eviction.
* `EvictsToMakeRoom` is about identities within the limits (section 4 says what happens to the
  others). It needs nothing else: it looks at one listing.
* `HandedOnce` needs none of these. It exempts a package that was published again while it
  was stored: memory keeps both copies, so a retried publish makes it available twice. On
  sqlite it exempts nothing.
* `PersistedAssumption` says that a file holds what clients can have published to it, with
  the distinct references that its schema enforces.
* That a removal takes only the caller's packages is not stated: it is false when two
  identities use one reference (section 4), and cannot fail when none do.

The three violation runs show for delivery, quotas and mailboxes that the code does not
itself ensure the condition.

**Fairness.** `StreamFairness` gives weak fairness to a post's fan-out and to the
streaming task: a thread that has started a call goes on with it, and the loop keeps
receiving and polling. The keepalive of a writer whose client is gone runs out
(`main.rs` arms it with 60 s + 60 s). Nobody must post, subscribe, leave or come back,
and no strong fairness is assumed of the mutexes. `Mailboxes!FairSpec` gives weak
fairness to the cleanup task, whose timer fires every interval, and strong fairness to
each delete: one may fail, but not in every round. `DurableLog!FairSpec` has the server
started after a failure and at boot (`scripts/install.sh`: `Restart=on-failure`), not
after an orderly stop, and an opening process go on; the number of crashes is bounded.

## 4. What the runs found

* **Lost message** (`delivery_lost`). Two threads append messages 1 and 2 to a group;
  the second fans out first. A merged subscription emits 2, moves its cursor, and drops
  1 as already seen. It is in the log but not in the stream. `StreamOrdered` still
  holds: order is kept at the price of the message.
* **Quota** (`keypackages_race`). Two requests of one identity decide on one listing and
  are both stored.
* **Re-request** (`mailbox_rerequest`). In the same millisecond, "bumping createdAt"
  does not bump it, and the acknowledgement of the old request retires the new one.
  Two welcomes for one key package in one millisecond are likewise retired together.
* Not a finding, since no document speaks of it: a late clock reading gives a caller
  more tokens than the rate; hence the condition in `WithinRate`.

Seen while modelling, and not the subject of a run:

* "Evict the oldest last-resort entries to make room" (`adapter.rs` 517) runs before the total
  is compared. On a sqlite file written under higher limits, a publish can displace
  last-resort packages and then be refused with `QuotaExceeded`; with two regular packages,
  one last-resort package and limits of 2 and 1, the identity is left with none
  (`keypackages` with these constants and without the condition `Within`).
* A removal checks the owner in one storage call and removes by reference in another. If the
  package is consumed in between and another identity publishes under that reference, the
  other's package is removed; on memory, an eviction by reference can find another
  identity's record. It takes two clients that use one reference, which clients that name
  packages by their hash do not.
* With the last-resort limit off (0), `min(max_last_resort.saturating_sub(1))`
  (`adapter.rs` 531) counts no existing last-resort package, and the total limit is
  exceeded one request at a time: `QuotaRespected` fails in `keypackages` with
  `MaxLastResort = 0`.
* `list_all_key_packages` of the memory backend lists by identity, not by insertion as
  its header comment (`in_memory.rs` 4) says. The backends also differ on publishing a
  reference that is stored: memory keeps both records, sqlite refuses; `parity` is
  stated for references that are not reused while stored. So a publish that is retried
  after its answer was lost makes a regular package available twice on memory, the default
  backend: no document says that a republish is recognised, hence the exemption in
  `HandedOnce` and no finding.
* `adapter.rs` 37 says that `main.rs` leaves the keepalive windows at 30 s / 20 s;
  `main.rs` 45 sets 60 s / 60 s.
* `sqlite.rs` 45 says that under NORMAL a power loss can lose "the last committed
  transaction"; it can be every commit since the last checkpoint.
* An empty variable in the process environment keeps the files from setting it and then
  reads as unset: the default applies, not the file.

## 5. Proofs

Eight modules `*Proofs`, one for each specification, prove, for every value of the constants that satisfies the named
`ASSUME`s of the modules, what the runs check on one instance. `PROJECT.json` lists the
theorems; the argument of each module is this.

**GroupDeliveryProofs** (`DeliveryInv`). `RegistryConsistent`, `StreamFaithful`,
`StreamOrdered`, `QuietAfterClose`, for any number of posters to any group. That a record
about to be sent is newer than all sent before is known from the subscriber's cursors, so
`CursorInv` says that these bound what was sent and never fall below the requested ones.
That a sent record is in the log needs that it was so while it waited in a poster, a
backlog vector or a buffer (`InFlightInv`), and that logs only grow (`LogGrows`). That an
emitting call still has a subscriber is `RegistryConsistent`; that a fresh id is unused is
`CallsInv`.

In its second part (`BacklogInv`): `BacklogBeforeLive`, still for any posters. The
invariant says which critical section a call is in (`LocksInv`) and where the part of the
snapshot beyond the subscriber's cursors is: in the backlog vector until it is replayed.
So when the buffer is flushed the cursors have reached the snapshot, and all that is sent
from there on lies beyond it.

In its third part (`WriterInv`): `StreamGapFree`, `DeliversEveryMessage` and the
refinement of `MergedStream`. `Announced` is how far a group's log was fanned out: all of
it, or all but the message its poster holds. Every announced message beyond the cursors of
a call is in its backlog, its buffer or the vector being flushed, and a live subscription's
cursors have reached what was announced; so a record that passes the cursor check is the
next one, and the cursor counts what was sent. Hypotheses: `OneWriterPerGroup` (two posters
lose a message, `delivery_lost`) and `GroupsNamedOnce` (a group named twice is replayed from
two cursors; with the higher one first, what lies between them is skipped as already
seen). The refinement also wants `LiveTailGroups = {}`: a live tail starts at no cursor
and is not a merged stream.

**SubscriptionStreamProofs** (`StreamingInv`). `StreamTypeOK`, `ResumeGapFree`, and
`StreamSpec => Spec`: the tool uses the coordinator as `GroupDelivery` says it is used, so
the theorems above hold under it. `ResumeInv` relates a client and the stream it reads:
what the client has of a group is the requested cursor or that of a forwarded record, and
includes all records forwarded (`FollowsIn`). By `CountAt` of the core the record about to
be written is then the next one the client lacks (`NextDue`), and by `OneReader` no other
task gives the client anything. The induction is over the invariants of the core and
`ResumeInv` together, since each needs the other: the core's steps are only those of
requests that `ResumeInv` bounds. Hypotheses as above.

**RateLimiterProofs** (`RateInv`). `WithinRate` and `NothingForfeited`, for every burst,
rate and time to live. `BudgetInv` is an account: what was allowed since any moment, plus
what is left in the bucket, was in the bucket at that moment or refilled since. Eviction of
an idle bucket keeps the account only if the bucket would be full again
(`IdleBucketsAreFull`); that, and readings applied in order, are the conditions inside
`WithinRate`. `NothingForfeited` needs neither.

**MailboxesProofs** (`MailInv`, `StampInv`). `AckedStaysGone`, `JoinQueueBounded`,
`JoinRequestVouched` for any clock; `WelcomeNotLost` and `JoinRequestNotLost` under
`SameMillisecond = FALSE`, where a timestamp identifies a record because no stamped record,
stored or on its way, shares one. `mailbox_rerequest` shows that the hypothesis is needed.
That the cleanup's threshold is old by the time it is used makes it too low, never too
high (`CleanInv`).

**DurableLogProofs** (`LogInv`). `PromisesKept`, `CountersMatchLog`,
`ServesCurrentSchema`, and that opening is never refused, for every configuration and every
database that satisfies `DurableAssumption`: one that some release wrote, with its counter
equal to its log. The invariant speaks of every image that a power loss can leave, of the
transaction in progress against the last commit, of the statements of `init` that are no
longer needed after the ones that have run, and of the promises image by image.
`TextsAssumption` says only that a text parsed as a number is one.

**KeyPackagesProofs** (`HandInv`, `OwnerInv`, `QuotaInv`). For any requests, shared references
included: `HandedOnce`. Records have numbers of their own (`Numbered`), on sqlite references are
unique (`UniqueRefs`), and two copies of a package were published while stored (`TwiceInv`); so
a hand-out of a package that is not `doubled` takes its only copy.

Also for any requests: `EvictsToMakeRoom`. Its core is `ListingFair`, which says what
`enforce_key_package_quota` gets from a listing: the oldest last-resort packages to displace,
room for the new one behind them, and none to displace if the count refuses a listing within
the limits.

Under `OnePackagePerRef` and `OneThreadPerIdentity`, for every `Persisted`: `QuotaRespected` and
`LastResortKept`, which are about steps. Between listing and insert only
consumers and the request itself touch the identity's packages, and a consumer takes only a
regular one out of the store. So (`QuotaInv`) what a request
has in hand are still the oldest last-resort packages of its identity, the rest leaves room for
the new one, and under a limit other than 1 the newest is not in hand (`NewestSpared`).
`QuotaHolds` also supposes `MaxLastResort > 0`; `LastResortStays` supposes `MaxLastResort # 1`
and nothing of the file at the start. `LimitsHold` supposes `PersistedWithin` and then says of
every state what `QuotaHolds` says of steps: nobody is over a limit. The hypotheses are the
conditions of section 3.

**StorageParityProofs** (`ParityInv`). `SameReplies` and `SameRecords` under
`ReuseRefs = FALSE` (memory keeps two records of a reference that is published twice, sqlite
refuses the second). The invariant `Alike`: references are unique in each store, every
record of one is in the other, and one identity's records are in the same order in both.
That memory's first-regular-else-last and sqlite's `ORDER BY` pick the same record holds
because each picks the first in the order of the query (`SearchIsBest`, `QueryIsBest`), and
that order is decided by what `Alike` fixes. A removal or an insertion leaves a gap at
different places of the two stores; `AlikeShrinks` and `AlikeGrows` say that this does not
matter, the latter because a new record comes after its identity's others. Equal lists
follow by counting what is earlier (`EquallyEarly`).

**PublishAdmissionProofs** (`AdmissionInv`). All four properties, for packages with any
number of extensions and components, of any type, id, data and length that the encoding can
hold, truncated at any byte or followed by any bytes. The invariant puts the cursor where the encoder put the next field
(`Offset(Fields(p), field)`) and says what the fields passed so far must have been. Below it
are the facts that the reader undoes the encoder: for one field (`ReadVar`), for a list of
entries (`EntriesRead`), for a dictionary and for all extensions (`DetectRead`); and that a
truncated package agrees with the whole one as far as it goes (`SentAgrees`), so that the
field in which it ends cannot be read, wherever the cut is. `ReadVarInside` holds for bytes
that nobody encoded. The recursive functions of the reader, and the one in the library's
`FlattenSeq`, are reasoned about as any functions that satisfy their equation; that one
exists, and what it returns, are inductions over a set of numbers (`AllNumbers`).
`InputsAssumption` says that the inputs are what the encoder can produce: bytes, 16-bit types
and ids, lengths that fit their prefixes (64, 16384 and 2^30), prefixes of one size in a
package, and not both cut and extended, since such a package may happen to be a well-formed
one again.

**Model-checked only.** The liveness properties `SubscribeReturns`, `GoneStreamsEnd`,
`EventuallyReceivedByClient`, `ExpiredGone` and `ComesUp`: fairness and ENABLED are outside
the prover. Every safety property that a passing run checks is also proved.

## 6. Not modelled

Wire contracts and the tools that only pass their arguments on: schema declarations and
serialization, without state. The announcement, banner and logging of the start-up, and
the indexes of the schema. The transport SDK, SQLite and the base64 decoder: external,
modelled as far as the code relies on them. `CORDN_SQLITE_PATH` (one file is assumed). Benchmarks, examples and scripts. Byte
contents of welcomes and messages: stored and returned verbatim. Floating-point rounding.

## 7. Plan

1. *Done*: all modules of section 2 with their runs; the proofs of section 5, which leave
   no safety property of a passing run unproved.
2. Parity of the mailboxes and logs of the two backends, as `StorageParity` does for key
   packages.
