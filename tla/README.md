# TLA+ models of Parvane

Parvane is a federated, self-hosted messenger with end-to-end encryption. Its
core is the Rust backend (`src/backend`): shards that talk over NATS, and a
protocol engine (`src/backend/protocol`) that every client links. The web,
desktop and android clients are hosts around that engine, built into
(vendored) Telegram user interfaces.

This directory models the parts where the program's own logic is concurrent or
order-dependent, checks them with TLC on small instances, and proves the main
safety properties with TLAPS for every size. `PROJECT.json` maps every
definition to the lines it translates, and lists runs, mutants, findings,
hazards and theorems.

## 1. Inventory

### Components, their state and their operations

| Component | State | Operations | Interacts with | Modelled in |
|---|---|---|---|---|
| Inbox journal (`messenger/src/v2.rs`) | `inbox_log` rows, `inbox_device` (next number, acknowledged number, quick counters) | append with quota, sync page, ack, hide, hourly sweep, live publish | senders, gateway (live events), hosts | `Journal`, `InboxServer` |
| Client cursor (`protocol/src/sync.rs`) | `applied`, `done_ahead`, `attempts` | `mark_applied`, `mark_failed`, `mark_gap_until`, `from_disk` | engine | `Cursor`, `CursorCheck` |
| Client engine, inbox part (`protocol/src/client.rs`) | cursor, replay guard, deferred group envelopes | `open_record`, `retry_pending_groups`, `export`, `restore` | host | `InboxSync` |
| Hosts (`controller.ts`, `deferredWrite.ts`, `v2_session.cpp`) | page being opened, outbox, state on disk | synchronise, open live records, apply events, write, acknowledge | engine, shard, user interface | `InboxSync` |
| Group rules (`protocol/src/group.rs`) | `GroupState` | `apply_with`: 20 kinds of changes | shard and clients run the same code | `GroupRules`, `GroupMembership` |
| Group journal (`messenger/src/v2_groups.rs`) | `group_state_log`, `group_members_v2`, `group_links_v2`, `group_envelope_nonce`, cache | `load`, `append`, `deliver_group`, `group.invite.delete`, sweep of nonces | identity (key owners, changes of address), inbox journal | `GroupJournal` |
| Group keys (`client.rs`, `group_rotate_epoch`) | send key of the epoch | new epoch, share | group rules | `GroupMembership` |
| Public groups (`v2_public.rs`) | names, previews, kept envelopes | catalogue, preview | group journal | later |
| History (`v2_history.rs`, `history_sync.cpp`) | rows of encrypted records, checkpoint; per device: rows, cursor, two queues, forced or lost checkpoint | append with quota, page, get, compare-and-swap of the checkpoint; record, pull, flush, compact | all devices of an account | `HistoryServer`, `HistorySync`, `SharedHistory` |
| Device state journal (`v2_state.rs`, `state.rs`, `stateJournal.ts`) | last-writer-wins entries | merge, compaction | devices of an account | later |
| Federation (`shards/federation`, `v2_fed.rs`) | outbox, busy destinations, nonces, pinned peer keys | put, tick, deliver with back-off, give up; accept once, discover | messenger, other servers | `FedOutbox` (the outbox) |
| Identity (`shards/identity`, `identity.rs`) | accounts, signed device logs | register, link, revoke, rename | all shards | later |
| Rename (`v2_rename.rs`) | forwarding of addresses | rename, merge | identity, groups | member rows in `GroupJournal`, the entry in `GroupRules` |
| Sealed delivery (`tokens.rs`) | spent tokens, key sets | issue, spend | inbox | later |
| Gateway | sessions, limits | route, subscribe | everything | its loss of live events only |
| Notes (`rga.rs`), calendar (`lww.rs`) | CRDTs | local edit, merge | devices | later |
| Cloud, domains, push, call, preview | blobs, DNS, tokens | thin services | external systems | no |
| Linking, invites, recovery, ephemeral | short-lived | sequential protocols | identity | no |
| Primitives, codecs; vendored clients | - | - | - | taken as ideal / third party |

### What is hard

* **Records reach a device by three ways** - pages, live events, deferred
  group envelopes - in any order, repeatedly, around restarts; cursor, disk
  and acknowledgement must stay in step although the web host writes on a timer
  and the desktop host hands events on after acknowledging.
* **The shard's statements are not one transaction**: the sweep deletes and
  recounts separately, the group journal is read, checked and written with
  awaits in between by up to 64 tasks that share a cache.
* **A group lives for a long time**: whether a send key is still good, who owns
  the group and which links are dead is decided change by change.
* **Devices compact what they share**: a checkpoint deletes records of all
  devices on the word of one, while the others append, read and compact, and
  while its own worker and its host's thread change the same rows.
* **Letters are read before they are claimed**: rows of the outbox are in a
  task's hands, on the way to another server and in the table at once.
* **Failures**: process death, a disk that is full, a shard that stops between
  spending a nonce and handing out copies, answers that are lost and repeated.

The list of hazards in `PROJECT.json` puts each at its line, with the
properties that would notice.

## 2. Modules and how they correspond to the code

### The inbox

`Journal` holds what journals share: numbers 1, 2, 3, ... and positions.

`Cursor` is `struct Cursor` as a value: `applied` is the part that goes to
disk, `ahead` is `done_ahead`, `attempts` the counts of SYNC-2. The loop of
`settle()` is stated by its result (`SettlesAt`); `CursorProofs` shows that the
result exists and is unique. `CursorCheck` drives the cursor with every order
of calls next to the plain set of done numbers.

`InboxServer` is the journal of one device. Each SQL statement or transaction
is an action. `items` is the history of what was appended (its length is
`next_seq - 1`), `log` the rows that are there, `records` the quick counter.
Time is two marks in the journal, `day` and `ttl`: rows up to them are older
than a day or than 30 days. (The shard rounds `received_at` down to the minute;
rows of neighbouring numbers may share a time, which the marks allow because
they move by any number of rows.) The three statements of `gc()` are three
actions and `GcStops` cuts them off anywhere. `sync_page` reads the position
and then the rows in two selects; since rows are only appended behind or
deleted, the model reads once.

`InboxSync` composes the shard, the engine and one host. `Host` chooses
`"web"` or `"desktop"` (android runs the desktop core). `pc` is the place in
`syncAll`/`syncAllLocked`: `fetch`, `open`, `apply` (web: awaiting `applyEvent`),
`persist`, `ack`. Opening a record is `OpenRecord`: done already; opened (events
to the outbox, and the deferred envelopes it makes readable); put aside for its
keys; failed and counted; or held, when the need of the engine cannot be met.
`Opens` says which of these may happen to a kind of record. `disk` is what
`export` wrote last. `shown`, `shows`, `skipped`, `lost` are history variables:
what reached the user interface, how often, what was given up with a line in
the log, and what a process death took.

### Groups

`GroupRules` is `apply_with` as pure operators, a guard `MayX` and a result `X`
for every change. A role `"none"` stands for an absent member; `muted` is the
set of members whose `muted_until_ms` lies ahead; links have a status
(`gone`, `active`, `revoked`). Names, pictures, the L2 mode and content
permissions are left out because no rule reads them; an entry refused for its
time, its encoding or its signature changes nothing and is left out too.

`GroupMembership` is the life of one group: any user signs any change
(`DoX`), and `MuteEnds` lets time pass. `holders` is who was given the send key
of the current epoch: `group_rotate_epoch` gives it to the writers of the
moment, in a public group it lies open, so `holders` is everybody then. A
RenameMember moves the key with its holder. The proof of the change of address
(a signed entry of the old device log) is external.

`GroupJournal` is the shard side, for one group: tasks (`Handlers`) run `load`
(cache, or rows and then fill the cache), `append` (check, insert in one
transaction with the member table and the link index, put into the cache),
`deliver_group` (check, spend the nonce, a copy per member) and
`group.invite.delete`. Between two awaits a task takes one step. Two writers
work beside the tasks: `NonceSwept` is the line of `gc()` (`v2.rs:452`) that
deletes nonces after 30 days, and `MemberRenamed` is what a change of address
does to `group_members_v2` (`v2_rename.rs:61`) before, or without, an entry that
says so; identity may repeat its notice. `Crash` stops the shard; `CacheCleared`
is the overflow of the cache. The model offers the changes that matter for the
tables and messages (add, ban, rename, epoch, invite, revoke, delete), each with
the guard and effect of `GroupRules`. `group.invite.delete` asks only that the
link is not active in the state the task has loaded, as the code does: the link
may have been announced since. Three history variables let the properties speak
of this: `rowOf` (under which address the row of a member is), `dropped` (links
whose row went on the word of an outdated state) and `forgotten` (how often a
nonce was swept). The filling of an empty index of links from older journals
(`rebuild_link_index`) is left out: the index of the model is never empty for
that reason. Where
`append` asks other services (privacy of a new member, the public name), the
entry may be refused without a reason the model knows. `scene`, chosen once
from `Scenes`, says which changes are signed, which messages are sent and how
many; so one run covers situations that would be too large together.

### The history

`HistoryServer` is the journal of one account in the messenger shard: `recs` is
what was ever appended (its length is `next_seq`), `live` the numbers whose rows
are there, `cp` the row of the checkpoint. `AppendRecord` and
`CommitCheckpoint` are transactions; `history.sync` and `history.head` are
several SELECTs and therefore several steps of the device that asks. A record
carries the operations it seals. An ordinary record has one (the engine may
pack several into one record; they arrive together then, which is less
interleaving), a segment has the state of one message, a summary none (its
last rows of a chat are in segments too).

`HistorySync` composes it with the devices. Each has two threads: the host's,
which calls `record()` (`RecordGet`, `RecordPut`, `RecordQueue`: read the state
of the message, write the merged one, join a queue), and the worker. `netMu_`
allows one network operation at a time, so the worker is a `pc`: `head`, `cp`,
`rows` (the answer of `history.sync`), `summary`, `segments` (a checkpoint is
loaded), `absorb`; `take`, `append` (flush); `due`, `build`, `upload`, `check`,
`recheck`, `commit` (compaction). `ret` says where `pullLocked` returns to, as
several functions call it. `flushNow` and `checkpointNow` are public, so a flush or
a compaction may begin whenever no other operation runs. The state of a
message is the set of operations merged into it: `historyApply` is idempotent
and commutative. A write puts back what was read and the new operation, so it
undoes what the other thread has merged into the same message in between. (The
code writes nothing when the merged state equals the one it read; the model
compares sets of operations, so it may write where an older edit or reaction
changes nothing, which only adds undoings.) `KindOf` tells rows, deletions and
other changes apart, for `historyCompact`: a checkpoint leaves out a message
whose deletion is beyond the horizon of 180 days, and an orphan (no row) of
which everything is (`BeyondHorizon`; until the row comes a deletion is only a
candidate, so it counts as part of the orphan). `Ages` makes an operation older
than the horizon. A device in `blind` may be unable to open a record, for want of
a key: `OpenWaits` leaves the cursor where it is for `kRejectRetries` pulls, then
`Open` merges what opens, and `PageDone` passes the rest; a segment that does not
open is passed over at once. `lost` collects, per device, what it has undone,
passed unopened or left out as too old. `store`, `cursor` and `disk` survive `Crash`; the queues in
memory, `seen` and the worker's locals do not. `Lapse` makes a device one that
was away beyond the horizon: it clears its rows when it loads the next
checkpoint. Compaction may fall due at any time the head is past the
checkpoint: ages, numbers of records and jitter are not modelled.

`SharedHistory` is what the account is given of HIST-1: one past, which takes in
what devices record and which devices learn. Nothing leaves it that a device has
not lost before, and it says how a device may lose something: by a write to the
same message, by a record it could not open, or by age. HIST-1 itself allows
only the last; the first is the finding of `history_overwritten`.
`HistorySync` implements it (`ImplementsShared`) with the shared past read off
the journal: what a device that starts now would be given, by the segments of
the checkpoint and by the records after it. The numbers, rows, pages, queues
and checkpoints all disappear in that mapping; a write of a merged row shows as
`Write`, a record given up or a message left out as `Lose`, an append and a commit
as `Share`: the append adds to the past, and the commit takes away only what the
device that builds checkpoints has lost. That it takes no more is the point. When
both devices compact, a device that has missed records (see `NothingMissed`
below) may commit a checkpoint without them; for that scene the mapping only
takes what was ever written.

### Federation

`FedOutbox` is the outbox of the federation shard and as much of other servers
as answers it. `due` holds the rows with `next_ms` reached, in that order,
`waiting` those put off, `old` those beyond a day. The ticker reads (`Tick`),
then hands every destination's share to a task unless it has one (`HandOut`);
tasks send, wait and delete or put off, row by row. What the ticker read is
a copy, kept in `rows` and then in the `batch` of a task as a set of records,
each with its place in the answer (`Ahead` and `Share` cut off what a task gets,
and a task takes the row of the lowest place). It can be stale, which is the case
the properties are about. A call that times out may still be worked on by the other
server (`late`). `copies` counts how often the other server took a letter in
(it stops at three). Time is abstract: a row put off falls due at any time, a
letter in `MayAge` may grow old at any time, and a batch judges age by the
time of its tick, so `old` is read in `Row`.

## 3. Runs

All numbers are small, and chosen so that the interesting case fits: two
records are enough for a hole and a record behind it, three users for an actor,
a target and a bystander, two tasks for a race, five numbers of a history for
two records, a checkpoint and its segments.

| Run | Instance | Shows |
|---|---|---|
| `cursor` | 4 numbers, 3 attempts | `HoldsAtFirstHole`, `AttemptsMatchFailures` for every order of calls |
| `inbox_web` | 2 records (a sealed one that never opens, a group envelope whose keys come late, a service record), pages of two, 1 death, fair | `CursorPassesOnlyHandled`, `AckBehindDisk`, `NoSilentLoss`, `ShownOncePerLife`, and `CursorCatchesUp`: every record is acknowledged in the end |
| `inbox_desktop` | 2 records, quota 1, TTL, hiding, a sweep cut off anywhere, 1 death, 1 disk fault | the same, and `CounterCoversLog`, `UnackedWithinQuota` of the shard |
| `group_life` | 4 users, limit of 3 members, 2 rights, groups and channels, 2 secrets, 1 link, 2 log versions, 3 entries after the first | `OneOwner`, `RightsComeFromOwner`, `OldKeyRefused`, `BannedStayOut`, `RevokedStaysRevoked`, `MembersWithinLimit`, `MarksNeverFall` |
| `group_races` | 2 tasks; members, epochs, a stop of the shard and a message whose nonce may be swept, handed in twice or amid more entries; or 2 links announced, revoked and forgotten; or a change of address and its entry, and the group deleted | `ChainUnbroken`, `CacheIsCommitted`, `OncePerMember`, `OnlyMembersGet`, `TablesMatchJournal` |
| `history` | 2 devices, a deletion and a row, own or arriving, 5 numbers, quota of 4 rows, pages of one; one compacts and has a fault while the other writes both (or either has one, with one operation), each operation with its message; or it does not open records, or the deletion grows old, both operations on one message; or both compact, with one operation | `NothingCompactedAway`, `CheckpointAlive`, `OwnNeverLost`, `IncomingQueued`, `CompactorCovers`, refinement `ImplementsShared` |
| `fed_outbox` | 1 letter to a live server, 3 to a dead one with a cap of 2, ticks of 2 rows, 1 fault, fair | `AcceptedNotLost`, `AtMostOneRepeat`, `QueueWithinCap`, `EveryLetterLeaves` |

Runs that find a disagreement between the code and what it says of itself
(quoted in `findings`):

| Run | Property | What happens |
|---|---|---|
| `inbox_hole` | `StoredRecordsAreRead` | no host calls `mark_gap_until`, so a row deleted unread hides the rows behind the page of the hole |
| `inbox_web_loss` | `NothingLost` | the timer writes a cursor ahead of the user interface |
| `group_stale_cache` | `CacheNotBehind` | `load` puts an older state back over a newer one |
| `history_missed` | `NothingMissed` | a checkpoint is committed between two SELECTs of `history.sync`: head without checkpoint or rows, and the cursor passes them |
| `history_overwritten` | `DeletedStaysDeleted` | the host writes a message back that it read before the worker merged its deletion; the checkpoint then brings the message back |

The weaker properties that hold say how far the damage goes: the cursor passes
only what the host was given (`CursorPassesOnlyHandled`), so what is lost is
only what stood in an outbox at the moment of death; a stale cache is still a
state the journal had (`CacheIsCommitted`), so it can refuse and delay, but not
fork the journal (`ChainUnbroken`); a device may miss records, but while only
one device compacts, not that one, and the checkpoint still has them
(`CompactorCovers`, `NothingCompactedAway`); that device may lose an operation
itself, but only by a write to the same message, a record it cannot open, or age.

Modelling showed other places where the code gives less than its comments
suggest; the properties are stated so that they hold with these:

* the desktop host acknowledges before `flush()` hands the outbox to the user
  interface (`v2_session.cpp:1319`), and after a write of the state that failed
  (`:948`); `AckBehindDisk` and `NoSilentLoss` are therefore about runs without
  a failed write, and count what stood in the outbox as given to the host;
* a channel member promoted to admin may write, but is given no key and the
  epoch does not become stale (`group.rs:525`): `OldKeyRefused` says that no
  outsider holds the key, not that every writer does;
* a full memory of revoked links keeps the first ones, not the last
  (`group.rs:667`): `RevokedStaysRevoked` stops when the memory is exceeded;
* the nonce of a group message is spent before its copies are written
  (`v2_groups.rs:730`): `OncePerMember` is at most once, not exactly once;
* the server "refuses a repeated envelope_nonce" (`conformance/README.md:820`)
  for 30 days only: `gc` deletes nonces by age (`v2.rs:452`), an envelope carries
  no time, and an epoch may last longer; `OncePerMember` therefore counts how
  often the nonce was swept;
* "an active link is revoked first" (`v2_groups.rs:561`) is checked against the
  loaded state, which may be a cached one behind the journal: a link announced
  meanwhile loses its row, and joining by it finds nothing; `TablesMatchJournal`
  says that this is the only way to miss an active link;
* a change of address rewrites the rows of members without an entry
  (`v2_rename.rs:61`), and the next entry of anybody puts the old address back
  until the group's own RenameMember; `TablesMatchJournal` follows the row by
  `rowOf`;
* a record whose need the host can never meet (`client.rs:2263` returns before
  `mark_failed`) is no failed attempt, so it holds the cursor for ever, although
  SYNC-2 (`sync.rs:6`) gives up after three; `CursorCatchesUp` assumes that the
  host gets what the engine needs;
* in `record()` the row is written before the queue (`history_sync.cpp:654`): a
  process that dies between the two has the operation in its rows and never in
  the journal; `OwnNeverLost` is about calls that have returned;
* incoming operations that are being written are in no queue
  (`history_sync.cpp:1136`); a call of `record()` at that moment saves the queue
  without them, so a death forgets them although the comment at `:569` says it
  does not; `IncomingQueued` is about processes that have not died;
* records that do not open are passed after three pulls (`history_sync.cpp:1067`),
  and a device that has passed them still builds checkpoints, which delete them
  for everybody; `NothingCompactedAway` counts them as lost by that device;
* a full history journal forces a checkpoint (`:1168`), whose own records the
  same quota refuses: nothing is lost, but an account may stay stuck;
* "the same letters are not taken a second time" (`outbound.rs:202`) is not quite
  so: rows are read before the busy mark is looked at, so a letter whose call has
  just been answered can be sent once more, under a nonce of its own; two copies
  arrive, and `AtMostOneRepeat` says not more;
* "a slow server does not delay delivery to others" (`outbound.rs:179`) holds for
  tasks, not for the 256 rows of a tick: more due rows than that for dead servers
  delay the others, which `EveryLetterLeaves` shows to end;
* a failed row is put off and later rows for the same server overtake it.

**Bounds.** `MaxSeq`, `MaxVersion`, `MaxCrashes`, `MaxDiskFaults`, `MaxFaults`,
`MaxLimit`, `MaxLogVersion` cap counters, and so do the fields `entries`,
`requests` and `crashes` of a scene; `Inputs` (of which a scene takes some) and `Letter` say what happens at
all; `TtlHorizon`, `MayHide` and `MayAge` say which rows can vanish unread or be
given up. `SYNC_SCAN` and `MaxPages` are 4096 and 1000 in the code; one or two
suffice for a page that ends early. `MAX_ATTEMPTS` is 3, `MAX_MEMBERS` 1000 (200
by default on a server), `MAX_REVOKED_LINKS` 200, `CACHE_MAX` 20000,
`max_records` 500000, `OUTBOX_MAX_PER_DEST` 20000, `OUTBOX_TICK_ROWS` 256,
`OUTBOX_PER_DEST_TICK` 8, `kRejectRetries` 3: instances use small values, so that the limit is met;
the proofs any.

**Deadlock** is checked for the inbox, whose host can always synchronise again,
and for the outbox, whose ticker always has a dead server's row to read. The
group and history runs say `CHECK_DEADLOCK FALSE`: their entries and records are
bounded, and a deleted group accepts nothing more.

**Symmetry.** Users of a group and tasks of the shard are interchangeable in the
safety runs; the liveness runs use none.

**Fairness** of the inbox (`FairSpec`). Weak fairness of the host's own steps: its
loop does not stop halfway, and it synchronises on every connection. Strong
fairness of `FetchPage` and `Ack`: a request that is made again and again is
answered again and again, although any single one may fail; without that a
server that is never reached would refute everything. No fairness is assumed
of live events, of the timer or of the sweep.

Fairness of the outbox: weak fairness of the ticker (an interval of a second), of
handing out what it read, of every task (tokio runs it, and calls have deadlines)
and of rows put off (their time comes). None of letters growing old, of new
letters or of faults; a server outside `Down` answers what it is asked, but
`CallFails` may let any call fail while faults last.

## 4. Proofs

| Module | Theorems | Assumes |
|---|---|---|
| `CursorProofs` | `settle()` ends at a unique place; the calls keep the shape of the cursor | `MaxSeqAssumption`, `MaxAttemptsAssumption` |
| `CursorCheckProofs` | `CursorTypeCorrect`, `CursorHoldsAtFirstHole`, `CursorCountsFailures` | the same |
| `InboxSyncProofs` | of the shard: `ServerTypeCorrect`, `CounterIsUpperBound`, `QuotaHolds`; of the device: `SyncTypeCorrect`, `CursorIsHonest`, `AckFollowsDisk`, `NoRecordVanishes`, `AppliedOncePerLife` | `ServerAssumption`, `SyncAssumption` and those of the cursor |
| `GroupRulesProofs` | what each change does to a well-formed, sound group | `RulesAssumption` |
| `GroupMembershipProofs` | `GroupTypeCorrect`, `AlwaysOneOwner`, `BannedNeverMembers`, `NoRightsFromNowhere`, `SendKeyOnlyWithWriters`, `GroupWithinLimit`, `RevokedLinksStayRevoked`, `MarksOnlyRise` | `RulesAssumption`, `MembershipAssumption` |
| `GroupJournalProofs` | `JournalInvariant`, `JournalUnbroken`, `CacheCommitted`, `TablesFollowJournal`, `MessageOncePerMember`, `MessageToMembersOnly` | `RulesAssumption`, `JournalAssumption` |
| `HistorySyncProofs` | `HistoryTypeCorrect`, `CheckpointStaysWhole`, `OwnOperationsSurvive`, `ArrivedOperationsQueued`, `CheckpointsKeepAll`, `CompactorPassesNothing`, the refinement `HistoryIsShared` | `HistoryServerAssumption`, `HistorySyncAssumption` |
| `FedOutboxProofs` | `OutboxTypeCorrect`, `OutboxWithinCap`, `NoLetterLost`, `OneRepeatAtMost` | `FedOutboxAssumption` |

They hold for every value of the constants: any journal length, quota, limit of
attempts, page size, number of deaths and faults; any (finite) number of users,
any number of links, entries, messages and tasks of the shard; any finite number
of devices and operations of the history, on any messages; any number of letters
and servers, up or down, and any number of rows in a batch (the instance has one).

*Cursor.* The invariant is the conjunction of the checked properties: that the
cursor holds at the first hole needs that `ahead` is exactly the done numbers
behind it, and that needs the type.

*Shard.* `ServerInv` adds to the quota that the counter covers the rows: the
quick path looks only at the counter.

*Device.* `SyncInv` joins the parts of the whole chain: what the engine has
opened (`seen`), put aside and passed is handled; the state on disk is an
earlier state of the engine, so what it has passed is handled too; in `ack` the
disk is not behind the cursor unless a write failed; every row below the
acknowledgement was passed on disk. `NoSilentLoss` then follows because the
sweep takes only acknowledged rows. `ShownOncePerLife` counts a record as
applied only once it left the outbox, and a record is in at most one of outbox,
deferred and not yet opened.

*Group.* `Sound` has four parts: one owner (`Owned`), the banned are no members
and only members are muted (`Apart`), rights come from owners (`Ranked`), the
key is with writers unless stale (`Keyed`). None is inductive alone: a change of
address keeps `Keyed` only because the new address is neither banned nor muted,
which is `Apart`; a demotion keeps `Owned` only with the owner known to be one.
`GroupRulesProofs` proves the step for each change as a fact about values,
`GroupMembershipProofs` lifts it to the specification, one step per action. The
properties that count need only what a change does to the sets: `Shape` says
that a step adds at most one member, and only below the limit, or puts one in
the place of another, and announces, revokes or leaves the links. `RevokedStaysRevoked` then follows from
`LinksRemembered`: the group remembers all links that were ever revoked as long
as they are not more than it has room for.

*Group journal.* `JournalInv` says what a task may rely on after an await
(`TaskOK`): the state it loaded is one the journal had; the entry it is about
to insert was accepted by that state; once inserted, the state it puts into the
cache is one the journal had, too. The primary key does the rest: an insertion
that finds its version free was checked against the last state, hence
`ChainUnbroken`, while the cache may go back but never out of the journal. The
same argument keeps the tables: an entry is written over the last state, so it
writes the rows that state leads to, while a link that is forgotten leaves the
index rightly if the task's state is the last one and is counted in `dropped`
if not. `Spending` is about each time a nonce was remembered: the copies a member
has, and the tasks that are still to hand him one, are together not more than
the times the nonce was swept, and one more while it is there. So a sweep in the
middle of a delivery, followed by a second one, is covered.

*History.* `CheckpointAlive` is inductive as it stands: every step of a device
leaves the journal alone, appends a row, or commits a checkpoint whose rows the
shard has just found. `OwnNeverLost` is not: the end of a flush cuts a prefix
off the queue. `OwnInv` therefore says of every worker that each of the first
`job.own` operations of its queue is still in the batch or in the journal
(`JobOK`), so that an empty batch means that the prefix is written, and that the
queue on disk is the one in memory, so that a restart brings it back. An append
whose answer is lost only makes the journal longer, and a failed flush leaves
the own operations where they were.

`IncomingQueued` needs to know why a queue may give an operation up: because it
is in `seen`. `KnownOK` says that what is in `seen`, or fetched and about to be
merged, is in the journal, that the worker holds arrived operations only during
a flush, and that each of those is still in the batch or written.

`NothingCompactedAway` is about the commit, but its reason is in the pull: a
checkpoint replaces what came before it by what the compacting device has
merged. `CompactInv` says of that device, at every step of `pullLocked` and
`buildCheckpointLocked`, that what a new device would be given is in its rows or
was lost by it (`Has`), in its hands or still to come (`CoverOK`, with a part for
the pull, the page and the build), and that the segments it has uploaded cover
its rows up to the number it will commit, but for what it has lost. `lost` only
grows, so a write that undoes another, a record passed unopened and a message
left out by age each move an operation from one side of the union to the other. The other devices can only append meanwhile, as they
build no checkpoints (`RoleOK`), and `CoverOK` is stated of a journal and a device
as values, so their interference is one lemma (`CoverGrows`). `CompactorCovers`
is `CompactInv` read between two operations.

The refinement maps every step to a step of `SharedHistory` or to none. That a
commit maps to a `Share` that takes away lost operations only is `CompactInv` again
(`KeptMoves`); that an append maps to `Share` and a merged row to `Write` needs
`ActedInv`: every operation anywhere, in rows, queues, batches, pages and records,
was recorded on some device. `LostWhy` gives each growth of `lost` its reason: a
write to the same message, a device that cannot open, or an age beyond the
horizon (`LeftOutOld`).

*Outbox.* What the ticker read and what a task holds are copies, and the
invariants say what stays true of a stale one. `Kept`: a row read as old is old,
and a letter whose call was answered is on the other server, so that a deleted
row is a delivered or an old letter (`AcceptedNotLost`). `Tidy`: a task holds
each letter at most once, only for its destination, and nothing when it is not
busy. `Once`: while the row is in the table the other server has the letter only
if the task is about to delete the row; afterwards at most one stale copy of the
row is left, with the tick or with the task, and it can make one repeat. The cap
counts rows, so `TypeInv` knows that a row is in the table once.

**Only model-checked.** Liveness (`CursorCatchesUp`, `EveryLetterLeaves`), which
is beyond this prover; every other property of a passing run is a theorem. The
properties of the runs that find a disagreement are false, so nothing is to be
proved of them. The other way round, the proofs reach beyond the instances: the web
run leaves out needs that are never met and sealed records that open, which would
make its liveness check too large; the theorems of `InboxSyncProofs` hold for both
hosts and every `Opens`, and the desktop run has both.

## 5. Not modelled, and why

* Cryptography, signatures, encodings and size limits: taken as ideal; a
  record that does not verify is a record that fails to open.
* The byte quotas: decided exactly as the quotas on records.
* Of the history: the other columns of a merged state (whose deletion or edit is
  valid, which of two edits wins; every deletion of the model is valid), marks of
  what was read, mutations parked until their message comes, rotation of the state key, joining and migration (a pull from number 0 is
  modelled), a server that was put back, chats cleared on one device, and the web
  client's own engine (`history.ts`).
* Of federation: nonces and signatures of frames, pinned keys, discovery of
  servers, forwarded requests and streams; what `inbox_push` does with a letter
  (it answers OK to a copy it drops for its rate limit or an unknown device). An
  error of `outbox_done` is ignored; the row is then sent again like one whose
  answer was lost.
* Access to an inbox (sealed tokens, the 30 s cache of devices) and the
  relay of ephemeral events: later, with `tokens.rs`.
* Read receipts (READ-1) of `sync.rs`: later.
* Notices of an appended entry, join requests and the catalogue of public
  groups: they do not act back on the journal.
* The other shards of the inventory, for the reasons given in `PROJECT.json`.

## 6. Plan

Done: cursor, inbox shard, device synchronisation, group rules, group journal,
history with its refinement, federation outbox, each with its proofs.

Next, in this order:

1. `SealedDelivery`: tokens spent once, the lifetime of the table of spent
   tokens against the validity of their keys, the stale cache of devices.
2. `StateJournal` and the CRDTs of notes and calendar: convergence of replicas
   under reordered and repeated merges.
3. `FedOutbox` against the inbound nonce window of another server and the inbox.
4. An abstract inbox (a set of records, each delivered, pending or lost with a
   reason) that `InboxSync` refines, and an abstract group journal (one agreed
   sequence) that `GroupJournal` refines, with proofs.
